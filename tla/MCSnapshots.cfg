CONSTANTS
  Viewer = {"a", "b"}
  TTL = 1
  MaxNow = 3
  MaxLists = 3
SPECIFICATION Spec
INVARIANT MutationsAreListed
CHECK_DEADLOCK FALSE
