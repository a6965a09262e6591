CONSTANTS
  Guid = {1, 2, 3}
  Linkless = {3}
  Poller = {"job", "dashboard"}
  ItemLimit = 3
  HistoryLimit = 2
SPECIFICATION Spec
INVARIANT IgnoredStaysIgnored
CHECK_DEADLOCK FALSE
