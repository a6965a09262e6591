SPECIFICATION StateSpec
CONSTANTS
  p = p
  q = q
  r = r
  p1 = p1
  p2 = p2
  q1 = q1
  Call <- MCCall
  Nested <- MCNested
  Parent <- MCParent
  Hash = {h1, h2}
  Registration = registration
  Limit = 2
  None = None
  s0 = s0
  Field = {k1, k2}
  Setting = {s0, s1}
  Doc <- MCDoc
  Seed <- MCSeed
  Update <- MCUpdate
  Absent = Absent
  Torn = Torn
  MaxRequests = 3
  Proc = {d1, d2, d3}
  MaxStarts = 5
  Overlap = FALSE
  Reuse = FALSE
  NoFile = NoFile
  NFiles = 4
  NImported = 3
  Rewritten = {2, 3}
  Contents = {v0, v1}
  Fresh = v0
  NoDocument = NoDocument
  Back = FALSE
  Post = {c1, c2, c3}
  PostKey = {k1, k2}
  MAX_ENTRIES = 1
  Faults = {"crash", "compute", "put", "expire"}
  MaxComputed = 3
  NoPost = NoPost
INVARIANTS OutstandingCounted   Continuity ComputedOnce
PROPERTIES ImplementsFifo EveryCallRuns Durable EveryUpdateAnswered FlightsEnd
CHECK_DEADLOCK FALSE
