CONSTANTS
  h1 = h1
  Hash = {h1}
  Recurring <- MCRecurring
  Interval <- MCInterval
  Longest <- MCLongest
  LEASE = 1
  MIN_RETRY = 1
  MAX_RETRY = 2
  MAX_CONCURRENT = 2
  Patience = 6
  MaxAttempts = 1
  MaxRestarts = 1
  NoRow = NoRow
  Kind <- MCKind
  Proc = {p1, p2}
  Locked = p1
  Issued = m1
  Adopted = m2
  File = {f1}
  MaxTroubles = 1
  MaxRetries = 2
SPECIFICATION MCSpec
INVARIANTS Punctual FailuresAreRetried OnlyDisturbedCallsFail  MarkedFromTheStart
CHECK_DEADLOCK FALSE
