CONSTANTS
  t1 = t1
  t2 = t2
  h1 = h1
  h2 = h2
  Hash = {h1, h2}
  File = {f}
  Task = {t1, t2}
  Ops = {"queueAdd", "admit", "retry", "select", "replay", "delete", "foreign"}
  Cap = 1
  MaxMarker = 2
  MaxLease = 0
  MaxPlays = 0
  NoRec = NoRec
  NoTor = NoTor
  NoTask = NoTask
  NoFile = NoFile
  NoJob = NoJob
SYMMETRY Symmetry
SPECIFICATION Spec
INVARIANT AdmissionsWithinCap
CHECK_DEADLOCK FALSE
