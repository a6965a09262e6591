CONSTANTS
  t1 = t1
  t2 = t2
  f1 = f1
  f2 = f2
  Hash = {h}
  File = {f1}
  Task = {t1, t2}
  Ops = {"add", "keep"}
  Cap = 1
  MaxMarker = 1
  MaxLease = 0
  MaxPlays = 0
  NoRec = NoRec
  NoTor = NoTor
  NoTask = NoTask
  NoFile = NoFile
  NoJob = NoJob
SPECIFICATION Spec
PROPERTIES KeepSticks
CHECK_DEADLOCK FALSE
