CONSTANTS
  t1 = t1
  t2 = t2
  f1 = f1
  f2 = f2
  Hash = {h}
  File = {f1, f2}
  Task = {t1, t2}
  Ops = {"add", "play", "stream", "delete", "expire", "evict", "sweep", "keep", "foreign"}
  Cap = 1
  MaxMarker = 2
  MaxLease = 1
  MaxPlays = 1
  NoRec = NoRec
  NoTor = NoTor
  NoTask = NoTask
  NoFile = NoFile
  NoJob = NoJob
SYMMETRY Symmetry
SPECIFICATION Spec
INVARIANTS StreamingProtected OwnedTorrentTracked OnlyOwnRemoved ReadyMeansReady
PROPERTIES DeletingIsFinal SelectionGrows SelectedStaysWanted SweepSeesPresentRecord
CHECK_DEADLOCK FALSE
