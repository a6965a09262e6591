SPECIFICATION Spec
CONSTANTS
  r1 = r1
  Blank = Blank
  NoRange = NoRange
  Refused = Refused
  Reader = {r1}
  Header <- MCHeader
  FileSize = 2
  PieceSize = 2
  Chunk = 2
  Wait = 1
  streamWhileDownloading = TRUE
  TempDir = TRUE
INVARIANTS CompletedFilesPlay
CHECK_DEADLOCK FALSE
