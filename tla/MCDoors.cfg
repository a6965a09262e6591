CONSTANTS
  reader = reader
  writer = writer
  Nobody = Nobody
  Token = {reader, writer}
  Scopes <- MCScopes
  Quota = 1
  Streams = 1
  Searches = 1
  Request = {r1, r2}
  Title = {1}
  MaxFailures = 1
  MaxKeys = 2
  Visitor = {"v1", "v2"}
  Trusted = {"p1"}
  Guess = {"g1", "g2", "g3"}
  NoOne = "noone"
  MaxAttempts = 2
  MaxVerifying = 2
  MaxAddresses = 2
  MaxWindows = 3
  Id = {1, 2, 3}
  Word = {0, 1, 2, 3, 11, 12}
  ShortId <- MCShortId
  Name <- MCName
  Path <- MCPath
  PageSize = {1, 2}
  MaxClock = 2
  Sources = 2
  Queries = 2
  Prefers <- MCPrefers
  Release <- MCRelease
  Copy = {1, 4}
  Limit = 2
  SeedFloor = 3
  MaxFound = 1
  Viewer = {a, b}
  TTL = 1
  MaxNow = 3
  MaxLists = 3
  ZipFile = {1, 2}
  MaxSize = 2
  LocalLength = 3
  DescriptorLength = 2
  CentralLength = 2
SPECIFICATION Spec
SYMMETRY Symmetry
INVARIANTS
  EffectsAllowed
  PlacesExact
  
  WalkExact
  MountComplete
  SearchComplete
  AnsweredIsListed
  ZipIntact
CHECK_DEADLOCK FALSE
