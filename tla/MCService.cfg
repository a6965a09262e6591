CONSTANTS
  h1 = h1
  u = u
  c1 = c1
  c2 = c2
  tick = tick
  None = None
  Hash = {h1, u}
  Url = {u}
  Client = {c1, c2}
  Tick = tick
  Cap = 1
  Ops <- MCOps
  MaxMarker = 4
  MaxFaults = 1
SPECIFICATION FairSpec
INVARIANTS ProbesGoAway TitlesOwnTheirTorrents
 
CHECK_DEADLOCK FALSE
