SPECIFICATION FairSpec
CONSTANTS
  Conns = {c1, c2, c3}
  MaxMsgs = 2
  Silent = {c2, c3}
  SndCap = 1
  MaxFd = 3
  FdLimits = {1, 3}
  Nobody = Nobody
  MaxClients = 2
  SetSizes = {3, 4}
INVARIANTS TypeOK TableMatchesKernel RecvNeverBlocks
PROPERTIES RefinesService ReleasedOrStarved
CHECK_DEADLOCK FALSE
