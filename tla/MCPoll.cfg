SPECIFICATION FairSpec
CONSTANTS
  Conns = {c1, c2, c3}
  MaxMsgs = 2
  Silent = {c2, c3}
  SndCap = 1
  MaxFd = 3
  FdLimits = {1, 3}
  Nobody = Nobody
  MaxClients = 2
  IdleTimeout = 2
INVARIANTS TypeOK TableMatchesKernel RecvNeverBlocks
PROPERTIES RefinesService QueuedIsReleased
CHECK_DEADLOCK FALSE
