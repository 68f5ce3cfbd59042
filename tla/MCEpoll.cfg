SPECIFICATION PoliteSpec
CONSTANTS
  Conns = {c1, c2, c3}
  MaxMsgs = 2
  Silent = {c2, c3}
  SndCap = 1
  MaxFd = 3
  FdLimits = {1, 3}
  Nobody = Nobody
  MaxClients = 2
  IdleTimeout = 1
  MaxEvents = 2
  WatchLimits = {1, 3}
INVARIANTS TypeOK TableMatchesKernel
PROPERTIES RefinesService QueuedIsReleased
CHECK_DEADLOCK FALSE
