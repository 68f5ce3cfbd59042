SPECIFICATION FairSpec
CONSTANTS
  Conns = {c1, c2}
  MaxMsgs = 2
  Silent = {}
  SndCap = 1
  MaxFd = 2
  FdLimits = {2}
  Nobody = Nobody
  MaxClients = 2
  IdleTimeout = 1
  MaxEvents = 3
  WatchLimits = {2}
PROPERTY IdleCheckRecurs
CHECK_DEADLOCK FALSE
