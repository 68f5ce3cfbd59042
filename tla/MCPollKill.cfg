SPECIFICATION Spec
CONSTANTS
  Conns = {c1, c2}
  MaxMsgs = 2
  Silent = {}
  SndCap = 1
  MaxFd = 1
  FdLimits = {1}
  Nobody = Nobody
  MaxClients = 1
  IdleTimeout = 1
INVARIANT SurvivesFailedSend
CHECK_DEADLOCK FALSE
