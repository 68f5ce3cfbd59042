SPECIFICATION FairSpec
CONSTANTS
  Conns = {c1, c2, c3}
  MaxMsgs = 2
  Silent = {c3}
  SndCap = 1
  MaxChildren = 2
  RecvTimeout = 2
  Nobody = Nobody
INVARIANTS TypeOK OpenWhileHeld RepliesMatchReceives
PROPERTY QueuedIsReleased
CHECK_DEADLOCK FALSE
