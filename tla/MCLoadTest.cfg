SPECIFICATION FairSpec
CONSTANTS
  Conns = {k1, k2, s1, s2}
  Children = {k1, k2}
  MaxMsgs = 3
  Silent = {}
  SndCap = 1
  MaxFd = 1
  FdLimits = {1}
  Nobody = Nobody
  QueueLength = 2
  MaxLines = 1
INVARIANTS TypeOK AnsweredUnlessServerEnds EndedOnlyByPartialClient
PROPERTIES RefinesService LoadTestEnds
CHECK_DEADLOCK FALSE
