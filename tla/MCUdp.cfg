SPECIFICATION FairSpec
CONSTANTS
  Typists = {ann}
  CLIENTS = 2
  MaxMsgs = 2
INVARIANTS TypeOK OwnAnswerUntilTimeout AnswersAreNotReused
PROPERTY LoadTestEnds
CHECK_DEADLOCK FALSE
