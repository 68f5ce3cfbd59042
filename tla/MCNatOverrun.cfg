SPECIFICATION ProgramSpec
CONSTANTS
  Width = 2
  Protos <- MCProtos
  Interfaces <- MCInterfaces
  Acls <- MCAcls
  Nats <- MCNats
  Routings <- MCRoutings
  Packets <- MCPackets
  MaxNatState = 2
  FirstPort = 7
  MaxRules = 1
  Files <- MCFiles
  MaxAcl = 2
  MaxNat = 2
  MaxRoute = 2
  Malformed = Malformed
  MaxLines = 0
  MaxRoutes = 1
INVARIANT NoTableOverrun
CHECK_DEADLOCK FALSE
