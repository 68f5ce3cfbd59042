SPECIFICATION ProgramSpec
CONSTANTS
  Width = 2
  Protos <- MCProtos
  Interfaces <- MCInterfaces
  Acls <- MCAcls
  Nats <- MCNats
  Routings <- MCRoutings
  Packets <- MCPackets
  MaxNatState = 2
  FirstPort = 7
  MaxRules = 2
  Files <- MCFiles
  MaxAcl = 2
  MaxNat = 2
  MaxRoute = 2
  Malformed = Malformed
  MaxLines = 3
  MaxRoutes = 2
INVARIANTS TypeOK TranslationsAreUnambiguous TranslationsArePermitted ForwardedInboundIsReply RulesAsWritten RefusedForCause
PROPERTY RefinesPolicy
CHECK_DEADLOCK FALSE
