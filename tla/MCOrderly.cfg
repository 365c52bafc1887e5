SPECIFICATION Spec
CONSTANTS
  Topics <- AllTopics
  Data <- Payloads
  HighWater = 100
  Tracking = {"OK"}
  CameraMayFail = FALSE
  MaxSamples = 1
  Files = {f1, f2}
  Unopenable = {}
  NoFile = NoFile
  Deployment = TRUE
  Commands <- AnyCommand
  ClientKind = "orderly"
  SocketMayFail = FALSE
  SpareFds = 3
  MaxCommands = 4
  MaxClients = 3
INVARIANTS
  Survives
  SessionAgrees
  RowsComplete
  ReplyToAsker
SYMMETRY FileSymmetry
PROPERTY ImplementsSession
CHECK_DEADLOCK FALSE
