SPECIFICATION Spec
CONSTANTS
  Topics <- AllTopics
  Data <- Payloads
  HighWater = 100
  Tracking = {"OK"}
  CameraMayFail = TRUE
  MaxSamples = 2
  Files = {f1}
  Unopenable = {}
  NoFile = NoFile
  Deployment = TRUE
  Commands <- AnyCommand
  ClientKind = "free"
  SocketMayFail = FALSE
  SpareFds = 3
  MaxCommands = 2
  MaxClients = 2
INVARIANTS
  TypeOK
  PtIsLive
  QuiescentStatus
CHECK_DEADLOCK FALSE
