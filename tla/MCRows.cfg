SPECIFICATION Spec
CONSTANTS
  Topics <- AllTopics
  Data <- Payloads
  HighWater = 100
  Tracking = {"OK"}
  CameraMayFail = TRUE
  MaxSamples = 1
  Files = {f1}
  Unopenable = {}
  NoFile = NoFile
  Deployment = FALSE
  Commands <- AnyCommand
  ClientKind = "free"
  SocketMayFail = FALSE
  SpareFds = 3
  MaxCommands = 4
  MaxClients = 2
INVARIANTS
  CommandStandsAlone
  RowsInOrder
CHECK_DEADLOCK FALSE
