SPECIFICATION FairSpec
CONSTANTS
  Topics <- AllTopics
  Data <- Payloads
  HighWater = 100
  Tracking = {"OK", "Other"}
  CameraMayFail = FALSE
  MaxSamples = 1
  Files = {f1}
  Unopenable = {}
  NoFile = NoFile
  Deployment = TRUE
  Commands <- CreateProbeStop
  ClientKind = "free"
  SocketMayFail = TRUE
  SpareFds = 3
  MaxCommands = 2
  MaxClients = 2
PROPERTY
  CommandsComplete
CHECK_DEADLOCK FALSE
