SPECIFICATION Spec
CONSTANTS
  Topics <- AllTopics
  Data <- Payloads
  HighWater = 100
  Tracking = {"OK"}
  CameraMayFail = FALSE
  MaxSamples = 1
  Files = {f1}
  Unopenable = {}
  NoFile = NoFile
  Deployment = TRUE
  Commands <- CreateProbeStop
  ClientKind = "hasty"
  SocketMayFail = FALSE
  SpareFds = 3
  MaxCommands = 2
  MaxClients = 2
INVARIANT ResetOnce
CHECK_DEADLOCK FALSE
