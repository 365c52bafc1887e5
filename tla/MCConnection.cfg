SPECIFICATION ConnectionFairSpec
CONSTANTS
  MaxFd = 4
  MaxClients = 4
  MaxCommands = 4
INVARIANTS
  ConnectionTypeOK
  ClientFdIsAConnection
PROPERTY DeafServerEnds
CHECK_DEADLOCK FALSE
