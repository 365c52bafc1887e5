SPECIFICATION ZedStateSpec
CONSTANTS
  Topics <- PositionTopic
  Data <- Measurements
  HighWater = 100
  MaxMeasured = 3
INVARIANTS
  ZedTypeOK
  RowSkew
  LastOrZero
