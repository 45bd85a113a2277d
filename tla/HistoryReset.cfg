SPECIFICATION HistorySpec
CONSTANTS
  None = None
  Jitter = 1
  FiveHours = 6
  Week = 20
  LocalWindow = 6
  Thresholds <- SomeThresholds
  SuperStep = 50
  Universe <- PairedLater
  Calibrations = {}
  InitCalibration = 2
  FutureTolerance = 0
  LockWait = 0
  FirstInstant = 3
  LastInstant = 5
  MaxBatch = 3
INVARIANT
  ResetForgetsEarlierUsage
