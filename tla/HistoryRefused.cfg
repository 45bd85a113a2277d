SPECIFICATION HistorySpec
CONSTANTS
  None = None
  Jitter = 1
  FiveHours = 6
  Week = 20
  LocalWindow = 6
  Thresholds <- SomeThresholds
  SuperStep = 50
  Universe <- DeadlineGoesMissing
  Calibrations = {}
  InitCalibration = 2
  FutureTolerance = 0
  LockWait = 0
  FirstInstant = 2
  LastInstant = 4
  MaxBatch = 3
INVARIANT
  RebuildNeverRefused
