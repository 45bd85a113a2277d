SPECIFICATION Spec
CONSTANTS
  None = None
  Jitter = 1
  FiveHours = 6
  Week = 20
  LocalWindow = 6
  Thresholds <- SomeThresholds
  SuperStep = 50
  Records <- ServerOnce
  Calibrations = {}
  InitCalibration = 2
  FutureTolerance = 0
  StaleAfter = 2
  MaxOwed = 1
  LockWait = 0
  FirstInstant = 10
  LastInstant = 12
  MaxBatch = 2
INVARIANT
  ServerValueRecent
