SPECIFICATION Spec
CONSTANTS
  None = None
  Jitter = 1
  FiveHours = 6
  Week = 20
  LocalWindow = 6
  Thresholds <- SomeThresholds
  SuperStep = 50
  Records <- SomeRecords
  Calibrations = {3}
  InitCalibration = 2
  FutureTolerance = 0
  StaleAfter = 3
  MaxOwed = 2
  LockWait = 0
  FirstInstant = 11
  LastInstant = 12
  MaxBatch = 2
INVARIANTS
  StatusAgrees
  FreshIsNewest
  IncrementalEqualsFull
