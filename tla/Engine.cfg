SPECIFICATION Spec
CONSTANTS
  None = None
  Jitter = 1
  FiveHours = 6
  Week = 20
  LocalWindow = 5
  Thresholds <- SomeThresholds
  SuperStep = 50
  Calibration = 4
  Callers <- TwoCallers
INVARIANTS
  TypeOK
  AgreesWithReplay
  MeteredOnce
  MilestonesIncrease
CHECK_DEADLOCK FALSE
