SPECIFICATION Spec
CONSTANTS
  None = None
  Jitter = 1
  FiveHours = 6
  Week = 20
  LocalWindow = 6
  Thresholds <- SomeThresholds
  SuperStep = 50
  Universe <- TwoWeeks
  Calibrations = {4}
  InitCalibration = 2
  FutureTolerance = 1
  LockWait = 1
  FirstInstant = 4
  LastInstant = 7
  MaxBatch = 1
INVARIANTS
  TypeOK
  OneCurrentWindow
  MeteredWithinWeeklyUse
  ResetsHold
  WindowsNotInverted
PROPERTIES
  CalibrationAppliesForward
