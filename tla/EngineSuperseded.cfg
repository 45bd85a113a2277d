SPECIFICATION Spec
CONSTANTS
  None = None
  Jitter = 1
  FiveHours = 6
  Week = 20
  LocalWindow = 5
  Thresholds <- SomeThresholds
  SuperStep = 50
  Calibration = 4
  Callers <- LateReporter
INVARIANTS
  OldEpochIgnored
CHECK_DEADLOCK FALSE
