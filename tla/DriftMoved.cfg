SPECIFICATION Spec
CONSTANTS
  None = None
  Jitter = 1
  FiveHours = 5
  Week = 168
  p1 = p1
  p2 = p2
  own = own
  other = other
  Identities <- Own
  DefaultIdentity = own
  Ignored = 25
  Low = 50
  Useful = 80
  MinimumSamples = 2
  DriftPercent = 10
  Current = 15
  ReportStep = 1
  ReportDays = 2
  Processes <- One
  Commands <- User
  Universe <- Growing
  Known <- Nothing
  MaxAnalyses = 3
  MaxDay = 0
INVARIANT RecommendedWasConfirmed
CHECK_DEADLOCK FALSE
