SPECIFICATION Spec
CONSTANTS
  None = None
  Jitter = 1
  FiveHours = 5
  Week = 168
  p1 = p1
  p2 = p2
  own = own
  other = other
  Identities <- Own
  DefaultIdentity = own
  Ignored = 25
  Low = 50
  Useful = 80
  MinimumSamples = 1
  DriftPercent = 10
  Current = 15
  ReportStep = 1
  ReportDays = 1
  Processes <- Two
  Commands <- TwoHooks
  Universe <- Jittery
  Known <- Openings
  MaxAnalyses = 3
  MaxDay = 1
SYMMETRY Interchangeable
INVARIANTS
  TypeOK
  CandidateConfirmed
  ConfirmationEarned
  FileOnRecord
CHECK_DEADLOCK FALSE
