SPECIFICATION Spec
CONSTANTS
  Processes = {p1, p2}
  Sessions <- TwoModels
  Values = {20}
  Baseline = 15
  Shapes <- BMayVary
  MaxRecords <- OnlyB
  MaxProfiles = 2
  MaxRuns = 3
SYMMETRY Interchangeable
INVARIANTS
  TypeOK
  ReviewedOnce
PROPERTIES
  ApprovalsStay
CHECK_DEADLOCK FALSE
