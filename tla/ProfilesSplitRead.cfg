SPECIFICATION Spec
CONSTANTS
  Processes = {p1, p2}
  Sessions <- OneHeaded
  Values = {20}
  Baseline = 15
  Shapes <- Known
  MaxRecords <- Two
  MaxProfiles = 2
  MaxRuns = 3
SYMMETRY Interchangeable
INVARIANTS
  ApprovalReachesSession
CHECK_DEADLOCK FALSE
