SPECIFICATION Spec
CONSTANTS
  Processes = {p1, p2}
  Sessions <- NewIsVersioned
  Values = {20}
  Baseline = 15
  Shapes <- Known
  MaxRecords <- One
  MaxProfiles = 2
  MaxRuns = 3
SYMMETRY Interchangeable
INVARIANTS
  NewModelInherits
CHECK_DEADLOCK FALSE
