SPECIFICATION Spec
CONSTANTS
  r1 = r1
  r2 = r2
  Readers = {r1}
  None = None
  Scenarios <- Torn
  MaxFiles = 2
  Tolerance = 2
  MaxLines = 2
  MaxAborts = 0
INVARIANTS
  BehindCursorStored
