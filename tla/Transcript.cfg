SPECIFICATION Spec
CONSTANTS
  r1 = r1
  r2 = r2
  Readers = {r1, r2}
  None = None
  Scenarios <- Shared
  MaxFiles = 2
  Tolerance = 3
  MaxLines = 3
  MaxAborts = 1
INVARIANTS
  TypeOK
  BehindCursorStored
PROPERTIES
  BatchStored
  ImportComplete
  EverythingStored
