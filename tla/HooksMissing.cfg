SPECIFICATION Spec
CONSTANTS
  p1 = p1
  p2 = p2
  Processes = {p1, p2}
  Outsider = Outsider
  None = None
  Runs <- HooksOnly
  Binary <- SameBuild
  Transcripts = {1, 2}
  MaxRecords = 2
  Source <- TwoSessions
  Due <- Crossings
  Faults = FALSE
INVARIANTS
  MissingIsPassedOver
CHECK_DEADLOCK FALSE
