SPECIFICATION Spec
CONSTANTS
  p1 = p1
  p2 = p2
  Processes = {p1, p2}
  Outsider = Outsider
  None = None
  Runs <- EveryRun
  Binary <- OldAndNew
  Transcripts = {1, 2}
  MaxRecords = 2
  Source <- TwoSessions
  Due <- Crossings
  Faults = TRUE
INVARIANTS
  TypeOK
  LagExplained
  ReportedOnce
  CrossingTaken
PROPERTIES
  FeedImplemented
  RunsEnd
  DisplayCatchesUp
