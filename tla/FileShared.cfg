SPECIFICATION Spec
CONSTANTS
  p1 = p1
  p2 = p2
  here = here
  there = there
  lint = lint
  log = log
  e1 = e1
  e2 = e2
  Missing = Missing
  Malformed = Malformed
  Absent = Absent
  Odd = Odd
  Processes <- Two
  Events <- Phases
  Executables <- Places
  Others <- Tools
  InitialFiles <- Lives
  Edits <- Saves
  MaxCommands = 4
SYMMETRY Symmetric
INVARIANTS
  TypeOK
  SavesKeptUnlessOverlapped
  OneOwnHandler
CHECK_DEADLOCK FALSE
