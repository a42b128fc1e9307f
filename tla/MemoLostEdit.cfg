SPECIFICATION Spec
CONSTANTS
  w1 = w1
  w2 = w2
  Windows <- OneWindow
  MaxEdits = 1
  MaxRuns = 2
  MaxFailures = 1
  MaxChained = 1
  InOrder = TRUE
INVARIANT UnsavedIsKept
CHECK_DEADLOCK FALSE
