SPECIFICATION Spec
CONSTANTS
  w1 = w1
  w2 = w2
  Windows <- TwoWindows
  MaxEdits = 2
  MaxRuns = 2
  MaxFailures = 0
  MaxChained = 1
  InOrder = TRUE
PROPERTIES OverwriteIsChosen
CHECK_DEADLOCK FALSE
