SPECIFICATION FairSpec
CONSTANTS
  w1 = w1
  w2 = w2
  Windows <- TwoWindows
  MaxEdits = 2
  MaxRuns = 2
  MaxFailures = 1
  MaxChained = 1
  InOrder = FALSE
PROPERTIES LeaveSettles
CHECK_DEADLOCK FALSE
