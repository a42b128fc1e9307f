SPECIFICATION Spec
CONSTANTS
  w1 = w1
  w2 = w2
  Windows <- TwoWindows
  MaxEdits = 2
  MaxRuns = 3
  MaxFailures = 1
  MaxChained = 1
  InOrder = FALSE
INVARIANTS TypeOK SerialSaves StashIsLatest
PROPERTIES CleanMeansSaved
SYMMETRY Symmetry
CHECK_DEADLOCK FALSE
