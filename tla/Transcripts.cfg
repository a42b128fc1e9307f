SPECIFICATION TranscriptsSpec
CONSTANTS
  MaxVersion = 2  MaxMemo = 1  MaxNames = 2  MaxMishaps = 2
  Tabs = {n1, n2}  DirOf <- OneDir  Skew = 1  Window = 0  Rescan = 1  Delay = 0
  MaxTime = 1  MaxFiles = 2  MaxWritten = 1
  CallIds = {i1, i2}  MaxLog = 3
  Calls = {n1, n2}  MaxRollout = 3
  n1 = n1  n2 = n2  i1 = i1  i2 = i2
INVARIANTS TypeOK TabsShowTheirOwn RolloutIsMapped
PROPERTIES TimelineIsTheLog ArchiveIsKept
SYMMETRY Symmetry
CHECK_DEADLOCK FALSE
