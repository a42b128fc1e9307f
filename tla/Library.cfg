SPECIFICATION LibrarySpec
CONSTANTS
  Uuids = {u1, u2}  Windows = {n1, n2}  Sidecars = {"title"}  HiddenCap = 1
  SizeOf <- Sizes  Busy = {u1}  MaxChanges = 3  MaxOpens = 2  MaxTrouble = 1
  Transcripts = {s1}  Procs = {n1, n2}  Epsilon = 2  MaxTick = 3  MaxShift = 1
  MaxRecord = 4  MaxBytes = 7  MaxRecords = 3  Buffer = 2  MaxLen = 7  MaxLines = 3
  Branches = {"main", "side"}  BackupKeep = 1  MaxOthers = 2  MaxJobs = 2
  u1 = u1  u2 = u2  n1 = n1  n2 = n2  s1 = s1
INVARIANTS AdoptsRightly ScanIsBounded
PROPERTIES LibraryIsCurrent HistoryIsKept
SYMMETRY Symmetry
CHECK_DEADLOCK FALSE
