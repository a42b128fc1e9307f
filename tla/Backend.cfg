SPECIFICATION BackendSpec
CONSTANTS
  MaxChunks = 5  Cap = 2  PendingCap = 1  MaxMounts = 2  MaxSnapshots = 3
  Panels = {p1, p2}  MaxIds = 2  MaxOut = 1  MaxRuns = 2
  Hosts = {h1}  MaxTerms = 2  MaxGens = 2  MaxEpochs = 2  MaxLives = 3  EndedCap = 1
  Modes = {"shell", "eof", "stream"}  MaxIn = 4  ChunkBytes = 2  InputQueue = 2
  SendWindow = 1  RecvQueue = 1  EventQueue = 1  MaxWrites = 2
  Agents = {a1, a2}  DoneStreak = 1  Rewritten = {a2}  SaveTicks = 1
  MaxMain = 2  MaxRecs = 1  MaxGen = 2  MaxFaults = 1
  p1 = p1  p2 = p2  h1 = h1  a1 = a1  a2 = a2
INVARIANTS TypeOK TerminalsAreTrue ExecIsHonest FramesAreTrue
PROPERTIES ShowsARun CatchesUp FilesFollowPanels EndIsTold ExecGoesOn TimelineKeepsUp
CHECK_DEADLOCK FALSE
