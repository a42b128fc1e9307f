SPECIFICATION Spec
CONSTANTS
  k1 = k1
  k2 = k2
  Keys = {k1}
  MaxEpoch = 2
  Kinds = {"spawned", "delta", "hook", "exited"}
  MaxSeq = 3
  RingCap = 2
  MaxWire = 3
  MaxTrouble = 3
  Unreadable = {"gap", "snapshot", "event", "heartbeat"}
  Oversized = {"snapshot", "event"}
  Foreign = {}
  DeterministicAfter = 2
  BackoffMax = 1
INVARIANTS TypeOK ViewIsExact ViewersFollowHost EndIsFinal ContinuedMeansComplete
PROPERTIES CursorNeverRewinds RefusalStays
CHECK_DEADLOCK FALSE
