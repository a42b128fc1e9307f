SPECIFICATION FairSpec
CONSTANTS
  k1 = k1
  k2 = k2
  Keys = {k1}
  MaxEpoch = 2
  Kinds = {"spawned", "note"}
  MaxSeq = 2
  RingCap = 1
  MaxWire = 3
  MaxTrouble = 3
  Unreadable = {"gap", "snapshot", "event", "heartbeat"}
  Oversized = {"snapshot", "event"}
  Foreign = {}
  DeterministicAfter = 2
  BackoffMax = 2
PROPERTIES ViewCatchesUp
CHECK_DEADLOCK FALSE
