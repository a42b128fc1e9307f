SPECIFICATION Spec
CONSTANTS
  k1 = k1
  k2 = k2
  Keys = {k1, k2}
  MaxEpoch = 2
  Kinds = {"spawned", "delta", "exited"}
  MaxSeq = 3
  RingCap = 2
  MaxWire = 3
  MaxTrouble = 2
  Unreadable = {"gap", "snapshot", "event", "heartbeat"}
  Oversized = {"snapshot", "event"}
  Foreign = {2}
  DeterministicAfter = 2
  BackoffMax = 1
SYMMETRY KeySymmetry
INVARIANTS ViewIsExact
CHECK_DEADLOCK FALSE
