--------------------------- MODULE RemoteProtocol ---------------------------
(* What travels on `cwcd stream`: cursors, the events of a daemon's log and  *)
(* the frames that carry them (core/src/remote/proto.rs).  Payload text is   *)
(* abstracted to the sequence number of the event that carried it.           *)
EXTENDS Naturals

CONSTANTS
  Keys,       \* SessionKey: the names a daemon gives its sessions
  MaxEpoch    \* bound: daemon incarnations, numbered 1..MaxEpoch

ASSUME MaxEpochAssumption == MaxEpoch \in Nat \ {0}

Epochs == 1..MaxEpoch

(* A position in the stream.  Epoch 0 stands for "no cursor" (None).         *)
Cursor == [epoch : 0..MaxEpoch, seq : Nat]
NoCursor == [epoch |-> 0, seq |-> 0]
At(e, n) == [epoch |-> e, seq |-> n]

(* SessionAdopted reads like SessionSpawned; "hook" stands for the events    *)
(* that need a known session and leave its body alone (Hook,                 *)
(* TranscriptLocated); "note" for those that name no session (Notice,        *)
(* Unknown).                                                                 *)
EventKinds == {"spawned", "delta", "hook", "exited", "note"}
Event == [kind : EventKinds, key : Keys]

Resumes == {"fresh", "continued", "gap"}
FrameKinds == {"hello", "gap", "snapshot", "event", "heartbeat"}

(* One row of a snapshot: `omitted` is the daemon's items_omitted, `body`    *)
(* the deltas it has folded so far.                                          *)
Row == [exited : BOOLEAN, omitted : BOOLEAN, body : SUBSET Nat]

HelloFrame == [t : {"hello"}, epoch : Epochs, seq : Nat, resume : Resumes]
GapFrame == [t : {"gap"}, epoch : Epochs, seq : Nat]
SnapshotFrame ==
  [t : {"snapshot"}, epoch : Epochs, seq : Nat, listed : SUBSET Keys,
   rows : [Keys -> Row]]
EventFrame == [t : {"event"}, epoch : Epochs, seq : Nat, event : Event]
HeartbeatFrame == [t : {"heartbeat"}, epoch : Epochs, seq : Nat]

Frame == HelloFrame \cup GapFrame \cup SnapshotFrame \cup EventFrame
           \cup HeartbeatFrame
=============================================================================
