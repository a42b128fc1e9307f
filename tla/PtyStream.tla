----------------------------- MODULE PtyStream ------------------------------
(* The output of one session on its way to a panel: the reader that stores a *)
(* chunk and then hands it to the subscribers under another lock             *)
(* (core/src/session.rs), the relay that turns the channel into webview      *)
(* events (src-tauri/src/commands.rs), and the panel that listens, takes a   *)
(* snapshot and joins the two by sequence number (TerminalPanel.tsx,         *)
(* pty.ts).  A chunk is its sequence number; the ring holds the last Cap.    *)
EXTENDS Integers, Sequences, SequencesExt

CONSTANTS
  MaxChunks,    \* bound: chunks the child writes
  Cap,          \* scrollback cap, in chunks
  PendingCap,   \* PENDING_MAX_CHARS, in chunks
  MaxMounts,    \* bound: mounts of the panel
  MaxSnapshots  \* bound: re-snapshots of one mount while the flood lasts

ASSUME StreamAssumption ==
  /\ MaxChunks \in Nat /\ Cap \in Nat \ {0} /\ PendingCap \in Nat
  /\ MaxMounts \in Nat /\ MaxSnapshots \in Nat

VARIABLES
  session,   \* "none", "live", "dead" (both in the map), "closing", "removed"
  lastSeq,   \* Scrollback::last_seq
  emitting,  \* the chunk that is stored and not yet fanned out, or 0
  rx,        \* the relay's subscription, or Unsubscribed
  relayed,   \* "off" before the subscription, "on", or "ended": on_end has run
  events,    \* terminal-output events on their way to the webview
  view,      \* the mounted panel
  mounts

ptyVars == <<session, lastSeq, emitting, rx, relayed, events, view, mounts>>

Chunk == 1..MaxChunks
Unsubscribed == <<0>>

(* The panel's effect: what is on the screen, and `got`, what its last       *)
(* terminal_snapshot answered: the newest chunk it covers, or Gone.          *)
Gone == -1
NoView ==
  [phase |-> "closed", listening |-> FALSE, pending |-> <<>>, dropped |-> FALSE,
   shown |-> <<>>, applied |-> 0, got |-> 0, snaps |-> 0]
View ==
  [phase : {"closed", "fresh", "asking", "answered", "live"},
   listening : BOOLEAN, pending : Seq(Chunk), dropped : BOOLEAN,
   shown : Seq(Chunk), applied : 0..MaxChunks, got : {Gone} \cup (0..MaxChunks),
   snaps : 0..MaxSnapshots]

PtyTypeOK ==
  /\ session \in {"none", "live", "dead", "closing", "removed"}
  /\ lastSeq \in 0..MaxChunks /\ emitting \in 0..lastSeq
  /\ rx \in {Unsubscribed} \cup Seq(Chunk)
  /\ relayed \in {"off", "on", "ended"}
  /\ events \in Seq(Chunk)
  /\ view \in View /\ mounts \in 0..MaxMounts

PtyInit ==
  /\ session = "none" /\ lastSeq = 0 /\ emitting = 0 /\ rx = Unsubscribed
  /\ relayed = "off" /\ events = <<>> /\ view = NoView /\ mounts = 0

-----------------------------------------------------------------------------
(* The backend.  create_seeded_env starts the reader before the command      *)
(* subscribes, so the first chunks may be in the scrollback alone.           *)

CreateSession ==
  /\ session = "none" /\ session' = "live"
  /\ UNCHANGED <<lastSeq, emitting, rx, relayed, events, view, mounts>>

Subscribe ==
  /\ session \in {"live", "dead"} /\ relayed = "off"
  /\ rx' = <<>> /\ relayed' = "on"
  /\ UNCHANGED <<session, lastSeq, emitting, events, view, mounts>>

(* Shared::emit, first lock: Scrollback::push.                               *)
Push ==
  /\ session \in {"live", "closing"} /\ emitting = 0 /\ lastSeq < MaxChunks
  /\ lastSeq' = lastSeq + 1 /\ emitting' = lastSeq + 1
  /\ UNCHANGED <<session, rx, relayed, events, view, mounts>>

(* Second lock: the subscribers of that moment.                              *)
FanOut ==
  /\ emitting # 0 /\ emitting' = 0
  /\ rx' = IF relayed = "on" THEN Append(rx, emitting) ELSE rx
  /\ UNCHANGED <<session, lastSeq, relayed, events, view, mounts>>

(* The reader's EOF: set_dead and wait; the entry and its senders stay.      *)
ChildExits ==
  /\ session = "live" /\ emitting = 0 /\ session' = "dead"
  /\ UNCHANGED <<lastSeq, emitting, rx, relayed, events, view, mounts>>

(* remove: out of the map first; the reader may still push what it had read  *)
(* before the kill, and its join ends with the drop of the senders.          *)
RemoveSession ==
  /\ session \in {"live", "dead"} /\ relayed = "on"
  /\ session' = IF session = "live" THEN "closing" ELSE "removed"
  /\ UNCHANGED <<lastSeq, emitting, rx, relayed, events, view, mounts>>

ReaderJoined ==
  /\ session = "closing" /\ emitting = 0 /\ session' = "removed"
  /\ UNCHANGED <<lastSeq, emitting, rx, relayed, events, view, mounts>>

Relay ==
  /\ relayed = "on" /\ rx # <<>>
  /\ rx' = Tail(rx) /\ events' = Append(events, Head(rx))
  /\ UNCHANGED <<session, lastSeq, emitting, relayed, view, mounts>>

(* recv fails once no sender is left: on_end runs, once.                     *)
RelayEnds ==
  /\ relayed = "on" /\ rx = <<>> /\ session = "removed"
  /\ relayed' = "ended"
  /\ UNCHANGED <<session, lastSeq, emitting, rx, events, view, mounts>>

-----------------------------------------------------------------------------
(* The panel.                                                                *)

OutOfMap == session \in {"closing", "removed"}

(* What a snapshot covers: the ring's tail.                                  *)
Ring(to) == LET from == IF to > Cap THEN to - Cap + 1 ELSE 1
            IN [i \in 1..to - from + 1 |-> from + i - 1]

(* pushPendingCapped: the new chunk may push out everything, itself too.     *)
Pended(p, n) == LET q == Append(p, n)
                IN IF Len(q) > PendingCap THEN Tail(q) ELSE q

(* applyLive: what is not newer than the screen is skipped.                  *)
Applied(v, n) ==
  IF n <= v.applied THEN v
  ELSE [v EXCEPT !.shown = Append(@, n), !.applied = n]

(* The drain: one after the other, from the oldest.                          *)
Drained(v, p) ==
  LET upTo[n \in 0..Len(p)] == IF n = 0 THEN v ELSE Applied(upTo[n - 1], p[n])
  IN upTo[Len(p)]

(* write and lastApplied = last_seq: the first paint, or a RIS and a repaint.*)
Painted(v, to) == [v EXCEPT !.shown = Ring(to), !.applied = to]

Mount ==
  /\ session \in {"live", "dead"} /\ relayed = "on" /\ view.phase = "closed"
  /\ mounts < MaxMounts /\ mounts' = mounts + 1
  /\ view' = [NoView EXCEPT !.phase = "fresh"]
  /\ UNCHANGED <<session, lastSeq, emitting, rx, relayed, events>>

(* subscribeOutput, and only then the snapshot.                              *)
Listen ==
  /\ view.phase = "fresh" /\ ~view.listening
  /\ view' = [view EXCEPT !.listening = TRUE, !.phase = "asking"]
  /\ UNCHANGED <<session, lastSeq, emitting, rx, relayed, events, mounts>>

(* terminal_snapshot reads buffer and number under the scrollback's lock.    *)
Snapshot ==
  /\ view.phase = "asking"
  /\ view' = [view EXCEPT !.phase = "answered",
                          !.got = IF OutOfMap THEN Gone ELSE lastSeq]
  /\ UNCHANGED <<session, lastSeq, emitting, rx, relayed, events, mounts>>

(* A wrong variant: dropped chunks are not healed.                           *)
SnapshotBackWrongUnhealed ==
  /\ view.phase = "answered"
  /\ LET v == IF view.got = Gone THEN view ELSE Painted(view, view.got)
     IN view' = [Drained(v, v.pending) EXCEPT !.phase = "live", !.pending = <<>>]
  /\ UNCHANGED <<session, lastSeq, emitting, rx, relayed, events, mounts>>

(* A re-attach that finds no session goes on with one of its own.  Else      *)
(* healDroppedGap takes another snapshot while chunks were dropped, and the  *)
(* drain ends it.                                                            *)
SnapshotBack ==
  /\ view.phase = "answered"
  /\ LET v == IF view.got = Gone THEN view ELSE Painted(view, view.got)
         again == view.dropped /\ (view.got # Gone \/ view.snaps = 0)
     IN /\ again => view.snaps < MaxSnapshots
        /\ view' = IF view.got = Gone /\ view.snaps = 0 /\ mounts > 1 THEN NoView
                   ELSE IF again
                   THEN [v EXCEPT !.phase = "asking", !.dropped = FALSE,
                                  !.pending = <<>>, !.snaps = @ + 1]
                   ELSE [Drained(v, v.pending) EXCEPT
                           !.phase = "live", !.pending = <<>>, !.dropped = FALSE]
  /\ UNCHANGED <<session, lastSeq, emitting, rx, relayed, events, mounts>>

(* A wrong variant: an event that comes before the snapshot is not kept.     *)
DeliverWrongEarly ==
  /\ events # <<>> /\ events' = Tail(events)
  /\ view' = IF view.phase = "live" THEN Applied(view, Head(events)) ELSE view
  /\ UNCHANGED <<session, lastSeq, emitting, rx, relayed, mounts>>

(* An event with nobody listening is lost; Tauri replays none.               *)
Deliver ==
  /\ events # <<>> /\ events' = Tail(events)
  /\ view' = IF ~view.listening THEN view
             ELSE IF view.phase = "live" THEN Applied(view, Head(events))
             ELSE [view EXCEPT !.pending = Pended(@, Head(events)),
                               !.dropped = @ \/ Len(view.pending) >= PendingCap]
  /\ UNCHANGED <<session, lastSeq, emitting, rx, relayed, mounts>>

(* The cleanup detaches only; the session lives on.                          *)
Unmount ==
  /\ view.phase # "closed" /\ mounts < MaxMounts /\ view' = NoView
  /\ UNCHANGED <<session, lastSeq, emitting, rx, relayed, events, mounts>>

PtyNext ==
  \/ CreateSession \/ Subscribe \/ Push \/ FanOut \/ ChildExits \/ RemoveSession \/ ReaderJoined
  \/ Relay \/ RelayEnds \/ Mount \/ Listen \/ Snapshot \/ SnapshotBack
  \/ Deliver \/ Unmount

PtyFairness ==
  /\ WF_ptyVars(FanOut) /\ WF_ptyVars(Subscribe \/ Relay \/ RelayEnds)
  /\ WF_ptyVars(Listen \/ Snapshot \/ SnapshotBack) /\ WF_ptyVars(Deliver)

-----------------------------------------------------------------------------
(* The panel's promise, kept by all of the above: no chunk is lost, doubled  *)
(* or reordered, whatever overlaps with what (session.rs emit and snapshot   *)
(* under two locks, pty.ts pushPendingCapped, TerminalPanel healDroppedGap). *)
Screen ==
  INSTANCE TerminalScreen WITH shown <- view.shown, over <- OutOfMap
ShowsARun == Screen!ScreenSpec

(* A mounted panel reaches the newest output again and again, however many   *)
(* chunks its pending queue had to drop (TerminalPanel.tsx healDroppedGap).  *)
CatchesUp ==
  []<>(\/ view.phase = "closed" \/ OutOfMap
       \/ view.phase = "live" /\ view.applied = lastSeq)

PtySpec == PtyInit /\ [][PtyNext]_ptyVars /\ PtyFairness
=============================================================================
