----------------------------- MODULE RemoteLink -----------------------------
(* The observation window of one remote host: the link thread of             *)
(* core/src/remote/link.rs driving a RemoteHost record, the SSH connection   *)
(* it reads, and the daemon at the other end.  The daemon (`cwcd`) lives in  *)
(* its own repository; its actions say only what proto.rs and link.rs rely   *)
(* on.                                                                       *)
EXTENDS RemoteHost, Sequences

CONSTANTS
  Kinds,               \* the kinds of event the daemon's sessions produce
  MaxSeq,              \* bound: events in one incarnation's log
  RingCap,             \* events the daemon retains for a resume
  MaxWire,             \* bound: frames in flight
  MaxTrouble,          \* bound: faults of the environment and user commands
  Unreadable,          \* kinds of frame the decoder may fail on
  Oversized,           \* kinds of frame that may exceed MAX_LINE
  Foreign,             \* incarnations that speak another protocol version
  DeterministicAfter,  \* 3 in the code
  BackoffMax           \* BACKOFF_MAX, in units of BACKOFF_MIN

ASSUME KindsAssumption == Kinds \subseteq EventKinds
ASSUME BoundsAssumption ==
  /\ MaxSeq \in Nat /\ RingCap \in Nat \ {0} /\ MaxTrouble \in Nat
  /\ MaxWire \in Nat /\ MaxWire >= 3
ASSUME FramesAssumption ==
  Unreadable \subseteq FrameKinds /\ Oversized \subseteq FrameKinds
ASSUME ForeignAssumption == Foreign \subseteq Epochs
ASSUME LinkAssumption ==
  DeterministicAfter \in Nat \ {0} /\ BackoffMax \in Nat \ {0}

VARIABLES
  depoch,   \* the daemon's incarnation
  log,      \* the events of every incarnation so far
  pruned,   \* finished sessions the running daemon has discarded
  conn,     \* the SSH exec: its state, and the position it has been served to
  wire,     \* frames written by the daemon and not yet consumed
  host,     \* Link.state
  pc,       \* where the link thread is
  backoff,
  cancel,
  panels,   \* what the viewers of the session ids have been told
  trouble   \* faults and user commands so far

daemonVars == <<depoch, log, pruned>>
linkVars == <<host, pc, backoff, cancel, panels>>
vars == <<depoch, log, pruned, conn, wire, host, pc, backoff, cancel, panels,
          trouble>>

PCs == {"top", "reading", "sleeping", "stopped"}

(* The exec as the session manager and the side channels report it, whose    *)
(* readers never hold it up.  "silent" is a peer that vanished: nothing      *)
(* arrives and nothing says so.                                              *)
ConnStates == {"none", "dialing", "open", "closed", "silent"}
NoConn == [state |-> "none", at |-> NoCursor]

Panel == [shown : BOOLEAN, body : SUBSET Nat, ended : BOOLEAN]
NoPanel == [shown |-> FALSE, body |-> {}, ended |-> FALSE]

TypeOK ==
  /\ depoch \in Epochs
  /\ log \in [Epochs -> Seq(Event)]
  /\ pruned \subseteq Keys
  /\ conn \in [state : ConnStates, at : Cursor]
  /\ wire \in Seq(Frame)
  /\ host \in Host
  /\ pc \in PCs
  /\ backoff \in Nat
  /\ cancel \in BOOLEAN
  /\ panels \in [Keys -> Panel]
  /\ trouble \in Nat

Init ==
  /\ depoch = 1 /\ log = [e \in Epochs |-> <<>>] /\ pruned = {}
  /\ conn = NoConn /\ wire = <<>>
  /\ host = NewHost /\ pc = "top" /\ backoff = 1 /\ cancel = FALSE
  /\ panels = [k \in Keys |-> NoPanel]
  /\ trouble = 0

-----------------------------------------------------------------------------
(* The truth: what the first n events of incarnation e say of session k.     *)
Happened(e, n, kind, k) ==
  \E i \in 1..n : log[e][i] = [kind |-> kind, key |-> k]
Spawned(e, n, k) == Happened(e, n, "spawned", k)
Exited(e, n, k) == Happened(e, n, "exited", k)
Deltas(e, n, k) == {i \in 1..n : log[e][i] = [kind |-> "delta", key |-> k]}

Head_ == Len(log[depoch])
Oldest == IF Head_ > RingCap THEN Head_ - RingCap ELSE 0

Trouble == trouble < MaxTrouble /\ trouble' = trouble + 1

-----------------------------------------------------------------------------
(* The daemon (external).                                                    *)

(* A session does something, and the log says so.                            *)
Emit(kind, k) ==
  /\ Head_ < MaxSeq
  /\ CASE kind = "spawned" -> ~Spawned(depoch, Head_, k)
       [] kind = "note" -> TRUE
       [] OTHER -> Spawned(depoch, Head_, k) /\ ~Exited(depoch, Head_, k)
  /\ log' = [log EXCEPT ![depoch] = Append(@, [kind |-> kind, key |-> k])]
  /\ UNCHANGED <<depoch, pruned, conn, wire, linkVars, trouble>>

(* The record of a finished session is discarded; no event says so.          *)
Prune(k) ==
  /\ Exited(depoch, Head_, k) /\ k \notin pruned
  /\ pruned' = pruned \cup {k}
  /\ UNCHANGED <<depoch, log, conn, wire, linkVars, trouble>>

(* A connection loses its far end: what was in flight may be lost from some  *)
(* point on.                                                                 *)
Lose(state) ==
  /\ conn' = [conn EXCEPT !.state = state]
  /\ \E n \in 0..Len(wire) : wire' = SubSeq(wire, 1, n)

Restart ==
  /\ depoch < MaxEpoch
  /\ depoch' = depoch + 1 /\ pruned' = {}
  /\ IF conn.state \in {"dialing", "open"} THEN Lose("closed")
                                           ELSE UNCHANGED <<conn, wire>>
  /\ UNCHANGED <<log, linkVars, trouble>>

SnapshotOf(omitted) ==
  [t |-> "snapshot", epoch |-> depoch, seq |-> Head_,
   listed |-> {k \in Keys : Spawned(depoch, Head_, k)} \ pruned,
   rows |-> [k \in Keys |->
     [exited |-> Exited(depoch, Head_, k), omitted |-> k \in omitted,
      body |-> IF k \in omitted THEN {} ELSE Deltas(depoch, Head_, k)]]]

(* A snapshot leaves out the bodies of some finished sessions.               *)
Omissions == SUBSET {k \in Keys \ pruned : Exited(depoch, Head_, k)}

Hello(resume, n) ==
  [t |-> "hello", epoch |-> depoch, seq |-> n, resume |-> resume]
Gap(n) == [t |-> "gap", epoch |-> depoch, seq |-> n]

Honoured(c) == c.epoch = depoch /\ Oldest <= c.seq /\ c.seq <= Head_

(* `cwcd stream [--cursor c]` starts.                                        *)
OpenStream ==
  /\ conn.state = "dialing"
  /\ IF Honoured(conn.at)
       THEN /\ wire' = <<Hello("continued", conn.at.seq)>>
            /\ conn' = [conn EXCEPT !.state = "open"]
       ELSE /\ \E o \in Omissions :
                 wire' = IF conn.at = NoCursor
                           THEN <<Hello("fresh", 0), SnapshotOf(o)>>
                           ELSE <<Hello("gap", 0), Gap(0), SnapshotOf(o)>>
            /\ conn' = [state |-> "open", at |-> At(depoch, Head_)]
  /\ UNCHANGED <<daemonVars, linkVars, trouble>>

SendEvent ==
  /\ conn.state = "open" /\ Len(wire) < MaxWire
  /\ Oldest <= conn.at.seq /\ conn.at.seq < Head_
  /\ LET n == conn.at.seq + 1 IN
       /\ wire' = Append(wire, [t |-> "event", epoch |-> depoch, seq |-> n,
                                event |-> log[depoch][n]])
       /\ conn' = [conn EXCEPT !.at.seq = n]
  /\ UNCHANGED <<daemonVars, linkVars, trouble>>

(* A reader so slow that the ring moved past it is sent a gap.               *)
SendResync ==
  /\ conn.state = "open" /\ Len(wire) + 2 <= MaxWire
  /\ conn.at.seq < Oldest
  /\ \E o \in Omissions : wire' = wire \o <<Gap(conn.at.seq), SnapshotOf(o)>>
  /\ conn' = [conn EXCEPT !.at.seq = Head_]
  /\ UNCHANGED <<daemonVars, linkVars, trouble>>

(* On an idle stream.  The position it carries may lag: the host is written  *)
(* to hold its own (advance_cursor), and nothing here promises more.         *)
SendHeartbeat ==
  /\ conn.state = "open" /\ wire = <<>> /\ conn.at.seq = Head_
  /\ \E n \in 0..Head_ :
       wire' = <<[t |-> "heartbeat", epoch |-> depoch, seq |-> n]>>
  /\ UNCHANGED <<daemonVars, conn, linkVars, trouble>>

(* The connection is refused or breaks, and SSH says so.                     *)
Disconnect ==
  /\ conn.state \in {"dialing", "open"} /\ Trouble
  /\ Lose("closed")
  /\ UNCHANGED <<daemonVars, linkVars>>

(* The peer vanishes, and nothing says so.                                   *)
Vanish ==
  /\ conn.state \in {"dialing", "open"} /\ Trouble
  /\ Lose("silent")
  /\ UNCHANGED <<daemonVars, linkVars>>

-----------------------------------------------------------------------------
(* The link thread: run().                                                   *)

Teardown == conn' = NoConn /\ wire' = <<>>

(* Ended::Transient: say so and sleep, or obey a cancel that came meanwhile. *)
(* A window that reached a Hello starts the backoff over.                    *)
Retry(h) ==
  /\ Teardown
  /\ host' = Fail(h, IF cancel THEN "idle" ELSE "reconnecting")
  /\ pc' = IF cancel THEN "stopped" ELSE "sleeping"
  /\ backoff' = IF h.live THEN 1 ELSE backoff
  /\ UNCHANGED <<cancel, panels>>

GiveUpWrongRetried(h) ==
  /\ Teardown
  /\ host' = Fail(h, IF cancel THEN "idle" ELSE "failed")
  /\ pc' = IF cancel THEN "stopped" ELSE "sleeping"
  /\ UNCHANGED <<backoff, cancel, panels>>

(* Ended::Fatal: the loop ends, and only a cancel takes `failed` away.       *)
GiveUp(h) ==
  /\ Teardown
  /\ host' = Fail(h, IF cancel THEN "idle" ELSE "failed")
  /\ pc' = "stopped"
  /\ UNCHANGED <<backoff, cancel, panels>>

Attempt ==
  /\ pc = "top" /\ ~cancel
  /\ host' = NoteAttempt(host)
  /\ conn' = [state |-> "dialing", at |-> HandedOut(host)]
  /\ pc' = "reading"
  /\ UNCHANGED <<daemonVars, wire, backoff, cancel, panels, trouble>>

WakeUp ==
  /\ pc = "sleeping" /\ ~cancel
  /\ pc' = "top"
  /\ backoff' = IF 2 * backoff < BackoffMax THEN 2 * backoff ELSE BackoffMax
  /\ UNCHANGED <<daemonVars, conn, wire, host, cancel, panels, trouble>>

Cancelled ==
  /\ cancel /\ pc \in {"top", "reading", "sleeping"}
  /\ Teardown
  /\ host' = Fail(host, "idle")
  /\ pc' = "stopped"
  /\ UNCHANGED <<daemonVars, backoff, cancel, panels, trouble>>

(* The sink: what a viewer of session k holds after these emits.  A session  *)
(* that was not listed gets a new id, which no viewer has seen ended.        *)
Told(h, r, k) ==
  LET wasEnded == h.sessions[k].listed /\ panels[k].ended
      isEnded == k \in r.emits.closed
  IN IF k \in r.emits.timelines
       THEN [shown |-> TRUE, body |-> r.host.sessions[k].body,
             ended |-> wasEnded \/ isEnded]
       ELSE [panels[k] EXCEPT !.ended = @ \/ isEnded]

(* consume(): the next complete line, decoded and applied.                   *)
Reading == pc = "reading" /\ wire # <<>>

Receive ==
  /\ Reading
  /\ LET f == Head(wire)
         r == Apply(host, f)
     IN /\ ~(f.t = "hello" /\ f.epoch \in Foreign)
        /\ host' = r.host
        /\ panels' = [k \in Keys |-> Told(host, r, k)]
  /\ wire' = Tail(wire)
  /\ UNCHANGED <<daemonVars, conn, pc, backoff, cancel, trouble>>

(* A Hello in a protocol this workbench does not speak.                      *)
ReceiveForeign ==
  /\ Reading
  /\ Head(wire).t = "hello" /\ Head(wire).epoch \in Foreign
  /\ GiveUp(host)
  /\ UNCHANGED <<daemonVars, trouble>>

(* A line the decoder cannot read: a gap made here.  The window ends, unless *)
(* rebuilding has been tried in vain: then it is read past.                  *)
ReceiveUnreadable ==
  /\ Reading /\ Head(wire).t \in Unreadable /\ Trouble
  /\ LET h == OnLocalLoss(host) IN
       IF h.losses < DeterministicAfter
         THEN Retry(h)
         ELSE /\ host' = h
              /\ wire' = Tail(wire)
              /\ UNCHANGED <<conn, pc, backoff, cancel, panels>>
  /\ UNCHANGED daemonVars

(* A line past MAX_LINE was dropped: nothing of its batch is applied.        *)
ReceiveOversized ==
  /\ Reading /\ (\E i \in 1..Len(wire) : wire[i].t \in Oversized) /\ Trouble
  /\ LET h == OnLocalLoss(host) IN
       IF h.losses < DeterministicAfter THEN Retry(h) ELSE GiveUp(h)
  /\ UNCHANGED daemonVars

(* The beginning of the stream was lost to the scrollback ring.              *)
SeedOverflow ==
  /\ Reading /\ Head(wire).t = "hello" /\ Trouble
  /\ Retry(host)
  /\ UNCHANGED daemonVars

(* The exec ended and everything queued was consumed: verdict().  A refused  *)
(* credential, an unknown host key or a missing cwcd is not retried.         *)
StreamEnded ==
  /\ pc = "reading" /\ conn.state = "closed" /\ wire = <<>>
  /\ Retry(host)
  /\ UNCHANGED <<daemonVars, trouble>>

Refused ==
  /\ pc = "reading" /\ conn.state = "closed" /\ wire = <<>> /\ Trouble
  /\ GiveUp(host)
  /\ UNCHANGED daemonVars

TimeRunsOutWrongOnFaultsOnly == Trouble

(* The two deadlines.  They pass for certain only on a silent connection;    *)
(* passing on one that is merely slow counts as a fault.                     *)
TimeRunsOut ==
  \/ conn.state = "silent" /\ wire = <<>> /\ UNCHANGED trouble
  \/ Trouble

HelloDeadline ==
  /\ pc = "reading" /\ ~host.live /\ TimeRunsOut
  /\ Retry(host)
  /\ UNCHANGED daemonVars

Stale ==
  /\ pc = "reading" /\ host.live /\ TimeRunsOut
  /\ Retry(host)
  /\ UNCHANGED daemonVars

-----------------------------------------------------------------------------
(* The user, through the registry.                                           *)

(* Link::stop(): the thread is joined later, by Cancelled.                   *)
Stop ==
  /\ ~cancel /\ Trouble
  /\ cancel' = TRUE
  /\ host' = IF pc = "stopped" THEN Fail(host, "idle") ELSE host
  /\ UNCHANGED <<daemonVars, conn, wire, pc, backoff, panels>>

(* Registry::attach(): a new link has a new Host and new session ids.        *)
Reattach ==
  /\ pc = "stopped" /\ Trouble
  /\ host' = NewHost /\ pc' = "top" /\ backoff' = 1 /\ cancel' = FALSE
  /\ panels' = [k \in Keys |-> NoPanel]
  /\ UNCHANGED <<daemonVars, conn, wire>>

Daemon ==
  \/ \E kind \in Kinds, k \in Keys : Emit(kind, k)
  \/ \E k \in Keys : Prune(k)
  \/ Restart

Transport ==
  OpenStream \/ SendEvent \/ SendResync \/ SendHeartbeat \/ Disconnect \/ Vanish

LinkThread ==
  \/ Attempt \/ WakeUp \/ Cancelled
  \/ Receive \/ ReceiveForeign \/ ReceiveUnreadable \/ ReceiveOversized
  \/ SeedOverflow \/ StreamEnded \/ Refused \/ HelloDeadline \/ Stale

Next == Daemon \/ Transport \/ LinkThread \/ Stop \/ Reattach

Spec == Init /\ [][Next]_vars

(* The thread runs, its deadlines pass on a connection that says nothing,    *)
(* and a reachable daemon serves the stream it was asked for.                *)
DeadlinePasses ==
  conn.state = "silent" /\ wire = <<>> /\ (HelloDeadline \/ Stale)

Fairness ==
  /\ WF_vars(Attempt) /\ WF_vars(WakeUp) /\ WF_vars(Cancelled)
  /\ WF_vars(Receive) /\ WF_vars(ReceiveForeign) /\ WF_vars(StreamEnded)
  /\ WF_vars(DeadlinePasses)
  /\ WF_vars(OpenStream) /\ WF_vars(SendEvent) /\ WF_vars(SendResync)

FairSpec == Spec /\ Fairness

-----------------------------------------------------------------------------
(* Properties.                                                               *)

(* The host hands out a position only when its rows are those of the         *)
(* daemon's log up to that position: no event at or before a cursor it would *)
(* resume from is missing from the view, whatever was lost on the way        *)
(* (Host::cursor, on_local_loss; the "no-loss" contract of link.rs).  A      *)
(* finished session may have been pruned, and a row marked body_omitted may  *)
(* lack a part of its body.                                                  *)
RowIsExact(k, e, n) ==
  LET s == host.sessions[k] IN
  /\ s.listed =>
       /\ Spawned(e, n, k)
       /\ s.exited = Exited(e, n, k) /\ s.closed = s.exited
       /\ s.body \subseteq Deltas(e, n, k)
       /\ ~s.omitted => s.body = Deltas(e, n, k)
  /\ Spawned(e, n, k) =>
       \/ s.listed
       \/ Exited(e, n, k) /\ (e = depoch => k \in pruned)

ViewIsExact ==
  LET c == HandedOut(host) IN
  c # NoCursor =>
    /\ host.epoch = c.epoch /\ c.seq <= Len(log[c.epoch])
    /\ \A k \in Keys : RowIsExact(k, c.epoch, c.seq)

(* Every viewer of a session id holds the body the host holds, and one whose *)
(* session the host has dropped from its list has been told that it closed   *)
(* (Emit, on_hello, on_snapshot, on_event).                                  *)
ViewersFollowHost ==
  \A k \in Keys :
    LET s == host.sessions[k] IN
    /\ s.listed => panels[k].shown /\ panels[k].body = s.body
    /\ ~s.listed /\ panels[k].shown => panels[k].ended

(* A session whose viewers were told it ended never runs again under the     *)
(* same id, not even when a new incarnation gives its key to another one     *)
(* (alloc_remote_id, on_hello).                                              *)
EndIsFinal ==
  \A k \in Keys :
    host.sessions[k].listed /\ panels[k].ended => host.sessions[k].closed

(* "Continued" on the screen means that nothing was lost: never while a      *)
(* resync is owed (ResumeOutcome, on_hello, on_local_loss).                  *)
ContinuedMeansComplete == host.resume = "continued" => ~host.resync

(* In one attachment the cursor never goes back inside an epoch, nor to an   *)
(* earlier one (advance_cursor).                                             *)
CursorNeverRewinds ==
  [][LET c == host.cursor d == host'.cursor IN
       ~Reattach => \/ d = NoCursor
                    \/ d.epoch > c.epoch
                    \/ d.epoch = c.epoch /\ d.seq >= c.seq]_vars

(* A refusal stays on the screen until the user stops the link or attaches   *)
(* anew, and no connection is attempted meanwhile (run's last lines).        *)
RefusalStays ==
  [][host.phase = "failed" =>
       \/ host'.phase = "failed" /\ conn' = NoConn
       \/ Stop \/ Reattach]_vars

(* Whatever happens, the view eventually stays at the end of the log; unless *)
(* the link was stopped, or the same loss keeps coming back and is read      *)
(* past.                                                                     *)
CaughtUp ==
  /\ host.phase = "live"
  /\ HandedOut(host) = At(depoch, Len(log[depoch]))
ViewCatchesUp ==
  <>[](CaughtUp \/ pc = "stopped" \/ host.losses >= DeterministicAfter)
=============================================================================
