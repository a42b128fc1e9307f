-------------------------- MODULE RemoteLinkProofs --------------------------
(* Theorems about RemoteLink, for any sessions, incarnations, log and ring   *)
(* sizes: what the viewers are told, where the cursor may stand, and, in the  *)
(* second half, that the rows the host would resume from are those of the     *)
(* daemon's log and that an end which viewers were told is final.             *)
EXTENDS RemoteLink, SequenceTheorems, TLAPS

-----------------------------------------------------------------------------
(* The handlers of RemoteHost keep a host a host.                            *)

(* A new host is a host.                                                     *)
LEMMA NewHostType == NewHost \in Host
BY MaxEpochAssumption
   DEF NewHost, Host, Phases, Cursor, NoCursor, Resumes, Session, Absent

(* A cursor read from a frame is a cursor.                                   *)
LEMMA AtType ==
  ASSUME NEW e \in Epochs, NEW n \in Nat
  PROVE  At(e, n) \in Cursor
BY MaxEpochAssumption DEF At, Cursor, Epochs

(* advance_cursor changes the cursor at most.                                *)
LEMMA AdvanceType ==
  ASSUME NEW h \in Host, NEW c \in Cursor
  PROVE  Advance(h, c) \in Host
BY DEF Advance, Host

(* Applying an event to the session it names leaves a session.               *)
LEMMA AppliedType ==
  ASSUME NEW s \in Session, NEW kind \in EventKinds, NEW n \in Nat
  PROVE  Applied(s, kind, n) \in Session
BY DEF Applied, Upserted, Merged, Ended, Session, Absent

(* Every handler returns a host, and emits about sessions.                   *)
Outcome(r) ==
  /\ r.host \in Host
  /\ r.emits.timelines \subseteq Keys
  /\ r.emits.closed \subseteq Keys

LEMMA ResultType ==
  ASSUME NEW h \in Host, NEW T \in SUBSET Keys, NEW C \in SUBSET Keys
  PROVE  Outcome(Result(h, T, C))
BY DEF Outcome, Result

LEMMA HelloType ==
  ASSUME NEW h \in Host, NEW f \in HelloFrame
  PROVE  Outcome(OnHello(h, f))
<1> DEFINE h2 == IF EpochChanges(h, f) THEN ForgetKeys(h) ELSE h
           h3 == [h2 EXCEPT !.epoch = f.epoch, !.phase = "live",
                            !.live = TRUE, !.resume = f.resume]
<1>1. Absent \in Session
  BY DEF Absent, Session
<1>2. NoCursor \in Cursor
  BY MaxEpochAssumption DEF NoCursor, Cursor
<1>3. h2 \in Host
  BY <1>1, <1>2 DEF ForgetKeys, Host
<1>4. h3 \in Host
  <2> HIDE DEF h2
  <2>1. f.epoch \in 0..MaxEpoch /\ f.resume \in Resumes
    BY MaxEpochAssumption DEF HelloFrame, Epochs
  <2> QED BY <1>3, <2>1 DEF Host, Phases
<1>5. Listed(h) \subseteq Keys
  BY DEF Listed
<1> QED BY <1>4, <1>5, ResultType DEF OnHello

LEMMA GapType ==
  ASSUME NEW h \in Host
  PROVE  Outcome(OnGap(h))
<1>1. [h EXCEPT !.resume = "gap"] \in Host
  BY DEF Host, Resumes
<1> QED BY <1>1, ResultType DEF OnGap

LEMMA SnapshotType ==
  ASSUME NEW h \in Host, NEW f \in SnapshotFrame
  PROVE  Outcome(OnSnapshot(h, f))
<1>1. \A k \in Keys : Rebuilt(h.sessions[k], f.rows[k]) \in Session
  BY DEF Rebuilt, Host, SnapshotFrame, Row, Session
<1>2. Absent \in Session
  BY DEF Absent, Session
<1>3. Resynced(h, f) \in Host
  BY <1>1, <1>2 DEF Resynced, Host
<1>4. At(f.epoch, f.seq) \in Cursor
  BY AtType DEF SnapshotFrame
<1>5. f.listed \subseteq Keys /\ Listed(h) \ f.listed \subseteq Keys
  BY DEF Listed, SnapshotFrame
<1> QED BY <1>3, <1>4, <1>5, AdvanceType, ResultType DEF OnSnapshot

LEMMA HeartbeatType ==
  ASSUME NEW h \in Host, NEW f \in HeartbeatFrame
  PROVE  Outcome(OnHeartbeat(h, f))
<1>1. At(f.epoch, f.seq) \in Cursor
  BY AtType DEF HeartbeatFrame
<1> QED BY <1>1, AdvanceType, ResultType DEF OnHeartbeat

LEMMA EventType ==
  ASSUME NEW h \in Host, NEW f \in EventFrame
  PROVE  Outcome(OnEvent(h, f))
<1>1. /\ f.event.key \in Keys /\ f.event.kind \in EventKinds
      /\ f.epoch \in Epochs /\ f.seq \in Nat
  BY DEF EventFrame, Event
<1>2. ReportUnknown(h, f.event) \in Host
  BY <1>1 DEF ReportUnknown, Host, Tag
<1>3. Applied(h.sessions[f.event.key], f.event.kind, f.seq) \in Session
  BY <1>1, AppliedType DEF Host
<1>4. Noted(h, f) \in Host
  BY <1>1, <1>2, <1>3 DEF Noted, Host
<1>5. At(f.epoch, f.seq) \in Cursor
  BY <1>1, AtType
<1> QED BY <1>1, <1>4, <1>5, AdvanceType, ResultType DEF OnEvent

LEMMA ApplyType ==
  ASSUME NEW h \in Host, NEW f \in Frame
  PROVE  Outcome(Apply(h, f))
<1>1. CASE f \in HelloFrame
  BY <1>1, HelloType DEF Apply, HelloFrame
<1>2. CASE f \in GapFrame
  BY <1>2, GapType DEF Apply, GapFrame
<1>3. CASE f \in SnapshotFrame
  BY <1>3, SnapshotType DEF Apply, SnapshotFrame
<1>4. CASE f \in EventFrame
  BY <1>4, EventType DEF Apply, EventFrame
<1>5. CASE f \in HeartbeatFrame
  BY <1>5, HeartbeatType DEF Apply, HeartbeatFrame
<1> QED BY <1>1, <1>2, <1>3, <1>4, <1>5 DEF Frame

-----------------------------------------------------------------------------
(* Type correctness.                                                         *)

LEMMA HeadOfWire ==
  ASSUME wire \in Seq(Frame), wire # <<>>
  PROVE  Head(wire) \in Frame /\ Tail(wire) \in Seq(Frame)
BY HeadTailProperties

LEMMA LoseType ==
  ASSUME TypeOK, NEW state \in ConnStates, Lose(state)
  PROVE  /\ conn' \in [state : ConnStates, at : Cursor]
         /\ wire' \in Seq(Frame)
<1>1. conn' \in [state : ConnStates, at : Cursor]
  BY DEF Lose, TypeOK
<1>2. \A n \in 0..Len(wire) : SubSeq(wire, 1, n) \in Seq(Frame)
  BY SubSeqProperties DEF TypeOK
<1> QED BY <1>1, <1>2 DEF Lose

LEMMA LogLength ==
  ASSUME TypeOK
  PROVE  /\ log[depoch] \in Seq(Event)
         /\ Head_ \in Nat
         /\ Oldest \in Nat /\ Oldest <= Head_
BY LenProperties, BoundsAssumption DEF TypeOK, Head_, Oldest

LEMMA FrameTypes ==
  ASSUME TypeOK
  PROVE  /\ \A r \in Resumes, n \in Nat : Hello(r, n) \in Frame
         /\ \A n \in Nat : Gap(n) \in Frame
         /\ \A o \in Omissions : SnapshotOf(o) \in Frame
<1>1. depoch \in Epochs
  BY DEF TypeOK
<1>2. \A r \in Resumes, n \in Nat : Hello(r, n) \in Frame
  BY <1>1 DEF Hello, Frame, HelloFrame
<1>3. \A n \in Nat : Gap(n) \in Frame
  BY <1>1 DEF Gap, Frame, GapFrame
<1>4. ASSUME NEW o \in Omissions
      PROVE  SnapshotOf(o) \in Frame
  <2> DEFINE rows == SnapshotOf(o).rows
  <2>1. \A k \in Keys : Deltas(depoch, Head_, k) \in SUBSET Nat
    BY LogLength DEF Deltas
  <2>2. \A k \in Keys : Exited(depoch, Head_, k) \in BOOLEAN
    BY DEF Exited, Happened
  <2>3. rows \in [Keys -> Row]
    BY <2>1, <2>2 DEF SnapshotOf, Row
  <2>4. SnapshotOf(o) \in SnapshotFrame
    BY <1>1, <2>3, LogLength DEF SnapshotOf, SnapshotFrame
  <2> QED BY <2>4 DEF Frame
<1> QED BY <1>2, <1>3, <1>4

LEMMA InitType == Init => TypeOK
<1> SUFFICES ASSUME Init PROVE TypeOK
  OBVIOUS
<1>1. log \in [Epochs -> Seq(Event)]
  BY EmptySeq DEF Init
<1>2. wire \in Seq(Frame)
  BY EmptySeq DEF Init
<1>3. conn \in [state : ConnStates, at : Cursor] /\ depoch \in Epochs
  BY MaxEpochAssumption
     DEF Init, NoConn, ConnStates, NoCursor, Cursor, Epochs
<1> QED
  BY <1>1, <1>2, <1>3, NewHostType DEF Init, TypeOK, PCs, Panel, NoPanel, Tag

LEMMA FailType ==
  ASSUME NEW h \in Host, NEW p \in Phases
  PROVE  Fail(h, p) \in Host
BY DEF Fail, Host

LEMMA LossType ==
  ASSUME NEW h \in Host
  PROVE  OnLocalLoss(h) \in Host
<1>1. h.losses + 1 \in Nat /\ "gap" \in Resumes
  BY DEF Host, Resumes
<1> QED BY <1>1 DEF OnLocalLoss, Host

(* Ending an attach leaves every variable well typed.                        *)
LEMMA EndOfAttachType ==
  ASSUME TypeOK, NEW h \in Host, Retry(h) \/ GiveUp(h),
         UNCHANGED daemonVars, trouble' \in Nat
  PROVE  TypeOK'
<1> Teardown
  BY DEF Retry, GiveUp
<1>0. NoConn \in [state : ConnStates, at : Cursor]
  BY MaxEpochAssumption DEF NoConn, ConnStates, NoCursor, Cursor
<1>1. conn' \in [state : ConnStates, at : Cursor] /\ wire' \in Seq(Frame)
  BY <1>0, EmptySeq DEF Teardown
<1>2. host' \in Host
  BY FailType DEF Retry, GiveUp, Phases
<1>3. pc' \in PCs /\ backoff' \in Nat /\ UNCHANGED <<cancel, panels>>
  BY DEF Retry, GiveUp, PCs, TypeOK
<1> QED BY <1>1, <1>2, <1>3 DEF TypeOK, daemonVars

(* Steps of the daemon.                                                      *)
LEMMA DaemonType == TypeOK /\ Daemon => TypeOK'
<1> SUFFICES ASSUME TypeOK, Daemon PROVE TypeOK'
  OBVIOUS
<1>1. ASSUME NEW kind \in Kinds, NEW k \in Keys, Emit(kind, k)
      PROVE  TypeOK'
  <2>1. [kind |-> kind, key |-> k] \in Event
    BY KindsAssumption DEF Event
  <2>2. Append(log[depoch], [kind |-> kind, key |-> k]) \in Seq(Event)
    BY <2>1, LogLength, AppendProperties
  <2>3. log' \in [Epochs -> Seq(Event)]
    BY <1>1, <2>2 DEF Emit, TypeOK
  <2> QED BY <1>1, <2>3 DEF Emit, TypeOK, linkVars
<1>2. ASSUME NEW k \in Keys, Prune(k)
      PROVE  TypeOK'
  BY <1>2 DEF Prune, TypeOK, linkVars
<1>3. CASE Restart
  <2>1. depoch' \in Epochs
    BY <1>3, MaxEpochAssumption DEF Restart, TypeOK, Epochs
  <2>2. conn' \in [state : ConnStates, at : Cursor] /\ wire' \in Seq(Frame)
    <3>1. CASE Lose("closed")
      BY <3>1, LoseType DEF ConnStates
    <3>2. CASE UNCHANGED <<conn, wire>>
      BY <3>2 DEF TypeOK
    <3> QED BY <1>3, <3>1, <3>2 DEF Restart
  <2> QED BY <1>3, <2>1, <2>2 DEF Restart, TypeOK, linkVars
<1> QED BY <1>1, <1>2, <1>3 DEF Daemon

(* Steps of the transport.                                                   *)
LEMMA TransportType == TypeOK /\ Transport => TypeOK'
<1> SUFFICES ASSUME TypeOK, Transport PROVE TypeOK'
  OBVIOUS
<1> DEFINE ConnOK == conn' \in [state : ConnStates, at : Cursor]
           WireOK == wire' \in Seq(Frame)
<1>1. SUFFICES ConnOK /\ WireOK /\ trouble' \in Nat
               /\ UNCHANGED <<daemonVars, linkVars>>
  BY DEF TypeOK, daemonVars, linkVars
<1>2. depoch \in Epochs /\ conn \in [state : ConnStates, at : Cursor]
      /\ wire \in Seq(Frame) /\ trouble \in Nat
  BY DEF TypeOK
<1>3. At(depoch, Head_) \in Cursor
  BY <1>2, AtType, LogLength
<1>4. CASE OpenStream
  <2>1. CASE Honoured(conn.at)
    <3>1. Hello("continued", conn.at.seq) \in Frame
      BY <1>2, FrameTypes DEF Cursor, Resumes
    <3>2. <<Hello("continued", conn.at.seq)>> \in Seq(Frame)
      BY <3>1
    <3>3. ConnOK
      BY <1>2, <1>4, <2>1 DEF OpenStream, ConnStates
    <3> QED BY <1>2, <1>4, <2>1, <3>2, <3>3 DEF OpenStream
  <2>2. CASE ~Honoured(conn.at)
    <3>1. PICK o \in Omissions :
            wire' = IF conn.at = NoCursor
                      THEN <<Hello("fresh", 0), SnapshotOf(o)>>
                      ELSE <<Hello("gap", 0), Gap(0), SnapshotOf(o)>>
      BY <1>4, <2>2 DEF OpenStream
    <3>2. /\ Hello("fresh", 0) \in Frame /\ Hello("gap", 0) \in Frame
          /\ Gap(0) \in Frame /\ SnapshotOf(o) \in Frame
      BY FrameTypes DEF Resumes
    <3>3. WireOK
      BY <3>1, <3>2
    <3>4. ConnOK
      BY <1>3, <1>4, <2>2 DEF OpenStream, ConnStates
    <3> QED BY <1>2, <1>4, <3>3, <3>4 DEF OpenStream
  <2> QED BY <2>1, <2>2
<1>5. CASE SendEvent
  <2> DEFINE n == conn.at.seq + 1
             f == [t |-> "event", epoch |-> depoch, seq |-> n,
                   event |-> log[depoch][n]]
  <2>1. n \in 1..Head_
    BY <1>2, <1>5, LogLength DEF SendEvent, Cursor
  <2>2. log[depoch][n] \in Event
    BY <2>1, LogLength, LenProperties DEF Head_
  <2>3. f \in Frame
    BY <1>2, <2>1, <2>2, LogLength DEF Frame, EventFrame
  <2>4. WireOK
    BY <1>2, <1>5, <2>3, AppendProperties DEF SendEvent
  <2>5. ConnOK
    <3>1. n \in Nat
      BY <2>1, LogLength
    <3>2. conn' = [conn EXCEPT !.at.seq = n]
      BY <1>5 DEF SendEvent
    <3> HIDE DEF n
    <3> QED BY <1>2, <3>1, <3>2 DEF Cursor
  <2> QED BY <1>2, <1>5, <2>4, <2>5 DEF SendEvent
<1>6. CASE SendResync
  <2>1. PICK o \in Omissions : wire' = wire \o <<Gap(conn.at.seq), SnapshotOf(o)>>
    BY <1>6 DEF SendResync
  <2>2. <<Gap(conn.at.seq), SnapshotOf(o)>> \in Seq(Frame)
    BY <1>2, FrameTypes DEF Cursor
  <2>3. WireOK
    BY <1>2, <2>1, <2>2, ConcatProperties
  <2>4. ConnOK
    BY <1>2, <1>6, LogLength DEF SendResync, Cursor
  <2> QED BY <1>2, <1>6, <2>3, <2>4 DEF SendResync
<1>7. CASE SendHeartbeat
  <2>1. PICK n \in 0..Head_ :
          wire' = <<[t |-> "heartbeat", epoch |-> depoch, seq |-> n]>>
    BY <1>7 DEF SendHeartbeat
  <2>2. [t |-> "heartbeat", epoch |-> depoch, seq |-> n] \in Frame
    BY <1>2, LogLength DEF Frame, HeartbeatFrame
  <2>3. WireOK
    BY <2>1, <2>2
  <2> QED BY <1>2, <1>7, <2>3 DEF SendHeartbeat
<1>8. CASE Disconnect \/ Vanish
  <2>1. ConnOK /\ WireOK
    BY <1>8, LoseType DEF Disconnect, Vanish, ConnStates
  <2> QED BY <1>2, <1>8, <2>1 DEF Disconnect, Vanish, Trouble
<1> QED BY <1>4, <1>5, <1>6, <1>7, <1>8 DEF Transport

(* What the viewers are told of a session is a panel.                        *)
LEMMA ToldType ==
  ASSUME TypeOK, NEW r, Outcome(r), NEW k \in Keys
  PROVE  Told(host, r, k) \in Panel
<1>1. r.host.sessions[k] \in Session /\ host.sessions[k] \in Session
      /\ panels[k] \in Panel
  BY DEF Outcome, Host, TypeOK
<1>2. /\ r.host.sessions[k].body \in SUBSET Nat
      /\ host.sessions[k].listed \in BOOLEAN
  BY <1>1 DEF Session
<1>3. /\ panels[k].shown \in BOOLEAN /\ panels[k].body \in SUBSET Nat
      /\ panels[k].ended \in BOOLEAN
  BY <1>1 DEF Panel
<1> QED BY <1>1, <1>2, <1>3 DEF Told, Panel

LEMMA ReceiveKeepsType == TypeOK /\ Receive => TypeOK'
<1> SUFFICES ASSUME TypeOK, Receive PROVE TypeOK'
  OBVIOUS
<1> DEFINE f == Head(wire)
           r == Apply(host, f)
<1>1. wire \in Seq(Frame) /\ wire # <<>> /\ host \in Host
  BY DEF Receive, Reading, TypeOK
<1>2. f \in Frame /\ Tail(wire) \in Seq(Frame)
  BY <1>1, HeadOfWire
<1>3. Outcome(r)
  BY <1>1, <1>2, ApplyType
<1>4. host' \in Host
  BY <1>3 DEF Receive, Outcome
<1>5. panels' \in [Keys -> Panel]
  <2>1. panels' = [k \in Keys |-> Told(host, r, k)]
    BY DEF Receive
  <2> QED BY <1>3, <2>1, ToldType
<1> QED BY <1>2, <1>4, <1>5 DEF Receive, TypeOK, daemonVars

LEMMA LossKeepsType ==
  TypeOK /\ (ReceiveUnreadable \/ ReceiveOversized) => TypeOK'
<1> SUFFICES ASSUME TypeOK, ReceiveUnreadable \/ ReceiveOversized PROVE TypeOK'
  OBVIOUS
<1> DEFINE h == OnLocalLoss(host)
<1>1. h \in Host /\ trouble' \in Nat /\ UNCHANGED daemonVars
  BY LossType DEF ReceiveUnreadable, ReceiveOversized, Trouble, TypeOK
<1>2. CASE Retry(h) \/ GiveUp(h)
  BY <1>1, <1>2, EndOfAttachType
<1>3. CASE /\ host' = h /\ wire' = Tail(wire)
           /\ UNCHANGED <<conn, pc, backoff, cancel, panels>>
           /\ Reading
  <2>1. wire' \in Seq(Frame)
    BY <1>3, HeadOfWire DEF Reading, TypeOK
  <2> QED BY <1>1, <1>3, <2>1 DEF TypeOK, daemonVars
<1> QED BY <1>2, <1>3 DEF ReceiveUnreadable, ReceiveOversized

LEMMA LinkThreadType == TypeOK /\ LinkThread => TypeOK'
<1> SUFFICES ASSUME TypeOK, LinkThread PROVE TypeOK'
  OBVIOUS
<1>0. host \in Host
  BY DEF TypeOK
<1>1. CASE Attempt
  <2>1. HandedOut(host) \in Cursor
    BY <1>0, MaxEpochAssumption DEF HandedOut, Host, NoCursor, Cursor
  <2>2. NoteAttempt(host) \in Host
    BY <1>0 DEF NoteAttempt, Host, Phases
  <2> QED BY <1>1, <2>1, <2>2
          DEF Attempt, TypeOK, PCs, ConnStates, daemonVars
<1>2. CASE WakeUp
  BY <1>2, LinkAssumption DEF WakeUp, TypeOK, PCs, daemonVars
<1>3. CASE Cancelled
  <2>1. NoConn \in [state : ConnStates, at : Cursor]
    BY MaxEpochAssumption DEF NoConn, ConnStates, NoCursor, Cursor
  <2>2. wire' \in Seq(Frame) /\ conn' \in [state : ConnStates, at : Cursor]
    BY <1>3, <2>1, EmptySeq DEF Cancelled, Teardown
  <2>3. Fail(host, "idle") \in Host
    BY <1>0, FailType DEF Phases
  <2> QED BY <1>3, <2>2, <2>3 DEF Cancelled, TypeOK, PCs, daemonVars
<1>4. CASE Receive
  BY <1>4, ReceiveKeepsType
<1>5. CASE ReceiveUnreadable \/ ReceiveOversized
  BY <1>5, LossKeepsType
<1>6. CASE \/ ReceiveForeign \/ SeedOverflow \/ StreamEnded \/ Refused
           \/ HelloDeadline \/ Stale
  <2>1. Retry(host) \/ GiveUp(host)
    BY <1>6 DEF ReceiveForeign, SeedOverflow, StreamEnded, Refused,
                HelloDeadline, Stale
  <2>2. UNCHANGED daemonVars /\ trouble' \in Nat
    BY <1>6 DEF ReceiveForeign, SeedOverflow, StreamEnded, Refused,
                HelloDeadline, Stale, TimeRunsOut, Trouble, TypeOK
  <2> QED BY <1>0, <2>1, <2>2, EndOfAttachType
<1> QED BY <1>1, <1>2, <1>3, <1>4, <1>5, <1>6 DEF LinkThread

LEMMA UserType == TypeOK /\ (Stop \/ Reattach) => TypeOK'
<1> SUFFICES ASSUME TypeOK, Stop \/ Reattach PROVE TypeOK'
  OBVIOUS
<1>1. CASE Stop
  <2>1. host' \in Host
    BY <1>1, FailType DEF Stop, Phases, TypeOK
  <2> QED BY <1>1, <2>1 DEF Stop, Trouble, TypeOK, daemonVars
<1>2. CASE Reattach
  <2>1. NoPanel \in Panel
    BY DEF NoPanel, Panel
  <2>2. panels' \in [Keys -> Panel]
    BY <1>2, <2>1 DEF Reattach
  <2>3. host' \in Host /\ pc' \in PCs /\ backoff' \in Nat /\ cancel' \in BOOLEAN
    BY <1>2, NewHostType DEF Reattach, PCs
  <2>4. trouble' \in Nat /\ UNCHANGED <<daemonVars, conn, wire>>
    BY <1>2 DEF Reattach, Trouble, TypeOK
  <2> QED BY <2>2, <2>3, <2>4 DEF TypeOK, daemonVars
<1> QED BY <1>1, <1>2

LEMMA NextType == TypeOK /\ [Next]_vars => TypeOK'
<1>1. TypeOK /\ UNCHANGED vars => TypeOK'
  BY DEF TypeOK, vars
<1> QED BY <1>1, DaemonType, TransportType, LinkThreadType, UserType DEF Next

(* Every variable keeps its type, whatever the constants.                    *)
THEOREM TypeCorrect == Spec => []TypeOK
BY InitType, NextType, PTL DEF Spec

-----------------------------------------------------------------------------
(* The viewers follow the host.                                              *)

(* The part of the state the two invariants below are about.                 *)
ViewVars == <<host.sessions, panels>>

(* Only a frame, or a new attachment, changes what a viewer is shown.        *)
LEMMA ViewUntouched ==
  TypeOK /\ [Next]_vars => Receive \/ Reattach \/ UNCHANGED ViewVars
<1> SUFFICES ASSUME TypeOK, [Next]_vars, ~Receive, ~Reattach
             PROVE  UNCHANGED ViewVars
  OBVIOUS
<1>0. host \in Host
  BY DEF TypeOK
<1>1. \A h \in Host, p \in Phases :
        /\ Fail(h, p).sessions = h.sessions
        /\ NoteAttempt(h).sessions = h.sessions
        /\ OnLocalLoss(h).sessions = h.sessions
  BY DEF Fail, NoteAttempt, OnLocalLoss, Host
<1>2. ASSUME NEW h \in Host, h.sessions = host.sessions, Retry(h) \/ GiveUp(h)
      PROVE  UNCHANGED ViewVars
  <2>1. PICK p \in Phases : host' = Fail(h, p)
    BY <1>2 DEF Retry, GiveUp, Phases
  <2>2. host'.sessions = host.sessions /\ panels' = panels
    BY <1>1, <1>2, <2>1 DEF Retry, GiveUp
  <2> QED BY <2>2 DEF ViewVars
<1>3. CASE Daemon
  BY <1>3 DEF Daemon, Emit, Prune, Restart, linkVars, ViewVars
<1>4. CASE Transport
  BY <1>4 DEF Transport, OpenStream, SendEvent, SendResync, SendHeartbeat,
              Disconnect, Vanish, linkVars, ViewVars
<1>5. CASE Attempt \/ WakeUp \/ Cancelled
  BY <1>0, <1>1, <1>5 DEF Attempt, WakeUp, Cancelled, Phases, ViewVars
<1>6. CASE ReceiveUnreadable \/ ReceiveOversized
  <2> DEFINE h == OnLocalLoss(host)
  <2>1. h \in Host /\ h.sessions = host.sessions
    BY <1>0, <1>1, LossType DEF Phases
  <2>2. Retry(h) \/ GiveUp(h) \/ (host' = h /\ panels' = panels)
    BY <1>6 DEF ReceiveUnreadable, ReceiveOversized
  <2> QED BY <1>2, <2>1, <2>2 DEF ViewVars
<1>7. CASE \/ ReceiveForeign \/ SeedOverflow \/ StreamEnded \/ Refused
           \/ HelloDeadline \/ Stale
  <2>1. Retry(host) \/ GiveUp(host)
    BY <1>7 DEF ReceiveForeign, SeedOverflow, StreamEnded, Refused,
                HelloDeadline, Stale
  <2> QED BY <1>0, <1>2, <2>1
<1>8. CASE Stop
  BY <1>0, <1>1, <1>8 DEF Stop, Phases, ViewVars
<1>9. CASE UNCHANGED vars
  BY <1>9 DEF vars, ViewVars
<1> QED BY <1>3, <1>4, <1>5, <1>6, <1>7, <1>8, <1>9 DEF Next, LinkThread

(* What a handler emits accounts for every change of the list and of a body. *)
TellsAll(h, r) ==
  \A k \in Keys :
    LET old == h.sessions[k] new == r.host.sessions[k] IN
    /\ k \in r.emits.timelines => new.listed
    /\ k \notin r.emits.timelines /\ new.listed =>
         old.listed /\ new.body = old.body
    /\ k \notin r.emits.timelines /\ ~new.listed /\ old.listed =>
         k \in r.emits.closed

LEMMA AdvanceKeepsSessions ==
  ASSUME NEW h \in Host, NEW c
  PROVE  Advance(h, c).sessions = h.sessions
BY DEF Advance, Host

LEMMA HelloTellsAll ==
  ASSUME NEW h \in Host, NEW f \in HelloFrame
  PROVE  TellsAll(h, OnHello(h, f))
<1> DEFINE r == OnHello(h, f)
<1>1. CASE EpochChanges(h, f)
  <2>1. r.host.sessions = [k \in Keys |-> Absent]
    BY <1>1 DEF OnHello, Result, ForgetKeys, Host
  <2>2. r.emits.closed = Listed(h) /\ r.emits.timelines = {}
    BY <1>1 DEF OnHello, Result
  <2> HIDE DEF r
  <2>3. \A k \in Keys : ~r.host.sessions[k].listed
    <3>1. \A k \in Keys : r.host.sessions[k] = Absent
      BY <2>1
    <3>2. Absent.listed = FALSE
      BY DEF Absent
    <3> QED BY <3>1, <3>2
  <2>4. TellsAll(h, r)
    BY <2>2, <2>3 DEF TellsAll, Listed
  <2> QED BY <2>4 DEF r
<1>2. CASE ~EpochChanges(h, f)
  <2>1. r.host.sessions = h.sessions /\ r.emits.timelines = {}
    BY <1>2 DEF OnHello, Result, Host
  <2> QED BY <2>1 DEF TellsAll
<1> QED BY <1>1, <1>2

LEMMA SnapshotTellsAll ==
  ASSUME NEW h \in Host, NEW f \in SnapshotFrame
  PROVE  TellsAll(h, OnSnapshot(h, f))
<1> DEFINE r == OnSnapshot(h, f)
<1>1. /\ r.host = Advance(Resynced(h, f), At(f.epoch, f.seq))
      /\ r.emits.timelines = f.listed
      /\ r.emits.closed = Listed(h) \ f.listed
  BY DEF OnSnapshot, Result
<1>2. Resynced(h, f) \in Host
  <2>1. \A k \in Keys : Rebuilt(h.sessions[k], f.rows[k]) \in Session
    BY DEF Rebuilt, Host, SnapshotFrame, Row, Session
  <2>2. Absent \in Session
    BY DEF Absent, Session
  <2> QED BY <2>1, <2>2 DEF Resynced, Host
<1>3. r.host.sessions = Resynced(h, f).sessions
  BY <1>1, <1>2, AdvanceKeepsSessions
<1>4. Resynced(h, f).sessions =
        [k \in Keys |-> IF k \in f.listed
                          THEN Rebuilt(h.sessions[k], f.rows[k]) ELSE Absent]
  BY DEF Resynced, Host
<1> HIDE DEF r
<1>5. \A k \in Keys : r.host.sessions[k].listed <=> k \in f.listed
  <2> SUFFICES ASSUME NEW k \in Keys
               PROVE  r.host.sessions[k].listed <=> k \in f.listed
    OBVIOUS
  <2>1. Rebuilt(h.sessions[k], f.rows[k]).listed = TRUE
    BY DEF Rebuilt
  <2>2. Absent.listed = FALSE
    BY DEF Absent
  <2> QED BY <1>3, <1>4, <2>1, <2>2
<1>6. TellsAll(h, r)
  BY <1>1, <1>5 DEF TellsAll, Listed
<1> QED BY <1>6 DEF r

LEMMA EventTellsAll ==
  ASSUME NEW h \in Host, NEW f \in EventFrame
  PROVE  TellsAll(h, OnEvent(h, f))
<1> DEFINE r == OnEvent(h, f)
           ev == f.event
           s == h.sessions[ev.key]
<1>1. ev.key \in Keys /\ ev.kind \in EventKinds /\ f.epoch \in Epochs
      /\ f.seq \in Nat /\ s \in Session
  BY DEF EventFrame, Event, Host
<1>2. Noted(h, f) \in Host
  <2>1. ReportUnknown(h, ev) \in Host
    BY <1>1 DEF ReportUnknown, Host, Tag
  <2>2. Applied(s, ev.kind, f.seq) \in Session
    BY <1>1, AppliedType
  <2> QED BY <1>1, <2>1, <2>2 DEF Noted, Host
<1>3. r.host.sessions = Noted(h, f).sessions
  BY <1>2, AdvanceKeepsSessions DEF OnEvent, Result
<1>4. r.emits.timelines = IF IsShown(h, ev) THEN {ev.key} ELSE {}
  BY DEF OnEvent, Result
<1>5. CASE IsUnknown(h, ev)
  <2>1. r.host.sessions = h.sessions
    BY <1>3, <1>5 DEF Noted, ReportUnknown, Host
  <2>2. r.emits.timelines = {}
    BY <1>4, <1>5 DEF IsShown
  <2> QED BY <2>1, <2>2 DEF TellsAll
<1>6. CASE ~IsUnknown(h, ev)
  <2>1. r.host.sessions =
          [h.sessions EXCEPT ![ev.key] = Applied(s, ev.kind, f.seq)]
    BY <1>1, <1>3, <1>6 DEF Noted, Host
  <2>2. \A k \in Keys : k # ev.key => r.host.sessions[k] = h.sessions[k]
    BY <1>1, <2>1 DEF Host
  <2>3. r.host.sessions[ev.key] = Applied(s, ev.kind, f.seq)
    BY <1>1, <2>1 DEF Host
  <2>4. CASE ev.kind \in {"spawned", "delta", "exited"}
    <3>1. r.emits.timelines = {ev.key}
      BY <1>4, <1>6, <2>4 DEF IsShown
    <3>2. Applied(s, ev.kind, f.seq).listed
      BY <1>1, <1>6, <2>4
         DEF IsUnknown, Applied, Upserted, Merged, Ended, Absent, Session
    <3> QED BY <2>2, <2>3, <3>1, <3>2 DEF TellsAll
  <2>5. CASE ev.kind \in {"hook", "note"}
    <3>1. r.emits.timelines = {}
      BY <1>4, <2>5 DEF IsShown
    <3>2. Applied(s, ev.kind, f.seq) = s
      BY <2>5 DEF Applied
    <3> QED BY <2>2, <2>3, <3>1, <3>2 DEF TellsAll
  <2> QED BY <1>1, <2>4, <2>5 DEF EventKinds
<1> QED BY <1>5, <1>6

LEMMA ApplyTellsAll ==
  ASSUME NEW h \in Host, NEW f \in Frame
  PROVE  TellsAll(h, Apply(h, f))
<1>1. CASE f \in HelloFrame
  BY <1>1, HelloTellsAll DEF Apply, HelloFrame
<1>2. CASE f \in GapFrame
  <2>1. Apply(h, f) = Result([h EXCEPT !.resume = "gap"], {}, {})
    BY <1>2 DEF Apply, GapFrame, OnGap
  <2>2. /\ Apply(h, f).host.sessions = h.sessions
        /\ Apply(h, f).emits.timelines = {}
    BY <2>1 DEF Result, Host
  <2> QED BY <2>2 DEF TellsAll
<1>3. CASE f \in SnapshotFrame
  BY <1>3, SnapshotTellsAll DEF Apply, SnapshotFrame
<1>4. CASE f \in EventFrame
  BY <1>4, EventTellsAll DEF Apply, EventFrame
<1>5. CASE f \in HeartbeatFrame
  <2>1. Apply(h, f) = Result(Advance(h, At(f.epoch, f.seq)), {}, {})
    BY <1>5 DEF Apply, HeartbeatFrame, OnHeartbeat
  <2>2. /\ Apply(h, f).host.sessions = h.sessions
        /\ Apply(h, f).emits.timelines = {}
    BY <2>1, AdvanceKeepsSessions DEF Result
  <2> QED BY <2>2 DEF TellsAll
<1> QED BY <1>1, <1>2, <1>3, <1>4, <1>5 DEF Frame

LEMMA ViewersStep == TypeOK /\ ViewersFollowHost /\ [Next]_vars => ViewersFollowHost'
<1> SUFFICES ASSUME TypeOK, ViewersFollowHost, [Next]_vars
             PROVE  ViewersFollowHost'
  OBVIOUS
<1>1. CASE Receive
  <2> DEFINE f == Head(wire)
             r == Apply(host, f)
  <2>1. host \in Host /\ f \in Frame
    BY <1>1, HeadOfWire DEF Receive, Reading, TypeOK
  <2>2. TellsAll(host, r)
    BY <2>1, ApplyTellsAll
  <2>3. host' = r.host /\ panels' = [k \in Keys |-> Told(host, r, k)]
    BY <1>1 DEF Receive
  <2> SUFFICES ASSUME NEW k \in Keys
               PROVE  LET s == r.host.sessions[k] p == Told(host, r, k) IN
                        /\ s.listed => p.shown /\ p.body = s.body
                        /\ ~s.listed /\ p.shown => p.ended
    BY <2>3 DEF ViewersFollowHost
  <2>4. panels[k] \in Panel
    BY DEF TypeOK
  <2>5. CASE k \in r.emits.timelines
    BY <2>2, <2>5 DEF TellsAll, Told
  <2>6. CASE k \notin r.emits.timelines
    <3>1. LET p == Told(host, r, k) IN
            /\ p.shown = panels[k].shown /\ p.body = panels[k].body
            /\ p.ended = (panels[k].ended \/ k \in r.emits.closed)
      BY <2>4, <2>6 DEF Told, Panel
    <3> QED BY <2>2, <2>6, <3>1 DEF TellsAll, ViewersFollowHost
  <2> QED BY <2>5, <2>6
<1>2. CASE Reattach
  BY <1>2 DEF Reattach, ViewersFollowHost, NewHost, Absent, NoPanel
<1>3. CASE UNCHANGED ViewVars
  BY <1>3 DEF ViewVars, ViewersFollowHost
<1> QED BY <1>1, <1>2, <1>3, ViewUntouched

(* Whatever is lost, reordered by a resync or forgotten on a restart, the    *)
(* viewers hold what the host holds, and none is left open on a session the  *)
(* host has dropped.                                                         *)
THEOREM ViewersTheorem == Spec => []ViewersFollowHost
<1>1. Init => ViewersFollowHost
  <2> SUFFICES ASSUME Init, NEW k \in Keys
               PROVE  ~host.sessions[k].listed /\ ~panels[k].shown
    BY DEF ViewersFollowHost
  <2>1. host.sessions[k] = Absent
    BY DEF Init, NewHost
  <2>2. panels[k] = NoPanel
    BY DEF Init
  <2> QED BY <2>1, <2>2 DEF Absent, NoPanel
<1> QED BY <1>1, TypeCorrect, ViewersStep, PTL DEF Spec

-----------------------------------------------------------------------------
(* The cursor never rewinds, "continued" is never shown while a loss is not  *)
(* made good, and a refusal stays.                                           *)

(* What a frame does to the host, but for its rows.                          *)

LEMMA AdvanceFact ==
  ASSUME NEW h \in Host, NEW c \in Cursor
  PROVE  LET d == Advance(h, c) IN
           /\ d.phase = h.phase /\ d.resync = h.resync /\ d.resume = h.resume
           /\ d.cursor = h.cursor \/ (d.cursor = c /\ ~Rewinds(h, c))
<1>1. CASE h.resync \/ Rewinds(h, c)
  BY <1>1 DEF Advance
<1>2. CASE ~(h.resync \/ Rewinds(h, c))
  <2>1. Advance(h, c) = [h EXCEPT !.cursor = c]
    BY <1>2 DEF Advance
  <2> QED BY <1>2, <2>1 DEF Host
<1> QED BY <1>1, <1>2

(* Only a Hello brings "continued", only a loss makes a resync owed, and the *)
(* cursor is kept, thrown away or moved to the frame's position, which does  *)
(* not lie behind it.                                                        *)
Follows(h, f, d) ==
  /\ d.phase \in {h.phase, "live"}
  /\ d.resync => h.resync
  /\ d.resume = "continued" /\ d.resync =>
       \/ h.resume = "continued"
       \/ f.t = "hello" /\ f.resume = "continued"
  /\ \/ d.cursor \in {h.cursor, NoCursor}
     \/ d.cursor = At(f.epoch, f.seq) /\ ~Rewinds(h, At(f.epoch, f.seq))

LEMMA EventFollows ==
  ASSUME NEW h \in Host, NEW f \in EventFrame
  PROVE  Follows(h, f, Apply(h, f).host)
<1> DEFINE n == Noted(h, f)
           c == At(f.epoch, f.seq)
<1>1. f.event.key \in Keys /\ f.event.kind \in EventKinds /\ c \in Cursor
      /\ f.seq \in Nat
  BY AtType DEF EventFrame, Event
<1>2. n \in Host /\ n.phase = h.phase /\ n.resync = h.resync
      /\ n.resume = h.resume /\ n.cursor = h.cursor
  <2>1. CASE IsUnknown(h, f.event)
    BY <1>1, <2>1 DEF Noted, ReportUnknown, Host, Tag
  <2>2. CASE ~IsUnknown(h, f.event)
    <3> DEFINE s == Applied(h.sessions[f.event.key], f.event.kind, f.seq)
               ss == [h.sessions EXCEPT ![f.event.key] = s]
    <3>1. s \in Session
      BY <1>1, AppliedType DEF Host
    <3>2. n = [h EXCEPT !.sessions = ss]
      BY <2>2 DEF Noted, Host
    <3>3. ss \in [Keys -> Session]
      <4> HIDE DEF s
      <4> QED BY <3>1 DEF Host
    <3> HIDE DEF s, ss, n
    <3> QED BY <3>2, <3>3 DEF Host
  <2> QED BY <2>1, <2>2
<1>3. Apply(h, f).host = Advance(n, c)
  BY DEF Apply, EventFrame, OnEvent, Result
<1>4. Rewinds(n, c) <=> Rewinds(h, c)
  BY <1>2 DEF Rewinds
<1> HIDE DEF n, c
<1>5. LET d == Advance(n, c) IN
        /\ d.phase = n.phase /\ d.resync = n.resync /\ d.resume = n.resume
        /\ d.cursor = n.cursor \/ (d.cursor = c /\ ~Rewinds(n, c))
  BY <1>1, <1>2, AdvanceFact
<1> QED BY <1>2, <1>3, <1>4, <1>5 DEF Follows, c

LEMMA SnapshotFollows ==
  ASSUME NEW h \in Host, NEW f \in SnapshotFrame
  PROVE  Follows(h, f, Apply(h, f).host)
<1> DEFINE n == Resynced(h, f)
           c == At(f.epoch, f.seq)
<1>1. c \in Cursor
  BY AtType DEF SnapshotFrame
<1>2. n \in Host /\ n.phase = h.phase /\ n.resync = FALSE
      /\ n.resume = h.resume /\ n.cursor = h.cursor
  <2>1. \A k \in Keys : Rebuilt(h.sessions[k], f.rows[k]) \in Session
    BY DEF Rebuilt, Host, SnapshotFrame, Row, Session
  <2>2. Absent \in Session
    BY DEF Absent, Session
  <2> QED BY <2>1, <2>2 DEF Resynced, Host
<1>3. Apply(h, f).host = Advance(n, c)
  BY DEF Apply, SnapshotFrame, OnSnapshot, Result
<1>4. Rewinds(n, c) <=> Rewinds(h, c)
  BY <1>2 DEF Rewinds
<1> HIDE DEF n, c
<1>5. LET d == Advance(n, c) IN
        /\ d.phase = n.phase /\ d.resync = n.resync /\ d.resume = n.resume
        /\ d.cursor = n.cursor \/ (d.cursor = c /\ ~Rewinds(n, c))
  BY <1>1, <1>2, AdvanceFact
<1> QED BY <1>2, <1>3, <1>4, <1>5 DEF Follows, c

LEMMA ApplyFollows ==
  ASSUME NEW h \in Host, NEW f \in Frame
  PROVE  Follows(h, f, Apply(h, f).host)
<1>1. CASE f \in HelloFrame
  <2>1. Apply(h, f).host =
          [(IF EpochChanges(h, f) THEN ForgetKeys(h) ELSE h)
             EXCEPT !.epoch = f.epoch, !.phase = "live", !.live = TRUE,
                    !.resume = f.resume]
    BY <1>1 DEF Apply, HelloFrame, OnHello, Result
  <2>2. CASE EpochChanges(h, f)
    <3> DEFINE g == ForgetKeys(h)
               d == [g EXCEPT !.epoch = f.epoch, !.phase = "live", !.live = TRUE,
                              !.resume = f.resume]
    <3>1. g.resync = h.resync /\ g.cursor = NoCursor
      BY DEF ForgetKeys, Host
    <3>2. d.phase = "live" /\ d.resume = f.resume /\ d.resync = h.resync
          /\ d.cursor = NoCursor
      BY <3>1 DEF ForgetKeys, Host
    <3>3. Apply(h, f).host = d
      BY <2>1, <2>2
    <3> HIDE DEF d
    <3> QED BY <1>1, <3>2, <3>3 DEF Follows, HelloFrame
  <2>3. CASE ~EpochChanges(h, f)
    BY <1>1, <2>1, <2>3 DEF Follows, Host, HelloFrame
  <2> QED BY <2>2, <2>3
<1>2. CASE f \in GapFrame
  <2>1. Apply(h, f).host = [h EXCEPT !.resume = "gap"]
    BY <1>2 DEF Apply, GapFrame, OnGap, Result
  <2> QED BY <2>1 DEF Follows, Host
<1>3. CASE f \in SnapshotFrame
  BY <1>3, SnapshotFollows
<1>4. CASE f \in EventFrame
  BY <1>4, EventFollows
<1>5. CASE f \in HeartbeatFrame
  <2>1. Apply(h, f).host = Advance(h, At(f.epoch, f.seq))
    BY <1>5 DEF Apply, HeartbeatFrame, OnHeartbeat, Result
  <2>2. At(f.epoch, f.seq) \in Cursor
    BY <1>5, AtType DEF HeartbeatFrame
  <2> QED BY <2>1, <2>2, AdvanceFact DEF Follows
<1> QED BY <1>1, <1>2, <1>3, <1>4, <1>5 DEF Frame

-----------------------------------------------------------------------------
(* The inductive invariant: between two attempts there is no connection; one *)
(* connection carries the frames of one incarnation, no older than the       *)
(* cursor's, behind at most one Hello; and who owes a resync asks from       *)
(* nowhere, so that no daemon answers "continued".                           *)

Idle == pc # "reading" => conn = NoConn /\ wire = <<>>
FailedIsStopped == host.phase = "failed" => pc = "stopped"
DialsInSilence ==
  conn.state = "dialing" => wire = <<>> /\ (host.resync => conn.at = NoCursor)
HelloComesFirst ==
  \A i \in DOMAIN wire : wire[i].t = "hello" =>
    i = 1 /\ (wire[i].resume = "continued" => ~host.resync)
OneEpoch == \A i, j \in DOMAIN wire : wire[i].epoch = wire[j].epoch
ServesTheRunning ==
  conn.state = "open" => \A i \in DOMAIN wire : wire[i].epoch = depoch
CursorBehind ==
  /\ host.cursor.epoch <= depoch
  /\ \A i \in DOMAIN wire :
       host.cursor.epoch <= wire[i].epoch /\ wire[i].epoch <= depoch

LinkInv ==
  /\ Idle /\ FailedIsStopped /\ DialsInSilence
  /\ HelloComesFirst /\ OneEpoch /\ ServesTheRunning /\ CursorBehind
  /\ ContinuedMeansComplete

LEMMA EpochsAreNat ==
  ASSUME TypeOK
  PROVE  /\ depoch \in Nat /\ depoch > 0 /\ host.cursor.epoch \in Nat
         /\ \A i \in DOMAIN wire : wire[i] \in Frame
         /\ \A f \in Frame : f.epoch \in Nat /\ f.epoch > 0
<1>1. depoch \in Nat /\ depoch > 0 /\ host.cursor.epoch \in Nat
  BY MaxEpochAssumption DEF TypeOK, Epochs, Host, Cursor
<1>2. \A i \in DOMAIN wire : wire[i] \in Frame
  BY DEF TypeOK
<1>3. ASSUME NEW f \in Frame PROVE f.epoch \in Epochs
  BY <1>3 DEF Frame, HelloFrame, GapFrame, SnapshotFrame, EventFrame,
              HeartbeatFrame
<1> QED BY <1>1, <1>2, <1>3, MaxEpochAssumption DEF Epochs

LEMMA InitLink == Init => LinkInv
<1> SUFFICES ASSUME Init PROVE LinkInv
  OBVIOUS
<1>1. DOMAIN wire = {} /\ conn = NoConn /\ wire = <<>> /\ depoch = 1
  BY DEF Init
<1>2. /\ host.phase = "idle" /\ host.resync = FALSE /\ host.resume = "none"
      /\ host.cursor.epoch = 0
  BY DEF Init, NewHost, NoCursor
<1> QED BY <1>1, <1>2
        DEF LinkInv, Idle, FailedIsStopped, DialsInSilence, HelloComesFirst,
            OneEpoch, ServesTheRunning, CursorBehind, ContinuedMeansComplete,
            NoConn

(* The connection is thrown away: whatever it carried goes with it.          *)
LEMMA TornDown ==
  ASSUME TypeOK, Teardown, UNCHANGED depoch,
         host'.phase = "failed" => pc' = "stopped",
         host'.cursor.epoch <= depoch, ContinuedMeansComplete'
  PROVE  LinkInv'
<1>1. DOMAIN wire' = {} /\ conn' = NoConn /\ wire' = <<>>
  BY DEF Teardown
<1> QED BY <1>1
        DEF LinkInv, Idle, FailedIsStopped, DialsInSilence, HelloComesFirst,
            OneEpoch, ServesTheRunning, CursorBehind, NoConn

(* What a loss and the end of an attempt do to the host.                     *)
LEMMA HostFacts ==
  ASSUME NEW h \in Host
  PROVE  /\ \A p \in Phases : LET d == Fail(h, p) IN
              /\ d.phase = p /\ d.resync = h.resync /\ d.resume = h.resume
              /\ d.cursor = h.cursor
         /\ LET d == OnLocalLoss(h) IN
              /\ d.phase = h.phase /\ d.resume = "gap" /\ d.cursor = h.cursor
         /\ LET d == NoteAttempt(h) IN
              /\ d.phase = "connecting" /\ d.resync = h.resync
              /\ d.resume = h.resume /\ d.cursor = h.cursor
<1>1. \A p \in Phases : LET d == Fail(h, p) IN
        /\ d.phase = p /\ d.resync = h.resync /\ d.resume = h.resume
        /\ d.cursor = h.cursor
  BY DEF Fail, Host
<1>2. LET d == OnLocalLoss(h) IN
        /\ d.phase = h.phase /\ d.resume = "gap" /\ d.cursor = h.cursor
  BY DEF OnLocalLoss, Host
<1>3. LET d == NoteAttempt(h) IN
        /\ d.phase = "connecting" /\ d.resync = h.resync
        /\ d.resume = h.resume /\ d.cursor = h.cursor
  BY DEF NoteAttempt, Host
<1> QED BY <1>1, <1>2, <1>3

LEMMA EndOfAttachLink ==
  ASSUME TypeOK, LinkInv, NEW h \in {host, OnLocalLoss(host)},
         Retry(h) \/ GiveUp(h), UNCHANGED depoch
  PROVE  LinkInv'
<1>1. host \in Host /\ h \in Host /\ h.cursor = host.cursor
  BY LossType, HostFacts DEF TypeOK
<1>2. h.resume = "continued" => ~h.resync
  BY <1>1, HostFacts DEF LinkInv, ContinuedMeansComplete, TypeOK
<1>3. PICK p \in Phases :
        /\ host' = Fail(h, p) /\ Teardown
        /\ p = "failed" => pc' = "stopped"
  BY DEF Retry, GiveUp, Phases
<1>4. /\ host'.phase = p /\ host'.cursor = host.cursor
      /\ ContinuedMeansComplete'
  BY <1>1, <1>2, <1>3, HostFacts DEF ContinuedMeansComplete
<1> QED BY <1>3, <1>4, TornDown DEF LinkInv, CursorBehind

LEMMA HeadIsFirst ==
  ASSUME wire \in Seq(Frame), wire # <<>>
  PROVE  /\ 1 \in DOMAIN wire /\ Head(wire) = wire[1]
         /\ \A i \in DOMAIN Tail(wire) :
              i > 0 /\ i + 1 \in DOMAIN wire /\ Tail(wire)[i] = wire[i + 1]
<1>1. Len(wire) \in Nat /\ Len(wire) > 0 /\ DOMAIN wire = 1..Len(wire)
  BY EmptySeq, LenProperties
<1>2. Len(Tail(wire)) = Len(wire) - 1 /\ Tail(wire) \in Seq(Frame)
      /\ \A i \in 1..(Len(wire) - 1) : Tail(wire)[i] = wire[i + 1]
  BY HeadTailProperties
<1> QED BY <1>1, <1>2

(* A frame is read, applied or lost; the others stay.                        *)
LEMMA FrameRead ==
  ASSUME TypeOK, LinkInv, wire # <<>>, wire' = Tail(wire), pc = "reading",
         UNCHANGED <<depoch, conn, pc>>,
         host'.phase \in {host.phase, "live"},
         ContinuedMeansComplete',
         host'.cursor.epoch \in {0, host.cursor.epoch, Head(wire).epoch}
  PROVE  LinkInv'
<1>1. wire \in Seq(Frame)
  BY DEF TypeOK
<1>2. /\ 1 \in DOMAIN wire /\ Head(wire) = wire[1]
      /\ \A i \in DOMAIN wire' :
           i > 0 /\ i + 1 \in DOMAIN wire /\ wire'[i] = wire[i + 1]
  BY <1>1, HeadIsFirst
<1>3. Idle' /\ FailedIsStopped' /\ DialsInSilence'
  BY DEF LinkInv, Idle, FailedIsStopped, DialsInSilence
<1>4. HelloComesFirst'
  <2>1. \A i \in DOMAIN wire' : i \in Nat
    BY <1>1, HeadTailProperties, LenProperties
  <2>2. \A i \in DOMAIN wire' : wire'[i].t # "hello"
    BY <1>2, <2>1 DEF LinkInv, HelloComesFirst
  <2> QED BY <2>2 DEF HelloComesFirst
<1>5. OneEpoch' /\ ServesTheRunning'
  BY <1>2 DEF LinkInv, OneEpoch, ServesTheRunning
<1>6. CursorBehind'
  BY <1>2, EpochsAreNat DEF LinkInv, CursorBehind, OneEpoch
<1> QED BY <1>3, <1>4, <1>5, <1>6 DEF LinkInv

(* What is in flight is cut off, and the connection is no longer served.     *)
LEMMA CutOff ==
  ASSUME TypeOK, LinkInv, NEW state \in {"closed", "silent"}, Lose(state),
         conn.state \in {"dialing", "open"}, UNCHANGED linkVars,
         depoch' \in Nat, depoch' >= depoch
  PROVE  LinkInv'
<1>1. pc = "reading"
  BY DEF LinkInv, Idle, NoConn
<1>2. conn'.state = state
  BY DEF Lose, TypeOK
<1>3. \A i \in DOMAIN wire' : i \in DOMAIN wire /\ wire'[i] = wire[i]
  <2>1. PICK n \in 0..Len(wire) : wire' = SubSeq(wire, 1, n)
    BY DEF Lose
  <2>2. wire \in Seq(Frame) /\ Len(wire) \in Nat /\ DOMAIN wire = 1..Len(wire)
    BY LenProperties DEF TypeOK
  <2>3. \A i \in 1..n : wire[i] \in Frame
    BY <2>2
  <2>4. Len(wire') = n /\ wire' \in Seq(Frame)
        /\ \A i \in 1..n : wire'[i] = wire[i]
    BY <2>1, <2>2, <2>3, SubSeqProperties
  <2> QED BY <2>2, <2>4
<1>4. Idle' /\ FailedIsStopped' /\ DialsInSilence' /\ ServesTheRunning'
  BY <1>1, <1>2
     DEF LinkInv, Idle, FailedIsStopped, DialsInSilence, ServesTheRunning, linkVars
<1>5. HelloComesFirst' /\ OneEpoch'
  BY <1>3 DEF LinkInv, HelloComesFirst, OneEpoch, linkVars
<1>6. CursorBehind'
  BY <1>3, EpochsAreNat DEF LinkInv, CursorBehind, linkVars
<1>7. ContinuedMeansComplete'
  BY DEF LinkInv, ContinuedMeansComplete, linkVars
<1> QED BY <1>4, <1>5, <1>6, <1>7 DEF LinkInv

(* The daemon writes behind what is in flight, or answers an exec: one Hello *)
(* at most, and first.                                                       *)
LEMMA Written ==
  ASSUME TypeOK, LinkInv, UNCHANGED <<depoch, linkVars>>,
         conn.state \in {"dialing", "open"}, conn'.state = "open",
         \A i \in DOMAIN wire' :
           \/ i \in DOMAIN wire /\ wire'[i] = wire[i]
           \/ /\ wire'[i].epoch = depoch
              /\ wire'[i].t = "hello" =>
                   i = 1 /\ (wire'[i].resume = "continued" => ~host.resync)
  PROVE  LinkInv'
<1>1. pc = "reading"
  BY DEF LinkInv, Idle, NoConn
<1>2. \A i \in DOMAIN wire : wire[i].epoch = depoch
  <2>1. CASE conn.state = "open"
    BY <2>1 DEF LinkInv, ServesTheRunning
  <2>2. CASE conn.state = "dialing"
    BY <2>2 DEF LinkInv, DialsInSilence
  <2> QED BY <2>1, <2>2
<1>3. \A i \in DOMAIN wire' : wire'[i].epoch = depoch
  BY <1>2
<1>4. Idle' /\ FailedIsStopped' /\ DialsInSilence' /\ ContinuedMeansComplete'
  BY <1>1 DEF LinkInv, Idle, FailedIsStopped, DialsInSilence,
              ContinuedMeansComplete, linkVars
<1>5. OneEpoch' /\ ServesTheRunning'
  BY <1>3 DEF OneEpoch, ServesTheRunning
<1>6. CursorBehind'
  BY <1>3, EpochsAreNat DEF LinkInv, CursorBehind, linkVars
<1>7. HelloComesFirst'
  BY DEF LinkInv, HelloComesFirst, linkVars
<1> QED BY <1>4, <1>5, <1>6, <1>7 DEF LinkInv

LEMMA OpenStreamLink ==
  ASSUME TypeOK, LinkInv, OpenStream
  PROVE  LinkInv'
<1>1. conn.state = "dialing" /\ conn \in [state : ConnStates, at : Cursor]
  BY DEF OpenStream, TypeOK
<1>2. UNCHANGED <<depoch, linkVars>> /\ conn'.state = "open"
  BY <1>1 DEF OpenStream, daemonVars
<1>3. \A i \in DOMAIN wire' :
        /\ wire'[i].epoch = depoch
        /\ wire'[i].t = "hello" =>
             i = 1 /\ (wire'[i].resume = "continued" => ~host.resync)
  <2>1. CASE Honoured(conn.at)
    <3>1. conn.at # NoCursor
      BY <2>1, EpochsAreNat DEF Honoured, NoCursor
    <3>2. ~host.resync
      BY <1>1, <3>1 DEF LinkInv, DialsInSilence
    <3>3. wire' = <<Hello("continued", conn.at.seq)>>
      BY <2>1 DEF OpenStream
    <3> QED BY <3>2, <3>3 DEF Hello
  <2>2. CASE ~Honoured(conn.at)
    <3>1. PICK o \in Omissions :
            wire' = IF conn.at = NoCursor
                      THEN <<Hello("fresh", 0), SnapshotOf(o)>>
                      ELSE <<Hello("gap", 0), Gap(0), SnapshotOf(o)>>
      BY <2>2 DEF OpenStream
    <3>2. CASE conn.at = NoCursor
      <4>1. DOMAIN wire' = 1..2 /\ wire'[1] = Hello("fresh", 0)
            /\ wire'[2] = SnapshotOf(o)
        BY <3>1, <3>2
      <4>2. \A i \in 1..2 : i = 1 \/ i = 2
        OBVIOUS
      <4> QED BY <4>1, <4>2 DEF Hello, SnapshotOf
    <3>3. CASE conn.at # NoCursor
      <4>1. DOMAIN wire' = 1..3 /\ wire'[1] = Hello("gap", 0)
            /\ wire'[2] = Gap(0) /\ wire'[3] = SnapshotOf(o)
        BY <3>1, <3>3
      <4>2. \A i \in 1..3 : i = 1 \/ i = 2 \/ i = 3
        OBVIOUS
      <4> QED BY <4>1, <4>2 DEF Hello, Gap, SnapshotOf
    <3> QED BY <3>2, <3>3
  <2> QED BY <2>1, <2>2
<1> QED BY <1>1, <1>2, <1>3, Written

LEMMA SendLink ==
  ASSUME TypeOK, LinkInv, SendEvent \/ SendResync \/ SendHeartbeat
  PROVE  LinkInv'
<1>1. conn.state = "open" /\ conn'.state = "open" /\ UNCHANGED <<depoch, linkVars>>
  BY DEF SendEvent, SendResync, SendHeartbeat, TypeOK, daemonVars
<1>2. wire \in Seq(Frame) /\ Len(wire) \in Nat /\ DOMAIN wire = 1..Len(wire)
  BY LenProperties DEF TypeOK
<1>3. \A i \in DOMAIN wire' :
        \/ i \in DOMAIN wire /\ wire'[i] = wire[i]
        \/ wire'[i].epoch = depoch /\ wire'[i].t # "hello"
  <2>1. CASE SendEvent
    <3>1. PICK f : wire' = Append(wire, f) /\ f.epoch = depoch /\ f.t # "hello"
      BY <2>1 DEF SendEvent
    <3>3. Len(wire') = Len(wire) + 1 /\ DOMAIN wire' = 1..(Len(wire) + 1)
          /\ \A i \in 1..Len(wire) : wire'[i] = wire[i]
          /\ wire'[Len(wire) + 1] = f
      BY <1>2, <3>1
    <3>4. \A i \in DOMAIN wire' : i \in DOMAIN wire \/ i = Len(wire) + 1
      BY <1>2, <3>3
    <3>5. wire'[Len(wire) + 1].epoch = depoch /\ wire'[Len(wire) + 1].t # "hello"
      BY <3>1, <3>3
    <3>6. \A i \in DOMAIN wire : wire'[i] = wire[i]
      BY <1>2, <3>3
    <3> QED BY <3>4, <3>5, <3>6
  <2>2. CASE SendResync
    <3>1. PICK o \in Omissions : wire' = wire \o <<Gap(conn.at.seq), SnapshotOf(o)>>
      BY <2>2 DEF SendResync
    <3> DEFINE s == <<Gap(conn.at.seq), SnapshotOf(o)>>
    <3>2. \A i \in {1, 2} : s[i].epoch = depoch /\ s[i].t # "hello"
      BY DEF Gap, SnapshotOf
    <3>3. Len(s) = 2 /\ wire' = wire \o s
      BY <3>1
    <3>4. s \in Seq(Frame)
      BY FrameTypes DEF TypeOK, Cursor
    <3> HIDE DEF s
    <3>5. /\ DOMAIN wire' = 1..(Len(wire) + 2)
          /\ \A i \in 1..(Len(wire) + 2) :
               wire'[i] = IF i <= Len(wire) THEN wire[i] ELSE s[i - Len(wire)]
      <4>1. /\ wire' \in Seq(Frame) /\ Len(wire') = Len(wire) + Len(s)
            /\ \A i \in 1..(Len(wire) + Len(s)) :
                 wire'[i] = IF i <= Len(wire) THEN wire[i] ELSE s[i - Len(wire)]
        BY <1>2, <3>3, <3>4, ConcatProperties
      <4> QED BY <3>3, <4>1, LenProperties
    <3>6. \A i \in DOMAIN wire' :
            i \in DOMAIN wire \/ (i > Len(wire) /\ i - Len(wire) \in {1, 2})
      BY <1>2, <3>5
    <3> QED BY <1>2, <3>2, <3>5, <3>6
  <2>3. CASE SendHeartbeat
    <3>1. PICK n \in 0..Head_ :
            wire' = <<[t |-> "heartbeat", epoch |-> depoch, seq |-> n]>>
      BY <2>3 DEF SendHeartbeat
    <3> QED BY <3>1
  <2> QED BY <2>1, <2>2, <2>3
<1> QED BY <1>1, <1>3, Written

LEMMA OutsideLink == TypeOK /\ LinkInv /\ (Daemon \/ Transport) => LinkInv'
<1> SUFFICES ASSUME TypeOK, LinkInv, Daemon \/ Transport PROVE LinkInv'
  OBVIOUS
<1>1. ASSUME UNCHANGED <<depoch, conn, wire, linkVars>> PROVE LinkInv'
  BY <1>1 DEF LinkInv, Idle, FailedIsStopped, DialsInSilence, HelloComesFirst,
              OneEpoch, ServesTheRunning, CursorBehind, ContinuedMeansComplete,
              linkVars
<1>2. ASSUME NEW kind \in Kinds, NEW k \in Keys, Emit(kind, k) \/ Prune(k)
      PROVE  LinkInv'
  BY <1>1, <1>2 DEF Emit, Prune
<1>3. ASSUME NEW k \in Keys, Prune(k) PROVE LinkInv'
  BY <1>1, <1>3 DEF Prune
<1>4. CASE Restart
  <2>1. depoch' \in Nat /\ depoch' >= depoch /\ UNCHANGED linkVars
    BY <1>4, EpochsAreNat DEF Restart
  <2>2. CASE conn.state \in {"dialing", "open"}
    BY <1>4, <2>1, <2>2, CutOff DEF Restart
  <2>3. CASE conn.state \notin {"dialing", "open"}
    <3>1. UNCHANGED <<conn, wire>>
      BY <1>4, <2>3 DEF Restart
    <3>2. CursorBehind'
      BY <2>1, <3>1, EpochsAreNat DEF LinkInv, CursorBehind, linkVars
    <3> QED BY <2>1, <2>3, <3>1, <3>2
            DEF LinkInv, Idle, FailedIsStopped, DialsInSilence, HelloComesFirst,
                OneEpoch, ServesTheRunning, ContinuedMeansComplete, linkVars
  <2> QED BY <2>2, <2>3
<1>5. CASE Disconnect \/ Vanish
  <2>1. depoch' \in Nat /\ depoch' >= depoch /\ UNCHANGED linkVars
    BY <1>5, EpochsAreNat DEF Disconnect, Vanish, daemonVars
  <2> QED BY <1>5, <2>1, CutOff DEF Disconnect, Vanish
<1> QED BY <1>2, <1>3, <1>4, <1>5, OpenStreamLink, SendLink DEF Daemon, Transport

LEMMA ReceiveLink ==
  ASSUME TypeOK, LinkInv, Receive
  PROVE  LinkInv' /\ Follows(host, Head(wire), host')
<1> DEFINE f == Head(wire)
<1>1. /\ pc = "reading" /\ wire # <<>> /\ wire \in Seq(Frame)
      /\ host \in Host /\ f \in Frame
  BY HeadOfWire DEF Receive, Reading, TypeOK
<1>2. /\ host' = Apply(host, f).host /\ wire' = Tail(wire)
      /\ UNCHANGED <<depoch, conn, pc>>
  BY DEF Receive, daemonVars
<1>3. Follows(host, f, host')
  BY <1>1, <1>2, ApplyFollows
<1>4. ContinuedMeansComplete'
  <2>1. f.t = "hello" /\ f.resume = "continued" => ~host.resync
    BY <1>1, HeadIsFirst DEF LinkInv, HelloComesFirst
  <2> QED BY <1>3, <2>1 DEF Follows, ContinuedMeansComplete, LinkInv
<1>5. host'.cursor.epoch \in {0, host.cursor.epoch, f.epoch}
  BY <1>3 DEF Follows, NoCursor, At
<1>6. host'.phase \in {host.phase, "live"}
  BY <1>3 DEF Follows
<1>7. LinkInv'
  BY <1>1, <1>2, <1>4, <1>5, <1>6, FrameRead
<1> QED BY <1>3, <1>7

LEMMA LossLink ==
  ASSUME TypeOK, LinkInv, ReceiveUnreadable \/ ReceiveOversized
  PROVE  LinkInv'
<1> DEFINE h == OnLocalLoss(host)
<1>1. UNCHANGED depoch
  BY DEF ReceiveUnreadable, ReceiveOversized, daemonVars
<1>2. CASE Retry(h) \/ GiveUp(h)
  BY <1>1, <1>2, EndOfAttachLink
<1>3. CASE /\ Reading /\ host' = h /\ wire' = Tail(wire)
           /\ UNCHANGED <<conn, pc, backoff, cancel, panels>>
  <2>1. /\ host'.phase = host.phase /\ host'.resume = "gap"
        /\ host'.cursor = host.cursor
    BY <1>3, HostFacts DEF TypeOK
  <2> QED BY <1>1, <1>3, <2>1, FrameRead DEF Reading, ContinuedMeansComplete
<1> QED BY <1>2, <1>3 DEF ReceiveUnreadable, ReceiveOversized

LEMMA LinkThreadLink == TypeOK /\ LinkInv /\ LinkThread => LinkInv'
<1> SUFFICES ASSUME TypeOK, LinkInv, LinkThread PROVE LinkInv'
  OBVIOUS
<1>0. host \in Host
  BY DEF TypeOK
<1>1. CASE Attempt
  <2>1. /\ pc = "top" /\ wire = <<>> /\ wire' = wire /\ pc' = "reading"
        /\ UNCHANGED depoch
        /\ conn' = [state |-> "dialing", at |-> HandedOut(host)]
    BY <1>1 DEF Attempt, LinkInv, Idle, daemonVars
  <2>2. /\ host'.phase = "connecting" /\ host'.resync = host.resync
        /\ host'.resume = host.resume /\ host'.cursor = host.cursor
    BY <1>0, <1>1, HostFacts DEF Attempt
  <2>3. DOMAIN wire' = {}
    BY <2>1
  <2>4. DialsInSilence'
    BY <2>1, <2>2 DEF DialsInSilence, HandedOut
  <2> QED BY <2>1, <2>2, <2>3, <2>4
          DEF LinkInv, Idle, FailedIsStopped, HelloComesFirst, OneEpoch,
              ServesTheRunning, CursorBehind, ContinuedMeansComplete
<1>2. CASE WakeUp
  BY <1>2 DEF WakeUp, LinkInv, Idle, FailedIsStopped, DialsInSilence,
              HelloComesFirst, OneEpoch, ServesTheRunning, CursorBehind,
              ContinuedMeansComplete, daemonVars
<1>3. CASE Cancelled
  <2>1. host'.phase = "idle" /\ host'.resync = host.resync
        /\ host'.resume = host.resume /\ host'.cursor = host.cursor
    BY <1>0, <1>3, HostFacts DEF Cancelled, Phases
  <2>2. ContinuedMeansComplete' /\ host'.cursor.epoch <= depoch
    BY <2>1 DEF LinkInv, ContinuedMeansComplete, CursorBehind
  <2> QED BY <1>3, <2>1, <2>2, TornDown DEF Cancelled, daemonVars
<1>4. CASE Receive
  BY <1>4, ReceiveLink
<1>5. CASE ReceiveUnreadable \/ ReceiveOversized
  BY <1>5, LossLink
<1>6. CASE \/ ReceiveForeign \/ SeedOverflow \/ StreamEnded \/ Refused
           \/ HelloDeadline \/ Stale
  <2>1. (Retry(host) \/ GiveUp(host)) /\ UNCHANGED depoch
    BY <1>6 DEF ReceiveForeign, SeedOverflow, StreamEnded, Refused,
                HelloDeadline, Stale, daemonVars
  <2> QED BY <2>1, EndOfAttachLink
<1> QED BY <1>1, <1>2, <1>3, <1>4, <1>5, <1>6 DEF LinkThread

LEMMA UserLink == TypeOK /\ LinkInv /\ (Stop \/ Reattach) => LinkInv'
<1> SUFFICES ASSUME TypeOK, LinkInv, Stop \/ Reattach PROVE LinkInv'
  OBVIOUS
<1>1. UNCHANGED <<depoch, conn, wire>>
  BY DEF Stop, Reattach, daemonVars
<1>2. CASE Stop
  <2>1. /\ pc' = pc /\ host'.phase \in {host.phase, "idle"}
        /\ host'.resync = host.resync /\ host'.resume = host.resume
        /\ host'.cursor = host.cursor
    BY <1>2, HostFacts DEF Stop, Phases, TypeOK
  <2> QED BY <1>1, <2>1
          DEF LinkInv, Idle, FailedIsStopped, DialsInSilence, HelloComesFirst,
              OneEpoch, ServesTheRunning, CursorBehind, ContinuedMeansComplete
<1>3. CASE Reattach
  <2>1. conn' = NoConn /\ wire' = <<>> /\ DOMAIN wire' = {}
    BY <1>1, <1>3 DEF Reattach, LinkInv, Idle
  <2>2. /\ host'.phase = "idle" /\ host'.resync = FALSE
        /\ host'.resume = "none" /\ host'.cursor.epoch = 0
    BY <1>3 DEF Reattach, NewHost, NoCursor
  <2> QED BY <1>1, <2>1, <2>2, EpochsAreNat
          DEF LinkInv, Idle, FailedIsStopped, DialsInSilence, HelloComesFirst,
              OneEpoch, ServesTheRunning, CursorBehind, ContinuedMeansComplete,
              NoConn
<1> QED BY <1>2, <1>3

LEMMA NextLink == TypeOK /\ LinkInv /\ [Next]_vars => LinkInv'
<1>1. TypeOK /\ LinkInv /\ UNCHANGED vars => LinkInv'
  BY DEF vars, LinkInv, Idle, FailedIsStopped, DialsInSilence, HelloComesFirst,
         OneEpoch, ServesTheRunning, CursorBehind, ContinuedMeansComplete
<1> QED BY <1>1, OutsideLink, LinkThreadLink, UserLink DEF Next

(* The inductive invariant of the link.                                      *)
THEOREM LinkTheorem == Spec => [](TypeOK /\ LinkInv)
BY InitType, NextType, InitLink, NextLink, PTL DEF Spec

-----------------------------------------------------------------------------
(* The theorems.                                                             *)

(* "Continued" is never on the screen while a loss is not made good: who     *)
(* owes a resync hands out no cursor, so no daemon's Hello can say it, and a *)
(* loss takes it away (on_local_loss, on_hello).                             *)
THEOREM ContinuedTheorem == Spec => []ContinuedMeansComplete
BY LinkTheorem, PTL DEF LinkInv

(* A step of CursorNeverRewinds, and of RefusalStays.                        *)
CursorStep ==
  LET c == host.cursor d == host'.cursor IN
    ~Reattach => \/ d = NoCursor
                 \/ d.epoch > c.epoch
                 \/ d.epoch = c.epoch /\ d.seq >= c.seq

RefusalStep ==
  host.phase = "failed" =>
    \/ host'.phase = "failed" /\ conn' = NoConn
    \/ Stop \/ Reattach

(* The cursor of an attachment never goes back, whatever is lost, however    *)
(* often the daemon restarts and whatever position a heartbeat carries       *)
(* (advance_cursor).                                                         *)
THEOREM CursorTheorem == Spec => CursorNeverRewinds
<1>1. TypeOK /\ LinkInv /\ [Next]_vars => CursorStep
  <2> SUFFICES ASSUME TypeOK, LinkInv, [Next]_vars, ~Reattach
               PROVE  CursorStep
    BY DEF CursorStep
  <2>0. host \in Host /\ host.cursor.epoch \in Nat /\ host.cursor.seq \in Nat
    BY DEF TypeOK, Host, Cursor
  <2>1. CASE Receive
    <3> DEFINE f == Head(wire)
    <3>1. Follows(host, f, host')
      BY <2>1, ReceiveLink
    <3>2. f \in Frame /\ host.cursor.epoch <= f.epoch
      <4>1. wire \in Seq(Frame) /\ wire # <<>>
        BY <2>1 DEF Receive, Reading, TypeOK
      <4> QED BY <4>1, HeadOfWire, HeadIsFirst DEF LinkInv, CursorBehind
    <3>3. f.epoch \in Nat /\ f.seq \in Nat
      BY <3>2, EpochsAreNat
         DEF Frame, HelloFrame, GapFrame, SnapshotFrame, EventFrame,
             HeartbeatFrame
    <3>4. CASE host'.cursor \in {host.cursor, NoCursor}
      BY <2>0, <3>4 DEF CursorStep
    <3>5. CASE /\ host'.cursor = At(f.epoch, f.seq)
               /\ ~Rewinds(host, At(f.epoch, f.seq))
      BY <2>0, <3>2, <3>3, <3>5 DEF CursorStep, At, Rewinds
    <3> QED BY <3>1, <3>4, <3>5 DEF Follows
  <2>2. CASE ~Receive
    <3>1. host'.cursor = host.cursor
      <4>1. ASSUME NEW h \in {host, OnLocalLoss(host)}, Retry(h) \/ GiveUp(h)
            PROVE  host'.cursor = host.cursor
        <5>1. h \in Host /\ h.cursor = host.cursor
          BY <2>0, LossType, HostFacts
        <5> QED BY <4>1, <5>1, HostFacts DEF Retry, GiveUp, Phases
      <4>2. CASE Daemon \/ Transport
        BY <4>2 DEF Daemon, Transport, Emit, Prune, Restart, OpenStream, SendEvent,
                    SendResync, SendHeartbeat, Disconnect, Vanish, linkVars
      <4>3. CASE Attempt \/ WakeUp \/ Cancelled \/ Stop
        BY <2>0, <4>3, HostFacts DEF Attempt, WakeUp, Cancelled, Stop, Phases
      <4>4. CASE ReceiveUnreadable \/ ReceiveOversized
        BY <2>0, <4>1, <4>4, HostFacts DEF ReceiveUnreadable, ReceiveOversized
      <4>5. CASE \/ ReceiveForeign \/ SeedOverflow \/ StreamEnded \/ Refused
                 \/ HelloDeadline \/ Stale
        BY <4>1, <4>5 DEF ReceiveForeign, SeedOverflow, StreamEnded, Refused,
                          HelloDeadline, Stale
      <4>6. CASE UNCHANGED vars
        BY <4>6 DEF vars
      <4> QED BY <2>2, <4>2, <4>3, <4>4, <4>5, <4>6 DEF Next, LinkThread
    <3> QED BY <2>0, <3>1 DEF CursorStep
  <2> QED BY <2>1, <2>2
<1>2. Spec => [][CursorStep]_vars
  BY <1>1, LinkTheorem, PTL DEF Spec
<1> QED BY <1>2 DEF CursorNeverRewinds, CursorStep

(* Once the link has given up, nothing but the user changes what the screen  *)
(* says, and no connection is attempted (the end of run).                    *)
THEOREM RefusalTheorem == Spec => RefusalStays
<1>1. TypeOK /\ LinkInv /\ [Next]_vars => RefusalStep
  <2> SUFFICES ASSUME LinkInv, [Next]_vars, host.phase = "failed",
                      ~Stop, ~Reattach
               PROVE  host' = host /\ conn' = conn
    BY DEF RefusalStep, LinkInv, Idle, FailedIsStopped
  <2>1. pc = "stopped" /\ conn.state = "none"
    BY DEF LinkInv, Idle, FailedIsStopped, NoConn
  <2>2. ~LinkThread
    BY <2>1 DEF LinkThread, Attempt, WakeUp, Cancelled, Receive, ReceiveForeign,
                ReceiveUnreadable, ReceiveOversized, SeedOverflow, StreamEnded,
                Refused, HelloDeadline, Stale, Reading
  <2>3. CASE Daemon
    BY <2>1, <2>3 DEF Daemon, Emit, Prune, Restart, linkVars
  <2>4. ~Transport
    BY <2>1 DEF Transport, OpenStream, SendEvent, SendResync, SendHeartbeat,
                Disconnect, Vanish
  <2>5. CASE UNCHANGED vars
    BY <2>5 DEF vars
  <2> QED BY <2>2, <2>3, <2>4, <2>5 DEF Next
<1>2. Spec => [][RefusalStep]_vars
  BY <1>1, LinkTheorem, PTL DEF Spec
<1> QED BY <1>2 DEF RefusalStays, RefusalStep

-----------------------------------------------------------------------------
(* The inductive invariant, on top of LinkInv: what is known of the log, of  *)
(* the rows, and of the frames on their way, up to the position the host     *)
(* stands at or will stand at when it has read them.                         *)

(* A session is born once, and does nothing before its birth nor after its   *)
(* end.                                                                      *)
LivesOnce(e, j, k) ==
  /\ log[e][j] = [kind |-> "spawned", key |-> k] => ~Spawned(e, j - 1, k)
  /\ \A kind \in {"delta", "hook", "exited"} :
       log[e][j] = [kind |-> kind, key |-> k] =>
         Spawned(e, j - 1, k) /\ ~Exited(e, j - 1, k)

LifeIsOrdered ==
  \A e \in Epochs : \A j \in 1..Len(log[e]) : \A k \in Keys : LivesOnce(e, j, k)

PrunedHaveEnded == \A k \in pruned : Exited(depoch, Head_, k)

(* RowIsExact of a row s, and what makes it inductive: only a finished       *)
(* session's body is left out.                                               *)
Exact(s, k, e, n) ==
  /\ s.listed =>
       /\ Spawned(e, n, k)
       /\ s.exited <=> Exited(e, n, k)
       /\ s.closed <=> Exited(e, n, k)
       /\ s.body \subseteq Deltas(e, n, k)
       /\ ~s.omitted => s.body = Deltas(e, n, k)
       /\ s.omitted => Exited(e, n, k)
  /\ Spawned(e, n, k) =>
       \/ s.listed
       \/ Exited(e, n, k) /\ (e = depoch => k \in pruned)

InLog(e, n) == e \in Epochs /\ n \in 0..Len(log[e])

CursorIsInLog ==
  host.cursor # NoCursor =>
    /\ host.cursor.epoch = host.epoch
    /\ InLog(host.cursor.epoch, host.cursor.seq)

RowsAreExact ==
  ~host.resync /\ host.cursor # NoCursor =>
    \A k \in Keys :
      Exact(host.sessions[k], k, host.cursor.epoch, host.cursor.seq)

(* Even while a resync is owed, a row tells nothing that did not happen.     *)
RowsAreTrue ==
  \A k \in Keys :
    LET s == host.sessions[k] e == host.epoch IN
    \/ s = Absent
    \/ /\ e \in Epochs
       /\ s.body \subseteq Deltas(e, Len(log[e]), k)
       /\ s.closed => Exited(e, Len(log[e]), k)

SnapshotIsTrue(f) ==
  /\ InLog(f.epoch, f.seq)
  /\ \A k \in Keys :
       LET e == f.epoch n == f.seq row == f.rows[k] IN
       /\ k \in f.listed => Spawned(e, n, k)
       /\ row.exited <=> Exited(e, n, k)
       /\ row.omitted => Exited(e, n, k)
       /\ ~row.omitted => row.body = Deltas(e, n, k)
       /\ Spawned(e, n, k) =>
            \/ k \in f.listed
            \/ Exited(e, n, k) /\ (e = depoch => k \in pruned)

EventIsTrue(f) ==
  /\ f.seq \in 1..Len(log[f.epoch])
  /\ log[f.epoch][f.seq] = f.event

(* The host stands at position n of e, or owes a resync; and it will, when   *)
(* it has read the first i frames of w.                                      *)
StandsAt(e, n) == host.resync \/ host.cursor = At(e, n)

Continues(f) == f.t = "hello" /\ f.resume = "continued"
Positioned(f) == f.t \in {"event", "snapshot"} \/ Continues(f)

WillStandAt(w, i, e, n) ==
  IF i = 0 \/ w[i].t = "heartbeat"
    THEN StandsAt(e, n)
    ELSE Positioned(w[i]) /\ w[i].seq = n

(* A frame in flight is true, and finds the host where it has to be: behind  *)
(* its Hello, an event right after what comes before it, a snapshot after    *)
(* all that the host has read or will have read.                             *)
EventFits(w, i) ==
  LET f == w[i] IN
  f.t = "event" => EventIsTrue(f) /\ WillStandAt(w, i - 1, f.epoch, f.seq - 1)

IsNewTo(f) ==
  /\ host.cursor.epoch = f.epoch => host.cursor.seq <= f.seq
  /\ \A k \in Keys : host.epoch = f.epoch /\ host.sessions[k].closed =>
                       Exited(f.epoch, f.seq, k)

SnapshotFits(w, i) ==
  LET f == w[i] IN
  f.t = "snapshot" =>
    /\ SnapshotIsTrue(f) /\ IsNewTo(f)
    /\ \A j \in 1..(i - 1) :
         w[j].t \in {"event", "snapshot"} => w[j].seq <= f.seq

HelloFits(w, i) ==
  /\ Continues(w[i]) => StandsAt(w[i].epoch, w[i].seq)
  /\ w[1].t # "hello" => w[i].epoch = host.epoch

HeartbeatFits(w, i) ==
  LET f == w[i] c == host.cursor IN
  f.t = "heartbeat" =>
    i = 1 /\ (host.resync \/ (c.epoch = f.epoch /\ f.seq <= c.seq))

Fits(w, i) ==
  /\ EventFits(w, i) /\ SnapshotFits(w, i)
  /\ HelloFits(w, i) /\ HeartbeatFits(w, i)

FramesFit == \A i \in DOMAIN wire : Fits(wire, i)

(* The exec was asked for the position handed out, and has been served up to *)
(* where the host will stand.                                                *)
ServedFromHere ==
  /\ conn.state = "dialing" => conn.at = HandedOut(host)
  /\ conn.state = "open" =>
       /\ WillStandAt(wire, Len(wire), depoch, conn.at.seq)
       /\ wire = <<>> => host.epoch = depoch

LogInv == LifeIsOrdered /\ PrunedHaveEnded
RowsInv == CursorIsInLog /\ RowsAreExact /\ RowsAreTrue
WireInv == FramesFit /\ ServedFromHere
ViewInv == LogInv /\ RowsInv /\ WireInv /\ EndIsFinal

-----------------------------------------------------------------------------
(* What the log says of a session up to a position.                          *)

LEMMA LogTypes ==
  ASSUME TypeOK, NEW e \in Epochs
  PROVE  Len(log[e]) \in Nat /\ \A i \in 1..Len(log[e]) : log[e][i] \in Event
<1>1. log[e] \in Seq(Event)
  BY DEF TypeOK
<1> QED BY <1>1, LenProperties

(* Whatever happened by m has happened by a later n.                         *)
LEMMA MoreHappens ==
  ASSUME NEW e, NEW m \in Nat, NEW n \in Nat, m <= n, NEW k
  PROVE  /\ \A kind : Happened(e, m, kind, k) => Happened(e, n, kind, k)
         /\ Spawned(e, m, k) => Spawned(e, n, k)
         /\ Exited(e, m, k) => Exited(e, n, k)
         /\ Deltas(e, m, k) \subseteq Deltas(e, n, k)
<1>1. 1..m \subseteq 1..n
  OBVIOUS
<1>2. \A kind : Happened(e, m, kind, k) => Happened(e, n, kind, k)
  BY <1>1 DEF Happened
<1>3. Deltas(e, m, k) \subseteq Deltas(e, n, k)
  BY <1>1 DEF Deltas
<1> QED BY <1>2, <1>3 DEF Spawned, Exited

(* One more event: it alone makes the difference.                            *)
LEMMA OneMore ==
  ASSUME NEW e, NEW n \in Nat \ {0}, NEW k
  PROVE  /\ \A kind : Happened(e, n, kind, k) <=>
              \/ Happened(e, n - 1, kind, k)
              \/ log[e][n] = [kind |-> kind, key |-> k]
         /\ \A i : i \in Deltas(e, n, k) <=>
              \/ i \in Deltas(e, n - 1, k)
              \/ i = n /\ log[e][n] = [kind |-> "delta", key |-> k]
<1>1. \A i : i \in 1..n <=> i \in 1..(n - 1) \/ i = n
  OBVIOUS
<1>2. \A kind : Happened(e, n, kind, k) <=>
        \/ Happened(e, n - 1, kind, k)
        \/ log[e][n] = [kind |-> kind, key |-> k]
  BY <1>1 DEF Happened
<1>3. \A i : i \in Deltas(e, n, k) <=>
        \/ i \in Deltas(e, n - 1, k)
        \/ i = n /\ log[e][n] = [kind |-> "delta", key |-> k]
  BY <1>1 DEF Deltas
<1> QED BY <1>2, <1>3

(* A session does nothing after its end.                                     *)
LEMMA NothingAfterEnd ==
  ASSUME TypeOK, LifeIsOrdered, NEW e \in Epochs, NEW m \in Nat,
         NEW n \in 0..Len(log[e]), m <= n, NEW k \in Keys, Exited(e, m, k)
  PROVE  Deltas(e, n, k) = Deltas(e, m, k)
<1>1. Len(log[e]) \in Nat /\ n \in Nat
  BY LogTypes
<1>2. ASSUME NEW i \in Deltas(e, n, k), i \notin Deltas(e, m, k) PROVE FALSE
  <2>1. i \in 1..n /\ log[e][i] = [kind |-> "delta", key |-> k]
    BY <1>2 DEF Deltas
  <2>2. i > m /\ i - 1 \in Nat /\ m <= i - 1 /\ i \in 1..Len(log[e])
    BY <1>1, <1>2, <2>1 DEF Deltas
  <2>3. Exited(e, i - 1, k)
    BY <2>2, MoreHappens
  <2> QED BY <2>1, <2>2, <2>3 DEF LifeIsOrdered, LivesOnce
<1> QED BY <1>1, <1>2, MoreHappens

(* Nor before its birth.                                                     *)
LEMMA NothingBeforeBirth ==
  ASSUME TypeOK, LifeIsOrdered, NEW e \in Epochs,
         NEW n \in 0..Len(log[e]), NEW k \in Keys, ~Spawned(e, n, k)
  PROVE  ~Exited(e, n, k) /\ Deltas(e, n, k) = {}
<1>1. Len(log[e]) \in Nat /\ n \in Nat
  BY LogTypes
<1>2. ASSUME NEW i \in 1..n, NEW kind \in {"delta", "exited"},
             log[e][i] = [kind |-> kind, key |-> k]
      PROVE  FALSE
  <2>1. i \in 1..Len(log[e]) /\ i - 1 \in Nat /\ i - 1 <= n
    BY <1>1
  <2>2. Spawned(e, i - 1, k)
    BY <1>2, <2>1 DEF LifeIsOrdered, LivesOnce
  <2> QED BY <1>1, <2>1, <2>2, MoreHappens
<1> QED BY <1>2 DEF Exited, Happened, Deltas

-----------------------------------------------------------------------------
(* What was true stays true while the daemons' logs grow.                    *)

Kept ==
  /\ \A e \in Epochs :
       /\ Len(log'[e]) \in Nat /\ Len(log[e]) <= Len(log'[e])
       /\ \A i \in 1..Len(log[e]) : log'[e][i] = log[e][i]
  /\ depoch' \in Nat /\ depoch <= depoch'
  /\ depoch' = depoch => pruned \subseteq pruned'

LEMMA HappenedKept ==
  ASSUME TypeOK, Kept, NEW e, NEW n, InLog(e, n), NEW k
  PROVE  /\ \A kind : Happened(e, n, kind, k)' <=> Happened(e, n, kind, k)
         /\ Spawned(e, n, k)' <=> Spawned(e, n, k)
         /\ Exited(e, n, k)' <=> Exited(e, n, k)
         /\ Deltas(e, n, k)' = Deltas(e, n, k)
         /\ InLog(e, n)'
<1>1. /\ e \in Epochs /\ n \in Nat /\ n <= Len(log[e])
      /\ Len(log[e]) \in Nat /\ Len(log'[e]) \in Nat
      /\ Len(log[e]) <= Len(log'[e])
  BY LogTypes DEF InLog, Kept
<1>2. \A i \in 1..n : i \in 1..Len(log[e])
  BY <1>1
<1>3. \A i \in 1..n : log'[e][i] = log[e][i]
  BY <1>1, <1>2 DEF Kept
<1>4. \A kind : Happened(e, n, kind, k)' <=> Happened(e, n, kind, k)
  BY <1>3 DEF Happened
<1>5. Deltas(e, n, k)' = Deltas(e, n, k)
  BY <1>3 DEF Deltas
<1>6. InLog(e, n)'
  BY <1>1 DEF InLog
<1> QED BY <1>4, <1>5, <1>6 DEF Spawned, Exited

LEMMA ExactKept ==
  ASSUME TypeOK, Kept, NEW e, NEW n, InLog(e, n), e <= depoch, NEW k, NEW s,
         Exact(s, k, e, n)
  PROVE  Exact(s, k, e, n)'
<1>1. /\ Spawned(e, n, k)' <=> Spawned(e, n, k)
      /\ Exited(e, n, k)' <=> Exited(e, n, k)
      /\ Deltas(e, n, k)' = Deltas(e, n, k)
  BY HappenedKept
<1>2. e = depoch' => e = depoch /\ pruned \subseteq pruned'
  BY EpochsAreNat DEF Kept, InLog, Epochs
<1> QED BY <1>1, <1>2 DEF Exact

LEMMA SnapshotKept ==
  ASSUME TypeOK, Kept, NEW f, f.epoch <= depoch, SnapshotIsTrue(f)
  PROVE  SnapshotIsTrue(f)'
<1> DEFINE e == f.epoch
           n == f.seq
<1>0. InLog(e, n)
  BY DEF SnapshotIsTrue
<1>1. InLog(e, n)' /\ \A k :
        /\ Spawned(e, n, k)' <=> Spawned(e, n, k)
        /\ Exited(e, n, k)' <=> Exited(e, n, k)
        /\ Deltas(e, n, k)' = Deltas(e, n, k)
  BY <1>0, HappenedKept
<1>2. e = depoch' => e = depoch /\ pruned \subseteq pruned'
  BY <1>0, EpochsAreNat DEF Kept, InLog, Epochs
<1> QED BY <1>1, <1>2 DEF SnapshotIsTrue

LEMMA EventKept ==
  ASSUME TypeOK, Kept, NEW f, f.epoch \in Epochs, EventIsTrue(f)
  PROVE  EventIsTrue(f)'
<1>1. Len(log[f.epoch]) \in Nat
  BY LogTypes
<1> QED BY <1>1 DEF Kept, EventIsTrue

(* The host keeps its rows, and at most loses its place.                     *)
HostKept ==
  /\ host'.sessions = host.sessions /\ host'.cursor = host.cursor
  /\ host'.epoch = host.epoch
  /\ host.resync => host'.resync

LEMMA RowsKept ==
  ASSUME TypeOK, LinkInv, RowsInv, Kept, HostKept
  PROVE  RowsInv'
<1>1. CursorIsInLog'
  BY HappenedKept DEF RowsInv, CursorIsInLog, HostKept
<1>2. RowsAreExact'
  <2> SUFFICES ASSUME ~host'.resync, host'.cursor # NoCursor, NEW k \in Keys
               PROVE  Exact(host.sessions[k], k, host.cursor.epoch,
                            host.cursor.seq)'
    BY DEF RowsAreExact
  <2> DEFINE s == host.sessions[k]
             e == host.cursor.epoch
             n == host.cursor.seq
  <2>1. InLog(e, n) /\ Exact(s, k, e, n) /\ e <= depoch
    BY DEF RowsInv, CursorIsInLog, RowsAreExact, HostKept, LinkInv, CursorBehind
  <2>2. host'.sessions[k] = s /\ host'.cursor.epoch = e /\ host'.cursor.seq = n
    BY DEF HostKept
  <2> HIDE DEF s, e, n
  <2>3. \A s1, e1, n1 :
          InLog(e1, n1) /\ Exact(s1, k, e1, n1) /\ e1 <= depoch =>
            Exact(s1, k, e1, n1)'
    BY ExactKept
  <2> QED BY <2>1, <2>2, <2>3 DEF Exact
<1>3. RowsAreTrue'
  <2> SUFFICES ASSUME NEW k \in Keys, host.sessions[k] # Absent
               PROVE  (LET s == host.sessions[k] e == host.epoch IN
                       /\ e \in Epochs
                       /\ s.body \subseteq Deltas(e, Len(log[e]), k)
                       /\ s.closed => Exited(e, Len(log[e]), k))'
    BY DEF RowsAreTrue, HostKept
  <2>1. PICK e \in Epochs, m \in Nat, n \in Nat :
          e = host.epoch /\ m = Len(log[e]) /\ n = Len(log'[e])
    BY LogTypes DEF Kept, RowsInv, RowsAreTrue
  <2>2. m <= n /\ InLog(e, m)
    BY <2>1 DEF Kept, InLog
  <2>3. /\ host.sessions[k].body \subseteq Deltas(e, m, k)
        /\ host.sessions[k].closed => Exited(e, m, k)
    BY <2>1 DEF RowsInv, RowsAreTrue
  <2>4. /\ Exited(e, m, k)' <=> Exited(e, m, k)
        /\ Deltas(e, m, k)' = Deltas(e, m, k)
    BY <2>2, HappenedKept
  <2>5. /\ Exited(e, m, k)' => Exited(e, n, k)'
        /\ Deltas(e, m, k)' \subseteq Deltas(e, n, k)'
    <3>1. \A i \in 1..m : i \in 1..n
      BY <2>2
    <3> QED BY <3>1 DEF Exited, Happened, Deltas
  <2>6. /\ host'.sessions[k].body \subseteq Deltas(e, n, k)'
        /\ host'.sessions[k].closed => Exited(e, n, k)'
    BY <2>3, <2>4, <2>5 DEF HostKept
  <2>7. e = host'.epoch /\ n = Len(log'[e])
    BY <2>1 DEF HostKept
  <2> QED BY <2>6, <2>7 DEF Exited, Happened, Deltas
<1> QED BY <1>1, <1>2, <1>3 DEF RowsInv

LEMMA EndKept ==
  ASSUME EndIsFinal, UNCHANGED ViewVars
  PROVE  EndIsFinal'
BY DEF EndIsFinal, ViewVars

-----------------------------------------------------------------------------
(* Frames that stay in flight still fit.                                     *)

LEMMA FrameIs ==
  ASSUME NEW f \in Frame
  PROVE  /\ f.epoch \in Epochs /\ f.seq \in Nat
         /\ f.t \in FrameKinds
         /\ f.t = "hello" => f \in HelloFrame
         /\ f.t = "gap" => f \in GapFrame
         /\ f.t = "snapshot" => f \in SnapshotFrame
         /\ f.t = "event" => f \in EventFrame
         /\ f.t = "heartbeat" => f \in HeartbeatFrame
<1>1. CASE f \in HelloFrame
  BY <1>1 DEF HelloFrame, FrameKinds
<1>2. CASE f \in GapFrame
  BY <1>2 DEF GapFrame, FrameKinds
<1>3. CASE f \in SnapshotFrame
  BY <1>3 DEF SnapshotFrame, FrameKinds
<1>4. CASE f \in EventFrame
  BY <1>4 DEF EventFrame, FrameKinds
<1>5. CASE f \in HeartbeatFrame
  BY <1>5 DEF HeartbeatFrame, FrameKinds
<1> QED BY <1>1, <1>2, <1>3, <1>4, <1>5 DEF Frame

LEMMA StandsKept ==
  ASSUME HostKept, NEW e, NEW n, StandsAt(e, n)
  PROVE  StandsAt(e, n)'
BY DEF StandsAt, HostKept

LEMMA NewKept ==
  ASSUME TypeOK, Kept, HostKept, NEW f, InLog(f.epoch, f.seq), IsNewTo(f)
  PROVE  IsNewTo(f)'
<1>1. \A k : Exited(f.epoch, f.seq, k)' <=> Exited(f.epoch, f.seq, k)
  BY HappenedKept
<1> QED BY <1>1 DEF IsNewTo, HostKept

LEMMA FramesKept ==
  ASSUME TypeOK, LinkInv, FramesFit, Kept, HostKept, wire' \in Seq(Frame),
         \A i \in DOMAIN wire' : i \in DOMAIN wire /\ wire'[i] = wire[i]
  PROVE  FramesFit'
<1> SUFFICES ASSUME NEW i \in DOMAIN wire'
             PROVE  Fits(wire, i)'
  BY DEF FramesFit
<1>1. /\ i \in Nat /\ i >= 1
      /\ 1 \in DOMAIN wire' /\ (i # 1 => i - 1 \in DOMAIN wire')
      /\ \A j \in 1..(i - 1) : j \in DOMAIN wire'
  BY LenProperties
<1>2. PICK f : f = wire[i]
  OBVIOUS
<1>3. f = wire'[i] /\ f \in Frame /\ f.epoch \in Epochs /\ f.epoch <= depoch
  BY <1>2, EpochsAreNat, FrameIs DEF LinkInv, CursorBehind
<1>4. /\ EventFits(wire, i) /\ SnapshotFits(wire, i)
      /\ HelloFits(wire, i) /\ HeartbeatFits(wire, i)
  BY DEF FramesFit, Fits
<1>5. EventFits(wire, i)'
  <2> SUFFICES ASSUME f.t = "event"
               PROVE  /\ EventIsTrue(f)'
                      /\ WillStandAt(wire, i - 1, f.epoch, f.seq - 1)'
    BY <1>3 DEF EventFits
  <2>1. EventIsTrue(f) /\ WillStandAt(wire, i - 1, f.epoch, f.seq - 1)
    BY <1>2, <1>4 DEF EventFits
  <2>2. StandsAt(f.epoch, f.seq - 1) => StandsAt(f.epoch, f.seq - 1)'
    BY StandsKept
  <2>3. i # 1 => wire'[i - 1] = wire[i - 1]
    BY <1>1
  <2> QED BY <1>1, <1>3, <2>1, <2>2, <2>3, EventKept DEF WillStandAt
<1>6. SnapshotFits(wire, i)'
  <2> SUFFICES ASSUME f.t = "snapshot"
               PROVE  /\ SnapshotIsTrue(f)' /\ IsNewTo(f)'
                      /\ \A j \in 1..(i - 1) :
                           wire'[j].t \in {"event", "snapshot"} =>
                             wire'[j].seq <= f.seq
    BY <1>3 DEF SnapshotFits
  <2>1. /\ SnapshotIsTrue(f) /\ IsNewTo(f)
        /\ \A j \in 1..(i - 1) :
             wire[j].t \in {"event", "snapshot"} => wire[j].seq <= f.seq
    BY <1>2, <1>4 DEF SnapshotFits
  <2>2. SnapshotIsTrue(f)'
    BY <1>3, <2>1, SnapshotKept
  <2>3. IsNewTo(f)'
    BY <2>1, NewKept DEF SnapshotIsTrue
  <2> QED BY <1>1, <2>1, <2>2, <2>3
<1>7. HelloFits(wire, i)'
  BY <1>1, <1>2, <1>3, <1>4 DEF HelloFits, StandsAt, HostKept
<1>8. HeartbeatFits(wire, i)'
  BY <1>2, <1>3, <1>4 DEF HeartbeatFits, HostKept
<1> QED BY <1>5, <1>6, <1>7, <1>8 DEF Fits

-----------------------------------------------------------------------------
(* Steps of the daemon and of the transport.                                 *)

LEMMA LifeKept ==
  ASSUME LifeIsOrdered, UNCHANGED log
  PROVE  LifeIsOrdered'
<1>1. \A e, n, k : /\ Spawned(e, n, k)' <=> Spawned(e, n, k)
                   /\ Exited(e, n, k)' <=> Exited(e, n, k)
  BY DEF Spawned, Exited, Happened
<1>2. ASSUME NEW e \in Epochs, NEW j \in 1..Len(log'[e]), NEW k \in Keys
      PROVE  LivesOnce(e, j, k)'
  <2>1. LivesOnce(e, j, k)
    BY DEF LifeIsOrdered, LivesOnce
  <2> QED BY <1>1, <2>1 DEF LivesOnce
<1> QED BY <1>2 DEF LifeIsOrdered, LivesOnce

LEMMA ServedKept ==
  ASSUME ServedFromHere,
         \/ conn'.state \notin {"dialing", "open"}
         \/ UNCHANGED <<conn, wire, depoch, host>>
  PROVE  ServedFromHere'
BY DEF ServedFromHere, WillStandAt, StandsAt

(* What is in flight is cut off somewhere.                                   *)
LEMMA LosePrefix ==
  ASSUME TypeOK, NEW state, Lose(state)
  PROVE  /\ wire' \in Seq(Frame)
         /\ \A i \in DOMAIN wire' : i \in DOMAIN wire /\ wire'[i] = wire[i]
         /\ conn'.state = state
<1>1. PICK n \in 0..Len(wire) : wire' = SubSeq(wire, 1, n)
  BY DEF Lose
<1>2. wire \in Seq(Frame) /\ Len(wire) \in Nat /\ DOMAIN wire = 1..Len(wire)
  BY LenProperties DEF TypeOK
<1>3. \A i \in 1..n : wire[i] \in Frame
  BY <1>2
<1>4. Len(wire') = n /\ wire' \in Seq(Frame) /\ \A i \in 1..n : wire'[i] = wire[i]
  BY <1>1, <1>2, <1>3, SubSeqProperties
<1>5. conn'.state = state
  BY DEF Lose, TypeOK
<1> QED BY <1>2, <1>4, <1>5

LEMMA LogKept ==
  ASSUME TypeOK, UNCHANGED log
  PROVE  \A e \in Epochs :
           /\ Len(log'[e]) \in Nat /\ Len(log[e]) <= Len(log'[e])
           /\ \A i \in 1..Len(log[e]) : log'[e][i] = log[e][i]
BY LogTypes

(* An event is added to the log of the daemon that runs.                     *)
LEMMA EmitView ==
  ASSUME TypeOK, LinkInv, ViewInv, NEW kind \in Kinds, NEW k \in Keys, Emit(kind, k)
  PROVE  ViewInv'
<1> DEFINE ev == [kind |-> kind, key |-> k]
<1>0. PICK d \in Epochs, n \in Nat : d = depoch /\ n = Len(log[d])
  BY LogTypes DEF TypeOK
<1>1. /\ log' = [log EXCEPT ![depoch] = Append(@, ev)]
      /\ UNCHANGED <<depoch, pruned, conn, wire, host, panels>>
      /\ log \in [Epochs -> Seq(Event)] /\ depoch \in Nat
      /\ wire \in Seq(Frame)
  BY EpochsAreNat DEF Emit, linkVars, TypeOK
<1>2. /\ log'[d] = Append(log[d], ev)
      /\ \A e \in Epochs : e # d => log'[e] = log[e]
  BY <1>0, <1>1
<1>3. ev \in Event
  BY KindsAssumption DEF Event
<1>4. /\ Len(log'[d]) = n + 1 /\ log'[d][n + 1] = ev
      /\ \A i \in 1..n : log'[d][i] = log[d][i]
  BY <1>0, <1>1, <1>2, <1>3, AppendProperties
<1> HIDE DEF ev
<1>5. Kept
  <2>1. ASSUME NEW e \in Epochs
        PROVE  /\ Len(log'[e]) \in Nat /\ Len(log[e]) <= Len(log'[e])
               /\ \A i \in 1..Len(log[e]) : log'[e][i] = log[e][i]
    <3>1. CASE e = d
      BY <1>0, <1>4, <3>1
    <3>2. CASE e # d
      BY <1>2, <3>2, LogTypes
    <3> QED BY <3>1, <3>2
  <2> QED BY <1>1, <2>1 DEF Kept
<1>6. HostKept
  BY <1>1 DEF HostKept
<1>7. RowsInv'
  BY <1>5, <1>6, RowsKept DEF ViewInv
<1>8. WireInv'
  <2>1. FramesFit'
    BY <1>1, <1>5, <1>6, FramesKept DEF ViewInv, WireInv
  <2> QED BY <1>1, <2>1, ServedKept DEF ViewInv, WireInv
<1>9. LifeIsOrdered'
  <2> SUFFICES ASSUME NEW e \in Epochs, NEW j \in 1..Len(log'[e]), NEW l \in Keys
               PROVE
        /\ log'[e][j] = [kind |-> "spawned", key |-> l] => ~Spawned(e, j - 1, l)'
        /\ \A x \in {"delta", "hook", "exited"} :
             log'[e][j] = [kind |-> x, key |-> l] =>
               Spawned(e, j - 1, l)' /\ ~Exited(e, j - 1, l)'
    BY DEF LifeIsOrdered, LivesOnce
  <2>1. CASE j \in 1..Len(log[e])
    <3>1. InLog(e, j - 1) /\ log'[e][j] = log[e][j]
      BY <1>5, <2>1, LogTypes DEF InLog, Kept
    <3>2. /\ Spawned(e, j - 1, l)' <=> Spawned(e, j - 1, l)
          /\ Exited(e, j - 1, l)' <=> Exited(e, j - 1, l)
      BY <1>5, <3>1, HappenedKept
    <3> QED BY <2>1, <3>1, <3>2 DEF ViewInv, LogInv, LifeIsOrdered, LivesOnce
  <2>2. CASE j \notin 1..Len(log[e])
    <3>1. e = d /\ j = n + 1 /\ j - 1 = n
      BY <1>0, <1>2, <1>4, <2>2
    <3>2. InLog(d, n) /\ Head_ = n
      BY <1>0, <1>1 DEF InLog, Head_
    <3>3. /\ Spawned(d, n, l)' <=> Spawned(d, n, l)
          /\ Exited(d, n, l)' <=> Exited(d, n, l)
      BY <1>5, <3>2, HappenedKept
    <3>4. /\ kind = "spawned" => ~Spawned(d, n, k)
          /\ kind \in {"delta", "hook", "exited"} =>
               Spawned(d, n, k) /\ ~Exited(d, n, k)
      BY <1>0, <3>2 DEF Emit
    <3>5. \A x : ev = [kind |-> x, key |-> l] => kind = x /\ k = l
      BY DEF ev
    <3> QED BY <1>4, <3>1, <3>3, <3>4, <3>5
  <2> QED BY <2>1, <2>2
<1>10. PrunedHaveEnded'
  <2> SUFFICES ASSUME NEW l \in pruned
               PROVE  Exited(depoch, Head_, l)'
    BY <1>1 DEF PrunedHaveEnded
  <2>1. InLog(d, n) /\ Head_ = n /\ Head_' = n + 1
    BY <1>0, <1>1, <1>4 DEF InLog, Head_
  <2>2. Exited(d, n, l)
    BY <1>0, <2>1 DEF ViewInv, LogInv, PrunedHaveEnded
  <2>3. Exited(d, n, l)'
    BY <1>5, <2>1, <2>2, HappenedKept
  <2>4. \A i \in 1..n : i \in 1..(n + 1)
    OBVIOUS
  <2> QED BY <1>0, <1>1, <2>1, <2>3, <2>4 DEF Exited, Happened
<1>11. EndIsFinal'
  BY <1>1, EndKept DEF ViewInv, ViewVars
<1> QED BY <1>7, <1>8, <1>9, <1>10, <1>11 DEF ViewInv, LogInv

(* Nothing is added to any log, the host is as it was, and what is in flight *)
(* stays or is cut off.                                                      *)
LEMMA QuietView ==
  ASSUME TypeOK, LinkInv, ViewInv, Kept, HostKept, UNCHANGED <<log, panels>>,
         PrunedHaveEnded', wire' \in Seq(Frame),
         \A i \in DOMAIN wire' : i \in DOMAIN wire /\ wire'[i] = wire[i],
         \/ conn'.state \notin {"dialing", "open"}
         \/ UNCHANGED <<conn, wire, depoch, host>>
  PROVE  ViewInv'
<1>1. RowsInv'
  BY RowsKept DEF ViewInv
<1>2. WireInv'
  BY FramesKept, ServedKept DEF ViewInv, WireInv
<1>3. LifeIsOrdered'
  BY LifeKept DEF ViewInv, LogInv
<1>4. EndIsFinal'
  BY EndKept DEF ViewInv, ViewVars, HostKept
<1> QED BY <1>1, <1>2, <1>3, <1>4 DEF ViewInv, LogInv

LEMMA DaemonView ==
  ASSUME TypeOK, LinkInv, ViewInv, Daemon
  PROVE  ViewInv'
<1>0. wire \in Seq(Frame) /\ depoch \in Nat
  BY EpochsAreNat DEF TypeOK
<1>1. ASSUME NEW k \in Keys, Prune(k) PROVE ViewInv'
  <2>1. /\ UNCHANGED <<log, depoch, conn, wire, host, panels>>
        /\ pruned' = pruned \cup {k} /\ Exited(depoch, Head_, k)
    BY <1>1 DEF Prune, linkVars
  <2>2. Kept /\ HostKept
    BY <1>0, <2>1, LogKept DEF Kept, HostKept
  <2>3. PrunedHaveEnded'
    BY <2>1 DEF ViewInv, LogInv, PrunedHaveEnded, Exited, Happened, Head_
  <2> QED BY <1>0, <2>1, <2>2, <2>3, QuietView
<1>2. CASE Restart
  <2>1. UNCHANGED <<log, host, panels>> /\ depoch' = depoch + 1 /\ pruned' = {}
    BY <1>2 DEF Restart, linkVars
  <2>2. Kept /\ HostKept
    BY <1>0, <2>1, LogKept DEF Kept, HostKept
  <2>3. PrunedHaveEnded'
    BY <2>1 DEF PrunedHaveEnded
  <2>4. CASE Lose("closed")
    BY <2>1, <2>2, <2>3, <2>4, LosePrefix, QuietView
  <2>5. CASE conn.state \notin {"dialing", "open"} /\ UNCHANGED <<conn, wire>>
    BY <1>0, <2>1, <2>2, <2>3, <2>5, QuietView
  <2> QED BY <1>2, <2>4, <2>5 DEF Restart
<1> QED BY <1>1, <1>2, EmitView DEF Daemon

LEMMA BreakView ==
  ASSUME TypeOK, LinkInv, ViewInv, Disconnect \/ Vanish
  PROVE  ViewInv'
<1>1. UNCHANGED <<log, depoch, pruned, host, panels>>
  BY DEF Disconnect, Vanish, daemonVars, linkVars
<1>2. Kept /\ HostKept
  BY <1>1, LogKept, EpochsAreNat DEF Kept, HostKept
<1>3. PrunedHaveEnded'
  BY <1>1 DEF ViewInv, LogInv, PrunedHaveEnded, Exited, Happened, Head_
<1>4. PICK state \in {"closed", "silent"} : Lose(state)
  BY DEF Disconnect, Vanish
<1> QED BY <1>1, <1>2, <1>3, <1>4, LosePrefix, QuietView

LEMMA LogInvKept ==
  ASSUME LogInv, UNCHANGED <<log, depoch, pruned>>
  PROVE  LogInv'
<1>1. LifeIsOrdered'
  BY LifeKept DEF LogInv
<1>2. PrunedHaveEnded'
  BY DEF LogInv, PrunedHaveEnded, Exited, Happened, Head_
<1> QED BY <1>1, <1>2 DEF LogInv

(* The daemon writes; nothing else changes.                                  *)
Writes == UNCHANGED <<log, depoch, pruned, host, panels>>

LEMMA WritesView ==
  ASSUME TypeOK, LinkInv, ViewInv, Writes, ServedFromHere',
         \A i \in DOMAIN wire' : Fits(wire', i)
  PROVE  ViewInv'
<1>1. Kept /\ HostKept
  BY LogKept, EpochsAreNat DEF Kept, HostKept, Writes
<1>2. LogInv' /\ RowsInv'
  BY <1>1, LogInvKept, RowsKept DEF ViewInv, Writes
<1>3. FramesFit'
  <2>1. \A e, n, k : /\ Spawned(e, n, k)' <=> Spawned(e, n, k)
                     /\ Exited(e, n, k)' <=> Exited(e, n, k)
                     /\ Deltas(e, n, k)' = Deltas(e, n, k)
    BY DEF Writes, Spawned, Exited, Happened, Deltas
  <2>2. \A f : /\ EventIsTrue(f)' <=> EventIsTrue(f)
               /\ SnapshotIsTrue(f)' <=> SnapshotIsTrue(f)
               /\ IsNewTo(f)' <=> IsNewTo(f)
    BY <2>1 DEF Writes, EventIsTrue, SnapshotIsTrue, IsNewTo, InLog
  <2>3. ASSUME NEW w, NEW i
        PROVE  Fits(w, i)' <=> Fits(w, i)
    <3>1. EventFits(w, i)' <=> EventFits(w, i)
      BY <2>2 DEF Writes, EventFits, WillStandAt, StandsAt
    <3>2. SnapshotFits(w, i)' <=> SnapshotFits(w, i)
      BY <2>2 DEF SnapshotFits
    <3>3. HelloFits(w, i)' <=> HelloFits(w, i)
      BY DEF Writes, HelloFits, StandsAt
    <3>4. HeartbeatFits(w, i)' <=> HeartbeatFits(w, i)
      BY DEF Writes, HeartbeatFits
    <3> QED BY <3>1, <3>2, <3>3, <3>4 DEF Fits
  <2>4. PICK w : w = wire'
    OBVIOUS
  <2>5. \A i \in DOMAIN w : Fits(w, i)'
    BY <2>3, <2>4
  <2> QED BY <2>4, <2>5 DEF FramesFit
<1>4. EndIsFinal'
  BY EndKept DEF ViewInv, ViewVars, Writes
<1> QED BY <1>2, <1>3, <1>4 DEF ViewInv, WireInv

(* A frame behind others: the others fit as before.                          *)
LEMMA Appended ==
  ASSUME NEW w \in Seq(Frame), NEW f \in Frame, NEW v, v = Append(w, f),
         \A i \in DOMAIN w : Fits(w, i),
         Fits(v, Len(w) + 1)
  PROVE  /\ v \in Seq(Frame) /\ Len(v) = Len(w) + 1 /\ v[Len(w) + 1] = f
         /\ \A i \in DOMAIN w : v[i] = w[i]
         /\ \A i \in DOMAIN v : Fits(v, i)
<1>1. /\ v \in Seq(Frame) /\ Len(v) = Len(w) + 1 /\ v[Len(w) + 1] = f
      /\ \A i \in 1..Len(w) : v[i] = w[i]
  BY AppendProperties
<1>2. Len(w) \in Nat /\ DOMAIN w = 1..Len(w) /\ DOMAIN v = 1..(Len(w) + 1)
  BY <1>1, LenProperties
<1>3. ASSUME NEW i \in 1..Len(w) PROVE Fits(v, i)
  <2>1. /\ v[i] = w[i] /\ v[1] = w[1] /\ (i - 1 # 0 => v[i - 1] = w[i - 1])
        /\ \A j \in 1..(i - 1) : v[j] = w[j]
    BY <1>1, <1>2, <1>3
  <2>2. Fits(w, i)
    BY <1>2, <1>3
  <2>3. i \in Nat
    OBVIOUS
  <2>4. EventFits(v, i)
    BY <2>1, <2>2, <2>3 DEF Fits, EventFits, WillStandAt
  <2>5. SnapshotFits(v, i)
    BY <2>1, <2>2, <2>3 DEF Fits, SnapshotFits
  <2>6. HelloFits(v, i) /\ HeartbeatFits(v, i)
    BY <2>1, <2>2, <2>3 DEF Fits, HelloFits, HeartbeatFits
  <2> QED BY <2>4, <2>5, <2>6 DEF Fits
<1>4. \A i \in DOMAIN v : i \in 1..Len(w) \/ i = Len(w) + 1
  BY <1>2
<1> QED BY <1>1, <1>2, <1>3, <1>4

(* What the daemon says of its sessions is true, and new to the host.        *)
LEMMA SnapshotOfFits ==
  ASSUME TypeOK, ViewInv, NEW o \in Omissions
  PROVE  LET f == SnapshotOf(o) IN
         /\ f \in Frame /\ f.t = "snapshot" /\ f.epoch = depoch
         /\ f.seq = Head_ /\ SnapshotIsTrue(f) /\ IsNewTo(f)
<1> DEFINE f == SnapshotOf(o)
<1>0. /\ depoch \in Epochs /\ depoch \in Nat /\ depoch > 0
      /\ Head_ \in Nat /\ Head_ = Len(log[depoch])
  BY EpochsAreNat, LogLength DEF TypeOK, Head_
<1>1. f \in Frame /\ f.t = "snapshot" /\ f.epoch = depoch /\ f.seq = Head_
  BY FrameTypes DEF SnapshotOf
<1>2. InLog(depoch, Head_)
  BY <1>0 DEF InLog
<1>3. ASSUME NEW k \in Keys
      PROVE  LET row == f.rows[k] IN
             /\ k \in f.listed => Spawned(depoch, Head_, k)
             /\ row.exited <=> Exited(depoch, Head_, k)
             /\ row.omitted => Exited(depoch, Head_, k)
             /\ ~row.omitted => row.body = Deltas(depoch, Head_, k)
             /\ Spawned(depoch, Head_, k) =>
                  \/ k \in f.listed
                  \/ Exited(depoch, Head_, k) /\ k \in pruned
  <2>1. /\ f.rows[k].exited = Exited(depoch, Head_, k)
        /\ f.rows[k].omitted = (k \in o)
        /\ f.rows[k].body = IF k \in o THEN {} ELSE Deltas(depoch, Head_, k)
        /\ f.listed = {l \in Keys : Spawned(depoch, Head_, l)} \ pruned
    BY DEF SnapshotOf
  <2>2. k \in o => Exited(depoch, Head_, k)
    BY DEF Omissions
  <2>3. k \in pruned => Exited(depoch, Head_, k)
    BY DEF ViewInv, LogInv, PrunedHaveEnded
  <2> QED BY <2>1, <2>2, <2>3
<1> HIDE DEF f
<1>4. SnapshotIsTrue(f)
  BY <1>1, <1>2, <1>3 DEF SnapshotIsTrue
<1>5. IsNewTo(f)
  <2>1. host.cursor.epoch = depoch => host.cursor.seq <= Head_
    BY <1>0 DEF ViewInv, RowsInv, CursorIsInLog, InLog, NoCursor
  <2>2. ASSUME NEW k \in Keys, host.epoch = depoch, host.sessions[k].closed
        PROVE  Exited(depoch, Head_, k)
    BY <1>0, <2>2 DEF ViewInv, RowsInv, RowsAreTrue, Absent
  <2> QED BY <1>1, <2>1, <2>2 DEF IsNewTo
<1> QED BY <1>1, <1>4, <1>5 DEF f

(* On an open connection: what is in flight is the running daemon's, no      *)
(* later than its log, and behind a Hello it has read or is about to read.   *)
LEMMA OpenFacts ==
  ASSUME TypeOK, LinkInv, ViewInv, conn.state = "open"
  PROVE  /\ \A i \in DOMAIN wire :
              /\ wire[i] \in Frame /\ wire[i].epoch = depoch
              /\ wire[i].t \in {"event", "snapshot"} => wire[i].seq <= Head_
              /\ wire[1].t # "hello" => host.epoch = depoch
         /\ wire = <<>> => host.epoch = depoch
<1>1. \A i \in DOMAIN wire : wire[i] \in Frame /\ wire[i].epoch = depoch
  BY EpochsAreNat DEF LinkInv, ServesTheRunning
<1>2. depoch \in Epochs /\ Head_ = Len(log[depoch]) /\ Head_ \in Nat
  BY LogLength DEF TypeOK, Head_
<1>3. ASSUME NEW i \in DOMAIN wire, wire[i].t \in {"event", "snapshot"}
      PROVE  wire[i].seq <= Head_
  <2>1. Fits(wire, i)
    BY DEF ViewInv, WireInv, FramesFit
  <2> QED BY <1>1, <1>2, <1>3, <2>1
          DEF Fits, EventFits, SnapshotFits, EventIsTrue, SnapshotIsTrue, InLog
<1>4. ASSUME NEW i \in DOMAIN wire, wire[1].t # "hello"
      PROVE  host.epoch = depoch
  BY <1>1, <1>4 DEF ViewInv, WireInv, FramesFit, Fits, HelloFits
<1>5. wire = <<>> => host.epoch = depoch
  BY DEF ViewInv, WireInv, ServedFromHere
<1> QED BY <1>1, <1>3, <1>4, <1>5

LEMMA SendEventView ==
  ASSUME TypeOK, LinkInv, ViewInv, SendEvent
  PROVE  ViewInv'
<1>0. PICK d \in Epochs, n \in Nat, p \in Nat :
        d = depoch /\ p = conn.at.seq /\ n = p + 1 /\ p < Head_
  BY DEF SendEvent, TypeOK, Cursor
<1> DEFINE f == [t |-> "event", epoch |-> d, seq |-> n, event |-> log[d][n]]
           m == Len(wire)
<1>1. /\ wire' = Append(wire, f) /\ conn' = [conn EXCEPT !.at.seq = n]
      /\ conn.state = "open" /\ Writes /\ UNCHANGED depoch
      /\ conn \in [state : ConnStates, at : Cursor]
  BY <1>0 DEF SendEvent, daemonVars, linkVars, Writes, TypeOK
<1>2. wire \in Seq(Frame) /\ m \in Nat /\ DOMAIN wire = 1..m
      /\ (wire = <<>> <=> m = 0)
  BY LenProperties, EmptySeq DEF TypeOK
<1>3. n \in 1..Len(log[d]) /\ log[d][n] \in Event
  BY <1>0, LogTypes DEF Head_
<1>4. f \in Frame /\ f.t = "event" /\ f.epoch = d /\ f.seq = n
      /\ f.event = log[d][n]
  BY <1>3 DEF Frame, EventFrame
<1>5. conn'.state = "open" /\ conn'.at.seq = n
  BY <1>1 DEF Cursor
<1> HIDE DEF f
<1>6. PICK v : v = Append(wire, f)
  OBVIOUS
<1>7. /\ Len(v) = m + 1 /\ v[m + 1] = f /\ v \in Seq(Frame)
      /\ \A i \in 1..m : v[i] = wire[i]
  BY <1>2, <1>4, <1>6, AppendProperties
<1>8. Fits(v, m + 1)
  <2>1. WillStandAt(wire, m, d, p)
    BY <1>0, <1>1 DEF ViewInv, WireInv, ServedFromHere
  <2>2. WillStandAt(v, m, d, p)
    BY <1>2, <1>7, <2>1 DEF WillStandAt
  <2>3. m + 1 - 1 = m /\ n - 1 = p
    BY <1>0, <1>2
  <2>4. EventFits(v, m + 1)
    BY <1>3, <1>4, <1>7, <2>2, <2>3 DEF EventFits, EventIsTrue
  <2>5. v[1].t # "hello" => host.epoch = d
    <3>1. CASE m = 0
      BY <1>0, <1>1, <1>2, <3>1, OpenFacts
    <3>2. CASE m # 0
      <4>1. 1 \in DOMAIN wire /\ v[1] = wire[1]
        BY <1>2, <1>7, <3>2
      <4> QED BY <1>0, <1>1, <4>1, OpenFacts
    <3> QED BY <3>1, <3>2
  <2> QED BY <1>4, <1>7, <2>4, <2>5
          DEF Fits, SnapshotFits, HelloFits, HeartbeatFits, Continues
<1>9. \A i \in DOMAIN wire' : Fits(wire', i)
  BY <1>1, <1>2, <1>4, <1>6, <1>8, Appended DEF ViewInv, WireInv, FramesFit
<1>10. ServedFromHere'
  <2>1. wire' = v /\ Len(v) # 0 /\ v # <<>> /\ v[Len(v)] = f
    BY <1>1, <1>2, <1>6, <1>7
  <2> QED BY <1>4, <1>5, <2>1 DEF ServedFromHere, WillStandAt, Positioned
<1> QED BY <1>1, <1>9, <1>10, WritesView

LEMMA SendResyncView ==
  ASSUME TypeOK, LinkInv, ViewInv, SendResync
  PROVE  ViewInv'
<1>0. conn \in [state : ConnStates, at : Cursor] /\ Head_ \in Nat
      /\ conn.state = "open" /\ Writes
      /\ conn' = [conn EXCEPT !.at.seq = Head_]
  BY LogLength DEF TypeOK, SendResync, daemonVars, linkVars, Writes
<1>1. PICK o \in Omissions : wire' = wire \o <<Gap(conn.at.seq), SnapshotOf(o)>>
  BY DEF SendResync
<1>2. PICK g, f : g = Gap(conn.at.seq) /\ f = SnapshotOf(o)
  OBVIOUS
<1>3. g \in Frame /\ g.t = "gap" /\ g.epoch = depoch
  BY <1>0, <1>2, FrameTypes DEF Cursor, Gap
<1>4. /\ f \in Frame /\ f.t = "snapshot" /\ f.epoch = depoch
      /\ f.seq = Head_ /\ SnapshotIsTrue(f) /\ IsNewTo(f)
  BY <1>2, SnapshotOfFits
<1>5. PICK u, v : u = Append(wire, g) /\ v = Append(u, f)
  OBVIOUS
<1>6. PICK m \in Nat : m = Len(wire)
  BY LenProperties DEF TypeOK
<1>7. wire \in Seq(Frame) /\ DOMAIN wire = 1..m /\ (wire = <<>> <=> m = 0)
  BY <1>6, LenProperties, EmptySeq DEF TypeOK
<1>8. /\ u \in Seq(Frame) /\ Len(u) = m + 1 /\ u[m + 1] = g
      /\ \A i \in 1..m : u[i] = wire[i]
  BY <1>3, <1>5, <1>6, <1>7, AppendProperties
<1>9. Fits(u, m + 1)
  <2>1. u[1].t # "hello" => host.epoch = depoch
    BY <1>0, <1>7, <1>8, OpenFacts
  <2> QED BY <1>3, <1>8, <2>1 DEF Fits, EventFits, SnapshotFits, HelloFits,
                                 HeartbeatFits, Continues
<1>10. \A i \in DOMAIN u : Fits(u, i)
  BY <1>3, <1>5, <1>6, <1>7, <1>9, Appended DEF ViewInv, WireInv, FramesFit
<1>11. /\ v \in Seq(Frame) /\ Len(v) = m + 2 /\ v[m + 2] = f
       /\ \A i \in 1..(m + 1) : v[i] = u[i]
  <2>1. /\ v \in Seq(Frame) /\ Len(v) = Len(u) + 1 /\ v[Len(u) + 1] = f
        /\ \A i \in 1..Len(u) : v[i] = u[i]
    BY <1>4, <1>5, <1>8, AppendProperties
  <2>2. Len(u) + 1 = m + 2
    BY <1>8
  <2> QED BY <1>8, <2>1, <2>2
<1>12. Fits(v, m + 2)
  <2>1. v[1].t # "hello" => host.epoch = depoch
    <3>1. v[1] = u[1]
      BY <1>11
    <3>2. u[1].t # "hello" => u[m + 1].epoch = host.epoch
      BY <1>9 DEF Fits, HelloFits
    <3> QED BY <1>3, <1>8, <3>1, <3>2
  <2>2. ASSUME NEW j \in 1..(m + 2 - 1), v[j].t \in {"event", "snapshot"}
        PROVE  v[j].seq <= Head_
    <3>1. CASE j = m + 1
      BY <1>3, <1>8, <1>11, <2>2, <3>1
    <3>2. CASE j \in 1..m
      BY <1>0, <1>7, <1>8, <1>11, <2>2, <3>2, OpenFacts
    <3> QED BY <3>1, <3>2
  <2> QED BY <1>4, <1>11, <2>1, <2>2
          DEF Fits, EventFits, SnapshotFits, HelloFits, HeartbeatFits, Continues
<1>13. \A i \in DOMAIN v : Fits(v, i)
  <2>1. Fits(v, Len(u) + 1)
    BY <1>8, <1>12
  <2> QED BY <1>4, <1>5, <1>8, <1>10, <2>1, Appended
<1>14. wire' = v
  <2>1. <<g, f>> = Append(<<g>>, f) /\ <<g>> \in Seq(Frame)
    BY <1>3
  <2>2. wire \o <<g, f>> = Append(wire \o <<g>>, f)
    BY <1>3, <1>4, <1>7
  <2>3. wire \o <<g>> = u
    BY <1>3, <1>5, <1>7
  <2> QED BY <1>1, <1>2, <1>5, <2>2, <2>3
<1>15. ServedFromHere'
  <2>1. conn'.state = "open" /\ conn'.at.seq = Head_
    BY <1>0 DEF Cursor
  <2>2. Len(v) # 0 /\ v # <<>> /\ v[Len(v)] = f
    BY <1>6, <1>11
  <2> QED BY <1>4, <1>14, <2>1, <2>2 DEF ServedFromHere, WillStandAt, Positioned
<1> QED BY <1>0, <1>13, <1>14, <1>15, WritesView

LEMMA SendHeartbeatView ==
  ASSUME TypeOK, LinkInv, ViewInv, SendHeartbeat
  PROVE  ViewInv'
<1>1. PICK n \in 0..Head_ :
        wire' = <<[t |-> "heartbeat", epoch |-> depoch, seq |-> n]>>
  BY DEF SendHeartbeat
<1>2. /\ conn.state = "open" /\ wire = <<>> /\ Len(wire) = 0
      /\ conn.at.seq = Head_ /\ Writes /\ UNCHANGED conn
      /\ Head_ \in Nat /\ depoch \in Nat
  BY LogLength, EpochsAreNat DEF SendHeartbeat, daemonVars, linkVars, Writes
<1>3. StandsAt(depoch, Head_) /\ host.epoch = depoch
  BY <1>2 DEF ViewInv, WireInv, ServedFromHere, WillStandAt
<1>4. PICK f : f = [t |-> "heartbeat", epoch |-> depoch, seq |-> n]
  OBVIOUS
<1>5. f.t = "heartbeat" /\ f.epoch = depoch /\ f.seq = n
  BY <1>4
<1>6. DOMAIN wire' = {1} /\ Len(wire') = 1 /\ wire'[1] = f /\ wire' # <<>>
  BY <1>1, <1>4
<1>7. host.resync \/ (host.cursor.epoch = depoch /\ n <= host.cursor.seq)
  BY <1>2, <1>3 DEF StandsAt, At
<1>8. Fits(wire', 1)
  BY <1>3, <1>5, <1>6, <1>7 DEF Fits, EventFits, SnapshotFits, HelloFits,
                                HeartbeatFits, Continues
<1>9. ServedFromHere'
  BY <1>2, <1>3, <1>5, <1>6
     DEF ServedFromHere, WillStandAt, StandsAt, Writes
<1> QED BY <1>2, <1>6, <1>8, <1>9, WritesView

LEMMA OpenStreamView ==
  ASSUME TypeOK, LinkInv, ViewInv, OpenStream
  PROVE  ViewInv'
<1>1. /\ conn.state = "dialing" /\ conn.at = HandedOut(host) /\ Writes
      /\ conn \in [state : ConnStates, at : Cursor] /\ host.cursor \in Cursor
      /\ depoch \in Epochs /\ depoch > 0 /\ Head_ \in Nat
  BY LogLength, EpochsAreNat
     DEF OpenStream, ViewInv, WireInv, ServedFromHere, TypeOK, Host, Writes,
         daemonVars, linkVars
<1>2. CASE Honoured(conn.at)
  <2>1. PICK h : h = Hello("continued", conn.at.seq)
    OBVIOUS
  <2>2. /\ h.t = "hello" /\ h.resume = "continued" /\ h.epoch = depoch
        /\ h.seq = conn.at.seq
    BY <2>1 DEF Hello
  <2>3. DOMAIN wire' = {1} /\ Len(wire') = 1 /\ wire'[1] = h /\ wire' # <<>>
    BY <1>2, <2>1 DEF OpenStream
  <2>4. StandsAt(depoch, conn.at.seq)
    <3>1. conn.at.epoch = depoch /\ conn.at # NoCursor
      BY <1>1, <1>2 DEF Honoured, NoCursor
    <3>2. conn.at = host.cursor
      BY <1>1, <3>1 DEF HandedOut
    <3>3. conn.at = At(depoch, conn.at.seq)
      BY <1>1, <3>1 DEF Cursor, At
    <3> QED BY <3>2, <3>3 DEF StandsAt
  <2>5. Fits(wire', 1)
    BY <2>2, <2>3, <2>4 DEF Fits, EventFits, SnapshotFits, HelloFits,
                            HeartbeatFits, Continues
  <2>6. conn'.state = "open" /\ conn'.at = conn.at
    BY <1>1, <1>2 DEF OpenStream
  <2>7. ServedFromHere'
    BY <1>1, <2>2, <2>3, <2>6
       DEF ServedFromHere, WillStandAt, Positioned, Continues, Writes
  <2> QED BY <1>1, <2>3, <2>5, <2>7, WritesView
<1>3. CASE ~Honoured(conn.at)
  <2>1. PICK o \in Omissions :
          wire' = IF conn.at = NoCursor
                    THEN <<Hello("fresh", 0), SnapshotOf(o)>>
                    ELSE <<Hello("gap", 0), Gap(0), SnapshotOf(o)>>
    BY <1>3 DEF OpenStream
  <2>2. PICK f : f = SnapshotOf(o)
    OBVIOUS
  <2>3. /\ f.t = "snapshot" /\ f.epoch = depoch
        /\ f.seq = Head_ /\ SnapshotIsTrue(f) /\ IsNewTo(f)
    BY <2>2, SnapshotOfFits
  <2>4. conn'.state = "open" /\ conn'.at.seq = Head_
    BY <1>3 DEF OpenStream, At
  <2>5. CASE conn.at = NoCursor
    <3>1. /\ DOMAIN wire' = {1, 2} /\ Len(wire') = 2 /\ wire' # <<>>
          /\ wire'[1] = Hello("fresh", 0) /\ wire'[2] = f
      BY <2>1, <2>2, <2>5
    <3>2. wire'[1].t = "hello" /\ wire'[1].resume = "fresh"
      BY <3>1 DEF Hello
    <3>3. Fits(wire', 1)
      BY <3>2 DEF Fits, EventFits, SnapshotFits, HelloFits, HeartbeatFits,
                  Continues
    <3>4. \A j \in 1..(2 - 1) : wire'[j].t = "hello"
      BY <3>2
    <3>5. Fits(wire', 2)
      BY <2>3, <3>1, <3>2, <3>4 DEF Fits, EventFits, SnapshotFits, HelloFits,
                                    HeartbeatFits, Continues
    <3>6. ServedFromHere'
      BY <1>1, <2>3, <2>4, <3>1
         DEF ServedFromHere, WillStandAt, Positioned, Writes
    <3> QED BY <1>1, <3>1, <3>3, <3>5, <3>6, WritesView
  <2>6. CASE conn.at # NoCursor
    <3>1. /\ DOMAIN wire' = {1, 2, 3} /\ Len(wire') = 3 /\ wire' # <<>>
          /\ wire'[1] = Hello("gap", 0) /\ wire'[2] = Gap(0) /\ wire'[3] = f
      BY <2>1, <2>2, <2>6
    <3>2. /\ wire'[1].t = "hello" /\ wire'[1].resume = "gap"
          /\ wire'[2].t = "gap"
      BY <3>1 DEF Hello, Gap
    <3>3. Fits(wire', 1)
      BY <3>2 DEF Fits, EventFits, SnapshotFits, HelloFits, HeartbeatFits,
                  Continues
    <3>4. Fits(wire', 2)
      BY <3>2 DEF Fits, EventFits, SnapshotFits, HelloFits, HeartbeatFits,
                  Continues
    <3>5. \A j \in 1..(3 - 1) : wire'[j].t \in {"hello", "gap"}
      BY <3>2
    <3>6. Fits(wire', 3)
      BY <2>3, <3>1, <3>2, <3>5 DEF Fits, EventFits, SnapshotFits, HelloFits,
                                    HeartbeatFits, Continues
    <3>7. ServedFromHere'
      BY <1>1, <2>3, <2>4, <3>1
         DEF ServedFromHere, WillStandAt, Positioned, Writes
    <3> QED BY <1>1, <3>1, <3>3, <3>4, <3>6, <3>7, WritesView
  <2> QED BY <2>5, <2>6
<1> QED BY <1>2, <1>3

LEMMA TransportView ==
  ASSUME TypeOK, LinkInv, ViewInv, Transport
  PROVE  ViewInv'
BY OpenStreamView, SendEventView, SendResyncView, SendHeartbeatView, BreakView
   DEF Transport

-----------------------------------------------------------------------------
(* A frame is read.                                                          *)

(* The snapshots that follow the frame being read.                           *)
Behind(g) == g.t = "snapshot" /\ \E i \in DOMAIN wire : i > 1 /\ g = wire[i]

(* What reading f has to do: the host stands where it was to stand after it, *)
(* and what comes behind is still new to it.                                 *)
Reads(f) ==
  /\ wire # <<>> /\ f = Head(wire) /\ wire' = Tail(wire)
  /\ UNCHANGED <<log, depoch, pruned, conn>>

Lands(f) ==
  /\ RowsInv'
  /\ host'.epoch = f.epoch
  /\ \A n \in Nat : WillStandAt(wire, 1, f.epoch, n) => StandsAt(f.epoch, n)'
  /\ \A g : Behind(g) => IsNewTo(g)'

LEMMA ReadFacts ==
  ASSUME TypeOK, LinkInv, ViewInv, NEW f, Reads(f)
  PROVE  /\ f \in Frame /\ f.epoch \in Epochs /\ f.seq \in Nat
         /\ wire[1] = f /\ Fits(wire, 1) /\ wire \in Seq(Frame)
         /\ f.t # "hello" => f.epoch = host.epoch
         /\ \A g : Behind(g) =>
              /\ SnapshotIsTrue(g) /\ IsNewTo(g) /\ g.epoch = f.epoch
              /\ g.seq \in Nat
              /\ f.t \in {"event", "snapshot"} => f.seq <= g.seq
<1>1. /\ wire \in Seq(Frame) /\ 1 \in DOMAIN wire /\ wire[1] = f /\ f \in Frame
  BY HeadIsFirst, HeadOfWire DEF Reads, TypeOK
<1>2. Fits(wire, 1) /\ f.epoch \in Epochs /\ f.seq \in Nat
  BY <1>1, FrameIs DEF ViewInv, WireInv, FramesFit
<1>3. f.t # "hello" => f.epoch = host.epoch
  BY <1>1, <1>2 DEF Fits, HelloFits
<1>4. ASSUME NEW g, Behind(g)
      PROVE  /\ SnapshotIsTrue(g) /\ IsNewTo(g) /\ g.epoch = f.epoch
             /\ g.seq \in Nat
             /\ f.t \in {"event", "snapshot"} => f.seq <= g.seq
  <2>1. PICK i \in DOMAIN wire : i > 1 /\ g = wire[i] /\ g.t = "snapshot"
    BY <1>4 DEF Behind
  <2>2. Fits(wire, i) /\ g \in Frame /\ g.epoch = f.epoch
    BY <1>1, <2>1 DEF ViewInv, WireInv, FramesFit, LinkInv, OneEpoch
  <2>3. /\ SnapshotIsTrue(g) /\ IsNewTo(g)
        /\ \A j \in 1..(i - 1) :
             wire[j].t \in {"event", "snapshot"} => wire[j].seq <= g.seq
    BY <2>1, <2>2 DEF Fits, SnapshotFits
  <2>4. i \in Nat /\ 1 \in 1..(i - 1)
    BY <1>1, <2>1, LenProperties
  <2> QED BY <1>1, <2>2, <2>3, <2>4, FrameIs
<1> QED BY <1>1, <1>2, <1>3, <1>4

(* What comes behind the frame that was read fits as before.                 *)
LEMMA LandedView ==
  ASSUME TypeOK, LinkInv, ViewInv, NEW f, Reads(f), Lands(f)
  PROVE  LogInv' /\ RowsInv' /\ WireInv'
<1>1. LogInv' /\ RowsInv'
  BY LogInvKept DEF ViewInv, Reads, Lands
<1>2. PICK w, v : w = wire /\ v = wire'
  OBVIOUS
<1>3. /\ w \in Seq(Frame) /\ w # <<>> /\ v = Tail(w) /\ w[1] = f
      /\ f \in Frame /\ f.epoch \in Epochs
  BY <1>2, ReadFacts DEF Reads
<1>4. /\ Len(w) \in Nat /\ Len(w) > 0 /\ DOMAIN w = 1..Len(w)
      /\ Len(v) = Len(w) - 1 /\ DOMAIN v = 1..(Len(w) - 1)
      /\ \A i \in 1..(Len(w) - 1) : v[i] = w[i + 1]
      /\ v = <<>> <=> Len(w) = 1
  <2>1. Len(w) \in Nat /\ Len(w) > 0 /\ DOMAIN w = 1..Len(w)
    BY <1>3, EmptySeq, LenProperties
  <2>2. /\ v \in Seq(Frame) /\ Len(v) = Len(w) - 1
        /\ \A i \in 1..(Len(w) - 1) : v[i] = w[i + 1]
    BY <1>3, HeadTailProperties
  <2>3. DOMAIN v = 1..Len(v) /\ (v = <<>> <=> Len(v) = 0)
    BY <2>2, EmptySeq, LenProperties
  <2> QED BY <2>1, <2>2, <2>3
<1>5. \A i \in DOMAIN w : Fits(w, i) /\ w[i] \in Frame /\ w[i].epoch = f.epoch
  BY <1>2, <1>3, <1>4 DEF ViewInv, WireInv, FramesFit, LinkInv, OneEpoch
<1>6. \A i \in DOMAIN w : i > 1 => w[i].t \notin {"hello", "heartbeat"}
  BY <1>2, <1>4, <1>5 DEF Fits, HeartbeatFits, LinkInv, HelloComesFirst
<1>7. ASSUME NEW n \in Nat, WillStandAt(w, 1, f.epoch, n)
      PROVE  StandsAt(f.epoch, n)'
  BY <1>2, <1>7 DEF Lands
<1>8. ASSUME NEW i \in DOMAIN v
      PROVE  Fits(v, i)'
  <2>1. PICK g : g = v[i]
    OBVIOUS
  <2>2. /\ i \in Nat /\ i >= 1 /\ i + 1 \in DOMAIN w /\ g = w[i + 1]
        /\ i + 1 > 1 /\ i + 1 - 1 = i
    BY <1>4, <2>1
  <2>3. /\ Fits(w, i + 1) /\ g \in Frame /\ g.epoch = f.epoch
        /\ g.t \notin {"hello", "heartbeat"}
    BY <1>5, <1>6, <2>2
  <2>4. EventFits(v, i)'
    <3> SUFFICES ASSUME g.t = "event"
                 PROVE  /\ EventIsTrue(g)'
                        /\ WillStandAt(v, i - 1, g.epoch, g.seq - 1)'
      BY <2>1 DEF EventFits
    <3>1. EventIsTrue(g) /\ WillStandAt(w, i, g.epoch, g.seq - 1)
      BY <2>2, <2>3 DEF Fits, EventFits
    <3>2. EventIsTrue(g)'
      BY <3>1 DEF EventIsTrue, Reads
    <3>3. CASE i = 1
      <4>1. g.seq - 1 \in Nat
        BY <1>3, <2>3, <3>1, LogTypes DEF EventIsTrue
      <4>2. StandsAt(g.epoch, g.seq - 1)'
        BY <1>7, <2>3, <3>1, <3>3, <4>1
      <4> QED BY <3>2, <3>3, <4>2 DEF WillStandAt
    <3>4. CASE i # 1
      <4>1. i - 1 # 0 /\ v[i - 1] = w[i] /\ w[i].t # "heartbeat" /\ i # 0
        BY <1>4, <1>6, <2>2, <3>4
      <4> QED BY <3>1, <3>2, <4>1 DEF WillStandAt
    <3> QED BY <3>3, <3>4
  <2>5. SnapshotFits(v, i)'
    <3> SUFFICES ASSUME g.t = "snapshot"
                 PROVE  /\ SnapshotIsTrue(g)' /\ IsNewTo(g)'
                        /\ \A j \in 1..(i - 1) :
                             v[j].t \in {"event", "snapshot"} => v[j].seq <= g.seq
      BY <2>1 DEF SnapshotFits
    <3>1. /\ SnapshotIsTrue(g)
          /\ \A j \in 1..(i + 1 - 1) :
               w[j].t \in {"event", "snapshot"} => w[j].seq <= g.seq
      BY <2>2, <2>3 DEF Fits, SnapshotFits
    <3>2. SnapshotIsTrue(g)'
      BY <3>1 DEF SnapshotIsTrue, InLog, Spawned, Exited, Happened, Deltas, Reads
    <3>3. IsNewTo(g)'
      <4>1. Behind(g)
        BY <1>2, <2>2 DEF Behind
      <4> QED BY <4>1 DEF Lands
    <3>4. \A j \in 1..(i - 1) : v[j] = w[j + 1] /\ j + 1 \in 1..(i + 1 - 1)
      BY <1>4, <2>2
    <3> QED BY <3>1, <3>2, <3>3, <3>4
  <2>6. HelloFits(v, i)'
    BY <2>1, <2>3 DEF HelloFits, Continues, Lands
  <2>7. HeartbeatFits(v, i)'
    BY <2>1, <2>3 DEF HeartbeatFits
  <2> QED BY <2>4, <2>5, <2>6, <2>7 DEF Fits
<1>9. FramesFit'
  BY <1>2, <1>8 DEF FramesFit
<1>10. ServedFromHere'
  <2>1. conn.state # "dialing" /\ conn' = conn /\ depoch' = depoch
    BY DEF LinkInv, DialsInSilence, Reads
  <2>2. SUFFICES ASSUME conn.state = "open"
                 PROVE  /\ WillStandAt(v, Len(v), depoch, conn.at.seq)'
                        /\ v = <<>> => host'.epoch = depoch
    BY <1>2, <2>1 DEF ServedFromHere
  <2>3. f.epoch = depoch /\ WillStandAt(w, Len(w), depoch, conn.at.seq)
        /\ conn.at.seq \in Nat
    BY <1>2, <1>3, <1>4, <2>2 DEF LinkInv, ServesTheRunning, ViewInv, WireInv,
                                  ServedFromHere, TypeOK, Cursor
  <2>4. PICK p \in Nat : p = conn.at.seq /\ p = conn'.at.seq
    BY <2>1, <2>3
  <2>5. CASE Len(w) = 1
    <3>1. StandsAt(f.epoch, p)'
      BY <1>7, <2>3, <2>4, <2>5
    <3>2. StandsAt(depoch, conn.at.seq)'
      BY <2>1, <2>3, <2>4, <3>1 DEF StandsAt
    <3> QED BY <1>4, <2>3, <2>5, <3>2 DEF WillStandAt, Lands
  <2>6. CASE Len(w) # 1
    <3>1. /\ Len(v) # 0 /\ Len(v) \in Nat /\ v[Len(v)] = w[Len(w)] /\ v # <<>>
          /\ Len(w) # 0 /\ w[Len(w)].t # "heartbeat"
      BY <1>4, <1>6, <2>6
    <3> QED BY <2>1, <2>3, <3>1 DEF WillStandAt
  <2> QED BY <2>5, <2>6
<1> QED BY <1>1, <1>9, <1>10 DEF WireInv

-----------------------------------------------------------------------------
(* What the handlers do to the rows and to the position.                     *)

LEMMA AdvanceView ==
  ASSUME NEW h \in Host, NEW c \in Cursor
  PROVE  LET d == Advance(h, c) IN
         /\ d.sessions = h.sessions /\ d.epoch = h.epoch /\ d.resync = h.resync
         /\ d.cursor = IF h.resync \/ Rewinds(h, c) THEN h.cursor ELSE c
<1>1. CASE h.resync \/ Rewinds(h, c)
  BY <1>1 DEF Advance
<1>2. CASE ~(h.resync \/ Rewinds(h, c))
  <2>1. Advance(h, c) = [h EXCEPT !.cursor = c]
    BY <1>2 DEF Advance
  <2> QED BY <1>2, <2>1 DEF Host
<1> QED BY <1>1, <1>2

LEMMA HelloView ==
  ASSUME NEW h \in Host, NEW f \in HelloFrame
  PROVE  LET d == Apply(h, f).host IN
         /\ d.epoch = f.epoch /\ d.resync = h.resync
         /\ EpochChanges(h, f) =>
              d.cursor = NoCursor /\ d.sessions = [k \in Keys |-> Absent]
         /\ ~EpochChanges(h, f) =>
              d.cursor = h.cursor /\ d.sessions = h.sessions
<1>1. Apply(h, f).host =
        [(IF EpochChanges(h, f) THEN ForgetKeys(h) ELSE h)
           EXCEPT !.epoch = f.epoch, !.phase = "live", !.live = TRUE,
                  !.resume = f.resume]
  BY DEF Apply, HelloFrame, OnHello, Result
<1>2. CASE EpochChanges(h, f)
  <2> DEFINE g == ForgetKeys(h)
             d == [g EXCEPT !.epoch = f.epoch, !.phase = "live", !.live = TRUE,
                            !.resume = f.resume]
  <2>1. d.epoch = f.epoch /\ d.resync = h.resync /\ d.cursor = NoCursor
        /\ d.sessions = [k \in Keys |-> Absent]
    BY DEF ForgetKeys, Host
  <2>2. Apply(h, f).host = d
    BY <1>1, <1>2
  <2> HIDE DEF d
  <2> QED BY <1>2, <2>1, <2>2
<1>3. CASE ~EpochChanges(h, f)
  BY <1>1, <1>3 DEF Host
<1> QED BY <1>2, <1>3

LEMMA SnapshotView ==
  ASSUME NEW h \in Host, NEW f \in SnapshotFrame
  PROVE  LET d == Apply(h, f).host c == At(f.epoch, f.seq) IN
         /\ d.epoch = h.epoch /\ d.resync = FALSE
         /\ d.cursor = IF Rewinds(h, c) THEN h.cursor ELSE c
         /\ \A k \in Keys :
              d.sessions[k] = IF k \in f.listed
                                THEN Rebuilt(h.sessions[k], f.rows[k]) ELSE Absent
<1> DEFINE n == Resynced(h, f)
           c == At(f.epoch, f.seq)
<1>1. c \in Cursor
  BY AtType DEF SnapshotFrame
<1>2. /\ n \in Host /\ n.resync = FALSE /\ n.cursor = h.cursor /\ n.epoch = h.epoch
      /\ n.sessions = [k \in Keys |->
                         IF k \in f.listed THEN Rebuilt(h.sessions[k], f.rows[k])
                                           ELSE Absent]
  <2>1. \A k \in Keys : Rebuilt(h.sessions[k], f.rows[k]) \in Session
    BY DEF Rebuilt, Host, SnapshotFrame, Row, Session
  <2>2. Absent \in Session
    BY DEF Absent, Session
  <2> QED BY <2>1, <2>2 DEF Resynced, Host
<1>3. Apply(h, f).host = Advance(n, c)
  BY DEF Apply, SnapshotFrame, OnSnapshot, Result
<1>4. Rewinds(n, c) <=> Rewinds(h, c)
  BY <1>2 DEF Rewinds
<1> HIDE DEF n, c
<1>5. LET d == Advance(n, c) IN
      /\ d.sessions = n.sessions /\ d.epoch = n.epoch /\ d.resync = n.resync
      /\ d.cursor = IF n.resync \/ Rewinds(n, c) THEN n.cursor ELSE c
  BY <1>1, <1>2, AdvanceView
<1>6. LET d == Apply(h, f).host IN
      /\ d.epoch = h.epoch /\ d.resync = FALSE
      /\ d.cursor = IF Rewinds(h, c) THEN h.cursor ELSE c
      /\ d.sessions = n.sessions
  BY <1>2, <1>3, <1>4, <1>5
<1> QED BY <1>2, <1>6 DEF c

LEMMA EventView ==
  ASSUME NEW h \in Host, NEW f \in EventFrame
  PROVE  LET d == Apply(h, f).host c == At(f.epoch, f.seq) ev == f.event IN
         /\ d.epoch = h.epoch /\ d.resync = h.resync
         /\ d.cursor = IF h.resync \/ Rewinds(h, c) THEN h.cursor ELSE c
         /\ \A k \in Keys :
              d.sessions[k] = IF k = ev.key /\ ~IsUnknown(h, ev)
                                THEN Applied(h.sessions[k], ev.kind, f.seq)
                                ELSE h.sessions[k]
<1> DEFINE n == Noted(h, f)
           c == At(f.epoch, f.seq)
<1>1. f.event.key \in Keys /\ f.event.kind \in EventKinds /\ c \in Cursor
      /\ f.seq \in Nat
  BY AtType DEF EventFrame, Event
<1>2. /\ n \in Host /\ n.resync = h.resync /\ n.epoch = h.epoch
      /\ n.cursor = h.cursor
      /\ \A k \in Keys :
           n.sessions[k] = IF k = f.event.key /\ ~IsUnknown(h, f.event)
                             THEN Applied(h.sessions[k], f.event.kind, f.seq)
                             ELSE h.sessions[k]
  <2>1. CASE IsUnknown(h, f.event)
    BY <1>1, <2>1 DEF Noted, ReportUnknown, Host, Tag
  <2>2. CASE ~IsUnknown(h, f.event)
    <3> DEFINE s == Applied(h.sessions[f.event.key], f.event.kind, f.seq)
               ss == [h.sessions EXCEPT ![f.event.key] = s]
    <3>1. s \in Session
      BY <1>1, AppliedType DEF Host
    <3>2. n = [h EXCEPT !.sessions = ss]
      BY <2>2 DEF Noted, Host
    <3>3. /\ ss \in [Keys -> Session]
          /\ \A k \in Keys : ss[k] = IF k = f.event.key THEN s ELSE h.sessions[k]
      <4> HIDE DEF s
      <4> QED BY <3>1 DEF Host
    <3> HIDE DEF ss, n
    <3>4. /\ n \in Host /\ n.resync = h.resync /\ n.epoch = h.epoch
          /\ n.cursor = h.cursor /\ n.sessions = ss
      BY <3>2, <3>3 DEF Host
    <3> QED BY <2>2, <3>3, <3>4
  <2> QED BY <2>1, <2>2
<1>3. Apply(h, f).host = Advance(n, c)
  BY DEF Apply, EventFrame, OnEvent, Result
<1>4. Rewinds(n, c) <=> Rewinds(h, c)
  BY <1>2 DEF Rewinds
<1> HIDE DEF n, c
<1>5. LET d == Advance(n, c) IN
      /\ d.sessions = n.sessions /\ d.epoch = n.epoch /\ d.resync = n.resync
      /\ d.cursor = IF n.resync \/ Rewinds(n, c) THEN n.cursor ELSE c
  BY <1>1, <1>2, AdvanceView
<1>6. LET d == Apply(h, f).host IN
      /\ d.epoch = h.epoch /\ d.resync = h.resync
      /\ d.cursor = IF h.resync \/ Rewinds(h, c) THEN h.cursor ELSE c
      /\ d.sessions = n.sessions
  BY <1>2, <1>3, <1>4, <1>5
<1> QED BY <1>2, <1>6 DEF c

(* The row an event leaves behind: exact one position later if it was exact, *)
(* and true if it was true.                                                  *)
RowAfter(s, k, ev, n) ==
  IF k = ev.key /\ ~(ev.kind \in {"delta", "hook", "exited"} /\ ~s.listed)
    THEN Applied(s, ev.kind, n) ELSE s

LEMMA ExactStep ==
  ASSUME TypeOK, LifeIsOrdered, NEW e \in Epochs, NEW n \in 1..Len(log[e]),
         NEW s \in Session, NEW k \in Keys, Exact(s, k, e, n - 1)
  PROVE  Exact(RowAfter(s, k, log[e][n], n), k, e, n)
<1>0. PICK ev : ev = log[e][n]
  OBVIOUS
<1> DEFINE u == RowAfter(s, k, ev, n)
<1>1. n \in Nat \ {0} /\ n - 1 \in 0..Len(log[e]) /\ ev \in Event
  BY <1>0, LogTypes
<1>2. \A kind : ev = [kind |-> kind, key |-> k] <=> ev.kind = kind /\ ev.key = k
  BY <1>1 DEF Event
<1>3. /\ Spawned(e, n, k) <=> Spawned(e, n - 1, k) \/ (ev.kind = "spawned" /\ ev.key = k)
      /\ Exited(e, n, k) <=> Exited(e, n - 1, k) \/ (ev.kind = "exited" /\ ev.key = k)
      /\ \A i : i \in Deltas(e, n, k) <=>
           i \in Deltas(e, n - 1, k) \/ (i = n /\ ev.kind = "delta" /\ ev.key = k)
  <2>1. /\ \A kind : Happened(e, n, kind, k) <=>
              Happened(e, n - 1, kind, k) \/ ev = [kind |-> kind, key |-> k]
        /\ \A i : i \in Deltas(e, n, k) <=>
              \/ i \in Deltas(e, n - 1, k)
              \/ i = n /\ ev = [kind |-> "delta", key |-> k]
    BY <1>0, <1>1, OneMore
  <2> QED BY <1>2, <2>1 DEF Spawned, Exited
<1>4. ev.key = k =>
        /\ ev.kind = "spawned" => ~Spawned(e, n - 1, k)
        /\ ev.kind \in {"delta", "hook", "exited"} =>
             Spawned(e, n - 1, k) /\ ~Exited(e, n - 1, k)
  <2>1. /\ log[e][n] = [kind |-> "spawned", key |-> k] => ~Spawned(e, n - 1, k)
        /\ \A kind \in {"delta", "hook", "exited"} :
             log[e][n] = [kind |-> kind, key |-> k] =>
               Spawned(e, n - 1, k) /\ ~Exited(e, n - 1, k)
    BY DEF LifeIsOrdered, LivesOnce
  <2> QED BY <1>0, <1>2, <2>1
<1>5. ~Spawned(e, n - 1, k) => ~Exited(e, n - 1, k) /\ Deltas(e, n - 1, k) = {}
  BY <1>1, NothingBeforeBirth
<1>6. ev.kind \in EventKinds
  BY <1>1 DEF Event
<1>7. CASE ev.key # k \/ ev.kind \in {"hook", "note"}
  <2>1. u = s
    BY <1>7 DEF RowAfter, Applied
  <2>2. /\ Spawned(e, n, k) <=> Spawned(e, n - 1, k)
        /\ Exited(e, n, k) <=> Exited(e, n - 1, k)
        /\ Deltas(e, n, k) = Deltas(e, n - 1, k)
    BY <1>3, <1>7
  <2> HIDE DEF u
  <2>3. Exact(u, k, e, n)
    BY <2>1, <2>2 DEF Exact
  <2> QED BY <1>0, <2>3 DEF u
<1>8. CASE ev.key = k /\ ev.kind = "spawned"
  <2>1. ~s.listed
    BY <1>4, <1>8 DEF Exact
  <2>2. u = [Absent EXCEPT !.listed = TRUE]
    BY <1>8, <2>1 DEF RowAfter, Applied, Upserted
  <2>3. u.listed /\ ~u.exited /\ ~u.closed /\ ~u.omitted /\ u.body = {}
    BY <2>2 DEF Absent
  <2>4. Spawned(e, n, k) /\ ~Exited(e, n, k) /\ Deltas(e, n, k) = {}
    BY <1>3, <1>4, <1>5, <1>8
  <2> HIDE DEF u
  <2>5. Exact(u, k, e, n)
    BY <2>3, <2>4 DEF Exact
  <2> QED BY <1>0, <2>5 DEF u
<1>9. CASE ev.key = k /\ ev.kind = "delta"
  <2>1. /\ s.listed /\ ~s.exited /\ ~s.closed /\ ~s.omitted
        /\ s.body = Deltas(e, n - 1, k)
    BY <1>4, <1>9 DEF Exact, Session
  <2>2. u = [s EXCEPT !.body = @ \cup {n}, !.omitted = FALSE]
    BY <1>9, <2>1 DEF RowAfter, Applied, Merged
  <2>3. /\ u.listed /\ ~u.exited /\ ~u.closed /\ ~u.omitted
        /\ u.body = s.body \cup {n}
    BY <2>1, <2>2 DEF Session
  <2>4. Spawned(e, n, k) /\ ~Exited(e, n, k)
        /\ Deltas(e, n, k) = Deltas(e, n - 1, k) \cup {n}
    BY <1>3, <1>4, <1>9
  <2> HIDE DEF u
  <2>5. Exact(u, k, e, n)
    BY <2>1, <2>3, <2>4 DEF Exact
  <2> QED BY <1>0, <2>5 DEF u
<1>10. CASE ev.key = k /\ ev.kind = "exited"
  <2>1. /\ s.listed /\ ~s.omitted /\ s.body = Deltas(e, n - 1, k)
    BY <1>4, <1>10 DEF Exact, Session
  <2>2. u = [s EXCEPT !.exited = TRUE, !.closed = TRUE]
    BY <1>10, <2>1 DEF RowAfter, Applied, Ended
  <2>3. u.listed /\ u.exited /\ u.closed /\ ~u.omitted /\ u.body = s.body
    BY <2>1, <2>2 DEF Session
  <2>4. Spawned(e, n, k) /\ Exited(e, n, k) /\ Deltas(e, n, k) = Deltas(e, n - 1, k)
    BY <1>3, <1>4, <1>10
  <2> HIDE DEF u
  <2>5. Exact(u, k, e, n)
    BY <2>1, <2>3, <2>4 DEF Exact
  <2> QED BY <1>0, <2>5 DEF u
<1> QED BY <1>0, <1>6, <1>7, <1>8, <1>9, <1>10 DEF EventKinds

RowIsTrue(s, k, e) ==
  \/ s = Absent
  \/ /\ e \in Epochs
     /\ s.body \subseteq Deltas(e, Len(log[e]), k)
     /\ s.closed => Exited(e, Len(log[e]), k)

LEMMA RowIsTrueStep ==
  ASSUME TypeOK, NEW e \in Epochs, NEW n \in 1..Len(log[e]),
         NEW s \in Session, NEW k \in Keys, RowIsTrue(s, k, e)
  PROVE  RowIsTrue(RowAfter(s, k, log[e][n], n), k, e)
<1> DEFINE ev == log[e][n]
           u == RowAfter(s, k, ev, n)
<1>1. ev \in Event /\ Len(log[e]) \in Nat
  BY LogTypes
<1>2. \A kind : ev = [kind |-> kind, key |-> k] <=> ev.kind = kind /\ ev.key = k
  BY <1>1 DEF Event
<1>3. /\ ev.kind = "delta" /\ ev.key = k => n \in Deltas(e, Len(log[e]), k)
      /\ ev.kind = "exited" /\ ev.key = k => Exited(e, Len(log[e]), k)
  BY <1>2 DEF Deltas, Exited, Happened
<1>4. s.body \subseteq Deltas(e, Len(log[e]), k)
      /\ (s.closed => Exited(e, Len(log[e]), k))
  BY DEF RowIsTrue, Absent
<1>5. ev.kind \in EventKinds
  BY <1>1 DEF Event
<1> HIDE DEF ev
<1>6. CASE u = s
  BY <1>6 DEF ev
<1>7. CASE u # s
  <2>1. ev.key = k /\ u = Applied(s, ev.kind, n)
        /\ ev.kind \in {"spawned", "delta", "exited"}
    BY <1>5, <1>7 DEF RowAfter, Applied, EventKinds
  <2> HIDE DEF u
  <2>2. CASE ev.kind = "spawned"
    <3>1. u.body \in {s.body, {}} /\ (u.closed => s.closed)
      BY <2>1, <2>2 DEF Applied, Upserted, Absent, Session
    <3>2. RowIsTrue(u, k, e)
      BY <1>4, <3>1 DEF RowIsTrue
    <3> QED BY <3>2 DEF u, ev
  <2>3. CASE ev.kind = "delta"
    <3>1. u.body = s.body \cup {n} /\ u.closed = s.closed
      BY <2>1, <2>3 DEF Applied, Merged, Session
    <3>2. RowIsTrue(u, k, e)
      BY <1>3, <1>4, <2>1, <2>3, <3>1 DEF RowIsTrue
    <3> QED BY <3>2 DEF u, ev
  <2>4. CASE ev.kind = "exited"
    <3>1. u.body = s.body
      BY <2>1, <2>4 DEF Applied, Ended, Session
    <3>2. RowIsTrue(u, k, e)
      BY <1>3, <1>4, <2>1, <2>4, <3>1 DEF RowIsTrue
    <3> QED BY <3>2 DEF u, ev
  <2> QED BY <2>1, <2>2, <2>3, <2>4
<1> QED BY <1>6, <1>7

-----------------------------------------------------------------------------
(* Every kind of frame lands the host where it was to stand.                 *)

LEMMA SameLog ==
  ASSUME UNCHANGED <<log, depoch, pruned>>
  PROVE  /\ \A e, n, k : Exited(e, n, k)' <=> Exited(e, n, k)
         /\ \A e, n : InLog(e, n)' <=> InLog(e, n)
         /\ \A s, k, e, n : Exact(s, k, e, n)' <=> Exact(s, k, e, n)
         /\ \A s, k, e : RowIsTrue(s, k, e)' <=> RowIsTrue(s, k, e)
<1>1. /\ \A e, n, k : Exited(e, n, k)' <=> Exited(e, n, k)
      /\ \A e, n, k : Spawned(e, n, k)' <=> Spawned(e, n, k)
      /\ \A e, n, k : Deltas(e, n, k)' = Deltas(e, n, k)
      /\ \A e, n : InLog(e, n)' <=> InLog(e, n)
  BY DEF Exited, Spawned, Happened, Deltas, InLog
<1>2. \A s, k, e, n : Exact(s, k, e, n)' <=> Exact(s, k, e, n)
  BY <1>1 DEF Exact
<1>3. \A s, k, e : RowIsTrue(s, k, e)' <=> RowIsTrue(s, k, e)
  BY <1>1 DEF RowIsTrue
<1> QED BY <1>1, <1>2, <1>3

(* A frame that leaves rows and position alone, or after which the host owes *)
(* a resync.                                                                 *)
LEMMA StillLands ==
  ASSUME TypeOK, LinkInv, ViewInv, NEW f, Reads(f), f.t # "hello", HostKept,
         f.t \in {"gap", "heartbeat"} \/ host'.resync
  PROVE  Lands(f)
<1>0. UNCHANGED <<log, depoch, pruned>>
  BY DEF Reads
<1>1. RowsInv'
  <2>1. Kept
    BY <1>0, LogKept, EpochsAreNat DEF Kept
  <2> QED BY <2>1, RowsKept DEF ViewInv
<1>2. host'.epoch = f.epoch
  BY ReadFacts DEF HostKept
<1>3. ASSUME NEW n \in Nat, WillStandAt(wire, 1, f.epoch, n)
      PROVE  StandsAt(f.epoch, n)'
  <2>1. CASE f.t = "heartbeat"
    <3>1. StandsAt(f.epoch, n)
      BY <1>3, <2>1, ReadFacts DEF WillStandAt
    <3> QED BY <3>1 DEF StandsAt, HostKept
  <2>2. CASE f.t # "heartbeat"
    <3>1. Positioned(f)
      BY <1>3, <2>2, ReadFacts DEF WillStandAt
    <3>2. host'.resync
      BY <2>2, <3>1 DEF Positioned, Continues
    <3> QED BY <3>2 DEF StandsAt
  <2> QED BY <2>1, <2>2
<1>4. ASSUME NEW g, Behind(g) PROVE IsNewTo(g)'
  <2>1. IsNewTo(g)
    BY <1>4, ReadFacts
  <2> QED BY <1>0, <2>1, SameLog DEF IsNewTo, HostKept
<1> QED BY <1>1, <1>2, <1>3, <1>4 DEF Lands

LEMMA RowsAreTrueOf ==
  RowsAreTrue <=> \A k \in Keys : RowIsTrue(host.sessions[k], k, host.epoch)
BY DEF RowsAreTrue, RowIsTrue

LEMMA GapLands ==
  ASSUME TypeOK, LinkInv, ViewInv, NEW f \in GapFrame \cup HeartbeatFrame,
         Reads(f), host' = Apply(host, f).host
  PROVE  Lands(f)
<1>0. host \in Host /\ host.cursor \in Cursor
  BY DEF TypeOK, Host
<1>1. CASE f \in GapFrame
  <2>1. host' = [host EXCEPT !.resume = "gap"]
    BY <1>1 DEF Apply, GapFrame, OnGap, Result
  <2>2. HostKept
    BY <1>0, <2>1 DEF HostKept, Host
  <2> QED BY <1>1, <2>2, StillLands DEF GapFrame
<1>2. CASE f \in HeartbeatFrame
  <2> DEFINE c == At(f.epoch, f.seq)
  <2>1. host' = Advance(host, c) /\ c \in Cursor
    BY <1>2, AtType DEF Apply, HeartbeatFrame, OnHeartbeat, Result
  <2>2. host.resync \/ (host.cursor.epoch = f.epoch /\ f.seq <= host.cursor.seq)
    BY <1>2, ReadFacts DEF Fits, HeartbeatFits, HeartbeatFrame
  <2>3. host.resync \/ Rewinds(host, c) \/ host.cursor = c
    BY <1>0, <2>1, <2>2 DEF Rewinds, At, Cursor
  <2>4. HostKept
    BY <1>0, <2>1, <2>3, AdvanceView DEF HostKept
  <2> QED BY <1>2, <2>4, StillLands DEF HeartbeatFrame
<1> QED BY <1>1, <1>2

LEMMA HelloLands ==
  ASSUME TypeOK, LinkInv, ViewInv, NEW f \in HelloFrame,
         Reads(f), host' = Apply(host, f).host
  PROVE  Lands(f)
<1>0. /\ host \in Host /\ host.cursor \in Cursor /\ UNCHANGED <<log, depoch, pruned>>
      /\ f.epoch \in Epochs /\ f.t = "hello" /\ f.epoch # 0
  BY MaxEpochAssumption DEF TypeOK, Host, Reads, HelloFrame, Epochs
<1>1. /\ host'.epoch = f.epoch /\ host'.resync = host.resync
      /\ EpochChanges(host, f) =>
           host'.cursor = NoCursor /\ host'.sessions = [k \in Keys |-> Absent]
      /\ ~EpochChanges(host, f) =>
           host'.cursor = host.cursor /\ host'.sessions = host.sessions
  BY <1>0, HelloView
<1>2. \A n \in Nat : WillStandAt(wire, 1, f.epoch, n) => StandsAt(f.epoch, n)
  BY <1>0, ReadFacts DEF WillStandAt, Positioned, Fits, HelloFits
<1>3. \A n : At(f.epoch, n) # NoCursor
  BY <1>0 DEF At, NoCursor
<1>4. CASE host.epoch = f.epoch
  <2>1. HostKept
    BY <1>1, <1>4 DEF HostKept, EpochChanges
  <2>2. RowsInv'
    <3>1. Kept
      BY <1>0, LogKept, EpochsAreNat DEF Kept
    <3> QED BY <2>1, <3>1, RowsKept DEF ViewInv
  <2>3. \A g : Behind(g) => IsNewTo(g)'
    <3>1. \A g : Behind(g) => IsNewTo(g)
      BY ReadFacts
    <3> QED BY <1>0, <2>1, <3>1, SameLog DEF IsNewTo, HostKept
  <2>4. \A n : StandsAt(f.epoch, n) => StandsAt(f.epoch, n)'
    BY <2>1 DEF StandsAt, HostKept
  <2> QED BY <1>1, <1>2, <2>2, <2>3, <2>4 DEF Lands
<1>5. CASE host.epoch # f.epoch
  <2>1. host'.cursor = NoCursor /\ \A k \in Keys : host'.sessions[k] = Absent
    <3>1. CASE EpochChanges(host, f)
      BY <1>1, <3>1
    <3>2. CASE host.epoch = 0
      <4>1. host.epoch \notin Epochs /\ ~EpochChanges(host, f)
        BY <3>2 DEF Epochs, EpochChanges
      <4>2. host.cursor = NoCursor /\ \A k \in Keys : host.sessions[k] = Absent
        BY <4>1 DEF ViewInv, RowsInv, CursorIsInLog, InLog, RowsAreTrue
      <4> QED BY <1>1, <4>1, <4>2
    <3> QED BY <1>5, <3>1, <3>2 DEF EpochChanges
  <2>2. RowsInv'
    BY <2>1 DEF RowsInv, CursorIsInLog, RowsAreExact, RowsAreTrue
  <2>3. ASSUME NEW n \in Nat, StandsAt(f.epoch, n) PROVE StandsAt(f.epoch, n)'
    <3>1. CASE host.resync
      BY <1>1, <3>1 DEF StandsAt
    <3>2. CASE host.cursor = At(f.epoch, n)
      <4>1. host.cursor.epoch = host.epoch
        BY <1>3, <3>2 DEF ViewInv, RowsInv, CursorIsInLog
      <4> QED BY <1>5, <3>2, <4>1 DEF At
    <3> QED BY <2>3, <3>1, <3>2 DEF StandsAt
  <2>4. ASSUME NEW g, Behind(g) PROVE IsNewTo(g)'
    <3>1. g.epoch = f.epoch
      BY <2>4, ReadFacts
    <3>2. host'.cursor.epoch = 0 /\ \A k \in Keys : ~host'.sessions[k].closed
      BY <2>1 DEF NoCursor, Absent
    <3> QED BY <1>0, <3>1, <3>2 DEF IsNewTo
  <2> QED BY <1>1, <1>2, <2>2, <2>3, <2>4 DEF Lands
<1> QED BY <1>4, <1>5

(* An end in the row that an event leaves is one the log knows of.           *)
LEMMA RowEnds ==
  ASSUME NEW s \in Session, NEW k \in Keys, NEW ev \in Event, NEW n
  PROVE  /\ RowAfter(s, k, ev, n).closed =>
              s.closed \/ ev = [kind |-> "exited", key |-> k]
         /\ s.closed => RowAfter(s, k, ev, n).closed \/ ~s.listed
<1> DEFINE u == RowAfter(s, k, ev, n)
<1>1. ev.kind = "exited" /\ ev.key = k => ev = [kind |-> "exited", key |-> k]
  BY DEF Event
<1>2. CASE u = s
  BY <1>2
<1>3. CASE u # s
  <2>1. /\ ev.key = k /\ u = Applied(s, ev.kind, n)
        /\ ev.kind \in {"spawned", "delta", "exited"}
    BY <1>3 DEF RowAfter, Applied, Event, EventKinds
  <2>2. CASE ev.kind = "spawned"
    BY <2>1, <2>2 DEF Applied, Upserted, Absent, Session
  <2>3. CASE ev.kind = "delta"
    BY <2>1, <2>3 DEF Applied, Merged, Session
  <2>4. CASE ev.kind = "exited"
    BY <1>1, <2>1, <2>4 DEF Applied, Ended, Session
  <2> QED BY <2>1, <2>2, <2>3, <2>4
<1> QED BY <1>2, <1>3

LEMMA EventLands ==
  ASSUME TypeOK, LinkInv, ViewInv, NEW f \in EventFrame,
         Reads(f), host' = Apply(host, f).host
  PROVE  Lands(f)
<1>0. /\ host \in Host /\ host.cursor \in Cursor
      /\ \A k \in Keys : host.sessions[k] \in Session
      /\ UNCHANGED <<log, depoch, pruned>> /\ f.t = "event"
  BY DEF TypeOK, Host, Reads, EventFrame
<1>1. PICK e \in Epochs, n \in Nat, m \in Nat, ev \in Event :
        e = f.epoch /\ n = f.seq /\ m = Len(log[e]) /\ ev = f.event
  BY LogTypes DEF EventFrame
<1>2. host.epoch = e /\ EventIsTrue(f) /\ StandsAt(e, n - 1)
  BY <1>0, <1>1, ReadFacts DEF Fits, EventFits, WillStandAt
<1>3. n \in 1..m /\ log[e][n] = ev /\ n - 1 \in Nat
  BY <1>1, <1>2 DEF EventIsTrue
<1>4. /\ host'.epoch = e /\ host'.resync = host.resync
      /\ host'.cursor = IF host.resync \/ Rewinds(host, At(e, n))
                          THEN host.cursor ELSE At(e, n)
      /\ \A k \in Keys :
           host'.sessions[k] = RowAfter(host.sessions[k], k, ev, n)
  <2>1. LET d == host' c == At(e, n) IN
        /\ d.epoch = e /\ d.resync = host.resync
        /\ d.cursor = IF host.resync \/ Rewinds(host, c) THEN host.cursor ELSE c
        /\ \A k \in Keys :
             d.sessions[k] = IF k = ev.key /\ ~IsUnknown(host, ev)
                               THEN Applied(host.sessions[k], ev.kind, n)
                               ELSE host.sessions[k]
    BY <1>0, <1>1, <1>2, EventView
  <2> QED BY <2>1 DEF RowAfter, IsUnknown
<1>5. ASSUME host.resync
      PROVE  /\ CursorIsInLog' /\ RowsAreExact' /\ StandsAt(e, n)'
             /\ \A g : Behind(g) =>
                  (host'.cursor.epoch = g.epoch => host'.cursor.seq <= g.seq)
  <2>1. host'.resync /\ host'.cursor = host.cursor
    BY <1>4, <1>5
  <2>2. CursorIsInLog' /\ RowsAreExact'
    BY <1>0, <1>2, <1>4, <2>1, SameLog
       DEF CursorIsInLog, RowsAreExact, ViewInv, RowsInv
  <2>3. StandsAt(e, n)'
    BY <2>1 DEF StandsAt
  <2>4. \A g : Behind(g) => (host'.cursor.epoch = g.epoch => host'.cursor.seq <= g.seq)
    BY <2>1, ReadFacts DEF IsNewTo
  <2> QED BY <2>2, <2>3, <2>4
<1>6. ASSUME ~host.resync
      PROVE  /\ CursorIsInLog' /\ RowsAreExact' /\ StandsAt(e, n)'
             /\ \A g : Behind(g) =>
                  (host'.cursor.epoch = g.epoch => host'.cursor.seq <= g.seq)
  <2>1. /\ host.cursor = At(e, n - 1) /\ host.cursor.epoch = e
        /\ host.cursor.seq = n - 1 /\ host.cursor # NoCursor
    BY <1>1, <1>2, <1>6, MaxEpochAssumption DEF StandsAt, At, NoCursor, Epochs
  <2>2. ~Rewinds(host, At(e, n))
    BY <1>1, <2>1 DEF Rewinds, At
  <2>3. host'.cursor = At(e, n) /\ ~host'.resync
    BY <1>4, <1>6, <2>2
  <2>4. host'.cursor.epoch = e /\ host'.cursor.seq = n
    BY <2>3 DEF At
  <2>5. CursorIsInLog'
    <3>1. InLog(e, n)
      BY <1>1, <1>3 DEF InLog
    <3>2. InLog(e, n)'
      BY <1>0, <3>1, SameLog
    <3> QED BY <1>4, <2>4, <3>2 DEF CursorIsInLog, InLog
  <2>6. RowsAreExact'
    <3>1. ASSUME NEW k \in Keys, NEW s, s = host'.sessions[k]
          PROVE  Exact(s, k, e, n)'
      <4>1. PICK o \in Session : o = host.sessions[k]
        BY <1>0
      <4>2. Exact(o, k, e, n - 1)
        BY <1>6, <2>1, <4>1 DEF ViewInv, RowsInv, RowsAreExact
      <4>3. Exact(RowAfter(o, k, log[e][n], n), k, e, n)
        BY <1>1, <1>3, <4>2, ExactStep DEF ViewInv, LogInv
      <4>4. Exact(s, k, e, n)
        BY <1>3, <1>4, <3>1, <4>1, <4>3
      <4> QED BY <1>0, <4>4, SameLog
    <3> QED BY <2>4, <3>1 DEF RowsAreExact, Exact
  <2>7. StandsAt(e, n)'
    BY <2>3 DEF StandsAt
  <2>8. \A g : Behind(g) => (host'.cursor.epoch = g.epoch => host'.cursor.seq <= g.seq)
    BY <1>0, <1>1, <2>4, ReadFacts
  <2> QED BY <2>5, <2>6, <2>7, <2>8
<1>7. RowsAreTrue'
  <2>1. ASSUME NEW k \in Keys, NEW s, s = host'.sessions[k]
        PROVE  RowIsTrue(s, k, e)'
    <3>1. PICK o \in Session : o = host.sessions[k]
      BY <1>0
    <3>2. RowIsTrue(o, k, e)
      BY <1>2, <3>1, RowsAreTrueOf DEF ViewInv, RowsInv
    <3>3. RowIsTrue(RowAfter(o, k, log[e][n], n), k, e)
      BY <1>1, <1>3, <3>2, RowIsTrueStep
    <3>4. RowIsTrue(s, k, e)
      BY <1>3, <1>4, <2>1, <3>1, <3>3
    <3> QED BY <1>0, <3>4, SameLog
  <2> QED BY <1>4, <2>1 DEF RowsAreTrue, RowIsTrue
<1>8. ASSUME NEW g, Behind(g), NEW k \in Keys, host'.sessions[k].closed
      PROVE  Exited(e, g.seq, k)'
  <2>1. IsNewTo(g) /\ g.epoch = e /\ g.seq \in Nat /\ n <= g.seq
    BY <1>0, <1>1, <1>8, ReadFacts
  <2>2. PICK o \in Session : o = host.sessions[k]
    BY <1>0
  <2>3. o.closed \/ ev = [kind |-> "exited", key |-> k]
    BY <1>4, <1>8, <2>2, RowEnds
  <2>4. CASE o.closed
    BY <1>0, <1>2, <2>1, <2>2, <2>4, SameLog DEF IsNewTo
  <2>5. CASE ev = [kind |-> "exited", key |-> k]
    <3>1. Exited(e, n, k)
      BY <1>3, <2>5 DEF Exited, Happened
    <3>2. Exited(e, g.seq, k)
      BY <1>1, <2>1, <3>1, MoreHappens
    <3> QED BY <1>0, <3>2, SameLog
  <2> QED BY <2>3, <2>4, <2>5
<1>9. CursorIsInLog' /\ RowsAreExact' /\ StandsAt(e, n)'
  BY <1>5, <1>6
<1>10. \A g : Behind(g) => IsNewTo(g)'
  <2>1. ASSUME NEW g, Behind(g) PROVE IsNewTo(g)'
    <3>1. g.epoch = e
      BY <1>1, <2>1, ReadFacts
    <3>2. host'.cursor.epoch = g.epoch => host'.cursor.seq <= g.seq
      BY <1>5, <1>6, <2>1
    <3> QED BY <1>8, <2>1, <3>1, <3>2 DEF IsNewTo
  <2> QED BY <2>1
<1>11. \A p \in Nat : WillStandAt(wire, 1, f.epoch, p) => p = n
  BY <1>0, <1>1, ReadFacts DEF WillStandAt
<1> QED BY <1>1, <1>4, <1>7, <1>9, <1>10, <1>11 DEF Lands, RowsInv

(* The rows a snapshot leaves are exact, the bodies it leaves out included:  *)
(* those sessions had ended before it was taken.                             *)
LEMMA SnapshotRow ==
  ASSUME TypeOK, LifeIsOrdered, NEW f \in SnapshotFrame, SnapshotIsTrue(f),
         NEW k \in Keys, NEW o \in Session, RowIsTrue(o, k, f.epoch),
         NEW s, s = IF k \in f.listed THEN Rebuilt(o, f.rows[k]) ELSE Absent
  PROVE  /\ Exact(s, k, f.epoch, f.seq) /\ RowIsTrue(s, k, f.epoch)
         /\ s.closed => Exited(f.epoch, f.seq, k)
         /\ o.closed /\ Exited(f.epoch, f.seq, k) /\ s.listed => s.closed
<1>1. PICK e \in Epochs, n \in Nat, m \in Nat, row \in Row :
        /\ e = f.epoch /\ n = f.seq /\ m = Len(log[e]) /\ row = f.rows[k]
        /\ n \in 0..m
  BY LogTypes DEF SnapshotFrame, SnapshotIsTrue, InLog
<1>2. /\ k \in f.listed => Spawned(e, n, k)
      /\ row.exited <=> Exited(e, n, k)
      /\ row.omitted => Exited(e, n, k)
      /\ ~row.omitted => row.body = Deltas(e, n, k)
      /\ Spawned(e, n, k) =>
           \/ k \in f.listed
           \/ Exited(e, n, k) /\ (e = depoch => k \in pruned)
  BY <1>1 DEF SnapshotIsTrue
<1>3. Deltas(e, n, k) \subseteq Deltas(e, m, k)
      /\ (Exited(e, n, k) => Exited(e, m, k))
  <2>1. n <= m
    BY <1>1
  <2> QED BY <2>1, MoreHappens
<1>4. Exited(e, n, k) => Deltas(e, m, k) = Deltas(e, n, k)
  BY <1>1, NothingAfterEnd
<1>5. o.body \subseteq Deltas(e, m, k)
  BY <1>1 DEF RowIsTrue, Absent
<1>6. CASE k \in f.listed
  <2>1. /\ s.listed /\ s.exited = row.exited /\ s.closed = row.exited
        /\ s.omitted = row.omitted
        /\ s.body = IF row.omitted THEN o.body ELSE row.body
    BY <1>1, <1>6 DEF Rebuilt
  <2>2. /\ s.body \subseteq Deltas(e, n, k)
        /\ ~s.omitted => s.body = Deltas(e, n, k)
    BY <1>2, <1>4, <1>5, <2>1
  <2>3. Exact(s, k, e, n)
    BY <1>2, <1>6, <2>1, <2>2 DEF Exact
  <2>4. RowIsTrue(s, k, e)
    BY <1>1, <1>2, <1>3, <2>1, <2>2 DEF RowIsTrue
  <2> QED BY <1>1, <1>2, <2>1, <2>3, <2>4
<1>7. CASE k \notin f.listed
  <2>1. s = Absent /\ ~s.listed /\ ~s.closed
    BY <1>7 DEF Absent
  <2>2. Exact(s, k, e, n)
    BY <1>2, <1>7, <2>1 DEF Exact
  <2>3. RowIsTrue(s, k, e)
    BY <2>1 DEF RowIsTrue
  <2> QED BY <1>1, <2>1, <2>2, <2>3
<1> QED BY <1>6, <1>7

LEMMA SnapshotLands ==
  ASSUME TypeOK, LinkInv, ViewInv, NEW f \in SnapshotFrame,
         Reads(f), host' = Apply(host, f).host
  PROVE  Lands(f)
<1>0. /\ host \in Host /\ host.cursor \in Cursor
      /\ \A k \in Keys : host.sessions[k] \in Session
      /\ UNCHANGED <<log, depoch, pruned>> /\ f.t = "snapshot"
  BY DEF TypeOK, Host, Reads, SnapshotFrame
<1>1. PICK e \in Epochs, n \in Nat : e = f.epoch /\ n = f.seq
  BY DEF SnapshotFrame
<1>2. host.epoch = e /\ SnapshotIsTrue(f) /\ IsNewTo(f)
  BY <1>0, <1>1, ReadFacts DEF Fits, SnapshotFits
<1>3. /\ host'.epoch = e /\ host'.resync = FALSE
      /\ host'.cursor = At(e, n)
      /\ \A k \in Keys :
           host'.sessions[k] = IF k \in f.listed
                                 THEN Rebuilt(host.sessions[k], f.rows[k])
                                 ELSE Absent
  <2>1. ~Rewinds(host, At(e, n))
    BY <1>0, <1>1, <1>2 DEF IsNewTo, Rewinds, At, Cursor
  <2> QED BY <1>0, <1>1, <1>2, <2>1, SnapshotView
<1>4. host'.cursor.epoch = e /\ host'.cursor.seq = n
  BY <1>3 DEF At
<1>5. ASSUME NEW k \in Keys, NEW s, s = host'.sessions[k]
      PROVE  /\ Exact(s, k, e, n)' /\ RowIsTrue(s, k, e)'
             /\ s.closed => Exited(e, n, k)
  <2>1. PICK o \in Session : o = host.sessions[k]
    BY <1>0
  <2>2. RowIsTrue(o, k, f.epoch)
    BY <1>1, <1>2, <2>1, RowsAreTrueOf DEF ViewInv, RowsInv
  <2>3. s = IF k \in f.listed THEN Rebuilt(o, f.rows[k]) ELSE Absent
    BY <1>3, <1>5, <2>1
  <2>4. LifeIsOrdered
    BY DEF ViewInv, LogInv
  <2>5. /\ Exact(s, k, e, n) /\ RowIsTrue(s, k, e)
        /\ s.closed => Exited(e, n, k)
    BY <1>1, <1>2, <2>2, <2>3, <2>4, SnapshotRow
  <2> QED BY <1>0, <2>5, SameLog
<1>6. CursorIsInLog'
  <2>1. InLog(e, n)
    BY <1>1, <1>2 DEF SnapshotIsTrue
  <2>2. InLog(e, n)'
    BY <1>0, <2>1, SameLog
  <2> QED BY <1>3, <1>4, <2>2 DEF CursorIsInLog, InLog
<1>7. RowsAreExact'
  BY <1>4, <1>5 DEF RowsAreExact, Exact
<1>8. RowsAreTrue'
  BY <1>3, <1>5 DEF RowsAreTrue, RowIsTrue
<1>9. ASSUME NEW g, Behind(g) PROVE IsNewTo(g)'
  <2>1. g.epoch = e /\ g.seq \in Nat /\ n <= g.seq
    BY <1>0, <1>1, <1>9, ReadFacts
  <2>2. ASSUME NEW k \in Keys, host'.sessions[k].closed
        PROVE  Exited(e, g.seq, k)'
    <3>1. Exited(e, n, k)
      BY <1>5, <2>2
    <3>2. Exited(e, g.seq, k)
      BY <1>1, <2>1, <3>1, MoreHappens
    <3> QED BY <1>0, <3>2, SameLog
  <2> QED BY <1>4, <2>1, <2>2 DEF IsNewTo
<1>10. \A p \in Nat : WillStandAt(wire, 1, f.epoch, p) => p = n
  BY <1>0, <1>1, ReadFacts DEF WillStandAt
<1>11. StandsAt(e, n)'
  BY <1>3 DEF StandsAt
<1> QED BY <1>1, <1>3, <1>6, <1>7, <1>8, <1>9, <1>10, <1>11 DEF Lands, RowsInv

-----------------------------------------------------------------------------
(* An end stays an end.                                                      *)

(* A handler reopens no row, and closes those it announces closed.           *)
EndsStay(h, r) ==
  \A k \in Keys :
    LET old == h.sessions[k] new == r.host.sessions[k] IN
    /\ new.listed /\ k \in r.emits.closed => new.closed
    /\ new.listed /\ old.listed /\ old.closed => new.closed

LEMMA EventEnds ==
  ASSUME NEW h \in Host, NEW f \in EventFrame
  PROVE  EndsStay(h, Apply(h, f))
<1> DEFINE ev == f.event
           r == Apply(h, f)
<1>1. ev \in Event /\ ev.kind \in EventKinds /\ ev.key \in Keys
  BY DEF EventFrame, Event
<1>2. r.emits.closed = IF IsShown(h, ev) /\ ev.kind = "exited" THEN {ev.key} ELSE {}
  BY DEF Apply, EventFrame, OnEvent, Result
<1>3. \A k \in Keys : r.host.sessions[k] = RowAfter(h.sessions[k], k, ev, f.seq)
  BY EventView DEF RowAfter, IsUnknown
<1> HIDE DEF r
<1>4. ASSUME NEW k \in Keys
      PROVE  LET old == h.sessions[k] new == r.host.sessions[k] IN
             /\ new.listed /\ k \in r.emits.closed => new.closed
             /\ new.listed /\ old.listed /\ old.closed => new.closed
  <2>1. PICK o \in Session : o = h.sessions[k]
    BY DEF Host
  <2>2. o.closed /\ o.listed => RowAfter(o, k, ev, f.seq).closed
    BY <1>1, <2>1, RowEnds
  <2>3. ASSUME k \in r.emits.closed PROVE RowAfter(o, k, ev, f.seq).closed
    <3>1. IsShown(h, ev) /\ ev.kind = "exited" /\ ev.key = k
      BY <1>2, <2>3
    <3>2. RowAfter(o, k, ev, f.seq) = Ended(o)
      BY <2>1, <3>1 DEF IsShown, IsUnknown, RowAfter, Applied
    <3> QED BY <3>2 DEF Ended, Session
  <2> QED BY <1>3, <2>1, <2>2, <2>3
<1>5. EndsStay(h, r)
  BY <1>4 DEF EndsStay
<1> QED BY <1>5 DEF r

LEMMA FrameEnds ==
  ASSUME TypeOK, LinkInv, ViewInv, NEW f, Reads(f)
  PROVE  EndsStay(host, Apply(host, f))
<1> DEFINE r == Apply(host, f)
<1>0. host \in Host /\ f \in Frame
  BY ReadFacts DEF TypeOK
<1>1. CASE f \in HelloFrame
  <2>1. r.emits.closed = IF EpochChanges(host, f) THEN Listed(host) ELSE {}
    BY <1>1 DEF Apply, HelloFrame, OnHello, Result
  <2>2. /\ EpochChanges(host, f) => r.host.sessions = [k \in Keys |-> Absent]
        /\ ~EpochChanges(host, f) => r.host.sessions = host.sessions
    BY <1>0, <1>1, HelloView
  <2> HIDE DEF r
  <2>3. EpochChanges(host, f) => \A k \in Keys : ~r.host.sessions[k].listed
    <3>1. Absent.listed = FALSE
      BY DEF Absent
    <3> QED BY <2>2, <3>1
  <2>4. EndsStay(host, r)
    BY <2>1, <2>2, <2>3 DEF EndsStay
  <2> QED BY <2>4 DEF r
<1>2. CASE f \in GapFrame \cup HeartbeatFrame
  <2>1. r.emits.closed = {}
    BY <1>2 DEF Apply, GapFrame, HeartbeatFrame, OnGap, OnHeartbeat, Result
  <2>2. r.host.sessions = host.sessions
    <3>1. CASE f \in GapFrame
      BY <1>0, <3>1 DEF Apply, GapFrame, OnGap, Result, Host
    <3>2. CASE f \in HeartbeatFrame
      BY <1>0, <3>2, AdvanceKeepsSessions
         DEF Apply, HeartbeatFrame, OnHeartbeat, Result
    <3> QED BY <1>2, <3>1, <3>2
  <2> HIDE DEF r
  <2>3. EndsStay(host, r)
    BY <2>1, <2>2 DEF EndsStay
  <2> QED BY <2>3 DEF r
<1>3. CASE f \in SnapshotFrame
  <2>1. r.emits.closed = Listed(host) \ f.listed
    BY <1>3 DEF Apply, SnapshotFrame, OnSnapshot, Result
  <2>2. \A k \in Keys :
          r.host.sessions[k] = IF k \in f.listed
                                 THEN Rebuilt(host.sessions[k], f.rows[k])
                                 ELSE Absent
    BY <1>0, <1>3, SnapshotView
  <2>3. f.t = "snapshot" /\ host.epoch = f.epoch
    BY <1>3, ReadFacts DEF SnapshotFrame
  <2>4. SnapshotIsTrue(f) /\ IsNewTo(f)
    BY <2>3, ReadFacts DEF Fits, SnapshotFits
  <2>5. ASSUME NEW k \in Keys, k \in f.listed, host.sessions[k].closed
        PROVE  Rebuilt(host.sessions[k], f.rows[k]).closed
    BY <2>3, <2>4, <2>5 DEF SnapshotIsTrue, IsNewTo, Rebuilt
  <2> HIDE DEF r
  <2>6. \A k \in Keys : k \notin f.listed => ~r.host.sessions[k].listed
    BY <2>2 DEF Absent
  <2>7. \A k \in Keys : k \in f.listed => k \notin r.emits.closed
    BY <2>1
  <2>8. EndsStay(host, r)
    BY <2>2, <2>5, <2>6, <2>7 DEF EndsStay
  <2> QED BY <2>8 DEF r
<1>4. CASE f \in EventFrame
  BY <1>0, <1>4, EventEnds
<1> QED BY <1>0, <1>1, <1>2, <1>3, <1>4 DEF Frame

-----------------------------------------------------------------------------
(* Steps of the link thread and of the user.                                 *)

LEMMA ReceiveView ==
  ASSUME TypeOK, LinkInv, ViewInv, Receive
  PROVE  ViewInv'
<1> DEFINE f == Head(wire)
           r == Apply(host, f)
<1>1. /\ Reads(f) /\ host' = r.host
      /\ panels' = [k \in Keys |-> Told(host, r, k)]
  BY DEF Receive, Reading, Reads, daemonVars
<1>2. f \in Frame /\ host \in Host
  BY <1>1, ReadFacts DEF TypeOK
<1>3. Lands(f)
  <2>1. CASE f \in HelloFrame
    BY <1>1, <2>1, HelloLands
  <2>2. CASE f \in GapFrame \cup HeartbeatFrame
    BY <1>1, <2>2, GapLands
  <2>3. CASE f \in SnapshotFrame
    BY <1>1, <2>3, SnapshotLands
  <2>4. CASE f \in EventFrame
    BY <1>1, <2>4, EventLands
  <2> QED BY <1>2, <2>1, <2>2, <2>3, <2>4 DEF Frame
<1>4. LogInv' /\ RowsInv' /\ WireInv'
  BY <1>1, <1>3, LandedView
<1>5. TellsAll(host, r) /\ EndsStay(host, r)
  BY <1>1, <1>2, ApplyTellsAll, FrameEnds
<1> HIDE DEF r
<1>6. EndIsFinal'
  <2> SUFFICES ASSUME NEW k \in Keys, r.host.sessions[k].listed,
                      Told(host, r, k).ended
               PROVE  r.host.sessions[k].closed
    BY <1>1 DEF EndIsFinal
  <2>1. panels[k] \in Panel
    BY DEF TypeOK
  <2>2. \/ k \in r.emits.closed
        \/ host.sessions[k].listed /\ panels[k].ended
    <3>1. CASE k \in r.emits.timelines
      BY <3>1 DEF Told
    <3>2. CASE k \notin r.emits.timelines
      <4>1. Told(host, r, k).ended => panels[k].ended \/ k \in r.emits.closed
        BY <2>1, <3>2 DEF Told, Panel
      <4> QED BY <1>5, <3>2, <4>1 DEF TellsAll
    <3> QED BY <3>1, <3>2
  <2> QED BY <1>5, <2>2 DEF EndsStay, ViewInv, EndIsFinal
<1> QED BY <1>4, <1>6 DEF ViewInv

(* The handlers that apply no frame keep the rows and the position.          *)
LEMMA HostStays ==
  ASSUME TypeOK, NEW h \in {host, OnLocalLoss(host)},
         \/ host' = h \/ host' = NoteAttempt(h)
         \/ \E p \in Phases : host' = Fail(h, p)
  PROVE  HostKept /\ (h = host => host'.resync = host.resync)
                  /\ (h # host => host'.resync)
<1>1. /\ h \in Host /\ h.sessions = host.sessions /\ h.cursor = host.cursor
      /\ h.epoch = host.epoch /\ (h # host => h.resync = TRUE)
  <2>1. CASE h = host
    BY <2>1 DEF TypeOK
  <2>2. CASE h = OnLocalLoss(host)
    BY <2>2, LossType DEF OnLocalLoss, Host, TypeOK
  <2> QED BY <2>1, <2>2
<1>2. /\ host'.sessions = h.sessions /\ host'.cursor = h.cursor
      /\ host'.epoch = h.epoch /\ host'.resync = h.resync
  BY <1>1 DEF NoteAttempt, Fail, Host
<1> QED BY <1>1, <1>2 DEF HostKept

LEMMA QuietHost ==
  ASSUME TypeOK, LinkInv, ViewInv, HostKept, WireInv',
         UNCHANGED <<daemonVars, panels>>
  PROVE  ViewInv'
<1>1. UNCHANGED <<log, depoch, pruned>>
  BY DEF daemonVars
<1>2. Kept
  BY <1>1, LogKept, EpochsAreNat DEF Kept
<1>3. RowsInv' /\ LogInv'
  BY <1>1, <1>2, RowsKept, LogInvKept DEF ViewInv
<1>4. EndIsFinal'
  BY EndKept DEF ViewInv, ViewVars, HostKept
<1> QED BY <1>3, <1>4 DEF ViewInv

LEMMA NothingInFlight ==
  ASSUME wire' = <<>>, conn' = NoConn
  PROVE  WireInv'
<1>1. DOMAIN wire' = {}
  OBVIOUS
<1> QED BY <1>1 DEF WireInv, FramesFit, ServedFromHere, NoConn

LEMMA EndOfAttachView ==
  ASSUME TypeOK, LinkInv, ViewInv, NEW h \in {host, OnLocalLoss(host)},
         Retry(h) \/ GiveUp(h), UNCHANGED daemonVars
  PROVE  ViewInv'
<1>1. /\ Teardown /\ UNCHANGED panels
      /\ \E p \in Phases : host' = Fail(h, p)
  BY DEF Retry, GiveUp, Phases
<1>2. WireInv'
  BY <1>1, NothingInFlight DEF Teardown
<1> QED BY <1>1, <1>2, HostStays, QuietHost

(* A frame read past: the host owes a resync from here on.                   *)
LEMMA ReadPastView ==
  ASSUME TypeOK, LinkInv, ViewInv, Reading, Head(wire).t # "hello",
         host' = OnLocalLoss(host), wire' = Tail(wire),
         UNCHANGED <<daemonVars, conn, panels>>
  PROVE  ViewInv'
<1> DEFINE f == Head(wire)
<1>1. Reads(f)
  BY DEF Reads, Reading, daemonVars
<1>2. HostKept /\ host'.resync
  <2>1. OnLocalLoss(host).resync = TRUE
    BY DEF OnLocalLoss, Host, TypeOK
  <2> QED BY <2>1, HostStays
<1>3. LogInv' /\ RowsInv' /\ WireInv'
  BY <1>1, <1>2, StillLands, LandedView
<1>4. EndIsFinal'
  BY <1>2, EndKept DEF ViewInv, ViewVars, HostKept
<1> QED BY <1>3, <1>4 DEF ViewInv

LEMMA LinkThreadView ==
  ASSUME TypeOK, LinkInv, ViewInv, LinkThread, "hello" \notin Unreadable
  PROVE  ViewInv'
<1>1. CASE Attempt
  <2>1. /\ wire' = <<>> /\ UNCHANGED <<daemonVars, panels>>
        /\ host' = NoteAttempt(host)
        /\ conn' = [state |-> "dialing", at |-> HandedOut(host)]
    BY <1>1 DEF Attempt, LinkInv, Idle
  <2>2. HostKept /\ host'.resync = host.resync
    BY <2>1, HostStays
  <2>3. DOMAIN wire' = {} /\ HandedOut(host)' = HandedOut(host)
    BY <2>1, <2>2 DEF HandedOut, HostKept
  <2>4. WireInv'
    BY <2>1, <2>3 DEF WireInv, FramesFit, ServedFromHere
  <2> QED BY <2>1, <2>2, <2>4, QuietHost
<1>2. CASE WakeUp
  <2>1. UNCHANGED <<daemonVars, conn, wire, host, panels>>
    BY <1>2 DEF WakeUp
  <2>2. HostKept /\ WireInv'
    <3>1. UNCHANGED <<log, depoch, pruned>>
      BY <2>1 DEF daemonVars
    <3>2. Kept /\ HostKept /\ wire \in Seq(Frame)
      BY <2>1, <3>1, LogKept, EpochsAreNat DEF Kept, HostKept, TypeOK
    <3> QED BY <2>1, <3>1, <3>2, FramesKept, ServedKept DEF ViewInv, WireInv
  <2> QED BY <2>1, <2>2, QuietHost
<1>3. CASE Cancelled
  <2>1. /\ Teardown /\ UNCHANGED <<daemonVars, panels>>
        /\ \E p \in Phases : host' = Fail(host, p)
    BY <1>3 DEF Cancelled, Phases
  <2>2. WireInv'
    BY <2>1, NothingInFlight DEF Teardown
  <2> QED BY <2>1, <2>2, HostStays, QuietHost
<1>4. CASE Receive
  BY <1>4, ReceiveView
<1>5. CASE ReceiveUnreadable \/ ReceiveOversized
  <2> DEFINE h == OnLocalLoss(host)
  <2>1. CASE Retry(h) \/ GiveUp(h)
    BY <1>5, <2>1, EndOfAttachView DEF ReceiveUnreadable, ReceiveOversized
  <2>2. CASE /\ Reading /\ Head(wire).t \in Unreadable
             /\ host' = h /\ wire' = Tail(wire)
             /\ UNCHANGED <<daemonVars, conn, panels>>
    BY <2>2, ReadPastView
  <2> QED BY <1>5, <2>1, <2>2 DEF ReceiveUnreadable, ReceiveOversized
<1>6. CASE \/ ReceiveForeign \/ SeedOverflow \/ StreamEnded \/ Refused
           \/ HelloDeadline \/ Stale
  <2>1. (Retry(host) \/ GiveUp(host)) /\ UNCHANGED daemonVars
    BY <1>6 DEF ReceiveForeign, SeedOverflow, StreamEnded, Refused,
                HelloDeadline, Stale, daemonVars
  <2> QED BY <2>1, EndOfAttachView
<1> QED BY <1>1, <1>2, <1>3, <1>4, <1>5, <1>6 DEF LinkThread

(* A new attachment knows nothing.                                           *)
LEMMA BlankView ==
  ASSUME LogInv', host' = NewHost, wire' = <<>>, conn' = NoConn
  PROVE  ViewInv'
<1>1. /\ host'.cursor = NoCursor
      /\ \A k \in Keys : host'.sessions[k] = Absent
  BY DEF NewHost
<1>2. RowsInv'
  BY <1>1 DEF RowsInv, CursorIsInLog, RowsAreExact, RowsAreTrue
<1>3. EndIsFinal'
  <2>1. Absent.listed = FALSE
    BY DEF Absent
  <2> QED BY <1>1, <2>1 DEF EndIsFinal
<1> QED BY <1>2, <1>3, NothingInFlight DEF ViewInv

LEMMA UserView ==
  ASSUME TypeOK, LinkInv, ViewInv, Stop \/ Reattach
  PROVE  ViewInv'
<1>1. UNCHANGED <<daemonVars, conn, wire>> /\ UNCHANGED <<log, depoch, pruned>>
  BY DEF Stop, Reattach, daemonVars
<1>2. CASE Stop /\ pc = "stopped"
  <2>1. wire' = <<>> /\ conn' = NoConn
    BY <1>1, <1>2 DEF LinkInv, Idle
  <2>2. UNCHANGED panels /\ \E p \in Phases : host' = Fail(host, p)
    BY <1>2 DEF Stop, Phases
  <2> QED BY <1>1, <2>1, <2>2, NothingInFlight, HostStays, QuietHost
<1>3. CASE Stop /\ pc # "stopped"
  <2>1. UNCHANGED <<host, panels>>
    BY <1>3 DEF Stop
  <2>2. Kept /\ HostKept /\ wire \in Seq(Frame)
    BY <1>1, <2>1, LogKept, EpochsAreNat DEF Kept, HostKept, TypeOK
  <2>3. WireInv'
    BY <1>1, <2>1, <2>2, FramesKept, ServedKept DEF ViewInv, WireInv
  <2> QED BY <1>1, <2>1, <2>2, <2>3, QuietHost
<1>4. CASE Reattach
  <2>1. wire' = <<>> /\ conn' = NoConn /\ host' = NewHost
    BY <1>1, <1>4 DEF Reattach, LinkInv, Idle
  <2>2. LogInv'
    BY <1>1, LogInvKept DEF ViewInv
  <2> QED BY <2>1, <2>2, BlankView
<1> QED BY <1>2, <1>3, <1>4

LEMMA NextView ==
  ASSUME TypeOK, LinkInv, ViewInv, [Next]_vars, "hello" \notin Unreadable
  PROVE  ViewInv'
<1>1. CASE UNCHANGED vars
  <2>1. UNCHANGED <<log, depoch, pruned, conn, wire, host, panels>>
    BY <1>1 DEF vars
  <2>2. Kept /\ HostKept /\ wire \in Seq(Frame)
    BY <2>1, LogKept, EpochsAreNat DEF Kept, HostKept, TypeOK
  <2>3. PrunedHaveEnded'
    BY <2>1 DEF ViewInv, LogInv, PrunedHaveEnded, Exited, Happened, Head_
  <2> QED BY <2>1, <2>2, <2>3, QuietView
<1> QED BY <1>1, DaemonView, TransportView, LinkThreadView, UserView DEF Next

LEMMA InitView == Init => ViewInv
<1> SUFFICES ASSUME Init PROVE ViewInv
  OBVIOUS
<1>1. /\ \A e \in Epochs : log[e] = <<>> /\ Len(log[e]) = 0
      /\ pruned = {} /\ wire = <<>> /\ DOMAIN wire = {} /\ conn.state = "none"
      /\ host.cursor = NoCursor /\ \A k \in Keys : host.sessions[k] = Absent
  BY DEF Init, NewHost, NoConn
<1>2. LogInv
  BY <1>1 DEF LogInv, LifeIsOrdered, PrunedHaveEnded
<1>3. RowsInv /\ WireInv
  BY <1>1 DEF RowsInv, CursorIsInLog, RowsAreExact, RowsAreTrue, WireInv,
              FramesFit, ServedFromHere
<1>4. EndIsFinal
  <2>1. Absent.listed = FALSE
    BY DEF Absent
  <2> QED BY <1>1, <2>1 DEF EndIsFinal
<1> QED BY <1>2, <1>3, <1>4 DEF ViewInv

-----------------------------------------------------------------------------
(* The theorems.                                                             *)

(* The inductive invariant of the view, as long as a Hello can be read: one  *)
(* read past after repeated losses would leave the epoch of the last one.    *)
LEMMA ViewIsInvariant ==
  ASSUME "hello" \notin Unreadable
  PROVE  Spec => [](TypeOK /\ LinkInv /\ ViewInv)
<1>1. TypeOK /\ LinkInv /\ ViewInv /\ [Next]_vars => ViewInv'
  BY NextView
<1> QED BY <1>1, InitType, NextType, InitLink, NextLink, InitView, PTL DEF Spec

(* No loss: a position the host would resume from has all of the daemon's    *)
(* log behind it in the rows, whatever was lost on the way (Host::cursor,    *)
(* on_local_loss).  Without an unreadable Hello, as above.                   *)
THEOREM ViewTheorem ==
  ASSUME "hello" \notin Unreadable
  PROVE  Spec => []ViewIsExact
<1>1. ASSUME TypeOK, LinkInv, ViewInv PROVE ViewIsExact
  <2> SUFFICES ASSUME HandedOut(host) # NoCursor
               PROVE  LET c == host.cursor IN
                      /\ host.epoch = c.epoch /\ c.seq <= Len(log[c.epoch])
                      /\ \A k \in Keys : RowIsExact(k, c.epoch, c.seq)
    BY DEF ViewIsExact, HandedOut
  <2>1. ~host.resync /\ host.cursor # NoCursor
    BY DEF HandedOut
  <2>2. PICK e \in Epochs, n \in Nat :
          /\ e = host.cursor.epoch /\ n = host.cursor.seq /\ host.epoch = e
          /\ n <= Len(log[e])
    BY <1>1, <2>1, LogTypes DEF ViewInv, RowsInv, CursorIsInLog, InLog
  <2>3. ASSUME NEW k \in Keys PROVE RowIsExact(k, e, n)
    <3>1. PICK s \in Session : s = host.sessions[k]
      BY <1>1 DEF TypeOK, Host
    <3>2. Exact(s, k, e, n)
      BY <1>1, <2>1, <2>2, <3>1 DEF ViewInv, RowsInv, RowsAreExact
    <3>3. /\ s.exited \in BOOLEAN /\ s.closed \in BOOLEAN
          /\ Exited(e, n, k) \in BOOLEAN
      BY DEF Session, Exited, Happened
    <3> QED BY <3>1, <3>2, <3>3 DEF Exact, RowIsExact
  <2> QED BY <2>2, <2>3
<1> QED BY <1>1, ViewIsInvariant, PTL

(* A session id whose viewers were told of its end is never running again,   *)
(* on the same proviso (alloc_remote_id, on_hello, on_snapshot).             *)
THEOREM EndTheorem ==
  ASSUME "hello" \notin Unreadable
  PROVE  Spec => []EndIsFinal
<1>1. ViewInv => EndIsFinal
  BY DEF ViewInv
<1> QED BY <1>1, ViewIsInvariant, PTL
=============================================================================
