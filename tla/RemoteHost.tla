----------------------------- MODULE RemoteHost -----------------------------
(* One remote host as the workbench knows it (core/src/remote/host.rs): a    *)
(* record, and the pure functions that apply a frame to it.  Each handler    *)
(* returns the new host and what it emits: the sessions whose timeline goes  *)
(* to the viewers and the sessions that are announced closed.                *)
EXTENDS RemoteProtocol

Phases == {"idle", "connecting", "live", "reconnecting", "failed"}

Session ==
  [listed : BOOLEAN,    \* a row of Host.sessions
   exited : BOOLEAN,    \* view.state = Exited
   closed : BOOLEAN,
   omitted : BOOLEAN,   \* body_omitted: only the header is here
   body : SUBSET Nat]

Absent ==
  [listed |-> FALSE, exited |-> FALSE, closed |-> FALSE, omitted |-> FALSE,
   body |-> {}]

(* A tag of reported_unknown for an unknown session.  The code's tag is the  *)
(* key and the kind.                                                         *)
Tag == [key : Keys, what : EventKinds]

Host ==
  [phase : Phases,
   epoch : 0..MaxEpoch,             \* 0: no Hello has been read
   cursor : Cursor,
   resync : BOOLEAN,                \* resync_required
   losses : Nat,                    \* losses_since_snapshot
   resume : Resumes \cup {"none"},
   live : BOOLEAN,                  \* live_since_attempt
   sessions : [Keys -> Session],
   reported : SUBSET Tag]

NewHost ==
  [phase |-> "idle", epoch |-> 0, cursor |-> NoCursor, resync |-> FALSE,
   losses |-> 0, resume |-> "none", live |-> FALSE,
   sessions |-> [k \in Keys |-> Absent], reported |-> {}]

(* Variants named `...Wrong...`, here and in RemoteLink, are the mistakes    *)
(* the properties must catch; nothing in the model uses them.                *)
HandedOutWrongDuringResync(h) == h.cursor

(* Host::cursor(): the position handed out, none while a resync is owed.     *)
HandedOut(h) == IF h.resync THEN NoCursor ELSE h.cursor

NoteAttempt(h) == [h EXCEPT !.live = FALSE, !.phase = "connecting"]

Fail(h, p) == [h EXCEPT !.phase = p]

AdvanceWrongBackwards(h, c) == IF h.resync THEN h ELSE [h EXCEPT !.cursor = c]

(* advance_cursor: held while a resync is owed, never back in one epoch.     *)
Rewinds(h, c) == h.cursor.epoch = c.epoch /\ c.seq < h.cursor.seq
Advance(h, c) ==
  IF h.resync \/ Rewinds(h, c) THEN h ELSE [h EXCEPT !.cursor = c]

OnLocalLossWrongOutcome(h) == [h EXCEPT !.resync = TRUE, !.losses = @ + 1]
OnLocalLossWrongCount(h) ==
  [h EXCEPT !.resync = TRUE, !.losses = @ - 1, !.resume = "gap"]

OnLocalLoss(h) ==
  [h EXCEPT !.resync = TRUE, !.losses = @ + 1, !.resume = "gap"]

Nothing == [timelines |-> {}, closed |-> {}]
Result(h, timelines, closed) ==
  [host |-> h, emits |-> [timelines |-> timelines, closed |-> closed]]

Listed(h) == {k \in Keys : h.sessions[k].listed}

(* A changed epoch throws every key away, and the cursor with them.          *)
EpochChanges(h, f) == h.epoch # 0 /\ h.epoch # f.epoch
ForgetKeysWrongRows(h) == [h EXCEPT !.cursor = NoCursor]
ForgetKeys(h) ==
  [h EXCEPT !.sessions = [k \in Keys |-> Absent], !.cursor = NoCursor]

OnHelloWrongSilent(h, f) ==
  LET h2 == IF EpochChanges(h, f) THEN ForgetKeys(h) ELSE h
  IN Result([h2 EXCEPT !.epoch = f.epoch, !.phase = "live", !.live = TRUE,
                       !.resume = f.resume], {}, {})

OnHello(h, f) ==
  LET h2 == IF EpochChanges(h, f) THEN ForgetKeys(h) ELSE h
  IN Result([h2 EXCEPT !.epoch = f.epoch, !.phase = "live", !.live = TRUE,
                       !.resume = f.resume],
            {}, IF EpochChanges(h, f) THEN Listed(h) ELSE {})

OnGap(h) == Result([h EXCEPT !.resume = "gap"], {}, {})

(* The snapshot is the authority, except for a body it says it left out.     *)
RebuiltWrongClosed(s, row) ==
  [listed |-> TRUE, exited |-> row.exited, closed |-> s.closed,
   omitted |-> row.omitted,
   body |-> IF row.omitted THEN s.body ELSE row.body]
Rebuilt(s, row) ==
  [listed |-> TRUE, exited |-> row.exited, closed |-> row.exited,
   omitted |-> row.omitted,
   body |-> IF row.omitted THEN s.body ELSE row.body]

Resynced(h, f) ==
  [h EXCEPT !.sessions = [k \in Keys |->
                            IF k \in f.listed THEN Rebuilt(@[k], f.rows[k])
                                              ELSE Absent],
            !.resync = FALSE, !.losses = 0]

OnSnapshotWrongSilent(h, f) ==
  Result(Advance(Resynced(h, f), At(f.epoch, f.seq)), f.listed, {})

OnSnapshot(h, f) ==
  Result(Advance(Resynced(h, f), At(f.epoch, f.seq)),
         f.listed, Listed(h) \ f.listed)

OnHeartbeat(h, f) == Result(Advance(h, At(f.epoch, f.seq)), {}, {})

(* on_event, kind by kind: the session the event leaves behind.              *)
Upserted(s) ==
  IF s.listed THEN [s EXCEPT !.exited = FALSE]
              ELSE [Absent EXCEPT !.listed = TRUE]
Merged(s, n) == [s EXCEPT !.body = @ \cup {n}, !.omitted = FALSE]
Ended(s) == [s EXCEPT !.exited = TRUE, !.closed = TRUE]

Applied(s, kind, n) ==
  CASE kind = "spawned" -> Upserted(s)
    [] kind = "delta" -> Merged(s, n)
    [] kind = "exited" -> Ended(s)
    [] OTHER -> s

(* An event that names a session this host has never been told about.        *)
IsUnknown(h, ev) ==
  ev.kind \in {"delta", "hook", "exited"} /\ ~h.sessions[ev.key].listed

(* report_unknown: once per tag, and the tag does not hold the epoch.        *)
ReportUnknown(h, ev) ==
  [h EXCEPT !.reported = @ \cup {[key |-> ev.key, what |-> ev.kind]}]

Noted(h, f) ==
  IF IsUnknown(h, f.event)
    THEN ReportUnknown(h, f.event)
    ELSE [h EXCEPT !.sessions[f.event.key] = Applied(@, f.event.kind, f.seq)]

(* The kinds that send the session's timeline to its viewers.                *)
IsShown(h, ev) ==
  ~IsUnknown(h, ev) /\ ev.kind \in {"spawned", "delta", "exited"}

OnEvent(h, f) ==
  Result(Advance(Noted(h, f), At(f.epoch, f.seq)),
         IF IsShown(h, f.event) THEN {f.event.key} ELSE {},
         IF IsShown(h, f.event) /\ f.event.kind = "exited"
           THEN {f.event.key} ELSE {})

(* Host::apply, for a Hello this workbench can read.                         *)
Apply(h, f) ==
  CASE f.t = "hello" -> OnHello(h, f)
    [] f.t = "gap" -> OnGap(h)
    [] f.t = "snapshot" -> OnSnapshot(h, f)
    [] f.t = "event" -> OnEvent(h, f)
    [] f.t = "heartbeat" -> OnHeartbeat(h, f)
=============================================================================
