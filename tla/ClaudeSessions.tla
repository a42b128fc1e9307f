---------------------------- MODULE ClaudeSessions ----------------------------
(* One Claude session shared by several windows: the backend's table and     *)
(* PTYs (commands/claude/{runtime,spawn,timeline}.rs), the panels that show  *)
(* the session (ClaudeTermPanel.tsx, panelSession.ts), and the hand-over of  *)
(* a panel from window to window (windowTransfer.ts, panelTransferTarget.ts, *)
(* PopoutWorkbench.tsx).                                                     *)
EXTENDS ClaudeRuntime

CONSTANTS
  Main,      \* the main window, where sessions are opened
  Panels,    \* dockview panel ids
  MaxActs,   \* bound: what users do
  MaxFaults  \* bound: exits, failed spawns, foreign projects, watchdogs

ASSUME MainAssumption == Main \in Windows
ASSUME ActsAssumption == MaxActs \in Nat /\ MaxFaults \in Nat

VARIABLES
  rt,       \* ClaudeState.rt
  pty,      \* per PTY, what became of it: "dead" is still in the
            \* SessionManager, closed by its last viewer or deleted is not
  stop,     \* PTYs whose poll thread was told to stop
  polls,    \* PTYs whose poll thread runs
  up,       \* windows that exist
  closing,  \* windows that close their sessions before they go
  panel,    \* per window and panel id, the panel
  calls,    \* per window, the invokes the main thread has not run yet
  answers,  \* answers on their way to a panel
  inbox,    \* per window, the events the backend broadcast
  moving,   \* per window and panel id, the transfer in flight (inFlight)
  mail,     \* panel-transfer and transfer-result on their way
  acts, faults,
  kept      \* history: panels opened, and closed neither alone nor with a window

vars == <<rt, pty, stop, polls, up, closing, panel, calls, answers, inbox,
          moving, mail, acts, faults, kept>>

(* A mounted view is "opening" until its open is answered.  `sid` is         *)
(* params.sessionId, `id` and `rev` are what the mounted view believes.      *)
ViewStates == {"hidden", "opening", "open", "failed", "ended"}
Panel ==
  {q \in [here : BOOLEAN, sid : Ptys \cup {NoPty}, view : ViewStates,
          id : Ptys \cup {NoPty}, rev : Nat, drives : BOOLEAN] :
     q.view = "open" => q.id # NoPty}
NoPanel ==
  [here |-> FALSE, sid |-> NoPty, view |-> "hidden", id |-> NoPty, rev |-> 0,
   drives |-> FALSE]
ViewIs(q, v) == [q EXCEPT !.view = v, !.id = NoPty, !.rev = 0, !.drives = FALSE]

(* An open is awaited by the view that sent it, by its panel once that view  *)
(* is unmounted, and by nobody once the panel is gone.                       *)
Call ==
  {c \in [op : {"open", "detach", "take", "close", "emit"}, panel : Panels,
          by : {"view", "panel", "nobody"}, id : Ptys \cup {NoPty},
          last : BOOLEAN, to : Windows] :
     c.op \in {"detach", "take", "close"} => c.id # NoPty}
Answer ==
  [to : Windows, panel : Panels, by : {"view", "panel"}, op : {"open", "close"},
   id : Ptys \cup {NoPty}, driver : Windows \cup {NoWindow}, rev : Nat]
Event ==
  [kind : {"driver", "closed"}, id : Ptys, driver : Windows \cup {NoWindow},
   rev : Nat]

Moving ==
  [stage : {"no", "ready", "sent"}, to : Windows, sid : Ptys \cup {NoPty}]
NotMoving == [stage |-> "no", to |-> Main, sid |-> NoPty]

(* A transfer is awaited until its source has given up on it.                *)
Mail ==
  [kind : {"panel", "taken", "refused"}, from : Windows, to : Windows,
   panel : Panels, sid : Ptys \cup {NoPty}, awaited : BOOLEAN]

TypeOK ==
  /\ rt \in ClaudeRuntime
  /\ pty \in [Ptys -> {"none", "running", "dead", "closed", "deleted"}]
  /\ stop \subseteq Ptys /\ polls \subseteq Ptys
  /\ up \subseteq Windows /\ closing \subseteq up
  /\ panel \in [Windows -> [Panels -> Panel]]
  /\ calls \in [Windows -> Seq(Call)]
  /\ answers \subseteq Answer
  /\ inbox \in [Windows -> Seq(Event)]
  /\ moving \in [Windows -> [Panels -> Moving]]
  /\ mail \subseteq Mail
  /\ acts \in 0..MaxActs /\ faults \in 0..MaxFaults
  /\ kept \subseteq Panels

Init ==
  /\ rt = NoSessions /\ pty = [i \in Ptys |-> "none"]
  /\ stop = {} /\ polls = {}
  /\ up = Windows /\ closing = {}
  /\ panel = [w \in Windows |-> [p \in Panels |-> NoPanel]]
  /\ calls = [w \in Windows |-> <<>>] /\ answers = {}
  /\ inbox = [w \in Windows |-> <<>>]
  /\ moving = [w \in Windows |-> [p \in Panels |-> NotMoving]] /\ mail = {}
  /\ acts = 0 /\ faults = 0 /\ kept = {}

backend == <<rt, pty, stop, polls>>
transfers == <<moving, mail>>
bounds == <<acts, faults>>
Act == acts < MaxActs /\ acts' = acts + 1 /\ UNCHANGED faults
Fault == faults < MaxFaults /\ faults' = faults + 1 /\ UNCHANGED acts

-----------------------------------------------------------------------------
(* Calls and panels.                                                         *)

ACall(op, p, i, last) ==
  [op |-> op, panel |-> p, by |-> "view", id |-> i, last |-> last, to |-> Main]
OpenCall(p) == ACall("open", p, NoPty, FALSE)
DetachCall(p, i, last) == ACall("detach", p, i, last)
TakeCall(p, i) == ACall("take", p, i, FALSE)
CloseCall(p, i) == ACall("close", p, i, FALSE)
EmitCall(p, m) == [ACall("emit", p, m.sid, FALSE) EXCEPT !.to = m.to]

(* The opens of a panel that are under way have another to wait for them.    *)
AwaitedBy(p, old, new, c) ==
  IF c.op = "open" /\ c.panel = p /\ c.by = old THEN [c EXCEPT !.by = new] ELSE c

(* A panel is added to a layout and mounts: its listeners, then              *)
(* claude_open_or_attach.                                                    *)
Added(sid) == [NoPanel EXCEPT !.here = TRUE, !.sid = sid, !.view = "opening"]

AddPanel(w, p, sid) ==
  /\ panel' = [panel EXCEPT ![w][p] = Added(sid)]
  /\ calls' = [calls EXCEPT ![w] = Append(@, OpenCall(p))]

(* closePanelSession: nothing without a session id.                          *)
Detaches(p, sid, last) == IF sid = NoPty THEN <<>> ELSE <<DetachCall(p, sid, last)>>

(* onDidRemovePanel.                                                         *)
RemovePanel(w, p, last, told, then) ==
  /\ panel' = [panel EXCEPT ![w][p] = NoPanel]
  /\ calls' = [calls EXCEPT ![w] =
       [i \in DOMAIN @ |-> AwaitedBy(p, "panel", "nobody",
                             AwaitedBy(p, "view", "nobody", @[i]))]
         \o Detaches(p, panel[w][p].sid, last) \o then]
  /\ answers' = {a \in told : ~(a.to = w /\ a.panel = p /\ a.op = "open")}

At(w, p) == w \in up /\ panel[w][p].here
User(w) == w \in up \ closing /\ Act

(* openOrActivateSession: only where no panel of this window shows the       *)
(* session yet.  A new panel has an id of its own.                           *)
Used(p) ==
  \/ p \in kept
  \/ \E w \in Windows : panel[w][p].here \/ moving[w][p].stage # "no"
  \/ \E m \in mail : m.panel = p
  \/ \E a \in answers : a.panel = p
OpenPanel(p) ==
  /\ User(Main) /\ ~Used(p) /\ \A q \in Panels : ~panel[Main][q].here
  /\ AddPanel(Main, p, NoPty)
  /\ kept' = kept \cup {p}
  /\ UNCHANGED <<backend, up, closing, answers, inbox, transfers>>

(* A tab switch unmounts a view, without a detach, and mounts it anew.       *)
Hide(w, p) ==
  /\ User(w) /\ At(w, p) /\ panel[w][p].view # "hidden"
  /\ panel' = [panel EXCEPT ![w][p] = ViewIs(@, "hidden")]
  /\ calls' = [calls EXCEPT ![w] =
       [i \in DOMAIN @ |-> AwaitedBy(p, "view", "panel", @[i])]]
  /\ answers' = {IF a.to = w THEN AwaitedBy(p, "view", "panel", a) ELSE a :
                   a \in answers}
  /\ UNCHANGED <<backend, up, closing, inbox, transfers, kept>>

Show(w, p) ==
  /\ w \in up \ closing /\ At(w, p) /\ panel[w][p].view = "hidden"
  /\ panel' = [panel EXCEPT ![w][p] = ViewIs(@, "opening")]
  /\ calls' = [calls EXCEPT ![w] = Append(@, OpenCall(p))]
  /\ UNCHANGED <<backend, up, closing, answers, inbox, transfers, bounds, kept>>

ClosePanel(w, p) ==
  /\ User(w) /\ At(w, p)
  /\ RemovePanel(w, p, TRUE, answers, <<>>)
  /\ kept' = kept \ {p}
  /\ UNCHANGED <<backend, up, closing, inbox, transfers>>

(* The mirror's button.                                                      *)
TakeOver(w, p) ==
  /\ User(w) /\ At(w, p) /\ panel[w][p].view = "open" /\ ~panel[w][p].drives
  /\ calls' = [calls EXCEPT ![w] = Append(@, TakeCall(p, panel[w][p].id))]
  /\ UNCHANGED <<backend, up, closing, panel, answers, inbox, transfers, kept>>

(* resolveCloseRequest with [delete]: the session ends for every window, and *)
(* then the panel is closed.                                                 *)
Delete(w, p) ==
  /\ User(w) /\ At(w, p) /\ panel[w][p].sid # NoPty
  /\ calls' = [calls EXCEPT ![w] = Append(@, CloseCall(p, panel[w][p].sid))]
  /\ UNCHANGED <<backend, up, closing, panel, answers, inbox, transfers, kept>>

(* A popout closes: the sessions of its panels are released, each once, and  *)
(* the window is destroyed when they are, or by the watchdog.                *)
Owned(w) == {panel[w][p].sid : p \in Panels} \ {NoPty}
Holder(w, i) == CHOOSE p \in Panels : panel[w][p].sid = i
CloseWindow(w) ==
  /\ User(w) /\ w # Main
  /\ closing' = closing \cup {w}
  /\ calls' = [calls EXCEPT ![w] =
       @ \o SetToSeq({DetachCall(Holder(w, i), i, TRUE) : i \in Owned(w)})]
  /\ UNCHANGED <<backend, up, panel, answers, inbox, transfers, kept>>

Destroy(w) ==
  /\ w \in closing
  /\ (calls[w] = <<>> /\ UNCHANGED bounds) \/ Fault
  /\ up' = up \ {w} /\ closing' = closing \ {w}
  /\ panel' = [panel EXCEPT ![w] = [p \in Panels |-> NoPanel]]
  /\ moving' = [moving EXCEPT ![w] = [p \in Panels |-> NotMoving]]
  /\ kept' = {p \in kept : ~panel[w][p].here /\ moving[w][p].stage # "sent"}
  /\ calls' = [calls EXCEPT ![w] = <<>>] /\ inbox' = [inbox EXCEPT ![w] = <<>>]
  /\ answers' = {a \in answers : a.to # w}
  /\ UNCHANGED <<backend, mail>>

-----------------------------------------------------------------------------
(* The commands, on the app's main thread; the calls of one window keep      *)
(* their order.                                                              *)

Turn(w, op) == calls[w] # <<>> /\ Head(calls[w]).op = op
Ran(w) == calls' = [calls EXCEPT ![w] = Tail(@)]
Say(e) ==
  inbox' = [w \in Windows |-> IF w \in up THEN Append(inbox[w], e) ELSE <<>>]
SayDriver(i, s) ==
  Say([kind |-> "driver", id |-> i, driver |-> s.driver, rev |-> s.rev])
SayClosed(i) ==
  Say([kind |-> "closed", id |-> i, driver |-> NoWindow, rev |-> 0])

Tell(w, c, i, s) ==
  answers' =
    IF c.by = "nobody" THEN answers
    ELSE answers \cup
           {[to |-> w, panel |-> c.panel, by |-> c.by, op |-> c.op, id |-> i,
             driver |-> s.driver, rev |-> s.rev]}

(* mgr.exists: in the manager's map, and alive.                              *)
Alive(i) == i # NoPty /\ pty[i] = "running"

(* claude_open_or_attach, T1.                                                *)
Attach(w) ==
  /\ Turn(w, "open") /\ Alive(rt.live) /\ Ran(w)
  /\ LET i == rt.live
         old == rt.by_id[i]
         new == AttachedBy(old, w)
     IN /\ rt' = [rt EXCEPT !.by_id[i] = new]
        /\ IF new.rev # old.rev THEN SayDriver(i, new) ELSE UNCHANGED inbox
        /\ Tell(w, Head(calls[w]), i, new)
  /\ UNCHANGED <<pty, stop, polls, up, closing, panel, transfers, bounds,
                 kept>>

(* The poll threads told to stop with an entry that is cleaned; the variant  *)
(* forgets that there may be none.                                           *)
StoppedWrongNone(i) == {i}
Stopped(i) == {i} \ {NoPty}

(* T2 and T3: an entry whose PTY is gone is cleaned, and a PTY is started.   *)
Fresh == {i \in Ptys : pty[i] = "none" /\ \A j \in 1..(i - 1) : pty[j] # "none"}
Spawn(w) ==
  /\ Turn(w, "open") /\ ~Alive(rt.live) /\ Ran(w)
  /\ \E i \in Fresh :
       /\ rt' = Registered(Cleaned(rt), i, w)
       /\ pty' = [pty EXCEPT ![i] = "running"] /\ polls' = polls \cup {i}
       /\ Tell(w, Head(calls[w]), i, rt'.by_id[i])
  /\ stop' = stop \cup Stopped(rt.live)
  /\ UNCHANGED <<up, closing, panel, inbox, transfers, bounds, kept>>

(* The spawn fails, or an adoption is refused: the entry stays cleaned.      *)
SpawnFails(w) ==
  /\ Turn(w, "open") /\ ~Alive(rt.live) /\ Ran(w) /\ Fault
  /\ rt' = Cleaned(rt)
  /\ stop' = stop \cup Stopped(rt.live)
  /\ Tell(w, Head(calls[w]), NoPty, Unknown)
  /\ UNCHANGED <<pty, polls, up, closing, panel, inbox, transfers, kept>>

(* Whether a detach that leaves `s` closes the PTY; the variant closes it    *)
(* whoever else still views.                                                 *)
LastClosesWrongAny(s, last) == last
LastCloses(s, last) == s.attached = <<>> /\ last

(* claude_detach, T5: the last viewer closes the PTY, unless its panel is on *)
(* its way to another window.                                                *)
Detach(w) ==
  /\ Turn(w, "detach") /\ Ran(w)
  /\ LET c == Head(calls[w])
         old == rt.by_id[c.id]
         new == Left(old, w)
     IN IF ~old.known THEN UNCHANGED <<rt, pty, stop, inbox>>
        ELSE IF LastCloses(new, c.last)
        THEN /\ rt' = Removed(rt, c.id)
             /\ pty' = [pty EXCEPT ![c.id] = "closed"]
             /\ stop' = stop \cup {c.id}
             /\ UNCHANGED inbox
        ELSE /\ rt' = [rt EXCEPT !.by_id[c.id] = new]
             /\ IF new.rev # old.rev THEN SayDriver(c.id, new) ELSE UNCHANGED inbox
             /\ UNCHANGED <<pty, stop>>
  /\ UNCHANGED <<polls, up, closing, panel, answers, transfers, bounds, kept>>

(* claude_set_driver, T4: said even if nothing changed.                      *)
SetDriver(w) ==
  /\ Turn(w, "take") /\ Ran(w)
  /\ LET i == Head(calls[w]).id
         new == TakenOver(rt.by_id[i], w)
     IN IF ~rt.by_id[i].known THEN UNCHANGED <<rt, inbox>>
        ELSE /\ rt' = [rt EXCEPT !.by_id[i] = new]
             /\ IF new.driver = w THEN SayDriver(i, new) ELSE UNCHANGED inbox
  /\ UNCHANGED <<pty, stop, polls, up, closing, panel, answers, transfers, bounds,
                 kept>>

(* claude_close, T6.                                                         *)
Close(w) ==
  /\ Turn(w, "close") /\ Ran(w)
  /\ LET c == Head(calls[w]) IN
       /\ stop' = IF rt.by_id[c.id].known THEN stop \cup {c.id} ELSE stop
       /\ rt' = Removed(rt, c.id)
       /\ pty' = [pty EXCEPT ![c.id] = "deleted"]
       /\ SayClosed(c.id)
       /\ Tell(w, c, c.id, Unknown)
  /\ UNCHANGED <<polls, up, closing, panel, transfers, bounds, kept>>

-----------------------------------------------------------------------------
(* The PTY and its threads.                                                  *)

(* claude exits: the reader marks the session dead, and nothing else; the    *)
(* manager keeps its entry, and with it the relay's channel.                 *)
Exit(i) ==
  /\ pty[i] = "running" /\ Fault
  /\ pty' = [pty EXCEPT ![i] = "dead"]
  /\ UNCHANGED <<rt, stop, polls, up, closing, panel, calls, answers, inbox,
                 transfers, kept>>

(* run_timeline_poll's end, T7.  The relay's on_end sets the same flag, but   *)
(* only once the manager's entry is gone, and by then it is set.             *)
PollEnds(i) ==
  /\ i \in polls \cap stop
  /\ polls' = polls \ {i}
  /\ rt' = Removed(rt, i)
  /\ IF rt.by_id[i].known THEN SayClosed(i) ELSE UNCHANGED inbox
  /\ UNCHANGED <<pty, stop, up, closing, panel, calls, answers, transfers, bounds,
                 kept>>

-----------------------------------------------------------------------------
(* Back in the windows.                                                      *)

(* The open is answered: the panel's params take the id, and the view that   *)
(* asked, if it is still there, what it was told.                            *)
Opened(q, a) ==
  IF a.by = "view"
    THEN [q EXCEPT !.sid = a.id, !.view = "open", !.id = a.id, !.rev = a.rev,
                   !.drives = a.driver = a.to]
    ELSE [q EXCEPT !.sid = a.id]
NotOpened(q, a) == IF a.by = "view" THEN ViewIs(q, "failed") ELSE q
OpenAnswered(a) ==
  /\ a \in answers /\ a.op = "open"
  /\ answers' = answers \ {a}
  /\ panel' = [panel EXCEPT ![a.to][a.panel] =
                 IF a.id = NoPty THEN NotOpened(@, a) ELSE Opened(@, a)]
  /\ UNCHANGED <<backend, up, closing, calls, inbox, transfers, bounds, kept>>

DeleteAnswered(a) ==
  /\ a \in answers /\ a.op = "close"
  /\ IF panel[a.to][a.panel].here
       THEN /\ RemovePanel(a.to, a.panel, TRUE, answers \ {a}, <<>>)
            /\ kept' = kept \ {a.panel}
       ELSE answers' = answers \ {a} /\ UNCHANGED <<panel, calls, kept>>
  /\ UNCHANGED <<backend, up, closing, inbox, transfers, bounds>>

(* The listeners of a view; one that has no session yet drops the event.     *)
Heard(q, w, e) ==
  IF q.view # "open" \/ q.id # e.id THEN q
  ELSE IF e.kind = "closed" THEN ViewIs(q, "ended")
  ELSE IF e.rev <= q.rev THEN q
  ELSE [q EXCEPT !.rev = e.rev, !.drives = e.driver = w]
Hear(w) ==
  /\ inbox[w] # <<>>
  /\ inbox' = [inbox EXCEPT ![w] = Tail(@)]
  /\ panel' = [panel EXCEPT ![w] =
                 [p \in Panels |-> Heard(@[p], w, Head(inbox[w]))]]
  /\ UNCHANGED <<backend, up, closing, calls, answers, transfers, bounds,
                 kept>>

-----------------------------------------------------------------------------
(* A panel is handed to another window.                                      *)

(* dockPanelToWindow, or movePanelToNewWindow once its window is ready: what *)
(* the panel is, is noted before the listener for the answer is there.       *)
Settle(w, p) == moving' = [moving EXCEPT ![w][p] = NotMoving]
MoveStart(w, p, v) ==
  /\ User(w) /\ At(w, p) /\ moving[w][p].stage = "no" /\ v # w
  /\ moving' = [moving EXCEPT ![w][p] =
       [stage |-> "ready", to |-> v, sid |-> panel[w][p].sid]]
  /\ UNCHANGED <<backend, up, closing, panel, calls, answers, inbox, mail, kept>>

(* handOff: the panel goes from here without ending its session, and its     *)
(* description is emitted behind that detach.                                *)
HandOff(w, p) ==
  /\ w \in up /\ moving[w][p].stage = "ready"
  /\ moving' = [moving EXCEPT ![w][p].stage = "sent"]
  /\ LET emit == <<EmitCall(p, moving[w][p])>> IN
       IF panel[w][p].here
         THEN RemovePanel(w, p, FALSE, answers, emit)
         ELSE /\ calls' = [calls EXCEPT ![w] = @ \o emit]
              /\ UNCHANGED <<panel, answers>>
  /\ kept' = kept \cup {p}
  /\ UNCHANGED <<backend, up, closing, inbox, mail, bounds>>

Emit(w) ==
  /\ Turn(w, "emit") /\ Ran(w)
  /\ LET c == Head(calls[w]) IN
       mail' = mail \cup {[kind |-> "panel", from |-> w, to |-> c.to,
                           panel |-> c.panel, sid |-> c.id,
                           awaited |-> c.by = "view"]}
  /\ UNCHANGED <<backend, up, closing, panel, answers, inbox, moving, bounds,
                 kept>>

(* The new window is never ready, or fails, or shows another project.         *)
MoveAborted(w, p) ==
  /\ w \in up /\ moving[w][p].stage = "ready" /\ Fault
  /\ Settle(w, p)
  /\ UNCHANGED <<backend, up, closing, panel, calls, answers, inbox, mail, kept>>

(* installTransferTarget: taken, unless the panel is here already or another *)
(* project is in front.  A result nobody awaits has no effect.               *)
Reply(m, kind) ==
  mail' = (mail \ {m}) \cup
    (IF m.awaited THEN {[m EXCEPT !.kind = kind, !.from = m.to, !.to = m.from]}
                  ELSE {})
Take(m) ==
  /\ m \in mail /\ m.kind = "panel" /\ m.to \in up
  /\ ~panel[m.to][m.panel].here
  /\ AddPanel(m.to, m.panel, m.sid)
  /\ Reply(m, "taken")
  /\ UNCHANGED <<backend, up, closing, answers, inbox, moving, bounds, kept>>

Refuse(m) ==
  /\ m \in mail /\ m.kind = "panel" /\ m.to \in up
  /\ (panel[m.to][m.panel].here /\ UNCHANGED bounds) \/ Fault
  /\ Reply(m, "refused")
  /\ UNCHANGED <<backend, up, closing, panel, calls, answers, inbox, moving,
                 kept>>

(* reinsert; the variant leaves the panel away.                              *)
ReinsertWrongNone(w, p) == UNCHANGED <<panel, calls>>
Reinsert(w, p) ==
  IF panel[w][p].here THEN UNCHANGED <<panel, calls>>
                      ELSE AddPanel(w, p, moving[w][p].sid)

Result(m) ==
  /\ m \in mail /\ m.kind # "panel" /\ m.to \in up
  /\ mail' = mail \ {m}
  /\ Settle(m.to, m.panel)
  /\ IF m.kind = "refused" THEN Reinsert(m.to, m.panel)
                           ELSE UNCHANGED <<panel, calls>>
  /\ UNCHANGED <<backend, up, closing, answers, inbox, bounds, kept>>

(* No answer in time: the panel comes back, and a late one is not heard.     *)
Unawaited(w, p) ==
  {IF m.kind = "panel" /\ m.from = w /\ m.panel = p
     THEN [m EXCEPT !.awaited = FALSE] ELSE m :
   m \in {n \in mail : ~(n.kind # "panel" /\ n.to = w /\ n.panel = p)}}
NoOneWaits(p, c) ==
  IF c.op = "emit" /\ c.panel = p THEN [c EXCEPT !.by = "nobody"] ELSE c
AckTimeout(w, p) ==
  /\ w \in up /\ moving[w][p].stage = "sent" /\ Fault
  /\ Settle(w, p)
  /\ mail' = Unawaited(w, p)
  /\ LET given == [calls EXCEPT ![w] = [i \in DOMAIN @ |-> NoOneWaits(p, @[i])]]
     IN IF panel[w][p].here THEN calls' = given /\ UNCHANGED panel
        ELSE /\ panel' = [panel EXCEPT ![w][p] = Added(moving[w][p].sid)]
             /\ calls' = [given EXCEPT ![w] = Append(@, OpenCall(p))]
  /\ UNCHANGED <<backend, up, closing, answers, inbox, kept>>

(* Mail to a window that is gone.                                            *)
Undelivered(m) ==
  /\ m \in mail /\ m.to \notin up
  /\ mail' = mail \ {m}
  /\ UNCHANGED <<backend, up, closing, panel, calls, answers, inbox, moving,
                 bounds, kept>>

-----------------------------------------------------------------------------
Users ==
  \/ \E p \in Panels : OpenPanel(p)
  \/ \E w \in Windows, p \in Panels :
       \/ Hide(w, p) \/ Show(w, p) \/ ClosePanel(w, p) \/ TakeOver(w, p)
       \/ Delete(w, p)
  \/ \E w \in Windows : CloseWindow(w) \/ Destroy(w)

MainThread ==
  \E w \in Windows :
    Attach(w) \/ Spawn(w) \/ SpawnFails(w) \/ Detach(w) \/ SetDriver(w) \/ Close(w)
    \/ Emit(w)

Threads == \E i \in Ptys : Exit(i) \/ PollEnds(i)

Webviews ==
  \/ \E a \in answers : OpenAnswered(a) \/ DeleteAnswered(a)
  \/ \E w \in Windows : Hear(w)

Transfers ==
  \/ \E w \in Windows, p \in Panels :
       \/ \E v \in Windows : MoveStart(w, p, v)
       \/ HandOff(w, p) \/ MoveAborted(w, p) \/ AckTimeout(w, p)
  \/ \E m \in mail : Take(m) \/ Refuse(m) \/ Result(m) \/ Undelivered(m)

Next == Users \/ MainThread \/ Threads \/ Webviews \/ Transfers

Spec == Init /\ [][Next]_vars

(* The main thread, the threads of a PTY and the webviews run.               *)
Fairness ==
  /\ WF_vars(MainThread) /\ WF_vars(Webviews)
  /\ \A i \in Ptys : WF_vars(PollEnds(i))
FairSpec == Spec /\ Fairness

-----------------------------------------------------------------------------
(* Properties.                                                               *)

(* A running PTY is the one the table knows and finds: none is forgotten,    *)
(* and no two run for one session (open_or_attach under the lock).           *)
OneLivePty ==
  \A i \in Ptys : pty[i] = "running" => rt.live = i /\ rt.by_id[i].known

(* The driver is a viewer, unless nobody views (attach_live, detach).        *)
DriverViews ==
  \A i \in Ptys : LET s == rt.by_id[i] IN s.attached # <<>> => Views(s, s.driver)

(* A view that believes the table's revision of a session knows whether it   *)
(* drives it, so that no two of them think they do; none is ahead (`rev`).   *)
RevNamesDriver ==
  \A w \in up, p \in Panels :
    LET q == panel[w][p] s == rt.by_id[q.id] IN
    q.view = "open" /\ s.known =>
      /\ q.rev <= s.rev
      /\ q.rev = s.rev => q.drives = (s.driver = w)

(* The poll thread of a session the table knows runs on.                     *)
KnownIsPolled == \A i \in Ptys : rt.by_id[i].known => i \in polls \ stop

(* A PTY is closed by its last viewer only: as long as no window holds two   *)
(* panels of the session, no view of it is left open when it is closed       *)
(* (detach's reference count, panelSession.ts).  The list of viewers counts  *)
(* windows and not panels, which is why the condition is needed.             *)
OnePerWindow ==
  \A w \in Windows, p, q \in Panels :
    panel[w][p].here /\ panel[w][q].here => p = q
ViewsStayOpen ==
  \A w \in up \ closing, p \in Panels :
    panel[w][p].view = "open" => pty[panel[w][p].id] # "closed"
NeverClosedUnderAView == []OnePerWindow => []ViewsStayOpen

(* A panel is in a window or on its way (handOff: "never lost").             *)
PanelNotLost ==
  \A p \in kept : \E w \in up : panel[w][p].here \/ moving[w][p].stage # "no"

(* The table drops a session whose PTY died on its own.                      *)
DeathIsNoticed ==
  \A i \in Ptys : pty[i] = "dead" ~> ~rt.by_id[i].known
=============================================================================
