---------------------------- MODULE TerminalStore ----------------------------
(* The sessions of the terminal panels across restarts of the app: numbers   *)
(* handed out by the SessionManager (core/src/session.rs), remembered in the *)
(* panels' saved parameters (TerminalPanel.tsx), and the opt-in scrollback   *)
(* files with the flusher that owns each (src-tauri/src/commands.rs,         *)
(* core/src/scrollback_store.rs).  Output is the number of its last chunk.   *)
EXTENDS Integers, FiniteSets

CONSTANTS
  Panels,    \* panel ids, which the layout keeps: the keys of the files too
  MaxIds,    \* bound: sessions per run of the app
  MaxOut,    \* bound: chunks per session
  MaxRuns    \* bound: runs of the app

ASSUME TerminalStoreAssumption ==
  MaxIds \in Nat /\ MaxOut \in Nat /\ MaxRuns \in Nat \ {0}

VARIABLES
  sessions,  \* the manager's map: number -> [for, alive, seq]
  nextId,    \* next_id, 1 at the start of each run
  saved,     \* panel -> params.sessionId in the layout, 0 for none
  shows,     \* panel -> the session it is attached to, 0 while unmounted
  tab,       \* panel -> "new", "open" (in the layout) or "closed" for good
  enabled,   \* ScrollbackState.enabled
  disk,      \* panel -> is there a scrollback file
  flushers,  \* running flushers: [id, key, last]
  runs,
  waits,     \* panel -> the session whose terminal_create it awaits, 0 for none
  crossed,   \* history: a panel took the session of another one for its own
  gaveUp     \* history: panels unmounted or closed while they awaited a terminal_create

storeVars == <<sessions, nextId, saved, shows, tab, enabled, disk, flushers, runs, waits, crossed, gaveUp>>

Flusher(i, k) == [id |-> i, key |-> k, last |-> -1]

StoreTypeOK ==
  /\ DOMAIN sessions \subseteq 1..MaxIds /\ nextId \in 1..MaxIds + 1
  /\ \A i \in DOMAIN sessions :
        sessions[i] \in [for : Panels, alive : BOOLEAN, seq : 0..MaxOut]
  /\ saved \in [Panels -> 0..MaxIds] /\ shows \in [Panels -> 0..MaxIds]
  /\ tab \in [Panels -> {"new", "open", "closed"}] /\ enabled \in BOOLEAN /\ disk \in [Panels -> BOOLEAN]
  /\ flushers \subseteq [id : 1..MaxIds, key : Panels, last : -1..MaxOut]
  /\ runs \in 1..MaxRuns /\ crossed \in BOOLEAN
  /\ waits \in [Panels -> 0..MaxIds] /\ gaveUp \subseteq Panels

StoreInit ==
  /\ sessions = <<>> /\ nextId = 1
  /\ saved = [p \in Panels |-> 0] /\ shows = [p \in Panels |-> 0]
  /\ tab = [p \in Panels |-> "new"] /\ enabled = TRUE /\ disk = [p \in Panels |-> FALSE]
  /\ flushers = {} /\ runs = 1 /\ crossed = FALSE
  /\ waits = [p \in Panels |-> 0] /\ gaveUp = {}

Without(i) == [j \in DOMAIN sessions \ {i} |-> sessions[j]]

OpenPanel(p) ==
  /\ tab[p] = "new" /\ tab' = [tab EXCEPT ![p] = "open"]
  /\ UNCHANGED <<sessions, nextId, saved, shows, enabled, disk, flushers, runs, waits, crossed, gaveUp>>

(* The panel's effect.  A saved number the manager knows is attached to ...  *)
Attach(p) ==
  /\ tab[p] = "open" /\ shows[p] = 0 /\ waits[p] = 0 /\ saved[p] \in DOMAIN sessions
  /\ shows' = [shows EXCEPT ![p] = saved[p]]
  /\ crossed' = (crossed \/ sessions[saved[p]].for # p)
  /\ UNCHANGED <<sessions, nextId, saved, tab, enabled, disk, flushers, runs, waits, gaveUp>>

(* ... any other is answered with an error, and terminal_create follows: the *)
(* session, and a flusher of its own.  The panel awaits the number.          *)
Create(p) ==
  /\ tab[p] = "open" /\ shows[p] = 0 /\ waits[p] = 0
  /\ saved[p] \notin DOMAIN sessions /\ nextId <= MaxIds
  /\ sessions' = [j \in DOMAIN sessions \cup {nextId} |->
                    IF j = nextId
                    THEN [for |-> p, alive |-> TRUE, seq |-> 0]
                    ELSE sessions[j]]
  /\ nextId' = nextId + 1 /\ waits' = [waits EXCEPT ![p] = nextId]
  /\ flushers' = IF enabled THEN flushers \cup {Flusher(nextId, p)} ELSE flushers
  /\ UNCHANGED <<saved, shows, tab, enabled, disk, runs, crossed, gaveUp>>

(* The answer reaches a panel that is still mounted: updateParameters.       *)
CreateAnswered(p) ==
  /\ waits[p] # 0 /\ waits' = [waits EXCEPT ![p] = 0]
  /\ saved' = [saved EXCEPT ![p] = waits[p]] /\ shows' = [shows EXCEPT ![p] = waits[p]]
  /\ UNCHANGED <<sessions, nextId, tab, enabled, disk, flushers, runs, crossed, gaveUp>>

(* A panel that goes away while it awaits: `disposed` returns before the     *)
(* number is saved, and nothing in the layout names the session any more.    *)
GivesUp(p) ==
  /\ shows' = [shows EXCEPT ![p] = 0] /\ waits' = [waits EXCEPT ![p] = 0]
  /\ gaveUp' = IF waits[p] # 0 THEN gaveUp \cup {p} ELSE gaveUp

(* A project switch or a move of the tab: detach only.                       *)
Detach(p) ==
  /\ shows[p] # 0 \/ waits[p] # 0
  /\ GivesUp(p)
  /\ UNCHANGED <<sessions, nextId, saved, tab, enabled, disk, flushers, runs, crossed>>

(* The tab is closed: terminal_close with the number in its parameters, if   *)
(* there is one.                                                             *)
ClosePanel(p) ==
  /\ tab[p] = "open" /\ tab' = [tab EXCEPT ![p] = "closed"]
  /\ sessions' = Without(saved[p]) /\ saved' = [saved EXCEPT ![p] = 0]
  /\ GivesUp(p)
  /\ crossed' = (crossed \/ (saved[p] \in DOMAIN sessions /\ sessions[saved[p]].for # p))
  /\ UNCHANGED <<nextId, enabled, disk, flushers, runs>>

Output(i) ==
  /\ sessions[i].alive /\ sessions[i].seq < MaxOut
  /\ sessions' = [sessions EXCEPT ![i].seq = @ + 1]
  /\ UNCHANGED <<nextId, saved, shows, tab, enabled, disk, flushers, runs, waits, crossed, gaveUp>>

Dies(i) ==
  /\ sessions[i].alive /\ sessions' = [sessions EXCEPT ![i].alive = FALSE]
  /\ UNCHANGED <<nextId, saved, shows, tab, enabled, disk, flushers, runs, waits, crossed, gaveUp>>

SetEnabled ==
  /\ nextId > 1 /\ enabled' = ~enabled
  /\ UNCHANGED <<sessions, nextId, saved, shows, tab, disk, flushers, runs, waits, crossed, gaveUp>>

(* scrollback_store: a file is replaced as a whole, and deleted though it may*)
(* not be there.                                                             *)
Save(k) == disk' = [disk EXCEPT ![k] = TRUE]
Delete(k) == disk' = [disk EXCEPT ![k] = FALSE]

(* A wrong variant: a dead session counts as closed.                         *)
FlushWrongDead(f) ==
  /\ disk' = [disk EXCEPT ![f.key] = f.id \in DOMAIN sessions /\ sessions[f.id].alive]
  /\ flushers' = IF disk'[f.key] THEN flushers ELSE flushers \ {f}
  /\ UNCHANGED <<sessions, nextId, saved, shows, tab, enabled, runs, waits, crossed, gaveUp>>

(* spawn_scrollback_flush, every 2 s: save what is new while the toggle is   *)
(* on; when the manager no longer knows the session, delete and end.         *)
Flush(f) ==
  \/ /\ f.id \in DOMAIN sessions /\ enabled /\ sessions[f.id].seq # f.last
     /\ Save(f.key)
     /\ flushers' = (flushers \ {f}) \cup {[f EXCEPT !.last = sessions[f.id].seq]}
     /\ UNCHANGED <<sessions, nextId, saved, shows, tab, enabled, runs, waits, crossed, gaveUp>>
  \/ /\ f.id \notin DOMAIN sessions
     /\ Delete(f.key) /\ flushers' = flushers \ {f}
     /\ UNCHANGED <<sessions, nextId, saved, shows, tab, enabled, runs, waits, crossed, gaveUp>>

(* kill_all, then the process ends; layout and files stay, the flushers and  *)
(* the map do not, and the next run counts from 1 again.                     *)
Restart ==
  /\ runs < MaxRuns /\ nextId > 1 /\ runs' = runs + 1
  /\ sessions' = <<>> /\ nextId' = 1 /\ flushers' = {}
  /\ shows' = [p \in Panels |-> 0] /\ waits' = [p \in Panels |-> 0] /\ gaveUp' = {}
  /\ UNCHANGED <<saved, tab, enabled, disk, crossed>>

StoreNext ==
  \/ \E p \in Panels :
       \/ OpenPanel(p) \/ Attach(p) \/ Create(p) \/ CreateAnswered(p)
       \/ Detach(p) \/ ClosePanel(p)
  \/ \E i \in DOMAIN sessions : Output(i) \/ Dies(i)
  \/ \E f \in flushers : Flush(f)
  \/ SetEnabled \/ Restart

StoreFairness == WF_storeVars(\E f \in flushers : Flush(f))

StoreSpec == StoreInit /\ [][StoreNext]_storeVars /\ StoreFairness

-----------------------------------------------------------------------------
(* The file of a panel that is still in the layout is not deleted, however   *)
(* its sessions die and the app restarts (commands.rs spawn_scrollback_flush:*)
(* "only when the session is finally removed (panel closed)").  So it is     *)
(* until a panel takes another one's session for its own: the numbers start  *)
(* over with each run of the app, and a saved one may name any panel's.      *)
FileKeptWhileOpen ==
  [][\A p \in Panels : disk[p] /\ ~disk'[p] /\ ~crossed' => tab[p] # "open"]_storeVars

(* A flusher is the sole owner of its file (spawn_scrollback_flush, P4-R1),  *)
(* except once the panel went away while it awaited a terminal_create.       *)
SoleOwner ==
  crossed \/ \A f, g \in flushers : f.key = g.key /\ f.key \notin gaveUp => f = g

(* In a run of the app that is not broken off, the file of a closed panel    *)
(* does not stay on the disk, with the same exception: the session nobody    *)
(* names is never closed, and its flusher saves again after the deletion.    *)
ClosedIsDiscarded ==
  \A p \in Panels :
    /\ runs = MaxRuns /\ tab[p] = "closed" /\ p \notin gaveUp
    /\ \E f \in flushers : f.key = p
    ~> ~disk[p]

(* The scrollback files follow the panels of the layout.                     *)
FilesFollowPanels == FileKeptWhileOpen /\ []SoleOwner /\ ClosedIsDiscarded
=============================================================================
