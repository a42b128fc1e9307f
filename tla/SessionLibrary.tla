--------------------------- MODULE SessionLibrary ---------------------------
(***************************************************************************)
(* The saved Claude sessions of one project: the snapshot of a session     *)
(* (body, derived meta file, sidecars for name, task, summary and title),  *)
(* the list of dismissed sessions under its file lock, and the two lists   *)
(* of the picker: the saved sessions, and the transcripts without a        *)
(* snapshot. The writers are the polling thread of each open session, the  *)
(* windows that rename and delete, and the listing, which rewrites a stale *)
(* meta file. A body is the number of changes it holds; `clock` is what    *)
(* the file system stamps files with.                                      *)
(***************************************************************************)
EXTENDS Naturals, Sequences, Functions

CONSTANTS
  Uuids, Windows,
  Sidecars,    \* of "name", "task", "summary" and "title"
  HiddenCap,   \* HIDDEN_CAP
  SizeOf,      \* body -> its length in bytes
  Busy,        \* bound: the sessions whose timeline and sidecars change
  MaxChanges,  \* bound: changes of a session's timeline
  MaxOpens,    \* bound: times a session is opened, over all sessions
  MaxTrouble   \* bound: ticks of the clock, and failing writes and scans

ASSUME SessionLibraryAssumption ==
  /\ HiddenCap \in Nat \ {0} /\ MaxChanges \in Nat /\ MaxOpens \in Nat /\ MaxTrouble \in Nat

VARIABLES
  trans,      \* the sessions that have a transcript
  clock,
  body, meta, \* uuid -> the file, or NoFile
  side,       \* uuid -> the sidecars that exist
  thread,     \* uuid -> [pc, stop, dirty, ver, snap] of its polling thread
  panels,     \* the sessions with a tab
  job,        \* window -> [pc, uuid, read] of the delete it runs
  hidden,     \* hidden-sessions.txt, oldest dismissal first
  flock,      \* the windows that hold hidden-sessions.lock
  look,       \* [pc, left, entry, heals, rows] of the listing
  gone,       \* history: dismissals recorded, not spent, not evicted, and not
              \* forgotten by a delete that could not read the list
  deleted,    \* sessions whose delete began and did not fail, not opened since
  late,       \* sessions with a writer in flight when they were deleted
  opens, faults
fileVars == <<body, meta, side>>
listVars == <<hidden, flock, gone, deleted>>
seVars == <<trans, clock, fileVars, thread, panels, job, listVars, look, late, opens, faults>>

NoFile == [ver |-> 0, len |-> 0, at |-> 0]
Idle   == [pc |-> "idle", uuid |-> "", read |-> <<>>]
Rest   == [pc |-> "idle", left |-> {}, entry |-> [uuid |-> "", seen |-> NoFile],
           heals |-> <<>>, rows |-> <<>>]
Off    == [pc |-> "off", stop |-> TRUE, dirty |-> FALSE, ver |-> 0, snap |-> 0]

LibTypeOK ==
  /\ trans \subseteq Uuids /\ panels \subseteq Uuids /\ clock \in 0 .. MaxTrouble
  /\ \A u \in Uuids : /\ body[u].ver <= thread[u].ver /\ meta[u].ver <= thread[u].ver
                      /\ side[u] \subseteq Sidecars
  /\ Len(hidden) <= HiddenCap /\ flock \subseteq Windows

LibInit ==
  /\ trans \in SUBSET Uuids /\ clock = 0
  /\ body = [u \in Uuids |-> NoFile] /\ meta = body /\ side = [u \in Uuids |-> {}]
  /\ thread = [u \in Uuids |-> Off] /\ panels = {}
  /\ job = [w \in Windows |-> Idle] /\ hidden = <<>> /\ flock = {}
  /\ look = Rest /\ gone = {} /\ deleted = {} /\ late = {} /\ opens = 0 /\ faults = 0

Fault == clock + faults < MaxTrouble /\ faults' = faults + 1
File(v) == [ver |-> v, len |-> SizeOf[v], at |-> clock]
Stamp == clock + faults < MaxTrouble /\ clock' = clock + 1
         /\ UNCHANGED <<trans, fileVars, thread, panels, job, listVars, look, late, opens, faults>>

-----------------------------------------------------------------------------
(* Sessions: opened (an unknown one is adopted, which spends its           *)
(* dismissal; when the list cannot be locked, read or written the adoption *)
(* goes on without), changed, saved, closed.                               *)

Without(list, out) ==
  LET upTo[n \in 0 .. Len(list)] ==
        IF n = 0 THEN <<>>
        ELSE IF list[n] \in out THEN upTo[n - 1] ELSE Append(upTo[n - 1], list[n])
  IN upTo[Len(list)]
Unhidden(list, u) == Without(list, {u})

Open(u) ==
  LET adopting == body[u] = NoFile /\ u \in trans IN
  /\ thread[u].pc = "off" /\ opens < MaxOpens
  /\ thread' = [thread EXCEPT ![u].pc = "tail", ![u].stop = FALSE]
  /\ \/ /\ adopting /\ flock = {}
        /\ hidden' = Unhidden(hidden, u) /\ gone' = gone \ {u} /\ UNCHANGED faults
     \/ adopting /\ Fault /\ UNCHANGED <<hidden, gone>>
     \/ ~adopting /\ UNCHANGED <<hidden, gone, faults>>
  /\ deleted' = deleted \ {u} /\ late' = late \ {u} /\ panels' = panels \cup {u} /\ trans' = trans \cup {u}
  /\ opens' = opens + 1
  /\ UNCHANGED <<clock, fileVars, job, flock, look>>

Change(u) ==
  /\ u \in Busy /\ thread[u].pc = "tail" /\ ~thread[u].stop /\ thread[u].ver < MaxChanges
  /\ thread' = [thread EXCEPT ![u].ver = @ + 1, ![u].dirty = TRUE]
  /\ UNCHANGED <<trans, clock, fileVars, panels, job, listVars, look, late, opens, faults>>

SetPc(u, pc) == thread' = [thread EXCEPT ![u].pc = pc]

BuildSnapshot(u) ==
  /\ thread[u].pc = "tail" /\ thread[u].dirty /\ ~thread[u].stop
  /\ thread' = [thread EXCEPT ![u].pc = "built", ![u].snap = thread[u].ver]
  /\ UNCHANGED <<trans, clock, fileVars, panels, job, listVars, look, late, opens, faults>>

\* A wrong variant: the stop flag is not read again before the write.
StopRereadWrongOnce(u) ==
  /\ thread[u].pc = "built" /\ SetPc(u, "write")
  /\ UNCHANGED <<trans, clock, fileVars, panels, job, listVars, look, late, opens, faults>>

StopReread(u) ==
  /\ thread[u].pc = "built"
  /\ SetPc(u, IF thread[u].stop THEN "tail" ELSE "write")
  /\ UNCHANGED <<trans, clock, fileVars, panels, job, listVars, look, late, opens, faults>>

SaveBody(u) ==
  /\ thread[u].pc = "write"
  /\ \/ /\ body' = [body EXCEPT ![u] = File(thread[u].snap)]
        /\ thread' = [thread EXCEPT ![u].pc = "meta", ![u].dirty = FALSE]
        /\ UNCHANGED faults
     \/ Fault /\ SetPc(u, "tail") /\ UNCHANGED body
  /\ UNCHANGED <<trans, clock, meta, side, panels, job, listVars, look, late, opens>>

SaveMeta(u) ==
  /\ thread[u].pc = "meta" /\ SetPc(u, "tail")
  /\ \/ meta' = [meta EXCEPT ![u] = File(thread[u].snap)] /\ UNCHANGED faults
     \/ Fault /\ UNCHANGED meta
  /\ UNCHANGED <<trans, clock, body, side, panels, job, listVars, look, late, opens>>

ThreadEnds(u) ==
  /\ thread[u].pc = "tail" /\ thread[u].stop
  /\ thread' = [thread EXCEPT ![u].pc = "off", ![u].dirty = FALSE]
  /\ UNCHANGED <<trans, clock, fileVars, panels, job, listVars, look, late, opens, faults>>

\* The last viewer closes its tab: the history stays.
CloseTab(u) ==
  /\ u \in panels /\ \A w \in Windows : job[w].uuid # u
  /\ panels' = panels \ {u} /\ thread' = [thread EXCEPT ![u].stop = TRUE]
  /\ UNCHANGED <<trans, clock, fileVars, job, listVars, look, late, opens, faults>>

\* Each sidecar is a file of its own, replaced as a whole.
Replaced(u, f) == side' = [side EXCEPT ![u] = @ \cup {f}]

\* A rename or a hand-over writes its sidecar; a blank title removes it.
WriteSidecar(u, f) ==
  /\ u \in Busy \cap panels /\ \A w \in Windows : job[w].uuid # u
  /\ \/ Replaced(u, f)
     \/ f = "title" /\ side' = [side EXCEPT ![u] = @ \ {f}]
  /\ UNCHANGED <<trans, clock, body, meta, thread, panels, job, listVars, look, late, opens, faults>>

TranscriptGoes(u) ==
  /\ u \in trans /\ thread[u].pc = "off" /\ trans' = trans \ {u}
  /\ UNCHANGED <<clock, fileVars, thread, panels, job, listVars, look, late, opens, faults>>

-----------------------------------------------------------------------------
(* A delete: claude_close, then claude_delete (files, then the dismissal). *)

SetJob(w, pc) == job' = [job EXCEPT ![w].pc = pc]

ForceClose(w, u) ==
  /\ job[w].pc = "idle" /\ u \in panels
  /\ job' = [job EXCEPT ![w] = [pc |-> "body", uuid |-> u, read |-> <<>>]]
  /\ thread' = [thread EXCEPT ![u].stop = TRUE]
  /\ late' = IF thread[u].pc \in {"write", "meta"} THEN late \cup {u} ELSE late
  /\ deleted' = deleted \cup {u}
  /\ UNCHANGED <<trans, clock, fileVars, panels, hidden, flock, gone, look, opens, faults>>

Answered(w) == job' = [job EXCEPT ![w] = Idle] /\ panels' = panels \ {job[w].uuid}
Fails(w) == Fault /\ Answered(w) /\ deleted' = deleted \ {job[w].uuid}

DeleteFile(w) ==
  LET u == job[w].uuid  Step(from, to) == job[w].pc = from /\ SetJob(w, to) IN
  /\ \/ /\ \/ /\ Step("body", "meta") /\ body' = [body EXCEPT ![u] = NoFile]
             /\ UNCHANGED <<meta, side>>
          \/ /\ Step("meta", "side") /\ meta' = [meta EXCEPT ![u] = NoFile]
             /\ UNCHANGED <<body, side>>
          \/ /\ Step("side", "hide") /\ side' = [side EXCEPT ![u] = {}]
             /\ UNCHANGED <<body, meta>>
       /\ UNCHANGED <<panels, deleted, faults>>
     \/ job[w].pc \in {"body", "meta", "side"} /\ Fails(w) /\ UNCHANGED fileVars
  /\ UNCHANGED <<trans, clock, thread, hidden, flock, gone, look, late, opens>>

\* A wrong variant: the list is read without waiting for the lock.
LockListWrongUnlocked(w) ==
  /\ job[w].pc = "hide" /\ flock' = flock \cup {w}
  /\ job' = [job EXCEPT ![w].pc = "listed", ![w].read = hidden]
  /\ UNCHANGED <<trans, clock, fileVars, thread, panels, hidden, gone, deleted, look, late, opens, faults>>

\* The lock, and the list under it. A list that cannot be read is taken for an
\* empty one; when the lock (or, later, the write) fails nothing is recorded.
LockList(w) ==
  /\ job[w].pc = "hide"
  /\ \/ /\ flock = {} /\ flock' = flock \cup {w}
        /\ \/ /\ job' = [job EXCEPT ![w].pc = "listed", ![w].read = hidden]
              /\ UNCHANGED faults
           \/ Fault /\ job' = [job EXCEPT ![w].pc = "blind", ![w].read = <<>>]
        /\ UNCHANGED <<panels, deleted>>
     \/ Fails(w) /\ UNCHANGED flock
  /\ UNCHANGED <<trans, clock, fileVars, thread, hidden, gone, look, late, opens>>

LastOf(s, n) == SubSeq(s, Len(s) - n + 1, Len(s))
Capped(s) == IF Len(s) > HiddenCap THEN LastOf(s, HiddenCap) ELSE s
\* Transcripts that cannot be listed are not taken for gone.
ExistingUuids(readable) == IF readable THEN trans ELSE Uuids

\* A wrong variant: the oldest go, tombstones or not.
DismissedWrongOldest(list, u, alive) == Capped(Append(Unhidden(list, u), u))

Dismissed(list, u, alive) ==
  LET all == Append(Unhidden(list, u), u)
  IN  IF Len(all) > HiddenCap THEN Capped(Without(all, Range(all) \ alive)) ELSE all

Hide(w) ==
  LET u == job[w].uuid IN
  /\ job[w].pc \in {"listed", "blind"} /\ flock' = flock \ {w} /\ Answered(w)
  /\ \/ UNCHANGED faults /\ hidden' = Dismissed(job[w].read, u, ExistingUuids(TRUE))
     \/ Fault /\ hidden' = Dismissed(job[w].read, u, ExistingUuids(FALSE))
  /\ gone' = LET known == IF job[w].pc = "blind" THEN {u} ELSE gone \cup {u}
             IN  known \ ((Range(job[w].read) \cup {u}) \ Range(hidden'))
  /\ UNCHANGED <<trans, clock, fileVars, thread, deleted, look, late, opens>>

-----------------------------------------------------------------------------
(* The picker: the saved sessions, entry by entry, and the others.         *)

Saved == {u \in Uuids : body[u] # NoFile}

ListBegins ==
  /\ look.pc = "idle" /\ Saved # {}
  /\ look' = [Rest EXCEPT !.pc = "next", !.left = Saved]
  /\ UNCHANGED <<trans, clock, fileVars, thread, panels, job, listVars, late, opens, faults>>

ListStats(u) ==
  /\ look.pc = "next" /\ u \in look.left
  /\ look' = [look EXCEPT !.left = @ \ {u}, !.entry = [uuid |-> u, seen |-> body[u]],
                          !.pc = IF body[u] = NoFile THEN "next" ELSE "entry"]
  /\ UNCHANGED <<trans, clock, fileVars, thread, panels, job, listVars, late, opens, faults>>

(* A wrong variant: the time alone decides.                                *)
FreshWrongLength(m, b) == m # NoFile /\ m.at >= b.at

Fresh(m, b) == m # NoFile /\ m.at >= b.at /\ m.len = b.len

ListReads ==
  LET u == look.entry.uuid  seen == look.entry.seen
      Row(v) == [uuid |-> u, ver |-> v, seen |-> seen.ver] IN
  /\ look.pc = "entry"
  /\ look' = [look EXCEPT
       !.pc    = "next",
       !.rows  = IF Fresh(meta[u], seen) THEN Append(@, Row(meta[u].ver))
                 ELSE IF body[u] = NoFile THEN @ ELSE Append(@, Row(body[u].ver)),
       !.heals = IF Fresh(meta[u], seen) \/ body[u] = NoFile THEN @
                 ELSE Append(@, [uuid |-> u, ver |-> body[u].ver])]
  /\ UNCHANGED <<trans, clock, fileVars, thread, panels, job, listVars, late, opens, faults>>

ListHeals ==
  LET heal == Head(look.heals) IN
  /\ look.pc = "next" /\ look.left = {} /\ look.heals # <<>>
  /\ meta' = [meta EXCEPT ![heal.uuid] = File(heal.ver)]
  /\ look' = [look EXCEPT !.heals = Tail(@)]
  /\ late' = IF body[heal.uuid] = NoFile THEN late \cup {heal.uuid} ELSE late
  /\ UNCHANGED <<trans, clock, body, side, thread, panels, job, listVars, opens, faults>>

ListEnds ==
  /\ look.pc = "next" /\ look.left = {} /\ look.heals = <<>> /\ look' = Rest
  /\ UNCHANGED <<trans, clock, fileVars, thread, panels, job, listVars, late, opens, faults>>

Outside == trans \ Saved
Listing == [sessions |-> Outside \ Range(hidden), hidden |-> Outside \cap Range(hidden)]

LibNext ==
  \/ Stamp
  \/ \E u \in Uuids :
       \/ Open(u) \/ Change(u) \/ BuildSnapshot(u) \/ StopReread(u) \/ SaveBody(u)
       \/ SaveMeta(u) \/ ThreadEnds(u) \/ CloseTab(u) \/ TranscriptGoes(u)
       \/ ListStats(u) \/ \E f \in Sidecars : WriteSidecar(u, f)
       \/ \E w \in Windows : ForceClose(w, u)
  \/ \E w \in Windows : DeleteFile(w) \/ LockList(w) \/ Hide(w)
  \/ ListBegins \/ ListReads \/ ListHeals \/ ListEnds

LibSpec == LibInit /\ [][LibNext]_seVars

-----------------------------------------------------------------------------
(* A row of the picker is never older than the body the listing met, though *)
(* it is taken from a file other writers replace, also with an older        *)
(* summary (a listing that repairs it after a save).  The lengths tell the  *)
(* summaries apart: that of an older body of the same length may stand.     *)
ListIsCurrent ==
  \A i \in DOMAIN look.rows :
    LET row == look.rows[i]
    IN  row.ver >= row.seen \/ SizeOf[row.ver] = SizeOf[row.seen]

(* Once a delete has been answered nothing of the session is left, and a    *)
(* picker that can read the list offers it nowhere, unless it is opened     *)
(* again, its dismissal was evicted or forgotten by a delete that could not *)
(* read the list, or a writer was past its last check when it was closed.   *)
DeletedStaysAway ==
  \A u \in (gone \cap deleted) \ late :
     (\A w \in Windows : job[w].uuid # u) =>
       /\ body[u] = NoFile /\ meta[u] = NoFile /\ side[u] = {}
       /\ u \notin Saved \cup Listing.sessions

(* The list holds exactly the dismissals that were recorded, not spent by   *)
(* an adoption and not evicted: none is lost to the delete of another       *)
(* window that reads the list, and one that cannot read it forgets them all.*)
DismissalsKept == gone = Range(hidden)

(* A dismissal that still hides a transcript is only evicted when no        *)
(* tombstone is left to evict (or transcripts or list could not be read).   *)
TombstonesFirst ==
  [][\A u \in gone \ gone' :
       /\ u \in trans /\ opens' = opens /\ faults' = faults
       /\ \A w \in Windows : job[w].pc # "blind"
       => gone' \subseteq trans]_seVars

(* The picker offers what is there, as it is, and not what was deleted.     *)
LibraryIsCurrent ==
  [](LibTypeOK /\ ListIsCurrent /\ DeletedStaysAway /\ DismissalsKept) /\ TombstonesFirst
=============================================================================
