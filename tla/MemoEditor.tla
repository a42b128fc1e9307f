----------------------------- MODULE MemoEditor -----------------------------
(* A project's memo: the file behind memo_read/memo_write with its           *)
(* optimistic lock (core/src/memo_store.rs), the auto-saver and the stash of *)
(* src/state/projectMemo.ts, and the editor that mounts, unmounts and        *)
(* reloads in each window (src/components/MemoEditor.tsx).  Every edit makes *)
(* a text of its own, and a text stands for its content hash.                *)
EXTENDS Integers, Sequences, SequencesExt

CONSTANTS
  Windows,      \* webviews; openProjectMemo keeps one memo panel in each
  MaxEdits,     \* bound: texts typed
  MaxRuns,      \* bound: mounts and reloads of editors
  MaxFailures,  \* bound: reads and writes that fail
  MaxChained,   \* bound: flushes queued behind one save
  InOrder       \* whether the calls of one webview keep their order

ASSUME BoundsAssumption ==
  /\ MaxEdits \in Nat /\ MaxRuns \in Nat /\ MaxFailures \in Nat
  /\ MaxChained \in Nat \ {0}
ASSUME InOrderAssumption == InOrder \in BOOLEAN

VARIABLES
  disk,       \* memo.md
  onDisk,     \* history: every content the file has had
  typed,      \* texts typed so far
  panel,      \* per window, the mounted editor
  stash,      \* per window, projectMemo's stash
  base,       \* per component instance, baseHashRef and where it came from
  saver,      \* per run of the editor's effect, its auto-saver
  runs,       \* effect runs so far
  calls,      \* per window, the invokes not answered yet
  lastEdit,   \* history: per window, the last text its user typed
  failures

vars == <<disk, onDisk, typed, panel, stash, base, saver, runs, calls,
          lastEdit, failures>>

None == -1
Text == 0..MaxEdits          \* 0: the text of the file before any edit
Hash == Text \cup {None}     \* None: there is no file
RunIds == 1..MaxRuns

Phases == {"closed", "reading", "open", "unreadable"}
Panel == [phase : Phases, run : 0..MaxRuns, inst : 0..MaxRuns, banner : BOOLEAN]
Closed == [phase |-> "closed", run |-> 0, inst |-> 0, banner |-> FALSE]

(* makeAutoSaver: `box` is the value not on disk yet, `sending` the one in   *)
(* flight, `chained` the flushes that wait for it; `leaving` is the cleanup  *)
(* that waits to clear the stash.                                            *)
Saver ==
  [inst : 0..MaxRuns, box : Text \cup {None}, timer : BOOLEAN,
   sending : Text \cup {None}, chained : Nat, leaving : BOOLEAN]
NewSaver(i) ==
  [inst |-> i, box |-> None, timer |-> FALSE, sending |-> None, chained |-> 0,
   leaving |-> FALSE]

Base == [hash : Hash, from : {"read", "saved", "refused", "chosen"}]

Call ==
  [op : {"read", "write"}, run : RunIds, text : Text \cup {None}, base : Base,
   res : {"pending", "ok", "conflict", "failed"}, hash : Hash]

TypeOK ==
  /\ disk \in Hash /\ onDisk \subseteq Hash
  /\ typed \in Text
  /\ panel \in [Windows -> Panel]
  /\ stash \in [Windows -> Text \cup {None}]
  /\ base \in [RunIds -> Base]
  /\ saver \in [RunIds -> Saver]
  /\ runs \in 0..MaxRuns
  /\ calls \in [Windows -> Seq(Call)]
  /\ lastEdit \in [Windows -> Text]
  /\ failures \in 0..MaxFailures

NoBase == [hash |-> None, from |-> "read"]

Init ==
  /\ disk \in {None, 0} /\ onDisk = {disk} /\ typed = 0
  /\ panel = [w \in Windows |-> Closed]
  /\ stash = [w \in Windows |-> None]
  /\ base = [r \in RunIds |-> NoBase]
  /\ saver = [r \in RunIds |-> NewSaver(0)]
  /\ runs = 0
  /\ calls = [w \in Windows |-> <<>>]
  /\ lastEdit = [w \in Windows |-> 0] /\ failures = 0

-----------------------------------------------------------------------------
(* The auto-saver.                                                           *)

(* A wrong variant, which does not look whether a save is in flight.         *)
RunOnceWrongParallel(s) ==
  IF s.box # None THEN [s EXCEPT !.sending = s.box] ELSE s

(* runOnce: nothing to do without a value, nor while one is in flight.       *)
RunOnce(s) ==
  IF s.box # None /\ s.sending = None THEN [s EXCEPT !.sending = s.box] ELSE s

Scheduled(s, t) == [s EXCEPT !.box = t, !.timer = TRUE]

Fired(s) == RunOnce([s EXCEPT !.timer = FALSE])

Flushed(s) ==
  LET q == [s EXCEPT !.timer = FALSE]
  IN IF q.box # None /\ q.sending # None THEN [q EXCEPT !.chained = @ + 1]
                                         ELSE RunOnce(q)

(* Wrong variants: a flush that never waited is counted as one that did; a   *)
(* success cleans a newer value too.                                         *)
SettledWrongCount(s, saved) ==
  RunOnce([s EXCEPT !.sending = None, !.chained = @ - 1,
                    !.box = IF saved /\ @ = s.sending THEN None ELSE @])
SettledWrongClean(s, saved) ==
  RunOnce([s EXCEPT !.sending = None, !.box = IF saved THEN None ELSE @,
                    !.chained = 0])

(* The save answered.  The value is clean only if no newer one came, and the *)
(* flushes that waited run one after the other.                              *)
Settled(s, saved) ==
  LET q == [s EXCEPT !.sending = None,
                     !.box = IF saved /\ @ = s.sending THEN None ELSE @]
  IN CASE q.chained = 0 -> q
       [] q.chained > 0 /\ q.box = None ->
            [q EXCEPT !.chained = 0, !.timer = FALSE]
       [] q.chained > 0 /\ q.box # None ->
            RunOnce([q EXCEPT !.chained = @ - 1, !.timer = FALSE])

(* A save begins with the base its component holds at that moment.           *)
WriteCall(r, t, b) ==
  [op |-> "write", run |-> r, text |-> t, base |-> b, res |-> "pending",
   hash |-> None]
ReadCall(r) ==
  [op |-> "read", run |-> r, text |-> None, base |-> NoBase, res |-> "pending",
   hash |-> None]

(* What a saver's step adds to the calls of its window.                      *)
Begun(r, before, after, b) ==
  IF before.sending = None /\ after.sending # None
    THEN <<WriteCall(r, after.sending, b)>> ELSE <<>>

SaverStep(w, r, after) ==
  /\ saver' = [saver EXCEPT ![r] = after]
  /\ calls' = [calls EXCEPT ![w] =
                 @ \o Begun(r, saver[r], after, base[saver[r].inst])]

-----------------------------------------------------------------------------
(* The editor.                                                               *)

(* The effect runs: a new saver, and a read on its way.                      *)
Run(w, i, queue) ==
  /\ runs < MaxRuns
  /\ runs' = runs + 1
  /\ panel' = [panel EXCEPT ![w] = [phase |-> "reading", run |-> runs + 1,
                                    inst |-> i, banner |-> FALSE]]
  /\ calls' = [calls EXCEPT ![w] = queue \o <<ReadCall(runs + 1)>>]

Open(w) ==
  /\ panel[w].phase = "closed"
  /\ Run(w, runs + 1, calls[w])
  /\ saver' = [saver EXCEPT ![runs + 1] = NewSaver(runs + 1)]
  /\ UNCHANGED <<disk, onDisk, typed, stash, base, lastEdit, failures>>

(* A wrong variant: the cleanup stops the timer and waits, and saves nothing. *)
LeftWrongIdle(s) == [s EXCEPT !.timer = FALSE, !.leaving = s.box # None]

(* The effect's cleanup: stash what is not saved, flush it, and clear the    *)
(* stash once nothing is left to save.                                       *)
Left(s) == LET q == Flushed(s) IN [q EXCEPT !.leaving = q.box # None]
StashOnLeave(s) == s.box

Unmount(w) ==
  /\ panel[w].phase # "closed"
  /\ LET r == panel[w].run IN
       /\ SaverStep(w, r, Left(saver[r]))
       /\ stash' = [stash EXCEPT ![w] = StashOnLeave(saver[r])]
  /\ panel' = [panel EXCEPT ![w] = Closed]
  /\ UNCHANGED <<disk, onDisk, typed, base, runs, lastEdit, failures>>

(* A button runs the effect again: cleanup first, in the same component.     *)
Again(w) ==
  LET r == panel[w].run
      gone == Left(saver[r])
  IN /\ Run(w, panel[w].inst,
            calls[w] \o Begun(r, saver[r], gone, base[panel[w].inst]))
     /\ saver' = [saver EXCEPT ![r] = gone,
                               ![runs + 1] = NewSaver(panel[w].inst)]
     /\ stash' = [stash EXCEPT ![w] = StashOnLeave(saver[r])]
     /\ UNCHANGED <<disk, onDisk, typed, base, lastEdit, failures>>

Retry(w) == panel[w].phase = "unreadable" /\ Again(w)

(* [Reload] on the conflict banner, confirmed: "discard this edit and read   *)
(* the disk again".                                                          *)
Reload(w) ==
  /\ panel[w].phase = "open" /\ panel[w].banner
  /\ Again(w)

(* [Overwrite] on the banner is a flush, with the base the refusal left.     *)
Overwrite(w) ==
  /\ panel[w].phase = "open" /\ panel[w].banner
  /\ LET r == panel[w].run
         b == [base[panel[w].inst] EXCEPT !.from = "chosen"]
         after == Flushed(saver[r])
     IN /\ after.chained <= MaxChained
        /\ saver' = [saver EXCEPT ![r] = after]
        /\ base' = [base EXCEPT ![panel[w].inst] = b]
        /\ calls' = [calls EXCEPT ![w] = @ \o Begun(r, saver[r], after, b)]
  /\ UNCHANGED <<disk, onDisk, typed, panel, stash, runs, lastEdit, failures>>

Type(w) ==
  /\ panel[w].phase = "open" /\ typed < MaxEdits
  /\ typed' = typed + 1
  /\ saver' = [saver EXCEPT ![panel[w].run] = Scheduled(@, typed + 1)]
  /\ lastEdit' = [lastEdit EXCEPT ![w] = typed + 1]
  /\ UNCHANGED <<disk, onDisk, panel, stash, base, runs, calls,
                 failures>>

Blur(w) ==
  /\ panel[w].phase = "open"
  /\ LET r == panel[w].run IN
       /\ Flushed(saver[r]).chained <= MaxChained
       /\ SaverStep(w, r, Flushed(saver[r]))
  /\ UNCHANGED <<disk, onDisk, typed, panel, stash, base, runs,
                 lastEdit, failures>>

(* The debounce runs out; the cleanup's flush has stopped every other timer. *)
Timer(w) ==
  /\ panel[w].phase = "open" /\ saver[panel[w].run].timer
  /\ SaverStep(w, panel[w].run, Fired(saver[panel[w].run]))
  /\ UNCHANGED <<disk, onDisk, typed, panel, stash, base, runs,
                 lastEdit, failures>>

-----------------------------------------------------------------------------
(* The commands, each run to its end on the app's main thread.               *)

Turn(w, i) ==
  /\ i \in DOMAIN calls[w]
  /\ InOrder => \A j \in 1..(i - 1) : calls[w][j].res # "pending"

Answer(w, i, res, h) ==
  calls' = [calls EXCEPT ![w][i].res = res, ![w][i].hash = h]

MemoRead(w, i) ==
  /\ Turn(w, i) /\ calls[w][i].op = "read" /\ calls[w][i].res = "pending"
  /\ Answer(w, i, "ok", disk)
  /\ UNCHANGED <<disk, onDisk, typed, panel, stash, base, saver, runs,
                 lastEdit, failures>>

(* save_at: refused unless the disk is what the edit started from.           *)
Refused(d, b) == d # b.hash

MemoWrite(w, i) ==
  /\ Turn(w, i) /\ calls[w][i].op = "write" /\ calls[w][i].res = "pending"
  /\ IF Refused(disk, calls[w][i].base)
       THEN /\ Answer(w, i, "conflict", disk)
            /\ UNCHANGED <<disk, onDisk>>
       ELSE /\ Answer(w, i, "ok", calls[w][i].text)
            /\ disk' = calls[w][i].text
            /\ onDisk' = onDisk \cup {calls[w][i].text}
  /\ UNCHANGED <<typed, panel, stash, base, saver, runs, lastEdit, failures>>

(* An I/O error, in a read or a write; the old file stays as it was.         *)
Fail(w, i) ==
  /\ Turn(w, i) /\ calls[w][i].res = "pending"
  /\ failures < MaxFailures /\ failures' = failures + 1
  /\ Answer(w, i, "failed", None)
  /\ UNCHANGED <<disk, onDisk, typed, panel, stash, base, saver, runs,
                 lastEdit>>

-----------------------------------------------------------------------------
(* The answers, back in the webview.                                         *)

Arrives(w, i) ==
  /\ i \in DOMAIN calls[w] /\ calls[w][i].res # "pending"
  /\ InOrder => i = 1

(* A wrong variant: an edit that came back stays in the stash too.           *)
StashAfterReadWrongKept(w) == stash[w]

(* takeStash: what the editor shows from now on is no longer kept aside.     *)
StashAfterRead(w) == None

(* An edit the stash kept comes back, and is queued to be saved.             *)
ReadDone(w, i) ==
  /\ Arrives(w, i) /\ calls[w][i].op = "read"
  /\ calls' = [calls EXCEPT ![w] = RemoveAt(@, i)]
  /\ LET c == calls[w][i]
         current == c.run = panel[w].run
         text == IF c.hash = None THEN 0 ELSE c.hash
         kept == stash[w]
     IN IF current /\ c.res = "ok"
          THEN /\ base' = [base EXCEPT ![panel[w].inst] =
                             [hash |-> c.hash, from |-> "read"]]
               /\ stash' = [stash EXCEPT ![w] = StashAfterRead(w)]
               /\ saver' = IF kept # None /\ kept # text
                             THEN [saver EXCEPT ![c.run] = Scheduled(@, kept)]
                             ELSE saver
               /\ panel' = [panel EXCEPT ![w].phase = "open"]
          ELSE /\ panel' = IF current
                             THEN [panel EXCEPT ![w].phase = "unreadable"]
                             ELSE panel
               /\ UNCHANGED <<base, stash, saver>>
  /\ UNCHANGED <<disk, onDisk, typed, runs, lastEdit, failures>>

(* A refusal leaves the disk's hash as the base, so that [Overwrite] can     *)
(* succeed.                                                                  *)
BaseAfter(c, b) ==
  CASE c.res = "ok" -> [hash |-> c.hash, from |-> "saved"]
    [] c.res = "conflict" -> [hash |-> c.hash, from |-> "refused"]
    [] c.res = "failed" -> b

BannerAfter(c, shown) ==
  CASE c.res = "ok" -> FALSE [] c.res = "conflict" -> TRUE [] OTHER -> shown

WriteDone(w, i) ==
  /\ Arrives(w, i) /\ calls[w][i].op = "write"
  /\ LET c == calls[w][i]
         s == saver[c.run]
         next == Settled(s, c.res = "ok")
         b == BaseAfter(c, base[s.inst])
         left == s.leaving /\ next.sending = None
     IN /\ base' = [base EXCEPT ![s.inst] = b]
        /\ saver' = [saver EXCEPT ![c.run] =
                       IF left THEN [next EXCEPT !.leaving = FALSE] ELSE next]
        /\ calls' = [calls EXCEPT ![w] =
                       RemoveAt(@, i)
                         \o (IF next.sending # None
                               THEN <<WriteCall(c.run, next.sending, b)>>
                               ELSE <<>>)]
        /\ stash' = IF left /\ next.box = None
                      THEN [stash EXCEPT ![w] = None] ELSE stash
        /\ panel' = IF c.run = panel[w].run
                      THEN [panel EXCEPT ![w].banner = BannerAfter(c, @)]
                      ELSE panel
  /\ UNCHANGED <<disk, onDisk, typed, runs, lastEdit, failures>>

Editor(w) ==
  \/ Open(w) \/ Unmount(w) \/ Retry(w) \/ Reload(w) \/ Overwrite(w)
  \/ Type(w) \/ Blur(w) \/ Timer(w)

MaxCalls == 2 * MaxRuns

Command(w) ==
  \E i \in 1..MaxCalls :
    \/ MemoRead(w, i) \/ MemoWrite(w, i) \/ Fail(w, i)

Reply(w) == \E i \in 1..MaxCalls : ReadDone(w, i) \/ WriteDone(w, i)

Next == \E w \in Windows : Editor(w) \/ Command(w) \/ Reply(w)

Spec == Init /\ [][Next]_vars

(* Timers fire, commands run and are answered.                               *)
Fairness ==
  \A w \in Windows :
    /\ WF_vars(Timer(w))
    /\ WF_vars(Command(w))
    /\ WF_vars(Reply(w))

FairSpec == Spec /\ Fairness
-----------------------------------------------------------------------------
(* What the editor promises.                                                 *)

(* The saves of one auto-saver are serial: an unanswered write of a run is   *)
(* the value that its saver is sending, and there is only one.               *)
SerialSaves ==
  \A w \in Windows : \A i \in DOMAIN calls[w] :
    calls[w][i].op = "write" =>
      /\ saver[calls[w][i].run].sending = calls[w][i].text
      /\ \A j \in DOMAIN calls[w] :
           calls[w][j].op = "write" /\ calls[w][j].run = calls[w][i].run => i = j

(* Only a save cleans: an edit leaves its auto-saver when the file has had   *)
(* it, or for a newer edit, whatever came while a save was on its way.       *)
CleanMeansSaved ==
  [][\A r \in RunIds :
       saver[r].box # None /\ saver'[r].box = None => saver[r].box \in onDisk]_vars

(* The stash never brings an old text back over a newer one: what it keeps   *)
(* for a window is the last text typed there.                                *)
StashIsLatest ==
  \A w \in Windows : stash[w] # None => stash[w] = lastEdit[w]

(* The flush of an editor that went away comes to its end, refused, failed   *)
(* or not, so that its stash is settled.                                     *)
LeaveSettles ==
  \A r \in RunIds : saver[r].leaving ~> ~saver[r].leaving

-----------------------------------------------------------------------------
(* What the comments and the screen say, and the code does not do.           *)

(* projectMemo.ts: after a conflict it is the user who chooses to overwrite  *)
(* or to read again.  A save that knows the disk only from a refusal is      *)
(* nobody's choice.                                                          *)
OverwriteIsChosen ==
  [][disk' # disk =>
       \A w \in Windows : \A i \in DOMAIN calls[w] :
         MemoWrite(w, i) => calls[w][i].base.from # "refused"]_vars

(* projectMemo.ts 190-192: a text whose save fails as its editor goes away   *)
(* is kept for the next mount, with no loss in silence.  When the window is  *)
(* at rest its last text is in the file, was there, or is kept.              *)
UnsavedIsKept ==
  \A w \in Windows :
    panel[w].phase = "closed" /\ calls[w] = <<>> /\ lastEdit[w] # 0 =>
      lastEdit[w] \in onDisk \cup {stash[w]}

=============================================================================
