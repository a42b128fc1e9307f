--------------------------- MODULE ArchiveRunProofs ---------------------------
(* That an archive is never lost, says what it is, and is mended by a run in  *)
(* which nothing fails, for any number of versions, memos and mishaps.        *)
EXTENDS ArchiveRun, FiniteSetTheorems, TLAPS

Stages == {"idle", "build", "displace", "land", "resolve", "keep", "memo", "extract", "summary",
           "remove", "write", "index", "restore", "marker"}

Runs == [pc : Stages, v : Versions, memo : 0 .. MaxMemo, prev : Summaries, left : Nat,
         again : BOOLEAN, name : 0 .. MaxNames, at : 0 .. MaxNames, gist : BOOLEAN, entries : {"none", "some", "broken"},
         todo : SUBSET Folders, was : SUBSET Folders, ok : BOOLEAN, err : BOOLEAN,
         fuel : 0 .. MaxMishaps]

Typed ==
  /\ kind \in {"work", "prompt"} /\ script \in Versions \ {0} /\ memo \in 0 .. MaxMemo
  /\ dirs \subseteq Folders /\ kn \in Knowledge /\ index \in Knowledge
  /\ scanned \in 0 .. MaxNames /\ mishaps \in 0 .. MaxMishaps /\ landed \subseteq Versions
  /\ arun \in Runs

(* Two visible folders have two names, and one of them was passed over.       *)
NamesApart(D) == \A d, e \in D : d.place = "top" /\ e.place = "top" /\ d.name = e.name => d = e
OneSeen(D) == \A d, e \in D : d.place = "top" /\ e.place = "top" => d = e \/ d.missed \/ e.missed

(* The run has put a folder of its own in place: the one at its path is its   *)
(* own, or none is there, and any other visible one was passed over.          *)
Swapped == {"resolve", "keep", "memo", "extract", "summary", "remove", "write", "index",
            "restore", "marker"}
Ours == arun.pc \in Swapped \/ (arun.pc \in {"build", "displace", "land"} /\ arun.again)
Own(d) == d.v = arun.v /\ d.told = arun.memo /\ d.mark = ""
Role(d) == (d.name = arun.at => Own(d)) /\ (d.name # arun.at => d.missed)
AtHome(d) == d.place = "top" /\ d.name = arun.at

(* What MarkerIsEarned says of one folder.                                    *)
Earned(d) ==
  /\ d.mark = "ok" => d.sum = d.v
  /\ d.mark = "ok" /\ ~ d.missed => kn.of = d.v /\ kn.n \in {"some", "none"} /\ index = kn
  /\ d.mark = "skipped" /\ d.told # 0 => d.sum = d.told

(* The way of a run: which of its stages a work session and a prompt draft   *)
(* pass, and what it knows where.                                             *)
Course ==
  /\ arun.pc # "idle" => arun.v # 0 /\ mishaps <= arun.fuel
  /\ kind = "prompt" => /\ ~arun.again
                        /\ arun.pc \in {"idle", "build", "displace", "land", "resolve", "keep",
                                        "memo", "marker"}
  /\ kind = "work" => arun.pc # "memo"
  /\ arun.pc \in {"idle", "keep", "memo", "extract"} => ~arun.again
  /\ arun.ok => arun.pc \in {"remove", "write", "index", "restore", "marker"}
  /\ arun.pc \in {"write", "index"} => arun.entries # "broken"

(* The folders that are visible, or come back if the new one cannot land.     *)
All == dirs \cup arun.was
Visible ==
  /\ NamesApart(All) /\ OneSeen(All)
  /\ \A d \in All : d.place = "top" => Earned(d) /\ (Ours => Role(d))

(* Between the two renames only what was passed over is visible, and what    *)
(* was can come back.                                                         *)
Displaced ==
  /\ arun.pc # "land" => arun.was = {}
  /\ arun.pc = "land" => /\ \A d \in arun.was : d.place = "top"
                         /\ \A d \in dirs : d.place = "top" => d.missed
  /\ arun.pc = "resolve" => \E d \in dirs : AtHome(d)
  /\ arun.pc \in {"land", "resolve"} => \A d \in arun.todo : d.place = "old"

Metas == \A d \in dirs \cup arun.was \cup arun.todo : d.meta = 0 \/ d.meta = d.v

Kept == \A x \in landed : \E d \in dirs : x = d.v \/ x \in d.hist

(* What a run without a warning has done of its work.                         *)
Worked ==
  /\ kind = "work" /\ ~arun.err =>
       /\ arun.ok => \A d \in dirs : AtHome(d) => d.sum = arun.v
       /\ arun.pc \in {"index", "restore", "marker"} => kn.of = arun.v /\ kn.n \in {"some", "none"}
       /\ arun.pc \in {"restore", "marker"} => index = kn
  /\ kind = "prompt" /\ ~arun.err /\ arun.pc = "marker" /\ arun.memo # 0 =>
       \A d \in dirs : AtHome(d) => d.sum = arun.memo

(* A run in which no file operation failed has taken in what was left aside, *)
(* or has it still to do; and its folder has a summary if the last one had,  *)
(* except between a second swap and the end of the extraction.                *)
Unharmed == arun.pc # "idle" /\ mishaps = arun.fuel
Alone ==
  Unharmed =>
    /\ arun.pc = "land" => dirs \subseteq arun.todo
    /\ arun.pc = "resolve" => \A d \in dirs : IF d.place = "old" THEN d \in arun.todo ELSE AtHome(d)
    /\ Ours /\ arun.pc \notin {"land", "resolve"} => dirs # {} /\ \A d \in dirs : AtHome(d)
Summed ==
  Unharmed /\ arun.prev # 0 /\ (arun.pc \in {"memo", "extract", "marker"} \/ arun.ok) =>
    \A d \in dirs : AtHome(d) => d.sum # 0

ArInv ==
  Typed /\ Course /\ Visible /\ Displaced /\ Metas /\ Kept /\ Worked /\ Alone /\ Summed

-----------------------------------------------------------------------------
(* The folder of the run.                                                     *)

LEMMA HomeIs ==
  ASSUME NamesApart(dirs), HasHome
  PROVE  /\ Mine \in dirs /\ AtHome(Mine) /\ Home = {Mine}
         /\ \A d \in dirs : AtHome(d) => d = Mine
<1>1. Mine \in Home BY DEF Mine, HasHome
<1> QED BY <1>1 DEF NamesApart, Home, Tops, AtHome

(* Where it is not, no folder is at its path.                                 *)
LEMMA NoHome ==
  ASSUME ~HasHome
  PROVE  \A d \in dirs : ~AtHome(d)
BY DEF HasHome, Home, Tops, AtHome

LEMMA Apart ==
  ASSUME ArInv
  PROVE  /\ NamesApart(dirs) /\ OneSeen(dirs)
         /\ \A d \in dirs : d.place = "top" => Earned(d) /\ (Ours => Role(d))
BY DEF ArInv, Visible, All, NamesApart, OneSeen

(* Outside of the two renames only the folders there are count.               *)
LEMMA NoneAside ==
  ASSUME ArInv, arun.pc # "land"
  PROVE  arun.was = {} /\ All = dirs
BY DEF ArInv, Displaced, All

(* The folder of the run changes what it says and not what it keeps.          *)
Becomes(t) ==
  /\ HasHome /\ t \in Folders /\ AtHome(t) /\ t.missed = Mine.missed
  /\ t.v = Mine.v /\ t.hist = Mine.hist /\ t.told = Mine.told
  /\ dirs' = (dirs \ Home) \cup {t}

LEMMA BecomesFact ==
  ASSUME dirs \subseteq Folders, NamesApart(dirs), OneSeen(dirs), NEW t, Becomes(t)
  PROVE  /\ dirs' \subseteq Folders /\ NamesApart(dirs') /\ OneSeen(dirs') /\ dirs' # {}
         /\ \A d \in dirs' : d = t \/ (d \in dirs /\ ~AtHome(d))
         /\ Kept /\ landed' = landed => Kept'
<1>1. Mine \in dirs /\ AtHome(Mine) /\ Home = {Mine} BY HomeIs DEF Becomes
<1>2. dirs' = (dirs \ {Mine}) \cup {t} /\ t \in Folders /\ AtHome(t) BY <1>1 DEF Becomes
<1>3. \A d \in dirs' : d = t \/ (d \in dirs /\ ~AtHome(d)) BY <1>1, <1>2, HomeIs DEF Becomes
<1>4. ASSUME Kept, landed' = landed PROVE Kept'
  <2>1. ASSUME NEW x \in landed PROVE \E d \in dirs' : x = d.v \/ x \in d.hist
    <3>1. PICK d \in dirs : x = d.v \/ x \in d.hist BY <1>4 DEF Kept
    <3>2. CASE d = Mine BY <3>1, <3>2, <1>2 DEF Becomes
    <3>3. CASE d # Mine BY <3>1, <3>3, <1>2
    <3> QED BY <3>2, <3>3
  <2> QED BY <2>1, <1>4 DEF Kept
<1>5. NamesApart(dirs') BY <1>2, <1>3 DEF NamesApart, AtHome
<1>6. OneSeen(dirs')
  <2>1. t.missed = Mine.missed BY DEF Becomes
  <2>2. ASSUME NEW d \in dirs', NEW e \in dirs', d.place = "top", e.place = "top"
        PROVE  d = e \/ d.missed \/ e.missed
    <3>1. CASE d = t /\ e # t BY <1>1, <1>2, <1>3, <2>1, <2>2, <3>1 DEF OneSeen, AtHome
    <3>2. CASE d # t /\ e = t BY <1>1, <1>2, <1>3, <2>1, <2>2, <3>2 DEF OneSeen, AtHome
    <3>3. CASE d # t /\ e # t BY <1>3, <2>2, <3>3 DEF OneSeen
    <3> QED BY <3>1, <3>2, <3>3
  <2> QED BY <2>2 DEF OneSeen
<1> QED BY <1>2, <1>3, <1>4, <1>5, <1>6

-----------------------------------------------------------------------------
(* What the run goes on with.                                                 *)

Went(pc) ==
  /\ arun' \in Runs /\ arun'.pc = pc /\ arun'.v = arun.v /\ arun'.memo = arun.memo
  /\ arun'.prev = arun.prev /\ arun'.fuel = arun.fuel
Sets == arun'.todo = arun.todo /\ arun'.was = arun.was /\ arun'.at = arun.at

LEMMA GotoFact ==
  ASSUME arun \in Runs, NEW pc \in Stages, arun' = Goto(pc)
  PROVE  /\ Went(pc) /\ Sets /\ arun'.again = arun.again
         /\ arun'.ok = arun.ok /\ arun'.err = arun.err /\ arun'.entries = arun.entries
BY DEF Goto, Runs, Went, Sets

LEMMA WarnedFact ==
  ASSUME arun \in Runs, NEW pc \in Stages, arun' = Warned(pc)
  PROVE  /\ Went(pc) /\ Sets /\ arun'.again = arun.again
         /\ arun'.ok = arun.ok /\ arun'.err = TRUE /\ arun'.entries = arun.entries
BY DEF Warned, Runs, Went, Sets

LEMMA OkFact ==
  ASSUME arun \in Runs, NEW pc \in Stages, arun' = [Goto(pc) EXCEPT !.ok = TRUE]
  PROVE  /\ Went(pc) /\ Sets /\ arun'.again = arun.again
         /\ arun'.ok = TRUE /\ arun'.err = arun.err /\ arun'.entries = arun.entries
BY DEF Goto, Runs, Went, Sets

LEMMA WarnedOkFact ==
  ASSUME arun \in Runs, NEW pc \in Stages, arun' = [Warned(pc) EXCEPT !.ok = TRUE]
  PROVE  /\ Went(pc) /\ Sets /\ arun'.again = arun.again
         /\ arun'.ok = TRUE /\ arun'.err = TRUE /\ arun'.entries = arun.entries
BY DEF Warned, Runs, Went, Sets

LEMMA IdleFact ==
  /\ IdleRun \in Runs /\ IdleRun.pc = "idle" /\ IdleRun.todo = {} /\ IdleRun.was = {}
  /\ IdleRun.again = FALSE /\ IdleRun.ok = FALSE
BY ArchiveAssumption DEF IdleRun, Runs, Stages, Versions, Summaries

(* What a failed call of write_archive leaves.                                *)
LEMMA FailedFact ==
  ASSUME Typed, Course, arun.pc \in {"build", "displace", "land"}, arun' = Failed
  PROVE  /\ arun' \in Runs /\ arun'.todo = {} /\ arun'.was = {} /\ ~arun'.ok
         /\ \/ arun'.pc = "idle" /\ ~arun'.again
            \/ arun.again /\ Went("summary") /\ arun'.at = arun.at /\ arun'.err
<1>1. CASE arun.again
  <2>1. arun' = [Warned("summary") EXCEPT !.todo = {}, !.was = {}] BY <1>1 DEF Failed
  <2>2. Went("summary") /\ arun'.err = TRUE /\ arun'.ok = arun.ok /\ arun'.todo = {} /\ arun'.was = {}
      /\ arun'.at = arun.at
    BY <2>1 DEF Warned, Typed, Runs, Went, Stages
  <2> QED BY <1>1, <2>2 DEF Course, Went
<1>2. CASE ~arun.again BY <1>2, IdleFact DEF Failed
<1> QED BY <1>1, <1>2

-----------------------------------------------------------------------------
(* One step of the machine after the other.                                   *)

LEMMA StillKept ==
  ASSUME ArInv, UNCHANGED <<kind, dirs, kn, index, arun, mishaps, landed>>,
         script' \in Versions \ {0}, memo' \in 0 .. MaxMemo, scanned' \in 0 .. MaxNames
  PROVE  ArInv'
<1>1. Typed' BY DEF ArInv, Typed
<1>2. Course' BY DEF ArInv, Course
<1>3. Visible' BY DEF ArInv, Visible, All, Ours, Role, Own, Earned, NamesApart, OneSeen
<1>4. Displaced' BY DEF ArInv, Displaced, AtHome
<1>5. Metas' /\ Kept' BY DEF ArInv, Metas, Kept
<1>6. Worked' BY DEF ArInv, Worked, AtHome
<1>7. Alone' /\ Summed' BY DEF ArInv, Alone, Summed, Unharmed, Ours, AtHome
<1> QED BY <1>1, <1>2, <1>3, <1>4, <1>5, <1>6, <1>7 DEF ArInv

LEMMA OthersKept ==
  ASSUME ArInv, Grow \/ EditMemo \/ FindOldMeta
  PROVE  ArInv'
<1>1. CASE Grow
  <2>1. script' \in Versions \ {0} BY <1>1, ArchiveAssumption DEF Grow, ArInv, Typed, Versions
  <2> QED BY <1>1, <2>1, StillKept DEF Grow, ArInv, Typed
<1>2. CASE EditMemo BY <1>2, StillKept DEF EditMemo, ArInv, Typed
<1>3. CASE FindOldMeta
  <2>1. PICK d \in Tops : scanned' = d.name BY <1>3 DEF FindOldMeta
  <2>2. scanned' \in 0 .. MaxNames BY <2>1 DEF Tops, ArInv, Typed, Folders
  <2> QED BY <1>3, <2>2, StillKept DEF FindOldMeta, ArInv, Typed
<1> QED BY <1>1, <1>2, <1>3

LEMMA InitKept ==
  ASSUME ArInit
  PROVE  ArInv
<1>1. 1 \in Versions /\ 0 \in Versions BY ArchiveAssumption DEF Versions
<1>2. \A d \in dirs : d \in Folders /\ d.place = "top" /\ d.mark = "" /\ d.meta = 0 /\ d.v = 1
  <2>1. ASSUME NEW d \in dirs
        PROVE d \in Folders /\ d.place = "top" /\ d.mark = "" /\ d.meta = 0 /\ d.v = 1
    <3>1. \E s \in 0 .. 1 : d = [Folder(1, 1, 0) EXCEPT !.meta = 0, !.sum = s] BY <2>1 DEF ArInit
    <3>2. PICK s \in 0 .. 1 : d = [Folder(1, 1, 0) EXCEPT !.meta = 0, !.sum = s] BY <3>1
    <3>3. s \in Summaries BY <1>1 DEF Summaries
    <3>4. d = [place |-> "top", name |-> 1, v |-> 1, meta |-> 0, sum |-> s, mark |-> "", hist |-> {},
               told |-> 0, missed |-> FALSE]
      BY <3>2 DEF Folder
    <3>5. 0 \in 0 .. MaxMemo /\ 1 \in 0 .. MaxNames BY ArchiveAssumption
    <3>6. 1 \in Versions \ {0} /\ {} \in SUBSET Versions BY <1>1
    <3>7. d \in Folders BY <3>3, <3>4, <3>5, <3>6, <1>1 DEF Folders
    <3> QED BY <3>4, <3>7
  <2> QED BY <2>1
<1>3. NamesApart(dirs) /\ OneSeen(dirs)
  <2>1. dirs = {} \/ \E d : dirs = {d} BY DEF ArInit
  <2> QED BY <2>1 DEF NamesApart, OneSeen
<1>4. Typed
  <2>1. landed \subseteq Versions BY <1>1, <1>2 DEF ArInit
  <2>2. mishaps \in 0 .. MaxMishaps BY ArchiveAssumption DEF ArInit
  <2>3. None0 \in Knowledge BY <1>1 DEF None0, Knowledge
  <2>4. arun \in Runs BY IdleFact DEF ArInit
  <2>5. memo \in 0 .. MaxMemo /\ 0 \in 0 .. MaxNames BY ArchiveAssumption DEF ArInit
  <2>6. kind \in {"work", "prompt"} /\ script = 1 /\ kn = None0 /\ index = None0 /\ scanned = 0
    BY DEF ArInit
  <2>7. dirs \subseteq Folders BY <1>2
  <2> QED BY <1>1, <2>1, <2>2, <2>3, <2>4, <2>5, <2>6, <2>7 DEF Typed
<1>5. arun.pc = "idle" /\ ~arun.again /\ ~arun.ok /\ arun.was = {} /\ arun.todo = {}
  BY IdleFact DEF ArInit
<1>6. Course /\ Displaced /\ Alone /\ Summed /\ Worked
  BY <1>5 DEF Course, Displaced, Alone, Summed, Worked, Unharmed
<1>7. Visible
  <2>1. All = dirs BY <1>5 DEF All
  <2> QED BY <1>2, <1>3, <1>5, <2>1 DEF Visible, Ours, Swapped, Earned
<1>8. Metas /\ Kept BY <1>2, <1>5 DEF Metas, Kept, ArInit
<1> QED BY <1>4, <1>6, <1>7, <1>8 DEF ArInv

(* A step that leaves the folders and the knowledge, after which no run has   *)
(* a folder in place.                                                         *)
LEMMA NotOurs ==
  ASSUME ArInv, UNCHANGED <<dirs, kn, index>>, arun'.was = {}, ~Ours'
  PROVE  Visible'
<1>1. All' = dirs BY DEF All
<1>2. \A d \in dirs : d.place = "top" => Earned(d)' BY Apart DEF Earned
<1>3. NamesApart(All') /\ OneSeen(All') BY <1>1, Apart DEF NamesApart, OneSeen
<1> QED BY <1>1, <1>2, <1>3 DEF Visible

LEMMA CrashKept ==
  ASSUME ArInv, Crash
  PROVE  ArInv'
<1>1. /\ arun' \in Runs /\ arun'.pc = "idle" /\ ~arun'.again /\ ~arun'.ok
      /\ arun'.was = {} /\ arun'.todo = {}
  BY IdleFact DEF Crash
<1>2. UNCHANGED <<kind, script, memo, dirs, kn, index, landed>> /\ scanned' = 0
      /\ mishaps' = mishaps - 1 /\ mishaps >= 1
  BY DEF Crash, Mishap
<1>3. Typed' BY <1>1, <1>2, ArchiveAssumption DEF ArInv, Typed
<1>4. Course' /\ Displaced' /\ Alone' /\ Summed' /\ Worked'
  BY <1>1 DEF Course, Displaced, Alone, Summed, Worked, Unharmed
<1>5. Visible' BY <1>1, <1>2, NotOurs DEF Ours, Swapped
<1>6. Metas' /\ Kept' BY <1>1, <1>2 DEF ArInv, Metas, Kept
<1> QED BY <1>3, <1>4, <1>5, <1>6 DEF ArInv

LEMMA BeginKept ==
  ASSUME ArInv, NEW tries \in Nat, Begin(tries)
  PROVE  ArInv'
<1>1. \E prev \in Summaries, err \in BOOLEAN, name \in Names :
        arun' = [IdleRun EXCEPT !.pc = "build", !.v = script, !.memo = memo, !.prev = prev,
                                !.err = err, !.name = name, !.left = tries, !.fuel = mishaps]
  <2>1. 0 \in Summaries BY ArchiveAssumption DEF Summaries, Versions
  <2> QED BY <2>1 DEF Begin
<1>2. PICK prev \in Summaries, err \in BOOLEAN, name \in Names :
        arun' = [IdleRun EXCEPT !.pc = "build", !.v = script, !.memo = memo, !.prev = prev,
                                !.err = err, !.name = name, !.left = tries, !.fuel = mishaps]
  BY <1>1
<1>3. name \in 0 .. MaxNames BY DEF Names
<1>4. /\ arun' \in Runs /\ arun'.pc = "build" /\ ~arun'.again /\ ~arun'.ok
      /\ arun'.was = {} /\ arun'.todo = {} /\ arun'.v = script /\ arun'.fuel = mishaps
  <2>1. script \in Versions /\ memo \in 0 .. MaxMemo /\ mishaps \in 0 .. MaxMishaps
    BY DEF ArInv, Typed
  <2>2. arun' = [pc |-> "build", v |-> script, memo |-> memo, prev |-> prev, left |-> tries,
                 again |-> FALSE, name |-> name, at |-> 0, gist |-> FALSE, entries |-> "none",
                 todo |-> {}, was |-> {}, ok |-> FALSE, err |-> err, fuel |-> mishaps]
    BY <1>2 DEF IdleRun
  <2>3. 0 \in 0 .. MaxNames BY ArchiveAssumption
  <2> QED BY <1>3, <2>1, <2>2, <2>3 DEF Runs, Stages
<1>5. UNCHANGED <<kind, script, memo, dirs, kn, index, scanned, landed>>
      /\ mishaps' \in 0 .. MaxMishaps /\ mishaps' <= mishaps
  BY ArchiveAssumption DEF Begin, Mishap, ArInv, Typed
<1>6. Typed' BY <1>4, <1>5 DEF ArInv, Typed
<1>7. Course' BY <1>4, <1>5 DEF ArInv, Typed, Course
<1>8. Displaced' /\ Alone' /\ Summed' /\ Worked'
  BY <1>4 DEF Displaced, Alone, Summed, Worked, Unharmed, Ours, Swapped
<1>9. Visible' BY <1>4, <1>5, NotOurs DEF Ours, Swapped
<1>10. Metas' /\ Kept' BY <1>4, <1>5 DEF ArInv, Metas, Kept
<1> QED BY <1>6, <1>7, <1>8, <1>9, <1>10 DEF ArInv

(* What a folder keeps when its meta is filled in.                            *)
SameFolder(x, d) ==
  /\ x.place = d.place /\ x.name = d.name /\ x.v = d.v /\ x.sum = d.sum /\ x.mark = d.mark
  /\ x.hist = d.hist /\ x.told = d.told /\ x.missed = d.missed /\ x.meta \in {d.meta, d.v}

LEMMA WithMetaIs ==
  ASSUME NEW d \in Folders
  PROVE  WithMeta(d) \in Folders /\ SameFolder(WithMeta(d), d)
BY DEF WithMeta, Folders, SameFolder

LEMMA FillMetaKept ==
  ASSUME ArInv, FillMeta
  PROVE  ArInv'
<1>1. UNCHANGED <<kind, script, memo, kn, index, arun, landed>> /\ scanned' = 0 BY DEF FillMeta
<1>2. arun.pc \notin {"displace", "land", "resolve"} BY DEF FillMeta, Locked
<1>3. mishaps' \in 0 .. MaxMishaps /\ mishaps' <= mishaps
  BY ArchiveAssumption DEF FillMeta, Mishap, ArInv, Typed
<1>4. CASE dirs' = dirs
  <2>1. Typed' BY <1>1, <1>3, <1>4, ArchiveAssumption DEF ArInv, Typed
  <2>2. Course' BY <1>1, <1>3 DEF ArInv, Course, Typed, Runs
  <2>3. Visible' BY <1>1, <1>4 DEF ArInv, Visible, All, Ours, Role, Own, Earned, NamesApart, OneSeen
  <2>4. Displaced' BY <1>1, <1>2, <1>4 DEF ArInv, Displaced
  <2>5. Metas' /\ Kept' BY <1>1, <1>4 DEF ArInv, Metas, Kept
  <2>6. Worked' BY <1>1, <1>4 DEF ArInv, Worked, AtHome
  <2>7. Alone' /\ Summed'
    BY <1>1, <1>3, <1>4 DEF ArInv, Alone, Summed, Unharmed, Ours, Typed, Runs, Course, AtHome
  <2> QED BY <2>1, <2>2, <2>3, <2>4, <2>5, <2>6, <2>7 DEF ArInv
<1>5. CASE dirs' = {WithMeta(d) : d \in dirs} /\ mishaps' = mishaps
  <2>1. /\ dirs \subseteq Folders /\ NamesApart(dirs) /\ OneSeen(dirs) /\ Kept
        /\ \A d \in dirs : d.place = "top" => Earned(d) /\ (Ours => Role(d))
        /\ arun.was = {}
    BY <1>2, Apart, NoneAside DEF ArInv, Typed
  <2>2. \A x \in dirs' : \E d \in dirs : x = WithMeta(d) /\ SameFolder(x, d) BY <1>5, <2>1, WithMetaIs
  <2>3. \A d \in dirs : \E x \in dirs' : SameFolder(x, d) BY <1>5, <2>1, WithMetaIs
  <2>4. Typed'
    <3>1. dirs' \subseteq Folders BY <1>5, <2>1, WithMetaIs
    <3> QED BY <1>1, <1>3, <3>1, ArchiveAssumption DEF ArInv, Typed
  <2>5. Course' BY <1>1, <1>3 DEF ArInv, Course, Typed, Runs
  <2>6. Visible'
    <3>1. All' = dirs' BY <1>1, <2>1 DEF All
    <3>2. ASSUME NEW x \in dirs', x.place = "top" PROVE (Earned(x) /\ (Ours => Role(x)))'
      <4>1. PICK d \in dirs : SameFolder(x, d) BY <2>2
      <4>2. Earned(d) /\ (Ours => Role(d)) BY <2>1, <3>2, <4>1 DEF SameFolder
      <4>3. Earned(x)' BY <1>1, <4>1, <4>2 DEF SameFolder, Earned
      <4>4. Ours' => Role(x)' BY <1>1, <4>1, <4>2 DEF SameFolder, Role, Own, Ours
      <4> QED BY <4>3, <4>4
    <3>3. NamesApart(dirs')
      <4>1. ASSUME NEW x \in dirs', NEW y \in dirs', x.place = "top", y.place = "top", x.name = y.name
            PROVE  x = y
        <5>1. PICK d \in dirs : x = WithMeta(d) /\ SameFolder(x, d) BY <2>2
        <5>2. PICK e \in dirs : y = WithMeta(e) /\ SameFolder(y, e) BY <2>2
        <5> QED BY <2>1, <4>1, <5>1, <5>2 DEF SameFolder, NamesApart
      <4> QED BY <4>1 DEF NamesApart
    <3>4. OneSeen(dirs')
      <4>1. ASSUME NEW x \in dirs', NEW y \in dirs', x.place = "top", y.place = "top"
            PROVE  x = y \/ x.missed \/ y.missed
        <5>1. PICK d \in dirs : x = WithMeta(d) /\ SameFolder(x, d) BY <2>2
        <5>2. PICK e \in dirs : y = WithMeta(e) /\ SameFolder(y, e) BY <2>2
        <5>3. d = e \/ d.missed \/ e.missed BY <2>1, <4>1, <5>1, <5>2 DEF SameFolder, OneSeen
        <5> QED BY <5>1, <5>2, <5>3 DEF SameFolder
      <4> QED BY <4>1 DEF OneSeen
    <3> QED BY <3>1, <3>2, <3>3, <3>4 DEF Visible
  <2>7. Displaced'
    <3>1. arun.pc \notin {"land", "resolve"} BY <1>2
    <3> QED BY <1>1, <2>1, <3>1 DEF Displaced
  <2>8. Metas'
    <3>1. \A d \in dirs \cup arun.was \cup arun.todo : d.meta = 0 \/ d.meta = d.v BY DEF ArInv, Metas
    <3>2. \A x \in dirs' : x.meta = 0 \/ x.meta = x.v BY <2>2, <3>1 DEF SameFolder
    <3> QED BY <1>1, <3>1, <3>2 DEF Metas
  <2>9. Kept'
    <3>1. ASSUME NEW k \in landed PROVE \E x \in dirs' : k = x.v \/ k \in x.hist
      <4>1. PICK d \in dirs : k = d.v \/ k \in d.hist BY <2>1 DEF Kept
      <4>2. PICK x \in dirs' : SameFolder(x, d) BY <2>3
      <4> QED BY <4>1, <4>2 DEF SameFolder
    <3> QED BY <1>1, <3>1 DEF Kept
  <2>10. \A x \in dirs' : AtHome(x)' => \E d \in dirs : SameFolder(x, d) /\ AtHome(d)
    BY <1>1, <2>2 DEF SameFolder, AtHome
  <2>11. Worked'
    <3>1. \A s : (\A d \in dirs : AtHome(d) => d.sum = s) => \A x \in dirs' : AtHome(x)' => x.sum = s
      BY <2>10 DEF SameFolder
    <3> QED BY <1>1, <3>1 DEF ArInv, Worked
  <2>12. Summed'
    <3>1. (\A d \in dirs : AtHome(d) => d.sum # 0) => \A x \in dirs' : AtHome(x)' => x.sum # 0
      BY <2>10 DEF SameFolder
    <3> QED BY <1>1, <1>5, <3>1 DEF ArInv, Summed, Unharmed
  <2>13. Alone'
    <3>1. arun.pc \notin {"land", "resolve"} BY <1>2
    <3>2. dirs # {} => dirs' # {} BY <2>3
    <3>3. (\A d \in dirs : AtHome(d)) => \A x \in dirs' : AtHome(x)'
      BY <1>1, <2>2 DEF SameFolder, AtHome
    <3>4. Ours' => Ours BY <1>1 DEF Ours
    <3>5. Unharmed' => Unharmed BY <1>1, <1>5 DEF Unharmed
    <3> QED BY <1>1, <3>1, <3>2, <3>3, <3>4, <3>5 DEF ArInv, Alone
  <2> QED BY <2>4, <2>5, <2>6, <2>7, <2>8, <2>9, <2>11, <2>12, <2>13 DEF ArInv
<1> QED BY <1>4, <1>5 DEF FillMeta

-----------------------------------------------------------------------------
(* A step of a run that leaves the folders alone.                             *)

Same == UNCHANGED <<kind, script, memo, scanned, landed>>
Spends == mishaps' \in 0 .. MaxMishaps /\ mishaps' <= mishaps

LEMMA FrameKept ==
  ASSUME ArInv, NEW pc \in Stages \ {"land", "resolve"}, Went(pc), Sets, Same, Spends, dirs' = dirs,
         arun.pc # "land", Ours' => Ours,
         kn' \in Knowledge, index' \in Knowledge, Ours \/ (kn' = kn /\ index' = index)
  PROVE  Typed' /\ Visible' /\ Displaced' /\ Metas' /\ Kept'
<1>1. Typed' BY DEF ArInv, Typed, Went, Same, Spends
<1>2. Visible'
  <2>1. All' = dirs /\ arun.was = {} BY NoneAside DEF All, Sets
  <2>2. NamesApart(All') /\ OneSeen(All') BY <2>1, Apart DEF NamesApart, OneSeen
  <2>3. ASSUME Ours', NEW d \in dirs', d.place = "top" PROVE Role(d)'
    BY <2>3, Apart DEF Role, Own, Went, Sets
  <2>4. ASSUME NEW d \in dirs', d.place = "top" PROVE Earned(d)'
    <3>1. CASE Ours BY <2>4, <3>1, Apart DEF Role, Own, Earned
    <3>2. CASE kn' = kn /\ index' = index BY <2>4, <3>2, Apart DEF Earned
    <3> QED BY <3>1, <3>2
  <2> QED BY <2>1, <2>2, <2>3, <2>4 DEF Visible
<1>3. Displaced' BY NoneAside DEF Displaced, Went, Sets
<1>4. Metas' /\ Kept' BY DEF ArInv, Metas, Kept, Same, Sets
<1> QED BY <1>1, <1>2, <1>3, <1>4

(* A step of a run that writes a summary into its folder.                     *)
LEMMA SumKept ==
  ASSUME ArInv, NEW pc \in Swapped \ {"resolve"}, Went(pc), Sets, Same,
         UNCHANGED <<kn, index, mishaps>>, arun.pc \in Swapped \ {"resolve"},
         HasHome, NEW s \in Summaries, dirs' = (dirs \ Home) \cup {[Mine EXCEPT !.sum = s]}
  PROVE  /\ Typed' /\ Visible' /\ Displaced' /\ Metas' /\ Kept' /\ Alone'
         /\ \A d \in dirs' : AtHome(d)' => d.sum = s
<1>1. Mine \in dirs /\ AtHome(Mine) /\ Mine \in Folders BY HomeIs, Apart DEF ArInv, Typed
<1>2. PICK t : t = [Mine EXCEPT !.sum = s] OBVIOUS
<1>3. /\ t \in Folders /\ t.place = "top" /\ t.v = Mine.v /\ t.hist = Mine.hist /\ t.name = arun.at
      /\ t.told = Mine.told /\ t.mark = Mine.mark /\ t.sum = s /\ t.meta = Mine.meta
      /\ t.missed = Mine.missed
  BY <1>1, <1>2 DEF Folders, AtHome
<1>4. Becomes(t) BY <1>2, <1>3 DEF Becomes, AtHome
<1>5. dirs \subseteq Folders /\ NamesApart(dirs) /\ OneSeen(dirs) /\ Kept BY Apart DEF ArInv, Typed
<1>6. landed' = landed BY DEF Same
<1>7. /\ dirs' \subseteq Folders /\ NamesApart(dirs') /\ OneSeen(dirs') /\ dirs' # {} /\ Kept'
      /\ \A d \in dirs' : d = t \/ (d \in dirs /\ ~AtHome(d))
  BY <1>4, <1>5, <1>6, BecomesFact
<1>8. pc # "land" /\ pc # "resolve" /\ pc # "idle" /\ pc \in Stages /\ Ours /\ arun.pc # "land"
  BY DEF Swapped, Stages, Ours
<1>9. Typed' BY <1>7 DEF ArInv, Typed, Went, Same
<1>10. Visible'
  <2>1. All' = dirs' BY <1>8, NoneAside DEF All, Sets
  <2>2. Role(t)
    <3>1. Role(Mine) BY <1>1, <1>8, Apart DEF AtHome
    <3> QED BY <1>1, <1>3, <3>1 DEF Role, Own, AtHome
  <2>3. \A d \in dirs' : d.place = "top" => Role(d) BY <1>7, <1>8, <2>2, Apart
  <2>4. \A d \in dirs' : d.place = "top" => Role(d)' BY <2>3 DEF Role, Own, Went, Sets
  <2>5. Earned(t)' BY <1>3, <2>2 DEF Role, Own, Earned
  <2>6. \A d \in dirs' : d.place = "top" => Earned(d)' BY <1>7, <2>5, Apart DEF Earned
  <2> QED BY <1>7, <2>1, <2>4, <2>6 DEF Visible
<1>11. Displaced' BY <1>8, NoneAside DEF Displaced, Went, Sets
<1>12. Metas'
  <2>1. \A d \in dirs \cup arun.was \cup arun.todo : d.meta = 0 \/ d.meta = d.v BY DEF ArInv, Metas
  <2> QED BY <1>1, <1>3, <1>7, <2>1 DEF Metas, Sets
<1>13. Alone'
  <2>1. Unharmed' => Unharmed BY <1>8 DEF Unharmed, Went, Swapped
  <2>2. Unharmed => \A d \in dirs : AtHome(d) BY <1>8 DEF ArInv, Alone
  <2>3. AtHome(t)' /\ \A d \in dirs : AtHome(d) => AtHome(d)' BY <1>3 DEF AtHome, Sets
  <2> QED BY <1>7, <1>8, <2>1, <2>2, <2>3 DEF Alone, Went
<1>14. \A d \in dirs' : AtHome(d)' => d.sum = s BY <1>3, <1>7 DEF AtHome, Sets
<1> QED BY <1>7, <1>9, <1>10, <1>11, <1>12, <1>13, <1>14

(* The ways a write into the run's folder goes.                               *)
LEMMA WriteFact ==
  ASSUME Typed, NEW d, NEW good, NEW bad, WriteHome(d, good, bad)
  PROVE  \/ HasHome /\ dirs' = (dirs \ Home) \cup {d} /\ arun' = good /\ mishaps' = mishaps
         \/ /\ arun' = bad /\ dirs' = dirs /\ Spends
            /\ mishaps' # mishaps \/ ~HasHome
BY ArchiveAssumption DEF WriteHome, Typed, Spends, Mishap

LEMMA UnharmedFact ==
  ASSUME ArInv, NEW pc \in Stages, Went(pc), Spends, arun.pc # "idle", Unharmed'
  PROVE  Unharmed /\ mishaps' = mishaps
<1>1. mishaps <= arun.fuel BY DEF ArInv, Course
<1>2. mishaps' = arun.fuel BY DEF Unharmed, Went
<1>3. mishaps' <= mishaps /\ mishaps \in Nat /\ mishaps' \in Nat /\ arun.fuel \in Nat
  BY ArchiveAssumption DEF Spends, ArInv, Typed, Runs
<1> QED BY <1>1, <1>2, <1>3 DEF Unharmed

LEMMA AloneKept ==
  ASSUME ArInv, NEW pc \in Stages \ {"land", "resolve"}, Went(pc), Sets, Spends, arun.pc # "idle",
         dirs' = dirs, Ours' => Ours, arun.pc \notin {"land", "resolve"}
  PROVE  Alone'
<1>1. Unharmed' => Unharmed BY UnharmedFact
<1>2. \A d \in dirs : AtHome(d) => AtHome(d)' BY DEF AtHome, Sets
<1> QED BY <1>1, <1>2 DEF ArInv, Alone, Went

(* In a stage of the run's own, no file fails a step that ends in one.        *)
LEMMA SwappedKept ==
  ASSUME ArInv, NEW pc \in Swapped \ {"resolve"}, arun.pc \in Swapped \ {"resolve"},
         Went(pc), Sets, Same, Spends, dirs' = dirs, kn' \in Knowledge, index' \in Knowledge
  PROVE  Typed' /\ Visible' /\ Displaced' /\ Metas' /\ Kept' /\ Alone'
<1>1. /\ Ours /\ pc \in Stages \ {"land", "resolve"} /\ arun.pc # "idle"
      /\ arun.pc \notin {"land", "resolve"}
  BY DEF Ours, Swapped, Stages
<1> QED BY <1>1, FrameKept, AloneKept

(* Where nothing is written, the folder at home says what it said.            *)
LEMMA HomeStays ==
  ASSUME Sets
  PROVE  \A d : AtHome(d)' <=> AtHome(d)
BY DEF Sets, AtHome

LEMMA Courses ==
  ASSUME ArInv, NEW pc \in Stages, Went(pc), Spends, arun.pc # "idle"
  PROVE  arun'.v # 0 /\ mishaps' <= arun'.fuel
<1>1. mishaps \in Int /\ arun.fuel \in Int /\ mishaps' \in Int
  BY ArchiveAssumption DEF ArInv, Typed, Runs, Spends
<1> QED BY <1>1 DEF ArInv, Course, Went, Spends

LEMMA KeepKept ==
  ASSUME ArInv, Keep
  PROVE  ArInv'
<1>1. PICK next : next = IF kind = "work" THEN "extract" ELSE "memo" OBVIOUS
<1>2. /\ next \in Swapped \ {"resolve"} /\ next \in Stages /\ arun.pc = "keep" /\ ~arun.again /\ ~arun.ok
      /\ Same /\ kn' = kn /\ index' = index /\ arun.pc \in Swapped \ {"resolve"}
  BY <1>1 DEF Keep, Swapped, Stages, Same, ArInv, Course
<1>3. arun \in Runs /\ kn \in Knowledge /\ index \in Knowledge /\ Typed /\ mishaps \in 0 .. MaxMishaps
  BY DEF ArInv, Typed
<1>4. \/ arun.prev = 0 /\ arun' = Goto(next) /\ UNCHANGED <<dirs, mishaps>>
      \/ arun.prev # 0 /\ WriteHome([Mine EXCEPT !.sum = arun.prev], Goto(next), Warned(next))
  BY <1>1 DEF Keep
<1>5. ASSUME Went(next), Spends, arun'.again = arun.again, arun'.ok = arun.ok,
             Typed', Visible', Displaced', Metas', Kept', Alone',
             Unharmed' /\ arun'.prev # 0 => \A d \in dirs' : AtHome(d)' => d.sum # 0
      PROVE  ArInv'
  <2>1. Course' BY <1>1, <1>2, <1>5, Courses DEF ArInv, Course, Typed, Went, Same
  <2>2. Worked' BY <1>1, <1>2, <1>5 DEF Worked, Went
  <2>3. Summed' BY <1>5 DEF Summed
  <2> QED BY <1>5, <2>1, <2>2, <2>3 DEF ArInv
<1>6. CASE HasHome /\ arun.prev # 0 /\ arun' = Goto(next) /\ mishaps' = mishaps
           /\ dirs' = (dirs \ Home) \cup {[Mine EXCEPT !.sum = arun.prev]}
  <2>1. Went(next) /\ Sets /\ arun'.again = arun.again /\ arun'.ok = arun.ok
    BY <1>2, <1>3, <1>6, GotoFact
  <2>2. arun.prev \in Summaries BY <1>3 DEF Runs
  <2>3. /\ Typed' /\ Visible' /\ Displaced' /\ Metas' /\ Kept' /\ Alone'
        /\ \A d \in dirs' : AtHome(d)' => d.sum = arun.prev
    BY <1>2, <1>6, <2>1, <2>2, SumKept
  <2>4. Spends BY <1>3, <1>6 DEF Spends
  <2> QED BY <1>5, <1>6, <2>1, <2>3, <2>4
<1>7. CASE /\ arun' = Goto(next) \/ arun' = Warned(next)
           /\ dirs' = dirs /\ Spends
           /\ mishaps' # mishaps \/ ~HasHome \/ arun.prev = 0
  <2>1. Went(next) /\ Sets /\ arun'.again = arun.again /\ arun'.ok = arun.ok
    BY <1>2, <1>3, <1>7, GotoFact, WarnedFact
  <2>2. Typed' /\ Visible' /\ Displaced' /\ Metas' /\ Kept' /\ Alone'
    BY <1>2, <1>3, <1>7, <2>1, SwappedKept
  <2>3. Unharmed' => mishaps' = mishaps BY <1>2, <1>7, <2>1, UnharmedFact
  <2>4. arun'.prev = arun.prev BY <2>1 DEF Went
  <2> QED BY <1>5, <1>7, <2>1, <2>2, <2>3, <2>4, NoHome, HomeStays
<1>8. CASE arun.prev = 0 /\ arun' = Goto(next) /\ UNCHANGED <<dirs, mishaps>>
  BY <1>3, <1>7, <1>8 DEF Spends
<1>9. CASE arun.prev # 0 /\ WriteHome([Mine EXCEPT !.sum = arun.prev], Goto(next), Warned(next))
  BY <1>3, <1>6, <1>7, <1>9, WriteFact
<1> QED BY <1>4, <1>8, <1>9

LEMMA EncloseKept ==
  ASSUME ArInv, Enclose
  PROVE  ArInv'
<1>1. /\ arun.pc = "memo" /\ ~arun.again /\ ~arun.ok /\ kind = "prompt"
      /\ Same /\ kn' = kn /\ index' = index /\ arun.pc \in Swapped \ {"resolve"}
      /\ "marker" \in Swapped \ {"resolve"} /\ "marker" \in Stages
  BY DEF Enclose, Swapped, Stages, Same, ArInv, Course, Typed
<1>2. arun \in Runs /\ kn \in Knowledge /\ index \in Knowledge /\ Typed /\ mishaps \in 0 .. MaxMishaps
  BY DEF ArInv, Typed
<1>3. ASSUME Went("marker"), Spends, arun'.again = arun.again,
             Typed', Visible', Displaced', Metas', Kept', Alone',
             ~arun'.err /\ arun'.memo # 0 => \A d \in dirs' : AtHome(d)' => d.sum = arun'.memo,
             Unharmed' /\ arun'.prev # 0 => \A d \in dirs' : AtHome(d)' => d.sum # 0
      PROVE  ArInv'
  <2>1. Course' BY <1>1, <1>3, Courses DEF ArInv, Course, Typed, Went, Same
  <2>2. Worked' BY <1>1, <1>3 DEF Worked, Went, Same
  <2>3. Summed' BY <1>3 DEF Summed
  <2> QED BY <1>3, <2>1, <2>2, <2>3 DEF ArInv
<1>4. CASE arun.memo = 0 /\ arun' = Goto("marker") /\ UNCHANGED <<dirs, mishaps>>
  <2>1. Went("marker") /\ Sets /\ arun'.again = arun.again /\ arun'.ok = arun.ok
    BY <1>1, <1>2, <1>4, GotoFact
  <2>2. Spends /\ dirs' = dirs BY <1>2, <1>4 DEF Spends
  <2>3. Typed' /\ Visible' /\ Displaced' /\ Metas' /\ Kept' /\ Alone'
    BY <1>1, <1>2, <2>1, <2>2, SwappedKept
  <2>4. Unharmed' => Unharmed BY <1>1, <2>1, <2>2, UnharmedFact
  <2>5. arun'.prev = arun.prev /\ arun'.memo = 0 BY <1>4, <2>1 DEF Went
  <2>6. Unharmed' /\ arun'.prev # 0 => \A d \in dirs' : AtHome(d)' => d.sum # 0
    BY <1>1, <2>1, <2>2, <2>4, <2>5, HomeStays DEF ArInv, Summed
  <2> QED BY <1>3, <2>1, <2>2, <2>3, <2>5, <2>6
<1>5. CASE /\ arun.memo # 0 /\ HasHome /\ arun' = [Goto("marker") EXCEPT !.ok = TRUE]
           /\ mishaps' = mishaps /\ dirs' = (dirs \ Home) \cup {[Mine EXCEPT !.sum = arun.memo]}
  <2>1. Went("marker") /\ Sets /\ arun'.again = arun.again BY <1>1, <1>2, <1>5, OkFact
  <2>2. arun.memo \in Summaries BY <1>2 DEF Runs, Summaries
  <2>3. /\ Typed' /\ Visible' /\ Displaced' /\ Metas' /\ Kept' /\ Alone'
        /\ \A d \in dirs' : AtHome(d)' => d.sum = arun.memo
    BY <1>1, <1>5, <2>1, <2>2, SumKept
  <2>4. Spends BY <1>2, <1>5 DEF Spends
  <2>5. arun'.memo = arun.memo BY <2>1 DEF Went
  <2> QED BY <1>3, <1>5, <2>1, <2>3, <2>4, <2>5
<1>6. CASE /\ arun' = Warned("marker") /\ dirs' = dirs /\ Spends
           /\ mishaps' # mishaps \/ ~HasHome
  <2>1. Went("marker") /\ Sets /\ arun'.again = arun.again /\ arun'.err = TRUE
    BY <1>1, <1>2, <1>6, WarnedFact
  <2>2. Typed' /\ Visible' /\ Displaced' /\ Metas' /\ Kept' /\ Alone'
    BY <1>1, <1>2, <1>6, <2>1, SwappedKept
  <2>3. Unharmed' => mishaps' = mishaps BY <1>1, <1>6, <2>1, UnharmedFact
  <2> QED BY <1>3, <1>6, <2>1, <2>2, <2>3, NoHome, HomeStays
<1>7. \/ arun.memo = 0 /\ arun' = Goto("marker") /\ UNCHANGED <<dirs, mishaps>>
      \/ /\ arun.memo # 0
         /\ WriteHome([Mine EXCEPT !.sum = arun.memo],
                     [Goto("marker") EXCEPT !.ok = TRUE], Warned("marker"))
  BY DEF Enclose
<1> QED BY <1>2, <1>4, <1>5, <1>6, <1>7, WriteFact

LEMMA ExtractKept ==
  ASSUME ArInv, Extract
  PROVE  ArInv'
<1>1. /\ arun.pc = "extract" /\ ~arun.again /\ ~arun.ok /\ kind # "prompt" /\ arun \in Runs
      /\ arun.pc \in Swapped \ {"resolve"} /\ Ours
      /\ UNCHANGED <<kind, script, memo, dirs, kn, index, scanned, mishaps, landed>>
  BY DEF Extract, Swapped, ArInv, Course, Typed, Ours
<1>2. \E pc \in {"extract", "restore", "summary", "build"} :
        /\ Went(pc) /\ Sets /\ arun'.ok = arun.ok
        /\ arun'.again <=> pc = "build"
        /\ pc = "restore" => arun'.err
  <2>1. CASE arun.left > 1 /\ arun' = [arun EXCEPT !.left = @ - 1]
    <3>1. Went("extract") /\ Sets /\ arun'.ok = arun.ok /\ arun'.again = arun.again
      BY <1>1, <2>1 DEF Went, Sets, Runs
    <3> QED BY <1>1, <3>1
  <2>2. CASE arun' = Warned("restore")
    <3>1. Went("restore") /\ Sets /\ arun'.ok = arun.ok /\ arun'.again = arun.again /\ arun'.err = TRUE
      BY <1>1, <2>2, WarnedFact DEF Stages
    <3> QED BY <1>1, <3>1
  <2>3. ASSUME NEW a \in Answers, NEW name \in Names,
               arun' = [Goto(IF a.titled THEN "build" ELSE "summary") EXCEPT
                          !.again = a.titled, !.gist = a.gist, !.entries = a.entries, !.name = name]
        PROVE  \E pc \in {"summary", "build"} :
                 Went(pc) /\ Sets /\ arun'.ok = arun.ok /\ (arun'.again <=> pc = "build")
    <3>1. PICK pc : pc = IF a.titled THEN "build" ELSE "summary" OBVIOUS
    <3>2. pc \in {"summary", "build"} /\ pc \in Stages /\ (a.titled <=> pc = "build")
      BY <3>1 DEF Stages
    <3>3. arun' = [arun EXCEPT !.pc = pc, !.again = a.titled, !.gist = a.gist, !.entries = a.entries,
                               !.name = name]
      BY <2>3, <3>1 DEF Goto, Runs
    <3>4. /\ a.titled \in BOOLEAN /\ a.gist \in BOOLEAN /\ a.entries \in {"none", "some", "broken"}
          /\ name \in 0 .. MaxNames
      BY DEF Answers, Names
    <3>5. arun' \in Runs /\ arun'.again = a.titled BY <1>1, <3>2, <3>3, <3>4 DEF Runs
    <3>6. Went(pc) /\ Sets /\ arun'.ok = arun.ok BY <1>1, <3>3, <3>5 DEF Went, Sets, Runs
    <3> QED BY <3>2, <3>5, <3>6
  <2> QED BY <2>1, <2>2, <2>3 DEF Extract
<1>3. PICK pc \in {"extract", "restore", "summary", "build"} :
        /\ Went(pc) /\ Sets /\ arun'.ok = arun.ok
        /\ arun'.again <=> pc = "build"
        /\ pc = "restore" => arun'.err
  BY <1>2
<1>4. /\ pc \in Stages \ {"land", "resolve"} /\ arun.pc # "idle" /\ arun.pc # "resolve"
      /\ Same /\ Spends /\ dirs' = dirs
      /\ arun'.was \subseteq arun.was /\ arun'.todo \subseteq arun.todo
      /\ kn' \in Knowledge /\ index' \in Knowledge
  BY <1>1, <1>3, ArchiveAssumption DEF Stages, Same, Spends, Sets, ArInv, Typed
<1>5. Typed' /\ Visible' /\ Displaced' /\ Metas' /\ Kept' /\ Alone'
  BY <1>1, <1>3, <1>4, FrameKept, AloneKept
<1>6. Course' BY <1>1, <1>3, <1>4, Courses DEF ArInv, Course, Typed, Went
<1>7. Worked' BY <1>1, <1>3 DEF Worked, Went
<1>8. Summed'
  <2>1. Unharmed' => Unharmed BY <1>3, <1>4, UnharmedFact
  <2> QED BY <1>1, <1>3, <2>1, HomeStays DEF ArInv, Summed, Went
<1> QED BY <1>5, <1>6, <1>7, <1>8 DEF ArInv

LEMMA SummariseKept ==
  ASSUME ArInv, Summarise
  PROVE  ArInv'
<1>1. /\ arun.pc = "summary" /\ ~arun.ok /\ kind # "prompt" /\ arun.v # 0
      /\ Same /\ kn' = kn /\ index' = index /\ arun.pc \in Swapped \ {"resolve"}
      /\ "remove" \in Swapped \ {"resolve"} /\ "remove" \in Stages
  BY DEF Summarise, Swapped, Stages, Same, ArInv, Course, Typed
<1>2. arun \in Runs /\ kn \in Knowledge /\ index \in Knowledge /\ Typed /\ mishaps \in 0 .. MaxMishaps
  BY DEF ArInv, Typed
<1>3. ASSUME Went("remove"), Spends, Typed', Visible', Displaced', Metas', Kept', Alone',
             arun'.ok => \A d \in dirs' : AtHome(d)' => d.sum = arun.v
      PROVE  ArInv'
  <2>1. Course' BY <1>1, <1>3, Courses DEF ArInv, Course, Typed, Went, Same
  <2>2. Worked' BY <1>1, <1>3 DEF Worked, Went, Same
  <2>3. Summed' BY <1>1, <1>3 DEF Summed, Went
  <2> QED BY <1>3, <2>1, <2>2, <2>3 DEF ArInv
<1>4. CASE /\ arun.gist /\ HasHome /\ arun' = [Goto("remove") EXCEPT !.ok = TRUE]
           /\ mishaps' = mishaps /\ dirs' = (dirs \ Home) \cup {[Mine EXCEPT !.sum = arun.v]}
  <2>1. Went("remove") /\ Sets BY <1>1, <1>2, <1>4, OkFact
  <2>2. arun.v \in Summaries BY <1>2 DEF Runs, Summaries
  <2>3. /\ Typed' /\ Visible' /\ Displaced' /\ Metas' /\ Kept' /\ Alone'
        /\ \A d \in dirs' : AtHome(d)' => d.sum = arun.v
    BY <1>1, <1>4, <2>1, <2>2, SumKept
  <2>4. Spends BY <1>2, <1>4 DEF Spends
  <2> QED BY <1>3, <2>1, <2>3, <2>4
<1>5. CASE (arun' = Goto("remove") \/ arun' = Warned("remove")) /\ dirs' = dirs /\ Spends
  <2>1. Went("remove") /\ Sets /\ arun'.ok = arun.ok
    BY <1>1, <1>2, <1>5, GotoFact, WarnedFact
  <2>2. Typed' /\ Visible' /\ Displaced' /\ Metas' /\ Kept' /\ Alone'
    BY <1>1, <1>2, <1>5, <2>1, SwappedKept
  <2> QED BY <1>1, <1>3, <1>5, <2>1, <2>2
<1>6. \/ ~arun.gist /\ arun' = Goto("remove") /\ UNCHANGED <<dirs, mishaps>>
      \/ /\ arun.gist
         /\ WriteHome([Mine EXCEPT !.sum = arun.v], [Goto("remove") EXCEPT !.ok = TRUE], Warned("remove"))
  BY DEF Summarise
<1>7. CASE ~arun.gist /\ arun' = Goto("remove") /\ UNCHANGED <<dirs, mishaps>>
  BY <1>2, <1>5, <1>7 DEF Spends
<1>8. CASE /\ arun.gist
           /\ WriteHome([Mine EXCEPT !.sum = arun.v], [Goto("remove") EXCEPT !.ok = TRUE], Warned("remove"))
  BY <1>2, <1>4, <1>5, <1>8, WriteFact
<1> QED BY <1>6, <1>7, <1>8

LEMMA RestoreKept ==
  ASSUME ArInv, Restore
  PROVE  ArInv'
<1>1. /\ arun.pc = "restore" /\ kind # "prompt"
      /\ Same /\ kn' = kn /\ index' = index /\ arun.pc \in Swapped \ {"resolve"}
      /\ "marker" \in Swapped \ {"resolve"} /\ "marker" \in Stages
  BY DEF Restore, Swapped, Stages, Same, ArInv, Course, Typed
<1>2. arun \in Runs /\ kn \in Knowledge /\ index \in Knowledge /\ Typed /\ mishaps \in 0 .. MaxMishaps
  BY DEF ArInv, Typed
<1>3. ASSUME Went("marker"), Spends, Typed', Visible', Displaced', Metas', Kept', Alone',
             arun'.err \/ (arun'.err = arun.err /\ arun'.ok = arun.ok /\ dirs' = dirs /\ Sets),
             Unharmed' /\ arun'.prev # 0 => \A d \in dirs' : AtHome(d)' => d.sum # 0
      PROVE  ArInv'
  <2>1. Course' BY <1>1, <1>3, Courses DEF ArInv, Course, Typed, Went, Same
  <2>2. Worked' BY <1>1, <1>3, HomeStays DEF ArInv, Worked, Went, Same
  <2>3. Summed' BY <1>3 DEF Summed
  <2> QED BY <1>3, <2>1, <2>2, <2>3 DEF ArInv
<1>4. CASE (arun.ok \/ arun.prev = 0) /\ arun' = Goto("marker") /\ UNCHANGED <<dirs, mishaps>>
  <2>1. Went("marker") /\ Sets /\ arun'.ok = arun.ok /\ arun'.err = arun.err
    BY <1>1, <1>2, <1>4, GotoFact
  <2>2. Spends /\ dirs' = dirs BY <1>2, <1>4 DEF Spends
  <2>3. Typed' /\ Visible' /\ Displaced' /\ Metas' /\ Kept' /\ Alone'
    BY <1>1, <1>2, <2>1, <2>2, SwappedKept
  <2>4. Unharmed' => Unharmed BY <1>1, <2>1, <2>2, UnharmedFact
  <2>5. arun'.prev = arun.prev BY <2>1 DEF Went
  <2>6. Unharmed' /\ arun'.prev # 0 => \A d \in dirs' : AtHome(d)' => d.sum # 0
    BY <1>4, <2>1, <2>2, <2>4, <2>5, HomeStays DEF ArInv, Summed
  <2> QED BY <1>3, <2>1, <2>2, <2>3, <2>6
<1>5. CASE /\ arun.prev # 0 /\ HasHome /\ arun' = [Warned("marker") EXCEPT !.ok = TRUE]
           /\ mishaps' = mishaps /\ dirs' = (dirs \ Home) \cup {[Mine EXCEPT !.sum = arun.prev]}
  <2>1. Went("marker") /\ Sets /\ arun'.err = TRUE BY <1>1, <1>2, <1>5, WarnedOkFact
  <2>2. arun.prev \in Summaries BY <1>2 DEF Runs
  <2>3. /\ Typed' /\ Visible' /\ Displaced' /\ Metas' /\ Kept' /\ Alone'
        /\ \A d \in dirs' : AtHome(d)' => d.sum = arun.prev
    BY <1>1, <1>5, <2>1, <2>2, SumKept
  <2>4. Spends BY <1>2, <1>5 DEF Spends
  <2> QED BY <1>3, <1>5, <2>1, <2>3, <2>4
<1>6. CASE /\ arun' = Warned("marker") /\ dirs' = dirs /\ Spends
           /\ mishaps' # mishaps \/ ~HasHome
  <2>1. Went("marker") /\ Sets /\ arun'.err = TRUE BY <1>1, <1>2, <1>6, WarnedFact
  <2>2. Typed' /\ Visible' /\ Displaced' /\ Metas' /\ Kept' /\ Alone'
    BY <1>1, <1>2, <1>6, <2>1, SwappedKept
  <2>3. Unharmed' => mishaps' = mishaps BY <1>1, <1>6, <2>1, UnharmedFact
  <2> QED BY <1>3, <1>6, <2>1, <2>2, <2>3, NoHome, HomeStays
<1>7. \/ (arun.ok \/ arun.prev = 0) /\ arun' = Goto("marker") /\ UNCHANGED <<dirs, mishaps>>
      \/ /\ ~ arun.ok /\ arun.prev # 0
         /\ WriteHome([Mine EXCEPT !.sum = arun.prev],
                     [Warned("marker") EXCEPT !.ok = TRUE], Warned("marker"))
  BY DEF Restore
<1> QED BY <1>2, <1>4, <1>5, <1>6, <1>7, WriteFact

(* The three steps of write_knowledge go on, or are warned and end it.        *)
LEMMA KnowledgeStep ==
  ASSUME ArInv, NEW from \in {"remove", "write", "index"}, NEW to \in {"write", "index", "restore"},
         arun.pc = from, arun' = Goto(to) \/ arun' = Warned("restore"),
         arun' = Goto(to) /\ to \in {"write", "index"} => arun.entries # "broken",
         Same, Spends, dirs' = dirs, kn' \in Knowledge, index' \in Knowledge,
         arun' = Goto(to) /\ to = "index" => kn' = [of |-> arun.v, n |-> arun.entries],
         to = "restore" => from = "index" /\ kn' = kn,
         to = "restore" /\ index' # kn => arun' = Warned("restore")
  PROVE  ArInv'
<1>1. /\ from \in Swapped \ {"resolve"} /\ to \in Swapped \ {"resolve"} /\ "restore" \in Swapped \ {"resolve"}
      /\ from \in Stages /\ to \in Stages /\ "restore" \in Stages /\ arun.pc # "idle" /\ kind = "work"
  BY DEF Swapped, Stages, ArInv, Course, Typed
<1>2. arun \in Runs BY DEF ArInv, Typed
<1>3. ASSUME NEW pc \in {"write", "index", "restore"}, Went(pc), Sets, arun'.ok = arun.ok,
             pc = "restore" /\ ~arun'.err => ~arun.err /\ from = "index" /\ kn' = kn /\ index' = kn,
             pc = "index" => kn'.of = arun.v /\ kn'.n \in {"some", "none"},
             pc \in {"write", "index"} => arun'.entries # "broken",
             ~arun'.err => ~arun.err
      PROVE  ArInv'
  <2>1. pc \in Swapped \ {"resolve"} /\ pc \in Stages BY DEF Swapped, Stages
  <2>2. Typed' /\ Visible' /\ Displaced' /\ Metas' /\ Kept' /\ Alone'
    BY <1>1, <1>3, <2>1, SwappedKept
  <2>3. Course' BY <1>1, <1>3, <2>1, Courses DEF ArInv, Course, Typed, Went, Same
  <2>4. Worked'
    <3>1. kind' = "work" /\ arun'.pc = pc /\ arun'.v = arun.v BY <1>1, <1>3 DEF Same, Went
    <3>2. ASSUME ~arun'.err
          PROVE  /\ arun'.ok => \A d \in dirs' : AtHome(d)' => d.sum = arun'.v
                 /\ pc \in {"index", "restore"} => kn'.of = arun'.v /\ kn'.n \in {"some", "none"}
                 /\ pc = "restore" => index' = kn'
      <4>1. ~arun.err BY <1>3, <3>2
      <4>2. arun.ok => \A d \in dirs : AtHome(d) => d.sum = arun.v
        BY <1>1, <4>1 DEF ArInv, Worked
      <4>3. from = "index" => kn.of = arun.v /\ kn.n \in {"some", "none"}
        BY <1>1, <4>1 DEF ArInv, Worked
      <4>4. Sets BY <1>3
      <4> QED BY <1>3, <3>1, <3>2, <4>2, <4>3, <4>4, HomeStays
    <3> QED BY <1>3, <3>1, <3>2 DEF Worked
  <2>5. Summed'
    <3>1. Unharmed' => Unharmed BY <1>1, <1>3, <2>1, UnharmedFact
    <3>2. Sets BY <1>3
    <3> QED BY <1>3, <3>1, <3>2, HomeStays DEF ArInv, Summed, Went
  <2> QED BY <2>2, <2>3, <2>4, <2>5 DEF ArInv
<1>4. CASE arun' = Goto(to)
  <2>1. /\ Went(to) /\ Sets /\ arun'.ok = arun.ok /\ arun'.err = arun.err /\ arun'.entries = arun.entries
    BY <1>1, <1>2, <1>4, GotoFact
  <2>2. to = "index" => kn'.of = arun.v /\ kn'.n \in {"some", "none"}
    BY <1>2, <1>4 DEF Runs
  <2>3. to = "restore" /\ ~arun'.err => index' = kn BY <1>1, <1>2, WarnedFact
  <2> QED BY <1>3, <1>4, <2>1, <2>2, <2>3
<1>5. CASE arun' = Warned("restore")
  <2>1. Went("restore") /\ Sets /\ arun'.ok = arun.ok /\ arun'.err = TRUE
    BY <1>1, <1>2, <1>5, WarnedFact
  <2> QED BY <1>3, <2>1
<1> QED BY <1>4, <1>5

LEMMA KnowledgeKept ==
  ASSUME ArInv, RemoveEntries \/ WriteEntries \/ RebuildIndex
  PROVE  ArInv'
<1>1. /\ kn \in Knowledge /\ index \in Knowledge /\ None0 \in Knowledge /\ arun \in Runs
      /\ \A n \in {"none", "some", "part", "broken"} : [of |-> arun.v, n |-> n] \in Knowledge
  BY ArchiveAssumption DEF ArInv, Typed, Runs, Knowledge, None0, Versions
<1>2. arun.entries \in {"none", "some", "broken"} BY <1>1 DEF Runs
<1>3. ASSUME mishaps' = mishaps \/ Mishap(1) PROVE Spends
  BY <1>3, ArchiveAssumption DEF Mishap, Spends, ArInv, Typed
<1>4. Goto("write") # Warned("restore") /\ Goto("index") # Warned("restore")
  BY <1>1, GotoFact, WarnedFact, ZenonT(40) DEF Goto, Warned, Runs
<1>5. CASE RemoveEntries
  <2>1. /\ arun.pc = "remove" /\ Same /\ dirs' = dirs /\ index' = index /\ kn' \in Knowledge
        /\ arun' = Goto("write") => arun.entries # "broken"
    BY <1>1, <1>4, <1>5 DEF RemoveEntries, Same
  <2>2. (arun' = Goto("write") \/ arun' = Warned("restore")) /\ (mishaps' = mishaps \/ Mishap(1))
    BY <1>5 DEF RemoveEntries
  <2>3. Spends BY <1>3, <2>2
  <2> QED BY <1>1, <2>1, <2>2, <2>3, KnowledgeStep
<1>6. CASE WriteEntries
  <2>1. /\ arun.pc = "write" /\ Same /\ dirs' = dirs /\ index' = index
        /\ arun' = Goto("index") => kn' = [of |-> arun.v, n |-> arun.entries]
    BY <1>4, <1>6 DEF WriteEntries, Same
  <2>2. (arun' = Goto("index") \/ arun' = Warned("restore")) /\ (mishaps' = mishaps \/ Mishap(1))
    BY <1>6 DEF WriteEntries
  <2>3. Spends BY <1>3, <2>2
  <2>4. kn' \in Knowledge BY <1>1, <1>2, <1>6 DEF WriteEntries
  <2>5. arun.entries # "broken" BY <2>1 DEF ArInv, Course
  <2> QED BY <1>1, <2>1, <2>2, <2>3, <2>4, <2>5, KnowledgeStep
<1>7. CASE RebuildIndex
  <2>1. /\ arun.pc = "index" /\ Same /\ dirs' = dirs /\ kn' = kn
    BY <1>7 DEF RebuildIndex, Same
  <2>2. (arun' = Goto("restore") \/ arun' = Warned("restore")) /\ (mishaps' = mishaps \/ Mishap(1))
    BY <1>7 DEF RebuildIndex
  <2>3. Spends BY <1>3, <2>2
  <2>4. index' \in Knowledge BY <1>1, <1>7 DEF RebuildIndex
  <2>5. index' # kn => arun' = Warned("restore") BY <1>7 DEF RebuildIndex
  <2> QED BY <1>1, <2>1, <2>2, <2>3, <2>4, <2>5, KnowledgeStep
<1> QED BY <1>5, <1>6, <1>7

LEMMA MarkKept ==
  ASSUME ArInv, Mark
  PROVE  ArInv'
<1>1. /\ arun.pc = "marker" /\ Ours /\ UNCHANGED <<kind, script, memo, kn, index, scanned, landed>>
      /\ mishaps \in 0 .. MaxMishaps
  BY DEF Mark, Ours, Swapped, ArInv, Typed
<1>2. /\ arun' = IdleRun /\ Spends
      /\ \/ dirs' = dirs
         \/ /\ HasHome /\ Marker # "" /\ dirs' = (dirs \ Home) \cup {[Mine EXCEPT !.mark = Marker]}
  <2>1. CASE Marker = "" /\ arun' = IdleRun /\ UNCHANGED <<dirs, mishaps>>
    <3>1. mishaps' = mishaps /\ dirs' = dirs /\ arun' = IdleRun BY <2>1
    <3>2. Spends BY <1>1, <3>1, ArchiveAssumption DEF Spends
    <3> QED BY <3>1, <3>2
  <2>2. CASE Marker # "" /\ WriteHome([Mine EXCEPT !.mark = Marker], IdleRun, IdleRun)
    <3>1. Typed BY DEF ArInv
    <3>2. mishaps' = mishaps => Spends BY <1>1, ArchiveAssumption DEF Spends
    <3>3. \/ HasHome /\ dirs' = (dirs \ Home) \cup {[Mine EXCEPT !.mark = Marker]}
               /\ arun' = IdleRun /\ mishaps' = mishaps
          \/ arun' = IdleRun /\ dirs' = dirs /\ Spends
      BY <2>2, <3>1, WriteFact
    <3> QED BY <2>2, <3>2, <3>3
  <2> QED BY <2>1, <2>2 DEF Mark
<1>3. /\ arun' \in Runs /\ arun'.pc = "idle" /\ ~arun'.again /\ ~arun'.ok
      /\ arun'.was = {} /\ arun'.todo = {}
  BY <1>2, IdleFact
<1>4. Course' /\ Displaced' /\ Alone' /\ Summed' /\ Worked'
  BY <1>3 DEF Course, Displaced, Alone, Summed, Worked, Unharmed
<1>5. /\ dirs' \subseteq Folders /\ NamesApart(dirs') /\ OneSeen(dirs') /\ Kept'
      /\ \A d \in dirs' : d.meta = 0 \/ d.meta = d.v
      /\ \A d \in dirs' : d.place = "top" => Earned(d)
  <2>1. CASE dirs' = dirs BY <1>1, <2>1, Apart DEF ArInv, Typed, Kept, Metas
  <2>2. CASE HasHome /\ Marker # "" /\ dirs' = (dirs \ Home) \cup {[Mine EXCEPT !.mark = Marker]}
    <3>1. Mine \in dirs /\ AtHome(Mine) /\ Mine \in Folders BY <2>2, HomeIs, Apart DEF ArInv, Typed
    <3>2. Own(Mine) BY <1>1, <3>1, Apart DEF AtHome, Role
    <3>3. Marker \in {"ok", "skipped"} BY <2>2 DEF Marker
    <3>4. PICK t : t = [Mine EXCEPT !.mark = Marker] OBVIOUS
    <3>5. /\ t \in Folders /\ t.place = "top" /\ t.name = arun.at /\ t.v = Mine.v /\ t.hist = Mine.hist
          /\ t.told = Mine.told /\ t.mark = Marker /\ t.sum = Mine.sum /\ t.meta = Mine.meta
          /\ t.missed = Mine.missed
      BY <3>1, <3>3, <3>4 DEF Folders, AtHome
    <3>6. Becomes(t) BY <2>2, <3>4, <3>5 DEF Becomes, AtHome
    <3>7. dirs \subseteq Folders /\ NamesApart(dirs) /\ OneSeen(dirs) /\ Kept
      BY Apart DEF ArInv, Typed
    <3>8. /\ dirs' \subseteq Folders /\ NamesApart(dirs') /\ OneSeen(dirs') /\ Kept'
          /\ \A d \in dirs' : d = t \/ (d \in dirs /\ ~AtHome(d))
      BY <1>1, <3>6, <3>7, BecomesFact
    <3>9. Earned(t)
      <4>1. Marker = "ok" => kind = "work" /\ ~arun.err /\ arun.ok
        BY DEF Marker, ArInv, Typed
      <4>2. Marker = "skipped" => kind = "prompt" /\ ~arun.err BY DEF Marker
      <4>3. Marker = "ok" => t.sum = t.v /\ kn.of = t.v /\ kn.n \in {"some", "none"} /\ index = kn
        BY <1>1, <3>1, <3>2, <3>5, <4>1 DEF ArInv, Worked, Own
      <4>4. Marker = "skipped" /\ t.told # 0 => t.sum = t.told
        BY <1>1, <3>1, <3>2, <3>5, <4>2 DEF ArInv, Worked, Own
      <4> QED BY <3>5, <4>3, <4>4 DEF Earned
    <3>10. \A d \in dirs : d.meta = 0 \/ d.meta = d.v BY DEF ArInv, Metas
    <3>11. \A d \in dirs' : d.meta = 0 \/ d.meta = d.v BY <3>1, <3>5, <3>8, <3>10
    <3>12. \A d \in dirs' : d.place = "top" => Earned(d) BY <3>8, <3>9, Apart
    <3> QED BY <3>8, <3>11, <3>12
  <2> QED BY <1>2, <2>1, <2>2
<1>6. Typed' BY <1>1, <1>2, <1>3, <1>5 DEF ArInv, Typed, Spends
<1>7. Visible'
  <2>1. All' = dirs' /\ ~Ours' BY <1>3 DEF All, Ours, Swapped
  <2>2. \A d \in dirs' : d.place = "top" => Earned(d)' BY <1>1, <1>5 DEF Earned
  <2> QED BY <1>5, <2>1, <2>2 DEF Visible
<1>8. Metas' BY <1>3, <1>5 DEF Metas
<1> QED BY <1>4, <1>5, <1>6, <1>7, <1>8 DEF ArInv

-----------------------------------------------------------------------------
(* write_archive.                                                             *)

(* A failed call ends it; every folder that is visible then could be seen or  *)
(* come back before.                                                          *)
LEMMA FailedKept ==
  ASSUME ArInv, arun.pc \in {"build", "displace", "land"}, arun' = Failed, Spends,
         mishaps' = mishaps => ~Unharmed,
         UNCHANGED <<kind, script, memo, kn, index, scanned, landed>>,
         dirs' \subseteq Folders, NamesApart(dirs'), OneSeen(dirs'), Kept',
         \A d \in dirs' : d.meta = 0 \/ d.meta = d.v,
         \A d \in dirs' : d.place = "top" => Earned(d) /\ (Ours => Role(d))
  PROVE  ArInv'
<1>1. /\ arun' \in Runs /\ arun'.todo = {} /\ arun'.was = {} /\ ~arun'.ok
      /\ \/ arun'.pc = "idle" /\ ~arun'.again
         \/ arun.again /\ Went("summary") /\ arun'.at = arun.at /\ arun'.err
  BY FailedFact DEF ArInv
<1>2. arun.again => kind' = "work" BY DEF ArInv, Course, Typed
<1>3. Went("summary") => arun'.v # 0 /\ mishaps' <= arun'.fuel /\ mishaps' # arun'.fuel
  <2>1. mishaps <= arun.fuel BY DEF ArInv, Course
  <2>2. mishaps \in Int /\ mishaps' \in Int /\ arun.fuel \in Int
    BY ArchiveAssumption DEF ArInv, Typed, Runs, Spends
  <2> QED BY <2>1, <2>2 DEF Went, ArInv, Course, Spends, Unharmed
<1>4. Typed' BY <1>1 DEF ArInv, Typed, Spends
<1>5. Course' BY <1>1, <1>2, <1>3 DEF Course, Went
<1>6. Displaced' BY <1>1 DEF Displaced, Went
<1>7. Worked' BY <1>1 DEF Worked, Went
<1>8. Alone' /\ Summed' BY <1>1, <1>3 DEF Alone, Summed, Unharmed, Went
<1>9. Metas' BY <1>1 DEF Metas
<1>10. Visible'
  <2>1. All' = dirs' BY <1>1 DEF All
  <2>2. ASSUME NEW d \in dirs', d.place = "top" PROVE Earned(d)' BY <2>2 DEF Earned
  <2>3. ASSUME NEW d \in dirs', d.place = "top", Ours' PROVE Role(d)'
    <3>1. arun.again /\ Went("summary") /\ arun'.at = arun.at BY <1>1, <2>3 DEF Ours, Swapped
    <3>2. Role(d) BY <2>3, <3>1 DEF Ours
    <3> QED BY <3>1, <3>2 DEF Role, Own, Went
  <2> QED BY <2>1, <2>2, <2>3 DEF Visible
<1> QED BY <1>4, <1>5, <1>6, <1>7, <1>8, <1>9, <1>10 DEF ArInv

LEMMA MishapSpends ==
  ASSUME ArInv, NEW n \in Nat, Mishap(n)
  PROVE  Spends /\ (mishaps' = mishaps => n = 0)
BY ArchiveAssumption DEF Mishap, Spends, ArInv, Typed

LEMMA BuildKept ==
  ASSUME ArInv, Build
  PROVE  ArInv'
<1>1. /\ arun.pc = "build" /\ Same /\ UNCHANGED <<kind, script, memo, dirs, kn, index, scanned, landed>>
      /\ arun \in Runs /\ kn' \in Knowledge /\ index' \in Knowledge /\ mishaps \in 0 .. MaxMishaps
  BY DEF Build, Same, ArInv, Typed
<1>2. CASE Mishap(1) /\ arun' = Failed
  <2>1. Kept' /\ dirs' \subseteq Folders BY <1>1 DEF ArInv, Kept, Typed
  <2>2. \A d \in dirs' : d.meta = 0 \/ d.meta = d.v BY <1>1 DEF ArInv, Metas
  <2>3. Spends /\ mishaps' # mishaps BY <1>2, MishapSpends
  <2> QED BY <1>1, <1>2, <2>1, <2>2, <2>3, Apart, FailedKept
<1>3. CASE arun' = Goto("displace") /\ UNCHANGED mishaps
  <2>1. Went("displace") /\ Sets /\ arun'.again = arun.again /\ arun'.ok = arun.ok
    BY <1>1, <1>3, GotoFact DEF Stages
  <2>2. Spends /\ dirs' = dirs /\ "displace" \in Stages \ {"land", "resolve"} /\ "displace" \in Stages
    BY <1>1, <1>3 DEF Spends, Stages
  <2>3. Ours' => Ours BY <1>1, <2>1 DEF Ours, Swapped, Went
  <2>4. Typed' /\ Visible' /\ Displaced' /\ Metas' /\ Kept'
    BY <1>1, <2>1, <2>2, <2>3, FrameKept
  <2>5. Alone' BY <1>1, <2>1, <2>2, <2>3, AloneKept
  <2>6. Course' BY <1>1, <2>1, <2>2, Courses DEF ArInv, Course, Went
  <2>7. Worked' /\ Summed' BY <1>1, <2>1 DEF ArInv, Course, Worked, Summed, Went
  <2> QED BY <2>4, <2>5, <2>6, <2>7 DEF ArInv
<1> QED BY <1>2, <1>3 DEF Build

LEMMA AsideIs ==
  ASSUME NEW d \in Folders
  PROVE  /\ Aside(d) \in Folders /\ Aside(d).place = "old" /\ Aside(d).v = d.v
         /\ Aside(d).hist = d.hist /\ Aside(d).meta = d.meta
<1>1. PICK a : a = [d EXCEPT !.place = "old"] OBVIOUS
<1>2. PICK b : b = [a EXCEPT !.name = 0] OBVIOUS
<1>3. a \in Folders /\ a.place = "old" /\ a.v = d.v /\ a.hist = d.hist /\ a.meta = d.meta
  BY <1>1 DEF Folders
<1>4. b \in Folders /\ b.place = "old" /\ b.v = d.v /\ b.hist = d.hist /\ b.meta = d.meta
  <2>1. 0 \in 0 .. MaxNames BY ArchiveAssumption
  <2> QED BY <1>2, <1>3, <2>1 DEF Folders
<1>5. Aside(d) = [b EXCEPT !.missed = FALSE] BY <1>1, <1>2 DEF Aside
<1> QED BY <1>4, <1>5 DEF Folders

LEMMA PassedOverIs ==
  ASSUME NEW d \in Folders
  PROVE  /\ PassedOver(d) \in Folders /\ PassedOver(d).place = d.place /\ PassedOver(d).name = d.name
         /\ PassedOver(d).v = d.v /\ PassedOver(d).meta = d.meta /\ PassedOver(d).sum = d.sum
         /\ PassedOver(d).mark = d.mark /\ PassedOver(d).hist = d.hist /\ PassedOver(d).told = d.told
         /\ PassedOver(d).missed = d.missed \/ PassedOver(d).missed = TRUE
         /\ d.place = "top" => PassedOver(d).missed
<1>1. CASE d.place = "top"
  <2>1. PassedOver(d) = [d EXCEPT !.missed = TRUE] BY <1>1 DEF PassedOver
  <2> QED BY <1>1, <2>1 DEF Folders
<1>2. CASE d.place # "top"
  <2>1. PassedOver(d) = d BY <1>2 DEF PassedOver
  <2> QED BY <1>2, <2>1
<1> QED BY <1>1, <1>2

(* The folders D are what a search that found only `found` made of the        *)
(* folders there were.                                                        *)
Searched(D, found) ==
  \A x \in D : \/ x.place = "old" /\ \E d \in dirs : x.v = d.v /\ x.meta = d.meta
              \/ x \in found
              \/ \E d \in dirs \ found : x = PassedOver(d)

LEMMA SearchedFact ==
  ASSUME ArInv, arun.pc = "displace", NEW found \in SUBSET dirs, NEW D, D \subseteq Folders,
         Searched(D, found)
  PROVE  /\ NamesApart(D) /\ OneSeen(D) /\ \A x \in D : x.meta = 0 \/ x.meta = x.v
         /\ \A x \in D : x.place = "top" => Earned(x) /\ (Ours => Role(x))
<1>1. /\ dirs \subseteq Folders /\ NamesApart(dirs) /\ OneSeen(dirs)
      /\ \A d \in dirs : d.meta = 0 \/ d.meta = d.v
      /\ \A d \in dirs : d.place = "top" => Earned(d) /\ (Ours => Role(d))
  BY Apart DEF ArInv, Typed, Metas
<1>2. ASSUME NEW x \in D, x.place = "top"
      PROVE  \E d \in dirs : /\ d.place = "top" /\ d.name = x.name
                            /\ (d \in found => x = d)
                            /\ (d \notin found => x = PassedOver(d) /\ x.missed)
  <2>1. CASE x \in found BY <1>2, <2>1
  <2>2. CASE \E d \in dirs \ found : x = PassedOver(d)
    <3>1. PICK d \in dirs \ found : x = PassedOver(d) BY <2>2
    <3>2. d.place = "top" /\ d.name = x.name /\ x.missed BY <1>1, <1>2, <3>1, PassedOverIs
    <3> QED BY <3>1, <3>2
  <2> QED BY <1>2, <2>1, <2>2 DEF Searched
<1>3. ASSUME NEW x \in D, NEW y \in D, x.place = "top", y.place = "top"
      PROVE  /\ x.name = y.name => x = y
             /\ x = y \/ x.missed \/ y.missed
  <2>1. PICK d \in dirs : /\ d.place = "top" /\ d.name = x.name
                          /\ (d \in found => x = d)
                          /\ (d \notin found => x = PassedOver(d) /\ x.missed)
    BY <1>2, <1>3
  <2>2. PICK e \in dirs : /\ e.place = "top" /\ e.name = y.name
                          /\ (e \in found => y = e)
                          /\ (e \notin found => y = PassedOver(e) /\ y.missed)
    BY <1>2, <1>3
  <2>3. x.name = y.name => d = e BY <1>1, <2>1, <2>2 DEF NamesApart
  <2>4. d = e \/ d.missed \/ e.missed BY <1>1, <2>1, <2>2 DEF OneSeen
  <2> QED BY <2>1, <2>2, <2>3, <2>4
<1>4. ASSUME NEW x \in D, x.place = "top" PROVE Earned(x) /\ (Ours => Role(x))
  <2>1. PICK d \in dirs : /\ d.place = "top" /\ d.name = x.name
                          /\ (d \in found => x = d)
                          /\ (d \notin found => x = PassedOver(d) /\ x.missed)
    BY <1>2, <1>4
  <2>2. Earned(d) /\ (Ours => Role(d)) BY <1>1, <2>1
  <2>3. CASE d \notin found
    <3>0. d \in Folders /\ x = PassedOver(d) /\ x.missed BY <1>1, <2>1, <2>3
    <3>1. /\ x.name = d.name /\ x.v = d.v /\ x.sum = d.sum /\ x.mark = d.mark /\ x.told = d.told
          /\ x.missed
      BY <3>0, PassedOverIs
    <3>2. Earned(x) BY <2>2, <3>1 DEF Earned
    <3>3. Ours => Role(x) BY <2>2, <3>1 DEF Role, Own
    <3> QED BY <3>2, <3>3
  <2> QED BY <2>1, <2>2, <2>3
<1>5. ASSUME NEW x \in D PROVE x.meta = 0 \/ x.meta = x.v
  <2>1. CASE \E d \in dirs : x.v = d.v /\ x.meta = d.meta BY <1>1, <2>1
  <2>2. CASE x \in found BY <1>1, <2>2
  <2>3. CASE \E d \in dirs \ found : x = PassedOver(d)
    <3>1. PICK d \in dirs \ found : x = PassedOver(d) BY <2>3
    <3>2. d \in Folders /\ (d.meta = 0 \/ d.meta = d.v) BY <1>1
    <3>3. x.v = d.v /\ x.meta = d.meta BY <3>1, <3>2, PassedOverIs
    <3> QED BY <3>2, <3>3
  <2> QED BY <2>1, <2>2, <2>3 DEF Searched
<1>6. NamesApart(D) BY <1>3 DEF NamesApart
<1>7. OneSeen(D) BY <1>3 DEF OneSeen
<1> QED BY <1>4, <1>5, <1>6, <1>7

LEMMA DisplaceKept ==
  ASSUME ArInv, Displace
  PROVE  ArInv'
<1>1. /\ arun.pc = "displace" /\ Same /\ UNCHANGED <<kind, script, memo, kn, index, scanned, landed>>
      /\ arun \in Runs /\ mishaps \in 0 .. MaxMishaps /\ dirs \subseteq Folders /\ Kept
  BY DEF Displace, Same, ArInv, Typed
<1>2. PICK found \in SUBSET dirs :
        LET unseen == {PassedOver(d) : d \in dirs \ found}
            aside == {Aside(d) : d \in found}
            cost == IF found = dirs THEN 0 ELSE 1
        IN \/ /\ dirs' = unseen \cup aside /\ Mishap(cost)
              /\ arun' = [Goto("land") EXCEPT !.todo = aside, !.was = found \cap Tops]
           \/ \E stuck \in SUBSET found :
                /\ stuck # found /\ Mishap(cost + IF stuck = {} THEN 1 ELSE 2)
                /\ dirs' = unseen \cup (found \ stuck) \cup {Aside(d) : d \in stuck}
                /\ arun' = Failed
  BY DEF Displace
<1>3. PICK unseen : unseen = {PassedOver(d) : d \in dirs \ found} OBVIOUS
<1>4. PICK aside : aside = {Aside(d) : d \in found} OBVIOUS
<1>5. PICK cost : cost = IF found = dirs THEN 0 ELSE 1 OBVIOUS
<1>6. cost \in {0, 1} /\ (cost = 0 => found = dirs) BY <1>5
<1>7. unseen \subseteq Folders /\ \A x \in unseen : x.place = "top" => x.missed
  <2>1. ASSUME NEW x \in unseen PROVE x \in Folders /\ (x.place = "top" => x.missed)
    <3>1. PICK d \in dirs \ found : x = PassedOver(d) BY <1>3
    <3>2. d \in Folders BY <1>1
    <3>3. x \in Folders /\ x.place = d.place /\ (d.place = "top" => PassedOver(d).missed)
      BY <3>1, <3>2, PassedOverIs
    <3> QED BY <3>1, <3>3
  <2> QED BY <2>1
<1>8. \A d \in found : Aside(d) \in Folders /\ Aside(d).place = "old" /\ Aside(d).v = d.v
                      /\ Aside(d).hist = d.hist /\ Aside(d).meta = d.meta
  BY <1>1, AsideIs
<1>9. ASSUME \A d \in found : \E x \in dirs' : x.v = d.v /\ x.hist = d.hist, unseen \subseteq dirs'
      PROVE  Kept'
  <2>1. ASSUME NEW k \in landed PROVE \E x \in dirs' : k = x.v \/ k \in x.hist
    <3>1. PICK d \in dirs : k = d.v \/ k \in d.hist BY <1>1 DEF Kept
    <3>2. CASE d \in found BY <1>9, <3>1, <3>2
    <3>3. CASE d \notin found
      <4>1. PassedOver(d) \in dirs' BY <1>3, <1>9, <3>3
      <4>2. PassedOver(d).v = d.v /\ PassedOver(d).hist = d.hist BY <1>1, PassedOverIs
      <4> QED BY <3>1, <4>1, <4>2
    <3> QED BY <3>2, <3>3
  <2> QED BY <1>1, <2>1 DEF Kept
<1>10. ASSUME NEW stuck \in SUBSET found, arun' = Failed, Mishap(cost + IF stuck = {} THEN 1 ELSE 2),
              dirs' = unseen \cup (found \ stuck) \cup {Aside(d) : d \in stuck}
       PROVE  ArInv'
  <2>1. Spends /\ mishaps' # mishaps
    <3>1. PICK n : n = cost + IF stuck = {} THEN 1 ELSE 2 OBVIOUS
    <3>2. n \in Nat /\ n # 0 BY <1>6, <3>1
    <3> QED BY <1>10, <3>1, <3>2, MishapSpends
  <2>2. dirs' \subseteq Folders BY <1>1, <1>7, <1>8, <1>10
  <2>3. Searched(dirs', found)
    <3>1. ASSUME NEW x \in dirs'
          PROVE  \/ x.place = "old" /\ \E d \in dirs : x.v = d.v /\ x.meta = d.meta
                 \/ x \in found
                 \/ \E d \in dirs \ found : x = PassedOver(d)
      <4>1. CASE x \in unseen BY <1>3, <4>1
      <4>2. CASE x \in found BY <4>2
      <4>3. CASE x \in {Aside(d) : d \in stuck} BY <1>8, <4>3
      <4> QED BY <1>10, <4>1, <4>2, <4>3
    <3> QED BY <3>1 DEF Searched
  <2>4. Kept'
    <3>1. \A d \in found : \E x \in dirs' : x.v = d.v /\ x.hist = d.hist BY <1>8, <1>10
    <3> QED BY <1>9, <1>10, <3>1
  <2> QED BY <1>1, <1>10, <2>1, <2>2, <2>3, <2>4, SearchedFact, FailedKept
<1>11. CASE /\ dirs' = unseen \cup aside /\ Mishap(cost)
            /\ arun' = [Goto("land") EXCEPT !.todo = aside, !.was = found \cap Tops]
  <2>1. \A d \in found \cap Tops : d \in dirs /\ d.place = "top" BY DEF Tops
  <2>2. aside \subseteq Folders /\ \A a \in aside : a.place = "old" BY <1>4, <1>8
  <2>3. /\ Went("land") /\ arun'.todo = aside /\ arun'.was = found \cap Tops
        /\ arun'.again = arun.again /\ arun'.ok = arun.ok /\ arun'.at = arun.at
    <3>1. PICK r : r = [arun EXCEPT !.pc = "land"] OBVIOUS
    <3>2. PICK q : q = [r EXCEPT !.todo = aside] OBVIOUS
    <3>3. found \cap Tops \in SUBSET Folders BY <1>1, <2>1
    <3>4. r \in Runs /\ r.pc = "land" BY <1>1, <3>1 DEF Runs, Stages
    <3>5. q \in Runs /\ q.pc = "land" BY <2>2, <3>2, <3>4 DEF Runs
    <3>6. arun' = [q EXCEPT !.was = found \cap Tops] BY <1>11, <3>1, <3>2 DEF Goto
    <3> QED BY <1>1, <3>1, <3>2, <3>3, <3>4, <3>5, <3>6 DEF Went, Runs
  <2>4. Spends /\ (mishaps' = mishaps => found = dirs)
    <3>1. cost \in Nat BY <1>6
    <3> QED BY <1>6, <1>11, <3>1, MishapSpends
  <2>5. "land" \in Stages BY DEF Stages
  <2>6. dirs' \subseteq Folders BY <1>7, <1>11, <2>2
  <2>7. Typed' BY <1>1, <2>3, <2>4, <2>6 DEF ArInv, Typed, Went, Spends
  <2>8. Course' BY <1>1, <2>3, <2>4, <2>5, Courses DEF ArInv, Course, Went
  <2>9. PICK D : D = dirs' \cup (found \cap Tops) OBVIOUS
  <2>10. D \subseteq Folders /\ Searched(D, found)
    <3>1. ASSUME NEW x \in D
          PROVE  \/ x.place = "old" /\ \E d \in dirs : x.v = d.v /\ x.meta = d.meta
                 \/ x \in found
                 \/ \E d \in dirs \ found : x = PassedOver(d)
      <4>1. CASE x \in unseen BY <1>3, <4>1
      <4>2. CASE x \in found BY <4>2
      <4>3. CASE x \in aside BY <1>4, <1>8, <4>3
      <4> QED BY <1>11, <2>9, <4>1, <4>2, <4>3
    <3> QED BY <1>1, <2>1, <2>6, <2>9, <3>1 DEF Searched
  <2>11. /\ NamesApart(D) /\ OneSeen(D) /\ \A x \in D : x.meta = 0 \/ x.meta = x.v
         /\ \A x \in D : x.place = "top" => Earned(x) /\ (Ours => Role(x))
    BY <1>1, <2>10, SearchedFact
  <2>12. Visible'
    <3>1. All' = D BY <2>3, <2>9 DEF All
    <3>2. ASSUME NEW x \in D, x.place = "top" PROVE Earned(x)' BY <1>1, <2>11, <3>2 DEF Earned
    <3>3. ASSUME NEW x \in D, x.place = "top", Ours' PROVE Role(x)'
      <4>1. Ours BY <1>1, <2>3, <3>3 DEF Ours, Swapped, Went
      <4> QED BY <2>3, <2>11, <3>3, <4>1 DEF Role, Own, Went
    <3> QED BY <2>11, <3>1, <3>2, <3>3 DEF Visible
  <2>13. Displaced'
    <3>1. \A d \in dirs' : d.place = "top" => d.missed BY <1>7, <1>11, <2>2
    <3> QED BY <2>1, <2>2, <2>3, <3>1 DEF Displaced, Went
  <2>14. Metas'
    <3>1. ASSUME NEW x \in aside PROVE x.meta = 0 \/ x.meta = x.v BY <1>11, <2>9, <2>11, <3>1
    <3> QED BY <2>3, <2>9, <2>11, <3>1 DEF Metas
  <2>15. Kept'
    <3>1. \A d \in found : \E x \in dirs' : x.v = d.v /\ x.hist = d.hist BY <1>4, <1>8, <1>11
    <3> QED BY <1>9, <1>11, <3>1
  <2>16. Alone'
    <3>1. Unharmed' => mishaps' = mishaps BY <1>1, <2>3, <2>4, <2>5, UnharmedFact
    <3>2. found = dirs => dirs' = aside BY <1>3, <1>11
    <3> QED BY <2>3, <2>4, <3>1, <3>2 DEF Alone, Went
  <2>17. Worked' /\ Summed' BY <1>1, <2>3 DEF ArInv, Course, Worked, Summed, Went
  <2> QED BY <2>7, <2>8, <2>12, <2>13, <2>14, <2>15, <2>16, <2>17 DEF ArInv
<1> QED BY <1>2, <1>3, <1>4, <1>5, <1>10, <1>11

LEMMA LandKept ==
  ASSUME ArInv, Land
  PROVE  ArInv'
<1>1. /\ arun.pc = "land" /\ UNCHANGED <<kind, script, memo, kn, index, scanned>>
      /\ arun \in Runs /\ mishaps \in 0 .. MaxMishaps /\ dirs \subseteq Folders /\ arun.v # 0 /\ ~arun.ok
  BY DEF Land, ArInv, Typed, Course
<1>2. /\ \A d \in dirs : d.place = "top" => d.missed
      /\ \A d \in arun.was : d.place = "top"
      /\ arun.was \subseteq Folders /\ NamesApart(All) /\ OneSeen(All) /\ Kept
      /\ \A d \in All : d.place = "top" => Earned(d) /\ (Ours => Role(d))
      /\ \A d \in dirs \cup arun.was : d.meta = 0 \/ d.meta = d.v
  BY <1>1 DEF ArInv, Displaced, Typed, Runs, Visible, Metas
<1>3. CASE /\ ~Taken(arun.name) /\ dirs' = dirs \cup {Folder(arun.name, arun.v, arun.memo)}
           /\ arun' = [Goto("resolve") EXCEPT !.was = {}, !.at = arun.name]
           /\ landed' = landed \cup {arun.v} /\ UNCHANGED mishaps
  <2>1. PICK t : t = Folder(arun.name, arun.v, arun.memo) OBVIOUS
  <2>2. arun.v \in Versions \ {0} /\ arun.memo \in 0 .. MaxMemo /\ 0 \in Summaries
        /\ arun.v \in Versions /\ {} \in SUBSET Versions /\ arun.name \in 0 .. MaxNames
    BY <1>1, ArchiveAssumption DEF Runs, Summaries, Versions
  <2>3. t = [place |-> "top", name |-> arun.name, v |-> arun.v, meta |-> arun.v, sum |-> 0, mark |-> "",
             hist |-> {}, told |-> arun.memo, missed |-> FALSE]
    BY <2>1 DEF Folder
  <2>4. t \in Folders BY <2>2, <2>3 DEF Folders
  <2>5. t.place = "top" /\ t.v = arun.v /\ t.meta = t.v /\ Own(t) /\ t.name = arun.name
    BY <2>3 DEF Own
  <2>6. /\ Went("resolve") /\ arun'.todo = arun.todo /\ arun'.was = {} /\ arun'.ok = arun.ok
        /\ arun'.again = arun.again /\ arun'.at = arun.name
    <3>1. PICK r : r = [arun EXCEPT !.pc = "resolve"] OBVIOUS
    <3>2. PICK q : q = [r EXCEPT !.was = {}] OBVIOUS
    <3>3. r \in Runs /\ r.pc = "resolve" BY <1>1, <3>1 DEF Runs, Stages
    <3>4. q \in Runs /\ q.pc = "resolve" BY <3>2, <3>3 DEF Runs
    <3>5. arun' = [q EXCEPT !.at = arun.name] BY <1>3, <3>1, <3>2 DEF Goto
    <3> QED BY <1>1, <2>2, <3>1, <3>2, <3>3, <3>4, <3>5 DEF Went, Runs
  <2>7. dirs' = dirs \cup {t} BY <1>3, <2>1
  <2>8. \A d \in dirs : d.place = "top" => d.name # arun.name BY <1>3 DEF Taken, Tops
  <2>9. Spends /\ "resolve" \in Stages BY <1>1, <1>3, ArchiveAssumption DEF Spends, Stages
  <2>10. Typed' BY <1>1, <1>3, <2>2, <2>4, <2>6, <2>7 DEF ArInv, Typed, Went
  <2>11. Course' BY <1>1, <2>6, <2>9, Courses DEF ArInv, Course, Went
  <2>12. Visible'
    <3>1. All' = dirs' BY <2>6 DEF All
    <3>2. NamesApart(dirs') /\ OneSeen(dirs')
      <4>1. NamesApart(dirs) BY <1>2 DEF NamesApart, All
      <4>2. NamesApart(dirs') BY <2>5, <2>7, <2>8, <4>1 DEF NamesApart
      <4>3. OneSeen(dirs') BY <1>2, <2>7 DEF OneSeen
      <4> QED BY <4>2, <4>3
    <3>3. Role(t)' /\ Earned(t)'
      <4>1. Own(t)' BY <2>1, <2>5, <2>6 DEF Own, Went
      <4>2. Role(t)' BY <2>1, <2>5, <2>6, <4>1 DEF Role
      <4> QED BY <4>1, <4>2 DEF Own, Earned
    <3>4. ASSUME NEW d \in dirs, d.place = "top" PROVE Role(d)' /\ Earned(d)'
      <4>1. Role(d)' BY <1>2, <2>6, <2>8, <3>4 DEF Role
      <4>2. Earned(d)' BY <1>1, <1>2, <3>4 DEF Earned, All
      <4> QED BY <4>1, <4>2
    <3> QED BY <2>7, <3>1, <3>2, <3>3, <3>4 DEF Visible
  <2>13. Displaced'
    <3>1. \A d \in arun.todo : d.place = "old" BY <1>1 DEF ArInv, Displaced
    <3>2. AtHome(t)' BY <2>1, <2>5, <2>6 DEF AtHome
    <3> QED BY <2>6, <2>7, <3>1, <3>2 DEF Displaced, Went
  <2>14. Metas'
    <3>1. \A d \in arun.todo : d.meta = 0 \/ d.meta = d.v BY DEF ArInv, Metas
    <3> QED BY <1>2, <2>5, <2>6, <2>7, <3>1 DEF Metas
  <2>15. Kept'
    <3>1. ASSUME NEW x \in landed' PROVE \E d \in dirs' : x = d.v \/ x \in d.hist
      <4>1. CASE x = arun.v BY <2>5, <2>7, <4>1
      <4>2. CASE x \in landed BY <1>2, <2>7, <4>2 DEF Kept
      <4> QED BY <1>3, <3>1, <4>1, <4>2
    <3> QED BY <3>1 DEF Kept
  <2>16. Alone'
    <3>1. Unharmed' => Unharmed BY <1>1, <2>6, <2>9, UnharmedFact
    <3>2. Unharmed => dirs \subseteq arun.todo /\ \A d \in dirs : d.place = "old"
      BY <1>1 DEF ArInv, Alone, Displaced
    <3>3. AtHome(t)' BY <2>1, <2>5, <2>6 DEF AtHome
    <3> QED BY <2>5, <2>6, <2>7, <3>1, <3>2, <3>3 DEF Alone, Went
  <2>17. Worked' /\ Summed' BY <1>1, <2>6 DEF Worked, Summed, Went
  <2> QED BY <2>10, <2>11, <2>12, <2>13, <2>14, <2>15, <2>16, <2>17 DEF ArInv
<1>4. ASSUME NEW stuck \in SUBSET arun.was, arun' = Failed, UNCHANGED landed,
             Mishap((IF Taken(arun.name) THEN 0 ELSE 1) + IF stuck = {} THEN 0 ELSE 1),
             dirs' = (dirs \ {Aside(d) : d \in arun.was \ stuck}) \cup (arun.was \ stuck)
      PROVE  ArInv'
  <2>1. dirs' \subseteq Folders /\ dirs' \subseteq All BY <1>1, <1>2, <1>4 DEF All
  <2>2. Kept'
    <3>1. ASSUME NEW x \in landed PROVE \E d \in dirs' : x = d.v \/ x \in d.hist
      <4>1. PICK d \in dirs : x = d.v \/ x \in d.hist BY <1>2 DEF Kept
      <4>2. CASE d \in {Aside(w) : w \in arun.was \ stuck}
        <5>1. PICK w \in arun.was \ stuck : d = Aside(w) BY <4>2
        <5>2. d.v = w.v /\ d.hist = w.hist BY <1>2, <5>1, AsideIs
        <5> QED BY <1>4, <4>1, <5>1, <5>2
      <4>3. CASE d \notin {Aside(w) : w \in arun.was \ stuck} BY <1>4, <4>1, <4>3
      <4> QED BY <4>2, <4>3
    <3> QED BY <1>4, <3>1 DEF Kept
  <2>3. NamesApart(dirs') /\ OneSeen(dirs') BY <1>2, <2>1 DEF NamesApart, OneSeen
  <2>4. \A d \in dirs' : d.place = "top" => Earned(d) /\ (Ours => Role(d)) BY <1>2, <2>1
  <2>5. \A d \in dirs' : d.meta = 0 \/ d.meta = d.v BY <1>2, <2>1 DEF All
  <2>6. Spends /\ (mishaps' = mishaps => Taken(arun.name))
    <3>1. PICK n : n = (IF Taken(arun.name) THEN 0 ELSE 1) + IF stuck = {} THEN 0 ELSE 1 OBVIOUS
    <3>2. n \in Nat /\ (n = 0 => Taken(arun.name)) BY <3>1
    <3> QED BY <1>4, <3>1, <3>2, MishapSpends
  <2>7. Taken(arun.name) => ~Unharmed
    <3>1. Unharmed => \A d \in dirs : d.place = "old" BY <1>1 DEF ArInv, Alone, Displaced
    <3> QED BY <3>1 DEF Taken, Tops
  <2> QED BY <1>1, <1>4, <2>1, <2>2, <2>3, <2>4, <2>5, <2>6, <2>7, FailedKept
<1> QED BY <1>3, <1>4 DEF Land

(* What resolving a displaced folder makes of the folders: the visible one    *)
(* takes in versions, and with what could not be carried and stays of the     *)
(* displaced one nothing is lost.                                             *)
Into(d, carried, moves, t, rest) ==
  /\ dirs' = (dirs \ {d, Mine}) \cup rest \cup {t}
  /\ t.place = "top" /\ t.v = Mine.v /\ t.meta = Mine.meta /\ t.sum = Mine.sum
  /\ t.mark = Mine.mark /\ t.told = Mine.told /\ t.name = Mine.name /\ t.missed = Mine.missed
  /\ Mine.hist \subseteq t.hist
  /\ \A k \in rest : k.place = "old" /\ k.v = d.v /\ k.meta = d.meta
  /\ \A x : x = d.v \/ x \in d.hist => \E k \in rest \cup {t} : x = k.v \/ x \in k.hist
  /\ carried = d.hist /\ moves => rest = {}

LEMMA ResolvedFact ==
  ASSUME ArInv, HasHome, Mine.v = arun.v, NEW d \in Folders, d.place = "old",
         NEW carried \in SUBSET d.hist, NEW moves, dirs' = Resolved(d, carried, moves)
  PROVE  \E t \in Folders, rest \in SUBSET Folders :
           Into(d, carried, moves, t, rest)
<1>1. Mine \in Folders /\ Mine.place = "top" /\ Mine \in dirs BY HomeIs, Apart DEF ArInv, Typed, AtHome
<1>2. PICK kept : kept = [d EXCEPT !.hist = d.hist \ carried] OBVIOUS
<1>3. /\ kept \in Folders /\ kept.place = "old" /\ kept.v = d.v /\ kept.meta = d.meta
      /\ kept.hist = d.hist \ carried
  BY <1>2 DEF Folders
<1>4. PICK version : version = IF d.v = arun.v THEN {} ELSE {d.v} OBVIOUS
<1>5. PICK rest : rest = IF kept.hist = {} /\ moves THEN {} ELSE {kept} OBVIOUS
<1>6. PICK more : more = carried \cup (IF rest = {} THEN version ELSE {}) OBVIOUS
<1>7. more \in SUBSET Versions BY <1>4, <1>6 DEF Folders
<1>8. PICK t : t = [Mine EXCEPT !.hist = Mine.hist \cup more] OBVIOUS
<1>9. /\ t \in Folders /\ t.place = "top" /\ t.v = Mine.v /\ t.meta = Mine.meta /\ t.sum = Mine.sum
      /\ t.mark = Mine.mark /\ t.told = Mine.told /\ t.hist = Mine.hist \cup more
      /\ t.name = Mine.name /\ t.missed = Mine.missed
  BY <1>1, <1>7, <1>8 DEF Folders
<1>10. t = [Mine EXCEPT !.hist = @ \cup carried \cup (IF rest = {} THEN version ELSE {})]
  <2>1. Mine.hist \cup more = Mine.hist \cup carried \cup (IF rest = {} THEN version ELSE {}) BY <1>6
  <2> QED BY <1>8, <2>1
<1>11. dirs' = (dirs \ {d, Mine}) \cup rest \cup {t}
  BY <1>2, <1>4, <1>5, <1>10 DEF Resolved, SameContent
<1>12. rest \in SUBSET Folders /\ \A k \in rest : k.place = "old" /\ k.v = d.v /\ k.meta = d.meta
  BY <1>3, <1>5
<1>13. ASSUME NEW x, x = d.v \/ x \in d.hist
       PROVE  \E k \in rest \cup {t} : x = k.v \/ x \in k.hist
  <2>1. CASE rest = {}
    <3>1. CASE x = d.v BY <1>4, <1>6, <1>9, <2>1, <3>1
    <3>2. CASE x \in d.hist BY <1>3, <1>5, <1>6, <1>9, <2>1, <3>2
    <3> QED BY <1>13, <3>1, <3>2
  <2>2. CASE rest # {}
    <3>1. rest = {kept} BY <1>5, <2>2
    <3> QED BY <1>3, <1>6, <1>9, <1>13, <3>1
  <2> QED BY <2>1, <2>2
<1>14. carried = d.hist /\ moves => rest = {} BY <1>3, <1>5
<1>15. Mine.hist \subseteq t.hist BY <1>9
<1>16. Into(d, carried, moves, t, rest) BY <1>9, <1>11, <1>12, <1>13, <1>14, <1>15 DEF Into
<1> QED BY <1>9, <1>12, <1>16

LEMMA ResolveKept ==
  ASSUME ArInv, Resolve
  PROVE  ArInv'
<1>1. /\ arun.pc = "resolve" /\ Same /\ UNCHANGED <<kind, script, memo, kn, index, scanned, landed>>
      /\ arun \in Runs /\ mishaps \in 0 .. MaxMishaps /\ dirs \subseteq Folders /\ Ours /\ ~arun.ok
      /\ arun.v # 0 /\ (kind = "prompt" => ~arun.again) /\ kind \in {"work", "prompt"}
  BY DEF Resolve, Same, ArInv, Typed, Ours, Swapped, Course
<1>2. HasHome /\ \A d \in arun.todo : d.place = "old" /\ d \in Folders
  BY <1>1 DEF ArInv, Displaced, HasHome, Home, Tops, Runs, AtHome
<1>3. /\ Mine \in dirs /\ AtHome(Mine) /\ Mine \in Folders /\ NamesApart(dirs) /\ OneSeen(dirs)
      /\ \A d \in dirs : AtHome(d) => d = Mine
      /\ \A d \in dirs : d.place = "top" => Earned(d) /\ Role(d)
  BY <1>1, <1>2, HomeIs, Apart
<1>0. Own(Mine) /\ Mine.place = "top" /\ Mine.name = arun.at BY <1>3 DEF Role, AtHome
<1>4. CASE /\ arun.todo = {} /\ UNCHANGED <<dirs, mishaps>>
           /\ arun' = Goto(IF arun.again THEN "summary" ELSE "keep")
  <2>1. PICK pc : pc = IF arun.again THEN "summary" ELSE "keep" OBVIOUS
  <2>2. pc \in {"summary", "keep"} /\ pc \in Stages \ {"land", "resolve"} /\ pc \in Stages
    BY <2>1 DEF Stages
  <2>3. Went(pc) /\ Sets /\ arun'.again = arun.again /\ arun'.ok = arun.ok
    BY <1>1, <1>4, <2>1, <2>2, GotoFact
  <2>4. Spends BY <1>1, <1>4, ArchiveAssumption DEF Spends
  <2>5. Typed' /\ Visible' /\ Displaced' /\ Metas' /\ Kept'
    <3>1. kn' \in Knowledge /\ index' \in Knowledge /\ dirs' = dirs
      BY <1>1, <1>4 DEF ArInv, Typed
    <3> QED BY <1>1, <2>2, <2>3, <2>4, <3>1, FrameKept
  <2>6. Alone'
    <3>1. Unharmed' => Unharmed BY <1>1, <2>2, <2>3, <2>4, UnharmedFact
    <3>2. Unharmed => \A d \in dirs : AtHome(d) BY <1>1, <1>4 DEF ArInv, Alone
    <3>3. \A d \in dirs : AtHome(d) => AtHome(d)' BY <2>3, HomeStays
    <3> QED BY <1>3, <1>4, <2>2, <2>3, <3>1, <3>2, <3>3 DEF Alone, Went
  <2>7. Course' BY <1>1, <2>1, <2>2, <2>3, <2>4, Courses DEF Course, Went
  <2>8. Worked' /\ Summed' BY <1>1, <2>2, <2>3 DEF Worked, Summed, Went
  <2> QED BY <2>5, <2>6, <2>7, <2>8 DEF ArInv
<1>5. ASSUME NEW d \in arun.todo, NEW some \in SUBSET d.hist, NEW moves \in BOOLEAN,
             dirs' = Resolved(d, some, moves), Spends, arun' = [arun EXCEPT !.todo = @ \ {d}],
             mishaps' = mishaps => some = d.hist /\ moves
      PROVE  ArInv'
  <2>1. d \in Folders /\ d.place = "old" /\ Mine.v = arun.v BY <1>0, <1>2 DEF Own
  <2>2. PICK t \in Folders, rest \in SUBSET Folders : Into(d, some, moves, t, rest)
    <3>1. HasHome /\ d \in Folders /\ d.place = "old" /\ Mine.v = arun.v BY <1>2, <2>1
    <3>2. some \in SUBSET d.hist /\ dirs' = Resolved(d, some, moves) BY <1>5
    <3> QED BY <3>1, <3>2, ResolvedFact
  <2> USE <2>2 DEF Into
  <2>3. \A e \in dirs' : e = t \/ e \in rest \/ (e \in dirs /\ e # d /\ e # Mine /\ ~AtHome(e))
    BY <1>3, <2>2
  <2>4. /\ Went("resolve") /\ arun'.todo = arun.todo \ {d} /\ arun'.was = arun.was
        /\ arun'.ok = arun.ok /\ arun'.again = arun.again /\ arun'.at = arun.at
    BY <1>1, <1>5 DEF Went, Runs
  <2>5. "resolve" \in Stages BY DEF Stages
  <2>6. Typed'
    <3>1. dirs' \subseteq Folders BY <1>1, <2>2
    <3> QED BY <1>1, <1>5, <2>4, <3>1 DEF ArInv, Typed, Went, Spends
  <2>7. Course' BY <1>1, <1>5, <2>4, <2>5, Courses DEF ArInv, Course, Went
  <2>8. Visible'
    <3>1. All' = dirs' BY <1>1, <2>4, NoneAside DEF All
    <3>2. Own(t) /\ t.name = arun.at BY <1>0, <2>2 DEF Own
    <3>3. Role(t)' /\ Earned(t)' BY <2>4, <3>2 DEF Role, Own, Earned, Went
    <3>4. \A e \in dirs' : e.place = "top" => e = t \/ (e \in dirs /\ e # Mine /\ ~AtHome(e))
      BY <2>2, <2>3
    <3>5. ASSUME NEW e \in dirs, e.place = "top" PROVE Role(e)' /\ Earned(e)'
      <4>1. Role(e) /\ Earned(e) BY <1>3, <3>5
      <4> QED BY <1>1, <2>4, <4>1 DEF Role, Own, Earned, Went
    <3>6. NamesApart(dirs') BY <1>3, <3>2, <3>4 DEF NamesApart, AtHome
    <3>7. OneSeen(dirs')
      <4>1. ASSUME NEW e \in dirs', NEW f \in dirs', e.place = "top", f.place = "top"
            PROVE  e = f \/ e.missed \/ f.missed
        <5>1. CASE e = t /\ f # t BY <1>0, <1>3, <2>2, <3>4, <4>1, <5>1 DEF OneSeen
        <5>2. CASE e # t /\ f = t BY <1>0, <1>3, <2>2, <3>4, <4>1, <5>2 DEF OneSeen
        <5>3. CASE e # t /\ f # t BY <1>3, <3>4, <4>1, <5>3 DEF OneSeen
        <5> QED BY <5>1, <5>2, <5>3
      <4> QED BY <4>1 DEF OneSeen
    <3> QED BY <3>1, <3>3, <3>4, <3>5, <3>6, <3>7 DEF Visible
  <2>9. Displaced'
    <3>1. AtHome(t)' BY <1>0, <2>2, <2>4 DEF AtHome
    <3> QED BY <1>1, <1>2, <2>2, <2>4, <3>1, NoneAside DEF Displaced, Went
  <2>10. Metas'
    <3>1. \A e \in dirs \cup arun.was \cup arun.todo : e.meta = 0 \/ e.meta = e.v BY DEF ArInv, Metas
    <3>2. ASSUME NEW e \in dirs' PROVE e.meta = 0 \/ e.meta = e.v
      <4>1. CASE e = t BY <1>3, <2>2, <3>1, <4>1
      <4>2. CASE e \in rest BY <2>2, <3>1, <4>2
      <4>3. CASE e \in dirs BY <3>1, <4>3
      <4> QED BY <2>3, <4>1, <4>2, <4>3
    <3> QED BY <2>4, <3>1, <3>2 DEF Metas
  <2>11. Kept'
    <3>1. ASSUME NEW x \in landed PROVE \E e \in dirs' : x = e.v \/ x \in e.hist
      <4>1. PICK e \in dirs : x = e.v \/ x \in e.hist BY DEF ArInv, Kept
      <4>2. CASE e = d BY <2>2, <4>1, <4>2
      <4>3. CASE e = Mine BY <2>2, <4>1, <4>3
      <4>4. CASE e # d /\ e # Mine BY <2>2, <4>1, <4>4
      <4> QED BY <4>2, <4>3, <4>4
    <3> QED BY <1>1, <3>1 DEF Kept
  <2>12. Alone'
    <3>1. Unharmed' => Unharmed /\ mishaps' = mishaps BY <1>1, <1>5, <2>4, <2>5, UnharmedFact
    <3>2. Unharmed => \A e \in dirs : IF e.place = "old" THEN e \in arun.todo ELSE AtHome(e)
      BY <1>1 DEF ArInv, Alone
    <3>3. AtHome(t)' /\ t.place = "top" BY <1>0, <2>2, <2>4 DEF AtHome
    <3>4. \A e \in dirs : AtHome(e) => AtHome(e)' BY <2>4 DEF AtHome
    <3>5. Unharmed' => rest = {} BY <1>5, <2>2, <3>1
    <3>6. ASSUME Unharmed', NEW e \in dirs'
          PROVE  IF e.place = "old" THEN e \in arun'.todo ELSE AtHome(e)'
      <4>1. CASE e = t BY <3>3, <4>1
      <4>2. CASE e \in dirs /\ e # d BY <2>4, <3>1, <3>2, <3>4, <3>6, <4>2
      <4> QED BY <2>3, <3>5, <3>6, <4>1, <4>2
    <3> QED BY <2>4, <3>6 DEF Alone, Went
  <2>13. Worked' /\ Summed' BY <1>1, <2>4 DEF Worked, Summed, Went
  <2> QED BY <2>6, <2>7, <2>8, <2>9, <2>10, <2>11, <2>12, <2>13 DEF ArInv
<1>6. ASSUME NEW d \in arun.todo, NEW some \in SUBSET d.hist, NEW moves \in BOOLEAN,
             dirs' = Resolved(d, some, moves), Mishap(1), arun' = [arun EXCEPT !.todo = @ \ {d}]
      PROVE  ArInv'
  <2>1. Spends /\ mishaps' # mishaps BY <1>1, <1>6, ArchiveAssumption DEF Spends, Mishap
  <2> QED BY <1>5, <1>6, <2>1
<1>7. ASSUME NEW d \in arun.todo, dirs' = Resolved(d, d.hist, TRUE), UNCHANGED mishaps,
             arun' = [arun EXCEPT !.todo = @ \ {d}]
      PROVE  ArInv'
  <2>1. Spends BY <1>1, <1>7, ArchiveAssumption DEF Spends
  <2> QED BY <1>5, <1>7, <2>1
<1> QED BY <1>4, <1>6, <1>7 DEF Resolve

-----------------------------------------------------------------------------
(* Every step of the archive's run, and of everybody else, keeps ArInv.       *)
THEOREM ArInvTheorem == ArSpec => []ArInv
<1>1. ArInit => ArInv BY InitKept
<1>2. ArInv /\ [ArNext]_arVars => ArInv'
  <2>. SUFFICES ASSUME ArInv, [ArNext]_arVars PROVE ArInv'
    OBVIOUS
  <2>1. CASE Grow \/ EditMemo \/ FindOldMeta BY <2>1, OthersKept
  <2>2. CASE Archive \/ Backfill BY <2>2, BeginKept DEF Archive, Backfill
  <2>3. CASE Build \/ Displace \/ Land \/ Resolve
    BY <2>3, BuildKept, DisplaceKept, LandKept, ResolveKept
  <2>4. CASE Keep \/ Enclose \/ Extract \/ Summarise
    BY <2>4, KeepKept, EncloseKept, ExtractKept, SummariseKept
  <2>5. CASE RemoveEntries \/ WriteEntries \/ RebuildIndex BY <2>5, KnowledgeKept
  <2>6. CASE Restore \/ Mark BY <2>6, RestoreKept, MarkKept
  <2>7. CASE Crash \/ FillMeta BY <2>7, CrashKept, FillMetaKept
  <2>8. CASE UNCHANGED arVars BY <2>8, StillKept DEF arVars, ArInv, Typed
  <2> QED BY <2>1, <2>2, <2>3, <2>4, <2>5, <2>6, <2>7, <2>8 DEF ArNext, Pipeline
<1> QED BY <1>1, <1>2, PTL DEF ArSpec

(* The types of the archive's state; two visible folders differ in name.      *)
THEOREM ArTypeTheorem == ArSpec => []ArTypeOK
<1>1. ArInv => ArTypeOK
  <2>. SUFFICES ASSUME ArInv PROVE ArTypeOK
    OBVIOUS
  <2>1. \A d, e \in Tops : d.name = e.name => d = e BY Apart DEF NamesApart, Tops
  <2> QED BY <2>1 DEF ArInv, Typed, ArTypeOK, Runs
<1> QED BY <1>1, ArInvTheorem, PTL

LEMMA KeptIs ==
  ASSUME Kept
  PROVE  VersionsKept
<1>1. ASSUME NEW x \in landed PROVE x \in {d.v : d \in dirs} \cup UNION {d.hist : d \in dirs}
  BY DEF Kept
<1> QED BY <1>1 DEF VersionsKept

(* A run that ends well.                                                      *)
LEMMA EndsWell ==
  ASSUME ArInv, ArInv', [ArNext]_arVars, RunEnds, mishaps' = arun.fuel
  PROVE  /\ \A d \in dirs' : d.place = "top" /\ d.v = arun.v
         /\ landed' \subseteq Shown'
         /\ arun.prev # 0 => \A d \in dirs' : d.sum # 0
<1>1. arun.pc = "marker" /\ arun'.pc = "idle" /\ arun \in Runs /\ mishaps <= arun.fuel /\ Ours
  BY DEF RunEnds, ArInv, Typed, Course, Ours, Swapped
<1>2. Mark
  <2>1. ~ Crash
    <3>1. mishaps \in Int /\ arun.fuel \in Int BY <1>1, ArchiveAssumption DEF ArInv, Typed, Runs
    <3> QED BY <1>1, <3>1 DEF Crash, Mishap
  <2>2. arun' # arun BY <1>1
  <2> QED BY <1>1, <2>1, <2>2
        DEF ArNext, Pipeline, Grow, EditMemo, FindOldMeta, FillMeta, Archive, Backfill, Begin, Build,
            Displace, Land, Resolve, Keep, Enclose, Extract, Summarise, RemoveEntries, WriteEntries,
            RebuildIndex, Restore, arVars
<1>3. mishaps = arun.fuel
  <2>1. mishaps' <= mishaps /\ mishaps \in Int /\ arun.fuel \in Int
    <3>1. mishaps' = mishaps \/ Mishap(1) BY <1>2 DEF Mark, WriteHome
    <3>2. mishaps \in Int /\ arun.fuel \in Int BY <1>1, ArchiveAssumption DEF ArInv, Typed, Runs
    <3> QED BY <3>1, <3>2 DEF Mishap
  <2> QED BY <1>1, <2>1
<1>4. Unharmed BY <1>1, <1>3 DEF Unharmed
<1>5. /\ \A d \in dirs : d.place = "top" /\ Own(d)
      /\ arun.prev # 0 => \A d \in dirs : d.sum # 0
  <2>1. \A d \in dirs : AtHome(d) BY <1>1, <1>4 DEF ArInv, Alone
  <2>2. \A d \in dirs : d.place = "top" /\ Own(d) BY <1>1, <2>1, Apart DEF AtHome, Role
  <2> QED BY <1>1, <1>4, <2>1, <2>2 DEF ArInv, Summed
<1>6. dirs' = dirs \/ (HasHome /\ dirs' = (dirs \ Home) \cup {[Mine EXCEPT !.mark = Marker]})
  BY <1>2 DEF Mark, WriteHome
<1>7. /\ \A d \in dirs' : d.place = "top" /\ d.v = arun.v
      /\ arun.prev # 0 => \A d \in dirs' : d.sum # 0
  <2>1. CASE dirs' = dirs BY <1>5, <2>1 DEF Own
  <2>2. CASE HasHome /\ dirs' = (dirs \ Home) \cup {[Mine EXCEPT !.mark = Marker]}
    <3>1. Mine \in dirs /\ Mine \in Folders BY <2>2, HomeIs, Apart DEF ArInv, Typed
    <3>2. PICK t : t = [Mine EXCEPT !.mark = Marker] OBVIOUS
    <3>3. t.place = Mine.place /\ t.v = Mine.v /\ t.sum = Mine.sum BY <3>1, <3>2 DEF Folders
    <3>4. \A d \in dirs' : d = t \/ d \in dirs BY <2>2, <3>2
    <3> QED BY <1>5, <3>1, <3>3, <3>4 DEF Own
  <2> QED BY <1>6, <2>1, <2>2
<1>8. landed' \subseteq Shown'
  <2>1. ASSUME NEW x \in landed' PROVE x \in Shown'
    <3>1. PICK d \in dirs' : x = d.v \/ x \in d.hist BY DEF ArInv, Kept
    <3>2. d \in Tops' BY <1>7 DEF Tops
    <3> QED BY <3>1, <3>2 DEF Shown
  <2> QED BY <2>1
<1> QED BY <1>7, <1>8

(* Whatever fails and wherever the application stops: every version that was *)
(* ever visible is kept, two archives show only where a search could not read *)
(* one, a marker is earned, a meta describes its content; and a run in which  *)
(* no file operation failed takes in what failed ones left, and of a work     *)
(* session does not lose the summary of the archive it found.                 *)
THEOREM ArchiveTheorem == ArSpec => ArchiveIsKept
<1>1. ArInv => VersionsKept /\ OneVisible /\ MarkerIsEarned /\ MetaIsOfContent
  <2>. SUFFICES ASSUME ArInv PROVE VersionsKept /\ OneVisible /\ MarkerIsEarned /\ MetaIsOfContent
    OBVIOUS
  <2>1. VersionsKept BY KeptIs DEF ArInv
  <2>2. OneVisible BY Apart DEF OneSeen, OneVisible, Tops
  <2>3. MarkerIsEarned BY Apart DEF Earned, MarkerIsEarned, Tops
  <2>4. MetaIsOfContent BY DEF ArInv, Metas, MetaIsOfContent
  <2> QED BY <2>1, <2>2, <2>3, <2>4
<1>2. ArInv /\ ArInv' /\ [ArNext]_arVars =>
        /\ [RunEnds /\ mishaps' = arun.fuel =>
              /\ \A d \in dirs' : d.place = "top" /\ d.v = arun.v
              /\ landed' \subseteq Shown']_arVars
        /\ [kind = "work" /\ RunEnds /\ mishaps' = arun.fuel /\ arun.prev # 0 =>
              \A d \in dirs' : d.sum # 0]_arVars
  BY EndsWell
<1> QED BY <1>1, <1>2, ArInvTheorem, PTL DEF ArSpec, ArchiveIsKept, RunTakesInLeftovers, LastGoodKept
=============================================================================
