----------------------------- MODULE ArchiveRun -----------------------------
(***************************************************************************)
(* The archive of one Claude session: the pipeline run_archive (core       *)
(* archive.rs) that the app's command and the back-fill program both run,  *)
(* with the folder replacement of write_archive, the knowledge files of    *)
(* knowledge.rs and the back-fill of old metas.                            *)
(*                                                                         *)
(* The transcript is a version number: a larger version is a longer        *)
(* transcript, 0 has no turn. A folder keeps the version it copied (v),    *)
(* the version its meta.json describes (meta, 0 when the meta has no       *)
(* snapshot fields yet), its summary.md (sum, 0 when absent: the version   *)
(* it was extracted from, or the memo of a prompt session), its marker     *)
(* file, and the versions under its history/ directory. Its name, which the *)
(* date and the title make, is one of a few that sort; folders set aside    *)
(* have none, and two of them with the same content are one. Not on disk   *)
(* are `told`, the memo of the run that made the folder, and `missed`: the  *)
(* search of some run could not read the folder and passed it over.        *)
(*                                                                         *)
(* A failed call on the file system and a crash of the process each take   *)
(* one unit of the bound MaxMishaps; the folders one search or one listing *)
(* cannot read count as one call, and so do the renames that fail while    *)
(* the displaced folders are moved back. Work directories (`.tmp-*`) are    *)
(* never read again and are not kept.                                      *)
(***************************************************************************)
EXTENDS Naturals, FiniteSets

CONSTANTS
    MaxVersion,     \* bound: versions of the transcript
    MaxMemo,        \* bound: distinct memos of a prompt session
    MaxNames,       \* bound: folder names that dates and titles make
    MaxMishaps      \* bound: failed file operations and crashes

ASSUME ArchiveAssumption ==
    /\ MaxVersion \in Nat \ {0} /\ MaxNames \in Nat \ {0}
    /\ MaxMemo \in Nat /\ MaxMishaps \in Nat

VARIABLES
    kind,       \* what is archived: a work session, or a prompt draft (no extraction)
    script,     \* the transcript on disk
    memo,       \* the memo the panel would send
    dirs,       \* the session's archive folders
    kn,         \* its knowledge files: the version they come from, and how many
    index,      \* the same, as INDEX.md lists it
    arun,       \* the run in flight
    scanned,    \* backfill_meta: the name of the folder it found, not yet rewritten
    mishaps,    \* faults left
    landed      \* every version that was ever the visible archive

arVars == <<kind, script, memo, dirs, kn, index, arun, scanned, mishaps, landed>>

\* No knowledge file of the session.
None0 == [of |-> 0, n |-> "none"]

Names == 1 .. MaxNames
Versions == 0 .. MaxVersion
Summaries == Versions \cup 0 .. MaxMemo

\* No run, and what a run keeps in memory: the name for its folder, where it landed.
IdleRun == [pc |-> "idle", v |-> 0, memo |-> 0, prev |-> 0, left |-> 0, again |-> FALSE,
            name |-> 0, at |-> 0, gist |-> FALSE, entries |-> "none", todo |-> {}, was |-> {},
            ok |-> FALSE, err |-> FALSE, fuel |-> 0]

\* A folder as it is built aside: no summary, no marker, no history.
Folder(name, v, told) ==
    [place |-> "top", name |-> name, v |-> v, meta |-> v, sum |-> 0, mark |-> "", hist |-> {},
     told |-> told, missed |-> FALSE]

\* The folders the browser lists; the names of the others start with a dot.
Tops == {d \in dirs : d.place = "top"}

(* A folder moved aside, under an `.old-` name.                            *)
Aside(d) == [d EXCEPT !.place = "old", !.name = 0, !.missed = FALSE]

(* The folder the run landed, by its path.                                 *)
Home == {d \in Tops : d.name = arun.at}
HasHome == Home # {}
Mine == CHOOSE d \in Home : TRUE

(* Two copies have the same content: as many lines and the same last       *)
(* record, which for a transcript that only grows is the same version.     *)
SameContent(a, b) == a = b

(* The verdict "nothing to do": same content, complete extraction, and for *)
(* a run that skips extraction the same memo.                              *)
Complete(d) == d.mark = "skipped" \/ (d.sum # 0 /\ d.mark = "ok")

SummaryUnchanged(d, m) == kind = "prompt" => d.sum = m

Unchanged(d, v, m) == SameContent(d.v, v) /\ Complete(d) /\ SummaryUnchanged(d, m)

Mishap(n) == mishaps >= n /\ mishaps' = mishaps - n

(* The next step of the run, and what it writes into the folder that       *)
(* landed: a write that succeeds, one that fails, or one with no folder to *)
(* write to. `bad` is the run after a failure, `good` after a success.     *)
WriteHome(d, good, bad) ==
    \/ HasHome /\ dirs' = (dirs \ Home) \cup {d} /\ arun' = good /\ UNCHANGED mishaps
    \/ HasHome /\ Mishap(1) /\ arun' = bad /\ UNCHANGED dirs
    \/ ~ HasHome /\ arun' = bad /\ UNCHANGED <<dirs, mishaps>>

Goto(pc) == [arun EXCEPT !.pc = pc]
Warned(pc) == [arun EXCEPT !.pc = pc, !.err = TRUE]

ArInit ==
    /\ kind \in {"work", "prompt"}
    /\ script = 1 /\ memo = 0
    /\ dirs \in {{}} \cup (IF kind = "work"
                           THEN {{[Folder(1, 1, 0) EXCEPT !.meta = 0, !.sum = s]} : s \in 0 .. 1} ELSE {})
    /\ kn = None0 /\ index = None0
    /\ arun = IdleRun /\ scanned = 0 /\ mishaps = MaxMishaps
    /\ landed = {d.v : d \in dirs}

----------------------------------------------------------------------------
(* What the user and the session do, and the start of a run.               *)

Grow == /\ script < MaxVersion /\ script' = script + 1
        /\ UNCHANGED <<kind, memo, dirs, kn, index, arun, scanned, mishaps, landed>>

EditMemo == /\ kind = "prompt" /\ \E m \in 0 .. MaxMemo : m # memo /\ memo' = m
            /\ UNCHANGED <<kind, script, dirs, kn, index, arun, scanned, mishaps, landed>>

(* The previous archive as list_archives shows it: of the folders it can   *)
(* read, the one whose name sorts last. `old` is its summary.              *)
Previous(seen, old) ==
    IF seen = {} THEN old = 0
    ELSE \E d \in seen : /\ \A e \in seen : e.name <= d.name
                        /\ ~ Unchanged(d, script, memo) /\ old = d.sum

(* archive_session and archive_one: the slot of the project is free, the   *)
(* transcript is read, the verdict is not "unchanged", and the last good   *)
(* summary is taken into memory, or cannot be read; a folder that cannot   *)
(* be listed is passed over without a word. The back-fill program tries    *)
(* the extraction twice.                                                   *)
Begin(tries) ==
    /\ arun.pc = "idle"
    /\ \E seen \in SUBSET Tops, old \in Summaries, name \in Names :
         LET Run(prev, err) == [IdleRun EXCEPT !.pc = "build", !.v = script, !.memo = memo,
                                  !.prev = prev, !.err = err, !.name = name, !.left = tries,
                                  !.fuel = mishaps]
         IN /\ Previous(seen, old)
            /\ \/ seen = Tops /\ arun' = Run(old, FALSE) /\ UNCHANGED mishaps
               \/ seen = Tops /\ old # 0 /\ Mishap(1) /\ arun' = Run(0, TRUE)
               \/ seen # Tops /\ Mishap(1) /\ arun' = Run(old, FALSE)
    /\ UNCHANGED <<kind, script, memo, dirs, kn, index, scanned, landed>>

\* The command of the app: one try. The back-fill program: two, of work sessions.
Archive == Begin(1)
Backfill == kind = "work" /\ Begin(2)

----------------------------------------------------------------------------
(* write_archive, the whole of it under the write lock. A write that fails *)
(* ends the run with the error, unless it is the second one of a run,      *)
(* under the extracted title, which is only reported.                      *)

Locked == arun.pc \in {"displace", "land", "resolve"}

Failed == IF arun.again THEN [Warned("summary") EXCEPT !.todo = {}, !.was = {}] ELSE IdleRun

Build ==
    /\ arun.pc = "build"
    /\ \/ arun' = Goto("displace") /\ UNCHANGED mishaps
       \/ Mishap(1) /\ arun' = Failed
    /\ UNCHANGED <<kind, script, memo, dirs, kn, index, scanned, landed>>

(* A visible folder that the search of a run passes over stays where it is.*)
PassedOver(d) == IF d.place = "top" THEN [d EXCEPT !.missed = TRUE] ELSE d

(* The previous folders of the session are those whose metas say so: the   *)
(* visible one and those an interrupted run left aside, but none when the  *)
(* directory cannot be listed, and not those whose meta.json cannot be     *)
(* read. Every one found goes aside. When a rename fails the moved ones    *)
(* are renamed back, which may fail too, for those of `stuck`.             *)
Displace ==
    /\ arun.pc = "displace"
    /\ \E found \in SUBSET dirs :
         LET unseen == {PassedOver(d) : d \in dirs \ found}
             aside == {Aside(d) : d \in found}
             cost == IF found = dirs THEN 0 ELSE 1
         IN \/ /\ dirs' = unseen \cup aside /\ Mishap(cost)
               /\ arun' = [Goto("land") EXCEPT !.todo = aside, !.was = found \cap Tops]
            \/ \E stuck \in SUBSET found :
                 /\ stuck # found /\ Mishap(cost + IF stuck = {} THEN 1 ELSE 2)
                 /\ dirs' = unseen \cup (found \ stuck) \cup {Aside(d) : d \in stuck}
                 /\ arun' = Failed
    /\ UNCHANGED <<kind, script, memo, kn, index, scanned, landed>>

(* The new folder is renamed into place, which fails where a visible       *)
(* folder has that name already; the displaced ones come back if it fails. *)
Taken(name) == \E d \in Tops : d.name = name

Land ==
    /\ arun.pc = "land"
    /\ \/ /\ ~ Taken(arun.name) /\ dirs' = dirs \cup {Folder(arun.name, arun.v, arun.memo)}
          /\ arun' = [Goto("resolve") EXCEPT !.was = {}, !.at = arun.name]
          /\ landed' = landed \cup {arun.v} /\ UNCHANGED mishaps
       \/ \E stuck \in SUBSET arun.was :
            /\ Mishap((IF Taken(arun.name) THEN 0 ELSE 1) + IF stuck = {} THEN 0 ELSE 1)
            /\ dirs' = (dirs \ {Aside(d) : d \in arun.was \ stuck}) \cup (arun.was \ stuck)
            /\ arun' = Failed /\ UNCHANGED landed
    /\ UNCHANGED <<kind, script, memo, kn, index, scanned>>

\* A wrong variant: the folder is deleted although some of its versions were not carried.
ResolvedWrongDeletes(d, carried, moves) ==
    (dirs \ {d, Mine})
      \cup {[Mine EXCEPT !.hist = @ \cup carried \cup (IF d.v # arun.v THEN {d.v} ELSE {})]}

(* A displaced folder is resolved: its own versions are carried into the   *)
(* new one, then it becomes a version itself when its content differs, and *)
(* is deleted when it does not. What could not be carried stays where it   *)
(* is, and so does the folder.                                             *)
Resolved(d, carried, moves) ==
    LET kept == [d EXCEPT !.hist = d.hist \ carried]
        version == IF SameContent(d.v, arun.v) THEN {} ELSE {d.v}
        rest == IF kept.hist = {} /\ moves THEN {} ELSE {kept}
    IN (dirs \ {d, Mine}) \cup rest
       \cup {[Mine EXCEPT !.hist = @ \cup carried \cup (IF rest = {} THEN version ELSE {})]}

Resolve ==
    /\ arun.pc = "resolve"
    /\ \/ \E d \in arun.todo :
            /\ \/ dirs' = Resolved(d, d.hist, TRUE) /\ UNCHANGED mishaps
               \/ \E some \in SUBSET d.hist, moves \in BOOLEAN :
                    /\ <<some, moves>> # <<d.hist, TRUE>>
                    /\ Mishap(1) /\ dirs' = Resolved(d, some, moves)
            /\ arun' = [arun EXCEPT !.todo = @ \ {d}]
       \/ arun.todo = {} /\ UNCHANGED <<dirs, mishaps>>
          /\ arun' = Goto(IF arun.again THEN "summary" ELSE "keep")
    /\ UNCHANGED <<kind, script, memo, kn, index, scanned, landed>>

----------------------------------------------------------------------------
(* The rest of run_archive.                                                *)

(* The last good summary goes into the new folder before the extraction.   *)
Keep ==
    /\ arun.pc = "keep"
    /\ LET next == IF kind = "work" THEN "extract" ELSE "memo"
       IN \/ arun.prev = 0 /\ arun' = Goto(next) /\ UNCHANGED <<dirs, mishaps>>
          \/ arun.prev # 0 /\ WriteHome([Mine EXCEPT !.sum = arun.prev], Goto(next), Warned(next))
    /\ UNCHANGED <<kind, script, memo, kn, index, scanned, landed>>

(* A run that skips extraction lands the memo as the summary.              *)
Enclose ==
    /\ arun.pc = "memo"
    /\ \/ arun.memo = 0 /\ arun' = Goto("marker") /\ UNCHANGED <<dirs, mishaps>>
       \/ /\ arun.memo # 0
          /\ WriteHome([Mine EXCEPT !.sum = arun.memo],
                      [Goto("marker") EXCEPT !.ok = TRUE], Warned("marker"))
    /\ UNCHANGED <<kind, script, memo, kn, index, scanned, landed>>

(* What parse_extraction can find in an answer: a summary or none, entries,*)
(* none, or only some that do not parse, and a new title or the old one.   *)
Answers == [gist : BOOLEAN, titled : BOOLEAN, entries : {"some", "none", "broken"}]

(* The extractor fails, or answers. A new title replaces the folder again. *)
Extract ==
    /\ arun.pc = "extract"
    /\ \/ arun.left > 1 /\ arun' = [arun EXCEPT !.left = @ - 1]
       \/ arun.left = 1 /\ arun' = Warned("restore")
       \/ \E a \in Answers, name \in Names :
            /\ ~ a.titled => name = arun.name
            /\ arun' = [Goto(IF a.titled THEN "build" ELSE "summary") EXCEPT
                          !.again = a.titled, !.gist = a.gist, !.entries = a.entries, !.name = name]
    /\ UNCHANGED <<kind, script, memo, dirs, kn, index, scanned, mishaps, landed>>

Summarise ==
    /\ arun.pc = "summary"
    /\ \/ ~ arun.gist /\ arun' = Goto("remove") /\ UNCHANGED <<dirs, mishaps>>
       \/ arun.gist /\ WriteHome([Mine EXCEPT !.sum = arun.v],
                                [Goto("remove") EXCEPT !.ok = TRUE], Warned("remove"))
    /\ UNCHANGED <<kind, script, memo, kn, index, scanned, landed>>

(* write_knowledge: the entries of the session are removed, the new ones   *)
(* written, and the index rebuilt from what is on disk. An answer whose    *)
(* entries did not parse touches nothing.                                  *)
RemoveEntries ==
    /\ arun.pc = "remove"
    /\ \/ arun.entries = "broken" /\ arun' = Warned("restore") /\ UNCHANGED <<kn, mishaps>>
       \/ /\ arun.entries # "broken"
          /\ \/ kn' = None0 /\ arun' = Goto("write") /\ UNCHANGED mishaps
             \/ Mishap(1) /\ arun' = Warned("restore") /\ kn' \in {kn, None0}
    /\ UNCHANGED <<kind, script, memo, dirs, index, scanned, landed>>

WriteEntries ==
    /\ arun.pc = "write"
    /\ \/ kn' = [of |-> arun.v, n |-> arun.entries] /\ arun' = Goto("index") /\ UNCHANGED mishaps
       \/ Mishap(1) /\ arun' = Warned("restore") /\ kn' \in {kn, [of |-> arun.v, n |-> "part"]}
    /\ UNCHANGED <<kind, script, memo, dirs, index, scanned, landed>>

RebuildIndex ==
    /\ arun.pc = "index"
    /\ \/ index' = kn /\ arun' = Goto("restore") /\ UNCHANGED mishaps
       \/ Mishap(1) /\ arun' = Warned("restore") /\ UNCHANGED index
    /\ UNCHANGED <<kind, script, memo, dirs, kn, scanned, landed>>

(* No fresh summary: the last good one is written again, and the run       *)
(* counts as incomplete.                                                   *)
Restore ==
    /\ arun.pc = "restore"
    /\ \/ (arun.ok \/ arun.prev = 0) /\ arun' = Goto("marker") /\ UNCHANGED <<dirs, mishaps>>
       \/ /\ ~ arun.ok /\ arun.prev # 0
          /\ WriteHome([Mine EXCEPT !.sum = arun.prev],
                      [Warned("marker") EXCEPT !.ok = TRUE], Warned("marker"))
    /\ UNCHANGED <<kind, script, memo, kn, index, scanned, landed>>

(* The marker is for a run without a warning, and the run ends.            *)
Marker == IF arun.err \/ (kind = "work" /\ ~ arun.ok) THEN ""
          ELSE IF kind = "prompt" THEN "skipped" ELSE "ok"

Mark ==
    /\ arun.pc = "marker"
    /\ \/ Marker = "" /\ arun' = IdleRun /\ UNCHANGED <<dirs, mishaps>>
       \/ Marker # "" /\ WriteHome([Mine EXCEPT !.mark = Marker], IdleRun, IdleRun)
    /\ UNCHANGED <<kind, script, memo, kn, index, scanned, landed>>

(* The application stops in the middle of a run.                           *)
Crash ==
    /\ arun.pc # "idle" /\ Mishap(1) /\ arun' = IdleRun /\ scanned' = 0
    /\ UNCHANGED <<kind, script, memo, dirs, kn, index, landed>>

----------------------------------------------------------------------------
(* backfill_meta: a folder whose meta lacks the snapshot fields is found   *)
(* without the lock, and rewritten under it from its own transcript, if    *)
(* the meta read again there still lacks them.                             *)

FindOldMeta ==
    /\ scanned = 0 /\ \E d \in Tops : d.meta = 0 /\ scanned' = d.name
    /\ UNCHANGED <<kind, script, memo, dirs, kn, index, arun, mishaps, landed>>

WithMeta(d) == IF d.place = "top" /\ d.name = scanned /\ d.meta = 0 THEN [d EXCEPT !.meta = d.v] ELSE d

FillMeta ==
    /\ scanned # 0 /\ ~ Locked
    /\ scanned' = 0
    /\ \/ dirs' = {WithMeta(d) : d \in dirs} /\ UNCHANGED mishaps
       \/ Mishap(1) /\ UNCHANGED dirs
    /\ UNCHANGED <<kind, script, memo, kn, index, arun, landed>>

----------------------------------------------------------------------------
Pipeline == \/ Build \/ Displace \/ Land \/ Resolve \/ Keep \/ Enclose \/ Extract \/ Summarise
            \/ RemoveEntries \/ WriteEntries \/ RebuildIndex \/ Restore \/ Mark

ArNext == \/ Grow \/ EditMemo
          \/ Archive \/ Backfill
          \/ Pipeline \/ Crash \/ FindOldMeta \/ FillMeta

ArSpec == ArInit /\ [][ArNext]_arVars

----------------------------------------------------------------------------
Knowledge == [of : Versions, n : {"none", "some", "part", "broken"}]
Folders == [place : {"top", "old"}, name : 0 .. MaxNames, v : Versions \ {0}, meta : Versions,
            sum : Summaries, mark : {"", "ok", "skipped"}, hist : SUBSET Versions,
            told : 0 .. MaxMemo, missed : BOOLEAN]

(* The types of the state. Names are of one directory: two visible folders *)
(* differ in theirs.                                                       *)
ArTypeOK ==
    /\ kind \in {"work", "prompt"} /\ script \in Versions /\ memo \in 0 .. MaxMemo
    /\ dirs \subseteq Folders /\ kn \in Knowledge /\ index \in Knowledge
    /\ scanned \in 0 .. MaxNames /\ mishaps \in 0 .. MaxMishaps /\ landed \subseteq Versions
    /\ arun.v \in Versions /\ arun.prev \in Summaries /\ arun.todo \subseteq Folders
    /\ \A d, e \in Tops : d.name = e.name => d = e

\* What the browser offers: the visible content and the versions under it.
Shown == {d.v : d \in Tops} \cup UNION {d.hist : d \in Tops}

(* A version of the transcript that was once the visible archive is never  *)
(* lost, whatever fails and wherever the application stops: it is the      *)
(* visible one, a kept version, or in a folder the next run takes in       *)
(* (write_archive, archive.rs 530-638).                                    *)
VersionsKept == landed \subseteq {d.v : d \in dirs} \cup UNION {d.hist : d \in dirs}

(* A session shows one archive. Two are visible only where a search could  *)
(* not read one of them, and a folder that was read is not left beside its *)
(* successor, whatever else fails (write_archive, archive.rs 504-580).     *)
OneVisible == \A d, e \in Tops : d = e \/ d.missed \/ e.missed

(* A marker is earned: an archive marked complete has the summary of the   *)
(* very content it copied, and, unless a run has passed it over since, its *)
(* knowledge, listed in the index; one whose extraction was skipped has    *)
(* the memo it was given (archive.rs 806-827).                             *)
MarkerIsEarned ==
    \A d \in Tops :
        /\ d.mark = "ok" => d.sum = d.v
        /\ d.mark = "ok" /\ ~ d.missed => kn.of = d.v /\ kn.n \in {"some", "none"} /\ index = kn
        /\ d.mark = "skipped" /\ d.told # 0 => d.sum = d.told

(* The meta of an archive describes the transcript next to it, also when   *)
(* the back-fill found the folder before a run replaced it (archive.rs     *)
(* 60-64, 746-763).                                                        *)
MetaIsOfContent == \A d \in dirs : d.meta \in {0, d.v}

RunEnds == arun.pc = "marker" /\ arun'.pc = "idle"

(* A run in which nothing failed takes in whatever earlier runs left: when *)
(* it ends there is one folder, of the content it read, and every version  *)
(* that was ever visible is in it or in its history.                       *)
RunTakesInLeftovers ==
    [][RunEnds /\ mishaps' = arun.fuel =>
         /\ \A d \in dirs' : d.place = "top" /\ d.v = arun.v
         /\ landed' \subseteq Shown']_arVars

(* A run of a work session in which no file operation failed does not lose *)
(* the summary of the archive it found, even if the extraction failed or   *)
(* had none after the folder was replaced twice (archive.rs 1076-1082,     *)
(* 1187-1197). Of a prompt draft nothing is said: its comments want no     *)
(* summary where there is no memo, and the code leaves the one before.     *)
LastGoodKept ==
    [][kind = "work" /\ RunEnds /\ mishaps' = arun.fuel /\ arun.prev # 0 =>
         \A d \in dirs' : d.sum # 0]_arVars

(* Whatever fails, what was archived is kept and says what it is, and a    *)
(* run in which nothing fails repairs what failed runs left.               *)
ArchiveIsKept ==
    /\ [](VersionsKept /\ OneVisible /\ MarkerIsEarned /\ MetaIsOfContent)
    /\ RunTakesInLeftovers /\ LastGoodKept
=============================================================================
