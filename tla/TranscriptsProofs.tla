-------------------------- MODULE TranscriptsProofs -------------------------
(***************************************************************************)
(* What the desktop backend reads from transcripts, for any number of      *)
(* tabs, calls, files and records.                                         *)
(* A Codex tab shows its own transcript: the inductive invariant CxInv     *)
(* says what a transcript tells of the tab that owns it, what a poll that  *)
(* is judging holds in its hands, and what was read of the transcript that *)
(* was found.                                                              *)
(* A timeline is what its transcript says: the mapper of the Claude        *)
(* transcripts is the one mapping of the complete lines that were read     *)
(* (LogInv), the parse of a Codex rollout that of some shorter transcript  *)
(* (RolloutInv), and what either mapping tells of the records it has read  *)
(* is said record by record (Told, Story).                                 *)
(* The last part is the composition that the run checks.                   *)
(***************************************************************************)
EXTENDS MCTranscripts, ArchiveRunProofs, SequenceTheorems, WellFoundedInduction

Dirs == {DirOf[t] : t \in Tabs}
File ==
  [owner : Tabs \cup {"user"}, dir : Dirs, at : Nat, mark : BOOLEAN, worker : BOOLEAN,
   first : BOOLEAN, n : Nat, there : BOOLEAN]
Time == Nat \cup {NoTime}
PageRec == [sig : Nat, n : Nat]

TuiRec == [st : {"none", "live", "dead", "closed"}, opened : Time, file : Nat]
TabRec == [at : Time, res : Nat, last : Int, fin : BOOLEAN, cache : PageRec]
PollRec ==
  [pc : {"idle", "judge", "sign", "parse"}, alive : BOOLEAN, now : Nat, cands : SUBSET Nat,
   sig : Nat]

TabsTyped ==
  /\ now \in 0..MaxTime /\ files \in Seq(File) /\ Len(files) <= MaxFiles
  /\ tui \in [Tabs -> TuiRec] /\ tab \in [Tabs -> TabRec] /\ polls \in [Tabs -> PollRec]
  /\ shown \in [Tabs -> PageRec]

Owns(t, f) == f \in DOMAIN files /\ files[f].owner = t

(* What a tab's process, entry and poll have to do with each other.          *)
Lives(t) ==
  /\ tui[t].st = "none" => tab[t].at = NoTime
  /\ tab[t].at = NoTime => tui[t].st = "none"
  /\ tab[t].at <= now
  /\ tui[t].opened # NoTime => tab[t].at # NoTime
  /\ tui[t].file # 0 => Owns(t, tui[t].file)
  /\ tab[t].fin => tui[t].st \in {"dead", "closed"}
  /\ tab[t].res \in 0..Len(files)
  /\ tab[t].res = 0 => tab[t].cache = NoPage /\ shown[t] = NoPage
  /\ polls[t].pc \in {"sign", "parse"} => tab[t].res # 0
  /\ polls[t].cands \subseteq DOMAIN files

Judging(t) ==
  polls[t].pc = "judge" =>
    /\ tab[t].res = 0 /\ ~tab[t].fin /\ tui[t].st \in {"live", "dead"}
    /\ \A f \in polls[t].cands : files[f].mark /\ AppSpawnable(f)
    /\ ~polls[t].alive => /\ tui[t].st = "dead"
                          /\ \A f \in DOMAIN files : Owns(t, f) /\ files[f].there
                                                     => f \in polls[t].cands

(* A tab's first conversation was opened in time, and there is one.          *)
InTime(t, at) == tab[t].at <= at /\ at <= tab[t].at + Delay
Firsts(t) ==
  /\ (\A f \in DOMAIN files : ~Owns(t, f)) /\ tui[t].opened # NoTime
       => InTime(t, tui[t].opened)
  /\ \A f, g \in DOMAIN files :
       Owns(t, f) /\ Owns(t, g) /\ files[f].first /\ files[g].first => f = g

Made(f) ==
  LET o == files[f].owner IN
  /\ o \in Tabs => /\ files[f].mark /\ AppSpawnable(f) /\ files[f].dir = DirOf[o]
                   /\ tab[o].at # NoTime
                   /\ files[f].first => InTime(o, files[f].at)
  /\ o \notin Tabs /\ files[f].mark => files[f].worker

(* What was found for a tab, and what was read of it.                        *)
Reads(t) ==
  LET r == tab[t].res IN
  r # 0 => /\ Covers(t, r)
           /\ shown[t].sig <= shown[t].n /\ shown[t].n <= files[r].n
           /\ tab[t].cache.sig <= tab[t].cache.n /\ tab[t].cache.n <= files[r].n
           /\ polls[t].pc = "parse" => polls[t].sig <= files[r].n

(* The one transcript a tab that ended could take, and that no other tab     *)
(* competes for: the last look took it.                                      *)
TabAlone(t, f) ==
  /\ Owns(t, f) /\ files[f].there /\ Covers(t, f)
  /\ \A g \in DOMAIN files : files[g].mark /\ AppSpawnable(g) /\ Covers(t, g) => g = f
  /\ \A s \in Tabs \ {t} : ~Covers(s, f)

LastLook(t) ==
  tab[t].fin /\ tui[t].st = "dead" => \A f \in DOMAIN files : TabAlone(t, f) => tab[t].res = f

AllLive == \A t \in Tabs : Lives(t)
AllJudging == \A t \in Tabs : Judging(t)
AllFirsts == \A t \in Tabs : Firsts(t)
AllMade == \A f \in DOMAIN files : Made(f)
AllReads == \A t \in Tabs : Reads(t)
AllLastLooks == \A t \in Tabs : LastLook(t)

CxInv ==
  /\ TabsTyped /\ AllLive /\ AllJudging /\ AllFirsts /\ AllMade /\ AllReads /\ OwnTranscript
  /\ AllLastLooks

-----------------------------------------------------------------------------
(* Types.                                                                  *)

USE DEF TuiRec, TabRec, PollRec

LEMMA CxTypedInit == CxInit => TabsTyped
<1> SUFFICES ASSUME CxInit PROVE TabsTyped
  OBVIOUS
<1> USE CodexAssumption DEF CxInit, TabsTyped
<1>1. files \in Seq(File) /\ Len(files) = 0
  BY EmptySeq
<1>2. tui \in [Tabs -> TuiRec]
  BY DEF Time, NoTime
<1>3. tab \in [Tabs -> TabRec]
  BY DEF Time, NoTime, Fresh0, NoPage, PageRec
<1>4. polls \in [Tabs -> PollRec]
  BY DEF NoLook
<1>5. shown \in [Tabs -> PageRec]
  BY DEF NoPage, PageRec
<1> QED
  BY <1>1, <1>2, <1>3, <1>4, <1>5

(* A new transcript is a file, and the ones before it stay as they are.     *)
LEMMA NewFile ==
  ASSUME TabsTyped, NEW t \in Tabs, NEW o \in Tabs \cup {"user"}, NEW at \in Nat
  PROVE  Transcript(o, DirOf[t], at) \in File
<1>1. DirOf[t] \in Dirs
  BY DEF Dirs
<1> QED
  BY <1>1 DEF Transcript, File

LEMMA Appended ==
  ASSUME TabsTyped, NEW e \in File, files' = Append(files, e), Len(files) < MaxFiles
  PROVE  /\ files' \in Seq(File) /\ Len(files') = Len(files) + 1 /\ Len(files') <= MaxFiles
         /\ DOMAIN files' = DOMAIN files \cup {Len(files')} /\ Len(files') \notin DOMAIN files
         /\ \A f \in DOMAIN files : files'[f] = files[f]
         /\ files'[Len(files')] = e
<1>1. files \in Seq(File) /\ Len(files) \in Nat /\ DOMAIN files = 1..Len(files)
  BY LenProperties DEF TabsTyped
<1>2. /\ files' \in Seq(File) /\ Len(files') = Len(files) + 1
      /\ \A i \in 1..Len(files) : files'[i] = files[i]
      /\ files'[Len(files) + 1] = e
  BY <1>1, AppendProperties
<1>3. DOMAIN files' = 1..Len(files')
  BY <1>2, LenProperties
<1>4. MaxFiles \in Nat
  BY CodexAssumption
<1> QED
  BY <1>1, <1>2, <1>3, <1>4

(* What a step does to the transcripts: nothing, a record more, one that     *)
(* vanishes, or a new one at the end.                                       *)
TabSame ==
  \A f \in DOMAIN files :
    /\ files'[f].owner = files[f].owner /\ files'[f].dir = files[f].dir
    /\ files'[f].at = files[f].at /\ files'[f].mark = files[f].mark
    /\ files'[f].worker = files[f].worker /\ files'[f].first = files[f].first
    /\ files[f].n <= files'[f].n /\ (files'[f].there => files[f].there)

TabKept == DOMAIN files \subseteq DOMAIN files' /\ TabSame

Adds(e) ==
  /\ e \in File /\ DOMAIN files' = DOMAIN files \cup {Len(files')}
  /\ Len(files') \notin DOMAIN files /\ Len(files') = Len(files) + 1
  /\ files'[Len(files')] = e

NoNew == DOMAIN files' = DOMAIN files /\ Len(files') = Len(files)

LEMMA Unwritten == ASSUME TabsTyped, files' = files PROVE TabKept /\ NoNew
<1>1. \A f \in DOMAIN files : files[f] \in File
  BY ElementOfSeq, LenProperties DEF TabsTyped
<1>2. \A f \in DOMAIN files : files[f].n <= files[f].n
  BY <1>1 DEF File
<1> QED BY <1>2 DEF TabKept, TabSame, NoNew

LEMMA FileAt == ASSUME TabsTyped, NEW f \in DOMAIN files PROVE files[f] \in File /\ f \in 1..Len(files)
BY ElementOfSeq, LenProperties DEF TabsTyped

LEMMA AppendKeeps ==
  ASSUME TabsTyped, NEW e \in File, files' = Append(files, e), Len(files) < MaxFiles
  PROVE  TabKept /\ Adds(e) /\ files' \in Seq(File) /\ Len(files') <= MaxFiles
<1>1. \A f \in DOMAIN files : files'[f] = files[f] /\ files[f].n <= files[f].n
  BY Appended, FileAt DEF File
<1> QED BY <1>1, Appended DEF TabKept, TabSame, Adds

(* One transcript is written to, or gone.                                   *)
LEMMA ChangeKeeps ==
  ASSUME TabsTyped, NEW f \in DOMAIN files, NEW g \in File, files' = [files EXCEPT ![f] = g],
         g.owner = files[f].owner, g.dir = files[f].dir, g.at = files[f].at,
         g.mark = files[f].mark, g.worker = files[f].worker, g.first = files[f].first,
         files[f].n <= g.n, g.there => files[f].there
  PROVE  TabKept /\ NoNew /\ files' \in Seq(File)
<1>1. files \in Seq(File) /\ f \in 1..Len(files) /\ Len(files) \in Nat
      /\ DOMAIN files = 1..Len(files)
  BY LenProperties, FileAt DEF TabsTyped
<1>2. files' \in Seq(File) /\ Len(files') = Len(files) /\ DOMAIN files' = DOMAIN files
  BY <1>1, ExceptSeq, LenProperties
<1>3. \A h \in DOMAIN files : files'[h] = IF h = f THEN g ELSE files[h]
  BY <1>1
<1>4. \A h \in DOMAIN files : files[h].n <= files[h].n
  BY FileAt DEF File
<1> QED BY <1>2, <1>3, <1>4 DEF TabKept, TabSame, NoNew

(* The record a tab writes: into its transcript, or the first of a new one. *)
LEMMA MessageFiles ==
  ASSUME TabsTyped, NEW t \in Tabs, Message(t), Lives(t)
  PROVE  /\ TabKept /\ files' \in Seq(File) /\ Len(files') <= MaxFiles
         /\ \/ /\ tui[t].file = 0 /\ tui' = [tui EXCEPT ![t].file = Len(files')]
               /\ Adds(Transcript(t, DirOf[t], tui[t].opened))
            \/ tui[t].file # 0 /\ tui' = tui /\ NoNew
<1>1. CASE tui[t].file = 0
  <2>1. tui[t].opened \in Nat
    BY DEF Message, TabsTyped, Time
  <2>2. Transcript(t, DirOf[t], tui[t].opened) \in File
    BY <2>1, NewFile
  <2> QED BY <1>1, <2>2, AppendKeeps DEF Message
<1>2. CASE tui[t].file # 0
  <2>1. PICK f : f = tui[t].file
    OBVIOUS
  <2>2. f \in DOMAIN files
    BY <1>2, <2>1 DEF Lives, Owns
  <2>3. files[f] \in File
    BY <2>2, FileAt
  <2>4. PICK g : g = [files[f] EXCEPT !.n = @ + 1]
    OBVIOUS
  <2>5. /\ g \in File /\ g.n = files[f].n + 1 /\ g.owner = files[f].owner
        /\ g.dir = files[f].dir /\ g.at = files[f].at /\ g.mark = files[f].mark
        /\ g.worker = files[f].worker /\ g.first = files[f].first
        /\ g.there = files[f].there
    BY <2>3, <2>4 DEF File
  <2>6. files[f].n <= g.n
    BY <2>3, <2>5 DEF File
  <2>7. files' = [files EXCEPT ![f] = g] /\ tui' = tui
    BY <1>2, <2>1, <2>4 DEF Message
  <2>8. TabKept /\ NoNew /\ files' \in Seq(File)
    BY <2>2, <2>5, <2>6, <2>7, ChangeKeeps
  <2> QED BY <1>2, <2>7, <2>8 DEF NoNew, TabsTyped
<1> QED BY <1>1, <1>2

LEMMA ForeignFiles ==
  ASSUME TabsTyped, NEW t \in Tabs, Foreigner(DirOf[t])
  PROVE  /\ TabKept /\ files' \in Seq(File) /\ Len(files') <= MaxFiles
         /\ \E e \in File : /\ Adds(e) /\ e.owner = "user" /\ (e.mark => e.worker)
<1>1. PICK w \in BOOLEAN :
        files' = Append(files, [Transcript("user", DirOf[t], now) EXCEPT !.mark = w, !.worker = w])
  BY DEF Foreigner
<1>2. PICK e : e = [Transcript("user", DirOf[t], now) EXCEPT !.mark = w, !.worker = w]
  OBVIOUS
<1>3. Transcript("user", DirOf[t], now) \in File
  <2>1. now \in Nat
    BY CodexAssumption DEF TabsTyped
  <2> QED BY <2>1, NewFile
<1>4. e \in File /\ e.owner = "user" /\ e.mark = w /\ e.worker = w
  BY <1>2, <1>3 DEF File, Transcript
<1>5. Len(files) < MaxFiles
  BY DEF Foreigner
<1>6. TabKept /\ Adds(e) /\ files' \in Seq(File) /\ Len(files') <= MaxFiles
  BY <1>1, <1>2, <1>4, <1>5, AppendKeeps
<1> QED BY <1>4, <1>6

LEMMA VanishFiles ==
  ASSUME TabsTyped, NEW f \in DOMAIN files, Vanishes(f)
  PROVE  TabKept /\ NoNew /\ files' \in Seq(File)
<1>1. files[f] \in File
  BY FileAt
<1>2. PICK g : g = [files[f] EXCEPT !.there = FALSE]
  OBVIOUS
<1>3. /\ g \in File /\ g.n = files[f].n /\ g.owner = files[f].owner
      /\ g.dir = files[f].dir /\ g.at = files[f].at /\ g.mark = files[f].mark
      /\ g.worker = files[f].worker /\ g.first = files[f].first /\ ~g.there
  BY <1>1, <1>2 DEF File
<1>4. files[f].n <= g.n
  BY <1>1, <1>3 DEF File
<1>5. files' = [files EXCEPT ![f] = g]
  BY <1>2 DEF Vanishes
<1> QED BY <1>3, <1>4, <1>5, ChangeKeeps

(* What a step is to the transcripts.                                       *)
LEMMA FilesStep ==
  ASSUME TabsTyped, AllLive, CxNext
  PROVE  /\ TabKept /\ files' \in Seq(File) /\ Len(files') <= MaxFiles
         /\ \/ NoNew
            \/ \E t \in Tabs : /\ Message(t) /\ tui[t].file = 0
                               /\ tui' = [tui EXCEPT ![t].file = Len(files')]
                               /\ Adds(Transcript(t, DirOf[t], tui[t].opened))
            \/ /\ UNCHANGED <<now, tui, tab, polls, shown>>
               /\ \E e \in File : Adds(e) /\ e.owner = "user" /\ (e.mark => e.worker)
<1>1. CASE files' = files
  BY <1>1, Unwritten DEF TabsTyped
<1>2. ASSUME NEW t \in Tabs, Message(t)
      PROVE  /\ TabKept /\ files' \in Seq(File) /\ Len(files') <= MaxFiles
             /\ \/ NoNew
                \/ /\ tui[t].file = 0 /\ tui' = [tui EXCEPT ![t].file = Len(files')]
                   /\ Adds(Transcript(t, DirOf[t], tui[t].opened))
  BY <1>2, MessageFiles DEF AllLive
<1>3. ASSUME NEW t \in Tabs, Foreigner(DirOf[t])
      PROVE  /\ TabKept /\ files' \in Seq(File) /\ Len(files') <= MaxFiles
             /\ UNCHANGED <<now, tui, tab, polls, shown>>
             /\ \E e \in File : Adds(e) /\ e.owner = "user" /\ (e.mark => e.worker)
  <2>1. UNCHANGED <<now, tui, tab, polls, shown>>
    BY <1>3 DEF Foreigner
  <2> QED BY <1>3, <2>1, ForeignFiles
<1>4. ASSUME NEW f \in DOMAIN files, Vanishes(f)
      PROVE  TabKept /\ files' \in Seq(File) /\ Len(files') <= MaxFiles /\ NoNew
  BY <1>4, VanishFiles DEF NoNew, TabsTyped
<1>5. \/ files' = files
      \/ \E t \in Tabs : Message(t) \/ Foreigner(DirOf[t])
      \/ \E f \in DOMAIN files : Vanishes(f)
  BY DEF CxNext, Passes, CodexCreate, Opens, Renewed, Dies, Release, Look, Judge, Sign, Parse,
         ViewReopens
<1> QED BY <1>1, <1>2, <1>3, <1>4, <1>5

LEMMA Numbers ==
  ASSUME TabsTyped
  PROVE  now \in Nat /\ now \in Time /\ Len(files) \in Nat /\ DOMAIN files \subseteq Nat
<1>1. Len(files) \in Nat /\ DOMAIN files = 1..Len(files)
  BY LenProperties DEF TabsTyped
<1> QED BY <1>1, CodexAssumption DEF TabsTyped, Time

LEMMA TuiTyped ==
  ASSUME TabsTyped, AllLive, CxNext
  PROVE  tui' \in [Tabs -> TuiRec]
<1>1. now \in Time /\ tui \in [Tabs -> TuiRec]
  BY Numbers DEF TabsTyped
<1>2. CASE tui' = tui
  BY <1>1, <1>2
<1>3. ASSUME NEW t \in Tabs, CodexCreate(t) \/ Dies(t) \/ Release(t) \/ Opens(t) \/ Renewed(t)
      PROVE  tui' \in [Tabs -> TuiRec]
  <2>1. CASE CodexCreate(t)
    BY <1>1, <2>1 DEF CodexCreate
  <2>2. CASE Dies(t)
    BY <1>1, <2>2 DEF Dies
  <2>3. CASE Release(t)
    BY <1>1, <2>3 DEF Release
  <2>4. CASE Opens(t)
    BY <1>1, <2>4 DEF Opens
  <2>5. CASE Renewed(t)
    BY <1>1, <2>5 DEF Renewed
  <2> QED BY <1>3, <2>1, <2>2, <2>3, <2>4, <2>5
<1>4. ASSUME NEW t \in Tabs, Message(t), tui' # tui PROVE tui' \in [Tabs -> TuiRec]
  <2>1. files' \in Seq(File) /\ tui' = [tui EXCEPT ![t].file = Len(files')]
    BY <1>4, MessageFiles DEF AllLive
  <2>2. Len(files') \in Nat
    BY <2>1, LenProperties
  <2> QED BY <1>1, <2>1, <2>2
<1> QED
  BY <1>2, <1>3, <1>4 DEF CxNext, Passes, Foreigner, Vanishes, Look, Judge, Sign, Parse, ViewReopens

(* The candidates of a look are transcripts, and a match is one of them.    *)
LEMMA CandidatesAre ==
  Candidates = {f \in DOMAIN files : files[f].there /\ AppSpawnable(f) /\ files[f].mark}
BY DEF Candidates, Marked

LEMMA LookIs ==
  ASSUME TabsTyped, NEW t \in Tabs, Look(t)
  PROVE  /\ UNCHANGED <<now, files, tui, tab, shown>>
         /\ tui[t].st \in {"live", "dead"} /\ polls[t].pc = "idle"
         /\ \E x \in PollRec :
              /\ polls' = [polls EXCEPT ![t] = x] /\ x.pc \in {"sign", "judge"}
              /\ x.alive = (tui[t].st = "live") /\ x.cands \subseteq DOMAIN files
              /\ x.pc = "sign" => tab[t].res # 0
              /\ x.pc = "judge" => /\ tab[t].res = 0 /\ x.cands = Candidates
                                   /\ ShouldScan(x.alive, tab[t])
<1>1. PICK v \in BOOLEAN : v = (tui[t].st = "live")
  OBVIOUS
<1>2. now \in Nat /\ DOMAIN files \subseteq Nat 
      /\ Candidates \subseteq DOMAIN files /\ Candidates \in SUBSET Nat
  BY Numbers, CandidatesAre
<1>3. CASE /\ tab[t].res # 0
           /\ polls' = [polls EXCEPT ![t] =
                [NoLook EXCEPT !.pc = "sign", !.alive = v, !.now = now, !.cands = {}]]
  <2>1. PICK x : x = [NoLook EXCEPT !.pc = "sign", !.alive = v, !.now = now, !.cands = {}]
    OBVIOUS
  <2>2. x \in PollRec /\ x.pc = "sign" /\ x.alive = v /\ x.cands = {}
    BY <1>2, <2>1 DEF NoLook
  <2>3. polls' = [polls EXCEPT ![t] = x]
    BY <1>3, <2>1
  <2> QED BY <1>1, <1>3, <2>2, <2>3 DEF Look
<1>4. CASE /\ tab[t].res = 0 /\ ShouldScan(v, tab[t])
           /\ polls' = [polls EXCEPT ![t] =
                [NoLook EXCEPT !.pc = "judge", !.alive = v, !.now = now, !.cands = Candidates]]
  <2>1. PICK x : x = [NoLook EXCEPT !.pc = "judge", !.alive = v, !.now = now, !.cands = Candidates]
    OBVIOUS
  <2>2. x \in PollRec /\ x.pc = "judge" /\ x.alive = v /\ x.cands = Candidates
    BY <1>2, <2>1 DEF NoLook
  <2>3. polls' = [polls EXCEPT ![t] = x]
    BY <1>4, <2>1
  <2>4. x.cands \subseteq DOMAIN files
    BY <1>2, <2>2
  <2>5. x.alive = (tui[t].st = "live") /\ ShouldScan(x.alive, tab[t])
    BY <1>1, <1>4, <2>2
  <2>6. UNCHANGED <<now, files, tui, tab, shown>> /\ polls[t].pc = "idle"
        /\ tui[t].st \in {"live", "dead"}
    BY DEF Look
  <2> HIDE <1>1
  <2> QED BY <1>4, <2>2, <2>3, <2>4, <2>5, <2>6
<1> QED BY <1>1, <1>3, <1>4 DEF Look

(* The entry of a tab that was judged: what it found, if anything.          *)
LEMMA JudgeIs ==
  ASSUME TabsTyped, NEW t \in Tabs, Judge(t)
  PROVE  /\ UNCHANGED <<now, files, tui, shown>> /\ polls[t].pc = "judge"
         /\ \E r \in Nat, g \in BOOLEAN :
              /\ tab' = [tab EXCEPT ![t] = [at |-> tab[t].at, res |-> r, last |-> polls[t].now,
                                            fin |-> g, cache |-> tab[t].cache]]
              /\ g = (tab[t].fin \/ ~polls[t].alive)
              /\ \/ /\ Cardinality(MatchRollout(t)) = 1
                    /\ r = CHOOSE f \in MatchRollout(t) : TRUE
                    /\ r \in MatchRollout(t)
                    /\ polls' = [polls EXCEPT ![t].pc = "sign", ![t].cands = {}]
                 \/ /\ Cardinality(MatchRollout(t)) # 1 /\ r = tab[t].res
                    /\ polls' = [polls EXCEPT ![t] = NoLook]
<1>1. PICK me : me = tab[t]
  OBVIOUS
<1>2. me \in TabRec
  BY <1>1 DEF TabsTyped
<1>3. PICK g \in BOOLEAN : g = (tab[t].fin \/ ~polls[t].alive)
  OBVIOUS
<1>4. PICK l : l = Looked(tab[t], polls[t])
  OBVIOUS
<1>5. l = [at |-> me.at, res |-> me.res, last |-> polls[t].now, fin |-> g, cache |-> me.cache]
  <2>1. polls[t].alive \in BOOLEAN
    BY DEF TabsTyped
  <2> QED BY <1>1, <1>2, <1>3, <1>4, <2>1 DEF Looked
<1>6. PICK free : free = MatchRollout(t)
  OBVIOUS
<1>7. free \subseteq Nat
  BY <1>6 DEF MatchRollout, TabsTyped
<1>0. UNCHANGED <<now, files, tui, shown>> /\ polls[t].pc = "judge"
  BY DEF Judge
<1>8. CASE /\ Cardinality(free) = 1
           /\ tab' = [tab EXCEPT ![t] = [l EXCEPT !.res = CHOOSE f \in free : TRUE]]
           /\ polls' = [polls EXCEPT ![t].pc = "sign", ![t].cands = {}]
  <2>1. free # {}
    <3>1. Cardinality({}) = 0
      BY FS_EmptySet
    <3> QED BY ONLY <1>8, <3>1
  <2>2. PICK r : r = CHOOSE f \in free : TRUE
    OBVIOUS
  <2>3. r \in free /\ r \in Nat
    BY <1>7, <2>1, <2>2
  <2>4. [l EXCEPT !.res = r] = [at |-> me.at, res |-> r, last |-> polls[t].now, fin |-> g,
                                cache |-> me.cache]
    BY <1>5
  <2>5. tab' = [tab EXCEPT ![t] = [at |-> tab[t].at, res |-> r, last |-> polls[t].now,
                                   fin |-> g, cache |-> tab[t].cache]]
    BY <1>1, <1>8, <2>2, <2>4
  <2>6. /\ Cardinality(MatchRollout(t)) = 1
        /\ r = CHOOSE f \in MatchRollout(t) : TRUE
        /\ r \in MatchRollout(t)
        /\ polls' = [polls EXCEPT ![t].pc = "sign", ![t].cands = {}]
    BY <1>6, <1>8, <2>2, <2>3
  <2> QED BY <1>0, <1>3, <2>3, <2>5, <2>6
<1>9. CASE /\ Cardinality(free) # 1 /\ tab' = [tab EXCEPT ![t] = l]
           /\ polls' = [polls EXCEPT ![t] = NoLook]
  <2>1. tab' = [tab EXCEPT ![t] = [at |-> tab[t].at, res |-> tab[t].res, last |-> polls[t].now,
                                   fin |-> g, cache |-> tab[t].cache]]
    BY <1>1, <1>5, <1>9
  <2>2. tab[t].res \in Nat
    BY DEF TabsTyped
  <2>3. Cardinality(MatchRollout(t)) # 1 /\ polls' = [polls EXCEPT ![t] = NoLook]
    BY <1>6, <1>9
  <2>4. PICK r \in Nat : r = tab[t].res
    BY <2>2
  <2> QED BY <1>0, <1>3, <2>1, <2>3, <2>4
<1> QED BY <1>4, <1>6, <1>8, <1>9 DEF Judge

(* What the signature of the transcript tells a poll, and what it reads.    *)
LEMMA ReadHere ==
  ASSUME TabsTyped, NEW t \in Tabs, Lives(t), polls[t].pc \in {"sign", "parse"}
  PROVE  tab[t].res \in DOMAIN files /\ files[tab[t].res].n \in Nat
<1>1. tab[t].res \in DOMAIN files
  BY Numbers, LenProperties DEF Lives, TabsTyped
<1> QED BY <1>1, FileAt DEF File

LEMMA SignIs ==
  ASSUME TabsTyped, NEW t \in Tabs, Lives(t), Sign(t)
  PROVE  /\ UNCHANGED <<now, files, tui, tab>> /\ polls[t].pc = "sign"
         /\ \E x \in PollRec :
              /\ polls' = [polls EXCEPT ![t] = x] /\ x.pc \in {"parse", "idle"}
              /\ x.cands \subseteq polls[t].cands
              /\ x.pc = "parse" => x.sig = files[tab[t].res].n
         /\ shown' = shown \/ shown' = [shown EXCEPT ![t] = tab[t].cache]
<1>1. PICK sig : sig = files[tab[t].res].n
  OBVIOUS
<1>2. CASE /\ files[tab[t].res].there /\ sig \notin {shown[t].sig, tab[t].cache.sig}
           /\ polls' = [polls EXCEPT ![t].pc = "parse", ![t].sig = sig]
  <2>1. sig \in Nat
    BY <1>1, ReadHere DEF Sign
  <2>2. PICK l : l = polls[t]
    OBVIOUS
  <2>3. l \in PollRec
    BY <2>2 DEF TabsTyped
  <2>4. PICK x : x = [l EXCEPT !.pc = "parse", !.sig = sig]
    OBVIOUS
  <2>5. x \in PollRec /\ x.pc = "parse" /\ x.sig = sig /\ x.cands = l.cands
    BY <2>1, <2>3, <2>4
  <2>6. polls' = [polls EXCEPT ![t] = x]
    BY <1>2, <2>2, <2>4
  <2> QED BY <1>1, <2>2, <2>5, <2>6 DEF Sign
<1>3. CASE polls' = [polls EXCEPT ![t] = NoLook]
  <2>1. NoLook \in PollRec /\ NoLook.pc = "idle" /\ NoLook.cands = {}
    BY DEF NoLook
  <2> QED BY <1>3, <2>1 DEF Sign
<1> QED BY <1>1, <1>2, <1>3 DEF Sign

LEMMA ParseIs ==
  ASSUME TabsTyped, NEW t \in Tabs, Lives(t), Parse(t)
  PROVE  /\ UNCHANGED <<now, files, tui>> /\ polls[t].pc = "parse"
         /\ polls' = [polls EXCEPT ![t] = NoLook]
         /\ \/ UNCHANGED <<tab, shown>>
            \/ \E p \in PageRec :
                      /\ p.sig = polls[t].sig /\ p.n = files[tab[t].res].n
                      /\ tab' = [tab EXCEPT ![t].cache = p] /\ shown' = [shown EXCEPT ![t] = p]
<1>1. PICK p : p = Page(t)
  OBVIOUS
<1>2. polls[t].sig \in Nat /\ files[tab[t].res].n \in Nat
  BY ReadHere DEF Parse, TabsTyped
<1>3. p.sig = polls[t].sig /\ p.n = files[tab[t].res].n /\ p \in PageRec
  BY <1>1, <1>2 DEF Page, PageRec
<1> QED BY <1>1, <1>3 DEF Parse

LEMMA Nothing ==
  /\ NoPage \in PageRec /\ NoPage.sig = 0 /\ NoPage.n = 0
  /\ NoLook \in PollRec /\ NoLook.pc = "idle" /\ NoLook.cands = {}
BY DEF NoPage, NoLook, PageRec

LEMMA TabTyped ==
  ASSUME TabsTyped, AllLive, CxNext
  PROVE  tab' \in [Tabs -> TabRec]
<1>1. tab \in [Tabs -> TabRec] /\ now \in Time
  BY Numbers DEF TabsTyped
<1>2. CASE tab' = tab
  BY <1>1, <1>2
<1>3. ASSUME NEW t \in Tabs, CodexCreate(t) \/ Release(t) PROVE tab' \in [Tabs -> TabRec]
  BY <1>1, <1>3, ZenonT(40) DEF CodexCreate, Release
<1>4. ASSUME NEW t \in Tabs, Judge(t) PROVE tab' \in [Tabs -> TabRec]
  <2>1. PICK r \in Nat, g \in BOOLEAN :
          tab' = [tab EXCEPT ![t] = [at |-> tab[t].at, res |-> r, last |-> polls[t].now,
                                     fin |-> g, cache |-> tab[t].cache]]
    BY ONLY TabsTyped, <1>4, JudgeIs, ZenonT(40)
  <2>2. polls[t].now \in Int
    BY DEF TabsTyped
  <2> QED BY <1>1, <2>1, <2>2
<1>5. ASSUME NEW t \in Tabs, Parse(t), tab' # tab PROVE tab' \in [Tabs -> TabRec]
  <2>1. PICK p \in PageRec : tab' = [tab EXCEPT ![t].cache = p]
    BY <1>5, ParseIs DEF AllLive
  <2> QED BY <1>1, <2>1
<1>6. \/ tab' = tab
      \/ \E t \in Tabs : CodexCreate(t) \/ Release(t) \/ Judge(t) \/ Parse(t)
  BY DEF CxNext, Passes, Opens, Renewed, Message, Foreigner, Vanishes, Dies, Look, Sign,
         ViewReopens
<1> QED BY <1>2, <1>3, <1>4, <1>5, <1>6

LEMMA PollsTyped ==
  ASSUME TabsTyped, AllLive, CxNext
  PROVE  polls' \in [Tabs -> PollRec]
<1>1. polls \in [Tabs -> PollRec]
  BY DEF TabsTyped
<1>2. CASE polls' = polls
  BY <1>1, <1>2
<1>3. ASSUME NEW t \in Tabs, Look(t) \/ Sign(t) \/ Parse(t) \/ Judge(t)
      PROVE  polls' \in [Tabs -> PollRec]
  <2>1. CASE Look(t)
    BY <1>1, <2>1, LookIs
  <2>2. CASE Sign(t)
    BY <1>1, <2>2, SignIs DEF AllLive
  <2>3. CASE Parse(t)
    BY <1>1, <2>3, Nothing DEF Parse
  <2>4. CASE Judge(t)
    <3>1. CASE polls' = [polls EXCEPT ![t].pc = "sign", ![t].cands = {}]
      BY <1>1, <3>1
    <3>2. CASE polls' = [polls EXCEPT ![t] = NoLook]
      BY <1>1, <3>2, Nothing
    <3> QED BY <2>4, <3>1, <3>2 DEF Judge
  <2> QED BY <1>3, <2>1, <2>2, <2>3, <2>4
<1>4. \/ polls' = polls
      \/ \E t \in Tabs : Look(t) \/ Sign(t) \/ Parse(t) \/ Judge(t)
  BY DEF CxNext, CodexCreate, Release, Passes, Opens, Renewed, Message, Foreigner, Vanishes,
         Dies, ViewReopens
<1> QED BY <1>2, <1>3, <1>4

LEMMA ShownTyped ==
  ASSUME TabsTyped, AllLive, CxNext
  PROVE  shown' \in [Tabs -> PageRec]
<1>1. shown \in [Tabs -> PageRec]
  BY DEF TabsTyped
<1>2. CASE shown' = shown
  BY <1>1, <1>2
<1>3. ASSUME NEW t \in Tabs, Sign(t) \/ Parse(t) \/ ViewReopens(t), shown' # shown
      PROVE  shown' \in [Tabs -> PageRec]
  <2>1. CASE Sign(t)
    <3>1. tab[t].cache \in PageRec
      BY DEF TabsTyped
    <3> QED BY <1>1, <1>3, <2>1, <3>1, SignIs DEF AllLive
  <2>2. CASE Parse(t)
    BY <1>1, <1>3, <2>2, ParseIs DEF AllLive
  <2>3. CASE ViewReopens(t)
    BY <1>1, <2>3, Nothing DEF ViewReopens
  <2> QED BY <1>3, <2>1, <2>2, <2>3
<1>4. \/ shown' = shown
      \/ \E t \in Tabs : Sign(t) \/ Parse(t) \/ ViewReopens(t)
  BY DEF CxNext, CodexCreate, Release, Passes, Opens, Renewed, Message, Foreigner, Vanishes,
         Dies, Look, Judge
<1> QED BY <1>2, <1>3, <1>4

LEMMA TypedStep ==
  ASSUME TabsTyped, AllLive, CxNext
  PROVE  TabsTyped'
<1>1. now' \in 0..MaxTime
  <2>1. CASE now' = now
    BY <2>1 DEF TabsTyped
  <2>2. CASE Passes
    BY <2>2, CodexAssumption DEF Passes, TabsTyped
  <2> QED
    BY <2>1, <2>2 DEF CxNext, CodexCreate, Release, Opens, Renewed, Message, Foreigner,
       Vanishes, Dies, ViewReopens, Look, Judge, Sign, Parse
<1> QED
  BY <1>1, FilesStep, TuiTyped, TabTyped, PollsTyped, ShownTyped
  DEF TabsTyped

-----------------------------------------------------------------------------
(* A step is of one tab, or of none, and leaves the other ones as they are.  *)

Still(s) ==
  tui'[s] = tui[s] /\ tab'[s] = tab[s] /\ polls'[s] = polls[s] /\ shown'[s] = shown[s]

NotMine(s) == \A f \in DOMAIN files' : f \notin DOMAIN files => files'[f].owner # s

TabOwn(t) ==
  \/ CodexCreate(t) \/ Opens(t) \/ Renewed(t) \/ Message(t) \/ Dies(t) \/ Release(t) \/ Look(t)
  \/ Judge(t) \/ Sign(t) \/ Parse(t) \/ ViewReopens(t)

LEMMA StillOthers ==
  ASSUME TabsTyped, AllLive, NEW t \in Tabs, TabOwn(t), NEW s \in Tabs, s # t
  PROVE  Still(s) /\ NotMine(s)
<1> USE DEF Still
<1>1. /\ tui \in [Tabs -> TuiRec] /\ tab \in [Tabs -> TabRec] /\ polls \in [Tabs -> PollRec]
      /\ shown \in [Tabs -> PageRec]
  BY DEF TabsTyped
<1>2. CASE Message(t)
  <2>1. /\ \/ /\ tui' = [tui EXCEPT ![t].file = Len(files')]
              /\ Adds(Transcript(t, DirOf[t], tui[t].opened))
           \/ tui' = tui /\ NoNew
    BY <1>2, MessageFiles DEF AllLive
  <2>2. Transcript(t, DirOf[t], tui[t].opened).owner = t
    BY DEF Transcript
  <2>3. NotMine(s)
    BY <2>1, <2>2 DEF Adds, NoNew, NotMine
  <2>4. Still(s)
    BY <1>1, <1>2, <2>1 DEF Message
  <2> QED BY <2>3, <2>4
<1>3. CASE ~Message(t)
  <2>1. files' = files
    BY <1>3 DEF TabOwn, CodexCreate, Opens, Renewed, Dies, Release, Look, Judge, Sign, Parse,
                ViewReopens
  <2>2. NotMine(s)
    BY <2>1 DEF NotMine
  <2>3. CASE CodexCreate(t) \/ Opens(t) \/ Renewed(t) \/ Dies(t) \/ Release(t) \/ ViewReopens(t)
    BY <1>1, <2>2, <2>3 DEF CodexCreate, Opens, Renewed, Dies, Release, ViewReopens
  <2>4. CASE Look(t)
    BY <1>1, <2>2, <2>4, LookIs
  <2>5. CASE Judge(t)
    BY <1>1, <2>2, <2>5 DEF Judge
  <2>6. CASE Sign(t)
    BY <1>1, <2>2, <2>6 DEF Sign
  <2>7. CASE Parse(t)
    BY <1>1, <2>2, <2>7 DEF Parse
  <2> QED BY <1>3, <2>2, <2>3, <2>4, <2>5, <2>6, <2>7 DEF TabOwn
<1> QED BY <1>2, <1>3

(* A step that is of no tab: the clock, the user's own codex, a file gone.   *)
LEMMA StillAll ==
  ASSUME TabsTyped, NEW s \in Tabs,
         Passes \/ (\E t \in Tabs : Foreigner(DirOf[t])) \/ (\E f \in DOMAIN files : Vanishes(f))
  PROVE  Still(s) /\ NotMine(s)
<1>1. Still(s)
  BY DEF Still, Passes, Foreigner, Vanishes
<1>2. CASE Passes
  <2>1. files' = files
    BY <1>2 DEF Passes
  <2> QED BY <1>1, <2>1 DEF NotMine
<1>3. ASSUME NEW t \in Tabs, Foreigner(DirOf[t]) PROVE NotMine(s)
  <2>1. PICK e \in File : Adds(e) /\ e.owner = "user"
    BY <1>3, ForeignFiles
  <2> QED BY <2>1, CodexAssumption DEF Adds, NotMine
<1>4. ASSUME NEW f \in DOMAIN files, Vanishes(f) PROVE NotMine(s)
  BY <1>4, VanishFiles DEF NoNew, NotMine
<1> QED BY <1>1, <1>2, <1>3, <1>4

LEMMA Whose ==
  ASSUME CxNext
  PROVE  \/ \E t \in Tabs : TabOwn(t)
         \/ Passes \/ (\E t \in Tabs : Foreigner(DirOf[t])) \/ (\E f \in DOMAIN files : Vanishes(f))
BY DEF CxNext, TabOwn

(* The clock runs, and what has been opened was so at a time of its own.     *)
LEMMA Clock ==
  ASSUME TabsTyped, CxNext PROVE now <= now' /\ now \in Int /\ now' \in Int
<1>1. now \in Nat
  BY Numbers
<1>2. now' = now \/ now' = now + 1
  BY DEF CxNext, Passes, CodexCreate, Release, Opens, Renewed, Message, Foreigner, Vanishes,
         Dies, ViewReopens, Look, Judge, Sign, Parse
<1> QED BY <1>1, <1>2

LEMMA FilesGrow ==
  ASSUME TabsTyped, TabKept, files' \in Seq(File)
  PROVE  Len(files) <= Len(files') /\ Len(files) \in Nat /\ Len(files') \in Nat
         /\ DOMAIN files = 1..Len(files) /\ DOMAIN files' = 1..Len(files')
<1>1. /\ Len(files) \in Nat /\ Len(files') \in Nat
      /\ DOMAIN files = 1..Len(files) /\ DOMAIN files' = 1..Len(files')
  BY LenProperties DEF TabsTyped
<1>2. CASE Len(files) = 0
  BY <1>1, <1>2
<1>3. CASE Len(files) # 0
  <2>1. Len(files) \in 1..Len(files')
    BY <1>1, <1>3 DEF TabKept
  <2> QED BY <1>1, <2>1
<1> QED BY <1>1, <1>2, <1>3

(* A tab that is left as it is keeps what is known of it.                    *)
LEMMA StillLives ==
  ASSUME TabsTyped, TabKept, files' \in Seq(File), now <= now', now \in Int, now' \in Int,
         NEW s \in Tabs, Still(s), Lives(s)
  PROVE  Lives(s)'
<1>1. /\ Len(files) <= Len(files') /\ Len(files) \in Nat /\ Len(files') \in Nat
  BY FilesGrow
<1>2. tab[s].at \in Int /\ tab[s].res \in Nat
  BY DEF TabsTyped, Time, NoTime
<1>3. tab[s].at <= now' /\ tab[s].res \in 0..Len(files')
  BY <1>1, <1>2 DEF Lives
<1>4. tui[s].file # 0 => Owns(s, tui[s].file)'
  BY DEF Lives, Owns, TabKept, TabSame, Still
<1>5. polls[s].cands \subseteq DOMAIN files'
  BY DEF Lives, TabKept
<1> QED BY <1>3, <1>4, <1>5 DEF Lives, Still, Owns

LEMMA StillJudging ==
  ASSUME TabsTyped, TabKept, NEW s \in Tabs, NotMine(s), Still(s), Lives(s), Judging(s)
  PROVE  Judging(s)'
<1> SUFFICES ASSUME polls[s].pc = "judge" PROVE Judging(s)'
  BY DEF Judging, Still
<1>1. \A f \in polls[s].cands : files'[f].mark /\ ~files'[f].worker
  BY DEF Lives, Judging, TabKept, TabSame, AppSpawnable
<1>2. ASSUME NEW f \in DOMAIN files', files'[f].owner = s, files'[f].there,
             ~polls[s].alive
      PROVE  f \in polls[s].cands
  <2>1. f \in DOMAIN files
    BY <1>2 DEF NotMine
  <2>2. files[f].owner = s /\ files[f].there
    BY <1>2, <2>1 DEF TabKept, TabSame
  <2> QED BY <1>2, <2>1, <2>2 DEF Judging, Owns
<1> QED BY <1>1, <1>2 DEF Judging, Still, Owns, AppSpawnable

LEMMA StillFirsts ==
  ASSUME TabsTyped, TabKept, NEW s \in Tabs, NotMine(s), Still(s), Firsts(s)
  PROVE  Firsts(s)'
<1>1. \A f \in DOMAIN files : files'[f].owner = files[f].owner /\ files'[f].first = files[f].first
  BY DEF TabKept, TabSame
<1>2. \A f \in DOMAIN files' : files'[f].owner = s => f \in DOMAIN files
  BY DEF NotMine
<1>3. ASSUME \A f \in DOMAIN files' : ~(f \in DOMAIN files' /\ files'[f].owner = s),
             tui[s].opened # NoTime
      PROVE  InTime(s, tui[s].opened)
  <2>1. \A f \in DOMAIN files : ~(f \in DOMAIN files /\ files[f].owner = s)
    BY <1>1, <1>3 DEF TabKept
  <2> QED BY <1>3, <2>1 DEF Firsts, Owns
<1>4. ASSUME NEW f \in DOMAIN files', NEW g \in DOMAIN files', files'[f].owner = s,
             files'[g].owner = s, files'[f].first, files'[g].first
      PROVE  f = g
  <2>1. f \in DOMAIN files /\ g \in DOMAIN files
    BY <1>2, <1>4
  <2>2. files[f].owner = s /\ files[g].owner = s /\ files[f].first /\ files[g].first
    BY <1>1, <1>4, <2>1
  <2> QED BY <2>1, <2>2 DEF Firsts, Owns
<1> QED BY <1>3, <1>4 DEF Firsts, Still, Owns, InTime

LEMMA StillReads ==
  ASSUME TabsTyped, TabKept, files' \in Seq(File), NEW s \in Tabs, tab'[s] = tab[s],
         polls'[s] = polls[s], shown'[s] = shown[s], Lives(s), Reads(s)
  PROVE  Reads(s)'
<1> SUFFICES ASSUME tab[s].res # 0 PROVE Reads(s)'
  BY DEF Reads
<1>1. PICK r : r = tab[s].res
  OBVIOUS
<1>2. r \in DOMAIN files
  BY <1>1, Numbers, LenProperties DEF Lives, TabsTyped
<1>3. files'[r].dir = files[r].dir /\ files'[r].at = files[r].at /\ files[r].n <= files'[r].n
  BY <1>2 DEF TabKept, TabSame
<1>4. files[r].n \in Nat
  BY <1>2, FileAt DEF File
<1>5. files'[r].n \in Nat
  <2>1. r \in DOMAIN files' /\ r \in 1..Len(files')
    BY <1>2, LenProperties DEF TabKept
  <2>2. files'[r] \in File
    BY <2>1, ElementOfSeq
  <2> QED BY <2>2 DEF File
<1>6. Covers(s, r)'
  BY <1>1, <1>3 DEF Reads, Covers
<1>7. shown[s].n \in Nat /\ tab[s].cache.n \in Nat /\ polls[s].sig \in Nat
  BY DEF TabsTyped, PageRec
<1>8. shown[s].n <= files'[r].n /\ tab[s].cache.n <= files'[r].n
      /\ (polls[s].pc = "parse" => polls[s].sig <= files'[r].n)
  BY <1>1, <1>3, <1>4, <1>5, <1>7 DEF Reads
<1> QED BY <1>1, <1>6, <1>8 DEF Reads, Covers

-----------------------------------------------------------------------------
(* What a step of a tab leaves of what is known of it.                       *)

Noted(t) == Lives(t) /\ Judging(t) /\ Firsts(t) /\ Reads(t)

LEMMA CreateKnows ==
  ASSUME TabsTyped, NEW t \in Tabs, CodexCreate(t), Noted(t)
  PROVE  Noted(t)'
<1> USE DEF Noted
<1>1. /\ UNCHANGED <<now, files, polls, shown>> /\ tui[t].st = "none" /\ now \in Nat
      /\ tui'[t].st = "live" /\ tui'[t].opened = tui[t].opened /\ tui'[t].file = tui[t].file
      /\ tab'[t].at = now /\ tab'[t].res = tab[t].res /\ tab'[t].fin = tab[t].fin
      /\ tab'[t].cache = tab[t].cache
  BY Numbers DEF TabsTyped, CodexCreate
<1>2. tui[t].opened = NoTime /\ ~tab[t].fin /\ tab[t].res = 0 /\ polls[t].pc # "judge"
  BY <1>1 DEF Lives, Judging, Reads, Covers
<1>3. Lives(t)'
  BY <1>1, <1>2 DEF Lives, Owns, NoTime
<1>4. Judging(t)' /\ Firsts(t)' /\ Reads(t)'
  BY <1>1, <1>2 DEF Judging, Firsts, Reads, Owns
<1> QED BY <1>3, <1>4

LEMMA OpensKnows ==
  ASSUME TabsTyped, NEW t \in Tabs, Opens(t), Noted(t)
  PROVE  Noted(t)'
<1> USE DEF Noted
<1>1. /\ UNCHANGED <<now, files, tab, polls, shown>> /\ tui[t].st = "live" /\ now \in Nat
      /\ tui'[t].st = "live" /\ tui'[t].opened = now /\ tui'[t].file = tui[t].file
      /\ now <= tab[t].at + Delay
  BY Numbers DEF TabsTyped, Opens
<1>2. tab[t].at # NoTime /\ tab[t].at <= now
  BY <1>1 DEF Lives
<1>3. Lives(t)'
  BY <1>1, <1>2 DEF Lives, Owns
<1>4. Firsts(t)'
  BY <1>1, <1>2 DEF Firsts, Owns, InTime
<1>5. Judging(t)' /\ Reads(t)'
  BY <1>1 DEF Judging, Reads, Owns, Covers, AppSpawnable
<1> QED BY <1>3, <1>4, <1>5

LEMMA RenewedKnows ==
  ASSUME TabsTyped, NEW t \in Tabs, Renewed(t), Noted(t)
  PROVE  Noted(t)'
<1> USE DEF Noted
<1>1. /\ UNCHANGED <<now, files, tab, polls, shown>> /\ tui[t].st = "live" /\ now \in Nat
      /\ tui'[t].st = "live" /\ tui'[t].opened = now /\ tui'[t].file = 0 /\ tui[t].file # 0
  BY Numbers DEF TabsTyped, Renewed
<1>2. Owns(t, tui[t].file)
  BY <1>1 DEF Lives
<1>3. Lives(t)'
  BY <1>1 DEF Lives, Owns
<1>4. Firsts(t)'
  BY <1>1, <1>2 DEF Firsts, Owns, InTime
<1>5. Judging(t)' /\ Reads(t)'
  BY <1>1 DEF Judging, Reads, Owns, Covers, AppSpawnable
<1> QED BY <1>3, <1>4, <1>5

LEMMA DiesKnows ==
  ASSUME TabsTyped, NEW t \in Tabs, Dies(t), Noted(t)
  PROVE  Noted(t)'
<1> USE DEF Noted
<1>1. /\ UNCHANGED <<now, files, tab, polls, shown>> /\ tui[t].st = "live"
      /\ tui'[t].st = "dead" /\ tui'[t].opened = tui[t].opened /\ tui'[t].file = tui[t].file
  BY DEF TabsTyped, Dies
<1>2. Lives(t)'
  BY <1>1 DEF Lives, Owns
<1>3. Firsts(t)' /\ Judging(t)' /\ Reads(t)'
  BY <1>1 DEF Judging, Reads, Owns, Covers, AppSpawnable, Firsts, InTime
<1> QED BY <1>2, <1>3

LEMMA ReleaseKnows ==
  ASSUME TabsTyped, NEW t \in Tabs, Release(t), Noted(t)
  PROVE  Noted(t)'
<1> USE DEF Noted
<1>1. /\ UNCHANGED <<now, files, polls, shown>> /\ tui[t].st \in {"live", "dead"}
      /\ tui'[t].st = "closed" /\ tui'[t].opened = tui[t].opened /\ tui'[t].file = tui[t].file
      /\ polls[t].pc = "idle" /\ tab'[t].at = tab[t].at /\ tab'[t].res = tab[t].res
      /\ tab'[t].cache = tab[t].cache
  BY DEF TabsTyped, Release
<1>2. Lives(t)'
  BY <1>1 DEF Lives, Owns
<1>3. Firsts(t)' /\ Judging(t)' /\ Reads(t)'
  BY <1>1 DEF Judging, Reads, Owns, Covers, AppSpawnable, Firsts, InTime
<1> QED BY <1>2, <1>3

LEMMA ReopensKnows ==
  ASSUME TabsTyped, NEW t \in Tabs, ViewReopens(t), Noted(t)
  PROVE  Noted(t)'
<1> USE DEF Noted
<1>1. /\ UNCHANGED <<now, files, tui, tab, polls>> /\ polls[t].pc = "idle"
      /\ shown'[t] = NoPage
  BY DEF TabsTyped, ViewReopens
<1>2. Lives(t)'
  BY <1>1 DEF Lives, Owns
<1>3. Firsts(t)' /\ Judging(t)'
  BY <1>1 DEF Judging, Firsts, Owns, InTime
<1>4. Reads(t)'
  <2> SUFFICES ASSUME tab[t].res # 0 PROVE Reads(t)'
    BY <1>1 DEF Reads
  <2>1. tab[t].res \in DOMAIN files
    BY Numbers, LenProperties DEF Lives, TabsTyped
  <2>2. files[tab[t].res].n \in Nat
    BY <2>1, FileAt DEF File
  <2>3. shown'[t].sig = 0 /\ shown'[t].n = 0
    BY <1>1, Nothing
  <2> QED BY <1>1, <2>2, <2>3 DEF Reads, Covers
<1> QED BY <1>2, <1>3, <1>4

(* The first record of a conversation makes its transcript; a tab's first    *)
(* one is the one before which it had none.                                  *)
LEMMA MessageKnows ==
  ASSUME TabsTyped, AllLive, NEW t \in Tabs, Message(t), Noted(t)
  PROVE  Noted(t)'
<1> USE DEF Noted
<1>1. /\ UNCHANGED <<now, tab, polls, shown>> /\ tui[t].st = "live" /\ tui[t].opened # NoTime
      /\ TabKept /\ files' \in Seq(File)
  BY MessageFiles DEF Message
<1>2. CASE tui' = tui /\ NoNew
  <2>1. Still(t) /\ NotMine(t)
    BY <1>1, <1>2 DEF Still, NotMine, NoNew
  <2>2. now <= now' /\ now \in Int /\ now' \in Int
    BY <1>1, Numbers
  <2> QED
    BY <1>1, <2>1, <2>2, StillLives, StillJudging, StillFirsts, StillReads DEF Still
<1>3. CASE tui' = [tui EXCEPT ![t].file = Len(files')] /\ tui[t].file = 0
           /\ Adds(Transcript(t, DirOf[t], tui[t].opened))
  <2>1. PICK new : new = Len(files')
    OBVIOUS
  <2>2. /\ DOMAIN files' = DOMAIN files \cup {new} /\ new \notin DOMAIN files
        /\ files'[new] = Transcript(t, DirOf[t], tui[t].opened)
    BY <1>3, <2>1 DEF Adds
  <2>3. /\ files'[new].owner = t
        /\ files'[new].first <=> \A f \in DOMAIN files : files[f].owner # t
    BY <2>2 DEF Transcript
  <2>4. tui'[t].st = "live" /\ tui'[t].opened = tui[t].opened /\ tui'[t].file = new
    BY <1>1, <1>3, <2>1 DEF TabsTyped
  <2>5. /\ Len(files) <= Len(files') /\ Len(files) \in Nat /\ Len(files') \in Nat
    BY <1>1, FilesGrow
  <2>6. Lives(t)'
    BY <1>1, <2>2, <2>3, <2>4, <2>5 DEF Lives, Owns
  <2>7. Firsts(t)'
    <3>1. \A f \in DOMAIN files : files'[f].owner = files[f].owner
                                  /\ files'[f].first = files[f].first
      BY <1>1 DEF TabKept, TabSame
    <3>2. ASSUME NEW f \in DOMAIN files', NEW g \in DOMAIN files', files'[f].owner = t,
                 files'[g].owner = t, files'[f].first, files'[g].first
          PROVE  f = g
      <4>1. CASE f = new \/ g = new
        BY <2>2, <2>3, <3>1, <3>2, <4>1
      <4>2. CASE f \in DOMAIN files /\ g \in DOMAIN files
        BY <3>1, <3>2, <4>2 DEF Firsts, Owns
      <4> QED BY <2>2, <4>1, <4>2
    <3> QED BY <2>2, <2>3, <3>2 DEF Firsts, Owns
  <2>8. Judging(t)'
    <3> SUFFICES ASSUME polls[t].pc = "judge" PROVE Judging(t)'
      BY <1>1 DEF Judging
    <3>1. polls[t].alive
      BY <1>1 DEF Judging
    <3>2. \A f \in polls[t].cands : files'[f].mark /\ ~files'[f].worker
      BY <1>1 DEF Lives, Judging, TabKept, TabSame, AppSpawnable
    <3> QED BY <1>1, <2>4, <3>1, <3>2 DEF Judging, AppSpawnable
  <2>9. Reads(t)'
    BY <1>1, StillReads
  <2> QED BY <2>6, <2>7, <2>8, <2>9
<1> QED BY <1>2, <1>3, MessageFiles

(* A look takes in every transcript that a tab whose process is gone has.    *)
LEMMA LookKnows ==
  ASSUME TabsTyped, AllMade, NEW t \in Tabs, Look(t), Noted(t)
  PROVE  Noted(t)'
<1> USE DEF Noted
<1>1. PICK x \in PollRec :
        /\ polls' = [polls EXCEPT ![t] = x] /\ x.pc \in {"sign", "judge"}
        /\ x.alive = (tui[t].st = "live") /\ x.cands \subseteq DOMAIN files
        /\ x.pc = "sign" => tab[t].res # 0
        /\ x.pc = "judge" => /\ tab[t].res = 0 /\ x.cands = Candidates
                             /\ ShouldScan(x.alive, tab[t])
  BY LookIs
<1>2. UNCHANGED <<now, files, tui, tab, shown>> /\ tui[t].st \in {"live", "dead"}
  BY LookIs
<1>3. polls'[t] = x
  BY <1>1 DEF TabsTyped
<1>4. Lives(t)'
  BY <1>1, <1>2, <1>3 DEF Lives, Owns
<1>5. Firsts(t)'
  BY <1>2 DEF Firsts, Owns, InTime
<1>6. Reads(t)'
  BY <1>1, <1>2, <1>3 DEF Reads, Covers
<1>7. Judging(t)'
  <2> SUFFICES ASSUME x.pc = "judge" PROVE Judging(t)'
    BY <1>3 DEF Judging
  <2>1. x.cands = {f \in DOMAIN files : files[f].there /\ AppSpawnable(f) /\ files[f].mark}
    BY <1>1, CandidatesAre
  <2>2. ~tab[t].fin
    BY <1>1, <1>2 DEF ShouldScan, Lives
  <2>3. \A f \in DOMAIN files : files[f].owner = t => files[f].mark /\ AppSpawnable(f)
    BY DEF AllMade, Made
  <2>4. \A f \in DOMAIN files : files[f].owner = t /\ files[f].there => f \in x.cands
    BY <2>1, <2>3
  <2>5. \A f \in x.cands : files[f].mark /\ AppSpawnable(f)
    BY <2>1
  <2>6. tab[t].res = 0 /\ (~x.alive => tui[t].st = "dead")
    BY <1>1, <1>2
  <2> HIDE <1>1
  <2> QED BY <1>2, <1>3, <2>2, <2>4, <2>5, <2>6 DEF Judging, Owns, AppSpawnable
<1> QED BY <1>4, <1>5, <1>6, <1>7

(* What is found is one of the candidates, made in time where the tab was.   *)
LEMMA MatchIs ==
  ASSUME NEW t \in Tabs, NEW f \in MatchRollout(t)
  PROVE  /\ f \in polls[t].cands /\ Covers(t, f) /\ (\A s \in Tabs : tab[s].res # f)
         /\ \A s \in Tabs \ {t} : tab[s].at # NoTime /\ tab[s].res = 0 => ~Covers(s, f)
BY DEF MatchRollout, Claimed, Unresolved

LEMMA JudgeKnows ==
  ASSUME TabsTyped, NEW t \in Tabs, Judge(t), Noted(t)
  PROVE  Noted(t)'
<1> USE DEF Noted
<1>1. UNCHANGED <<now, files, tui, shown>> /\ polls[t].pc = "judge"
  BY JudgeIs
<1>2. PICK r \in Nat, g \in BOOLEAN :
        /\ tab' = [tab EXCEPT ![t] = [at |-> tab[t].at, res |-> r, last |-> polls[t].now,
                                      fin |-> g, cache |-> tab[t].cache]]
        /\ g = (tab[t].fin \/ ~polls[t].alive)
        /\ \/ r \in MatchRollout(t) /\ polls' = [polls EXCEPT ![t].pc = "sign", ![t].cands = {}]
           \/ r = tab[t].res /\ polls' = [polls EXCEPT ![t] = NoLook]
  BY JudgeIs
<1>3. /\ tab'[t].at = tab[t].at /\ tab'[t].res = r /\ tab'[t].cache = tab[t].cache
      /\ tab'[t].fin = g
  BY <1>2 DEF TabsTyped
<1>4. /\ tab[t].res = 0 /\ tui[t].st \in {"live", "dead"} /\ (g => tui[t].st = "dead")
      /\ polls[t].cands \subseteq DOMAIN files
  BY <1>1, <1>2 DEF Judging, Lives
<1>5. \/ polls'[t].pc = "sign" /\ polls'[t].cands = {} /\ r \in MatchRollout(t)
      \/ polls'[t].pc = "idle" /\ polls'[t].cands = {} /\ r = 0
  <2>1. CASE polls' = [polls EXCEPT ![t].pc = "sign", ![t].cands = {}] /\ r \in MatchRollout(t)
    BY <2>1 DEF TabsTyped
  <2>2. CASE r = tab[t].res /\ polls' = [polls EXCEPT ![t] = NoLook]
    BY <1>4, <2>2, Nothing DEF TabsTyped
  <2> QED BY <1>2, <2>1, <2>2
<1>6. r # 0 => /\ r \in DOMAIN files /\ r \in 1..Len(files) /\ Covers(t, r)
               /\ files[r].n \in Nat
  <2> SUFFICES ASSUME r # 0 PROVE r \in DOMAIN files /\ r \in 1..Len(files) /\ Covers(t, r)
                                  /\ files[r].n \in Nat
    OBVIOUS
  <2>1. r \in DOMAIN files /\ Covers(t, r)
    BY <1>4, <1>5, MatchIs
  <2> QED BY <2>1, FileAt DEF File
<1>7. r \in 0..Len(files) /\ (polls'[t].pc = "sign" => r # 0)
  <2>1. polls'[t].pc = "sign" => r \in DOMAIN files
    BY <1>4, <1>5, MatchIs
  <2> QED BY <1>5, <1>6, <2>1, Numbers, FileAt
<1>8. Lives(t)'
  BY <1>1, <1>3, <1>4, <1>5, <1>7 DEF Lives, Owns
<1>9. Firsts(t)' /\ Judging(t)'
  BY <1>1, <1>3, <1>5 DEF Firsts, Judging, Owns, InTime
<1>10. Reads(t)'
  <2> SUFFICES ASSUME r # 0 PROVE Reads(t)'
    BY <1>3 DEF Reads
  <2>1. tab[t].cache = NoPage /\ shown[t] = NoPage
    BY <1>4 DEF Lives
  <2>2. polls'[t].pc # "parse"
    BY <1>5
  <2>3. Covers(t, r)'
    BY <1>1, <1>3, <1>6 DEF Covers
  <2> QED BY <1>1, <1>3, <1>6, <2>1, <2>2, <2>3, Nothing DEF Reads, Covers
<1> QED BY <1>8, <1>9, <1>10

LEMMA SignKnows ==
  ASSUME TabsTyped, NEW t \in Tabs, Sign(t), Noted(t)
  PROVE  Noted(t)'
<1> USE DEF Noted
<1>1. /\ UNCHANGED <<now, files, tui, tab>> /\ polls[t].pc = "sign" /\ tab[t].res # 0
      /\ shown' = shown \/ shown' = [shown EXCEPT ![t] = tab[t].cache]
  BY SignIs DEF Lives
<1>2. PICK x \in PollRec :
        /\ polls' = [polls EXCEPT ![t] = x] /\ x.pc \in {"parse", "idle"}
        /\ x.cands \subseteq polls[t].cands /\ (x.pc = "parse" => x.sig = files[tab[t].res].n)
  BY SignIs
<1>3. polls'[t] = x /\ (shown'[t] = shown[t] \/ shown'[t] = tab[t].cache)
  BY <1>1, <1>2 DEF TabsTyped
<1>4. Lives(t)'
  BY <1>1, <1>2, <1>3 DEF Lives, Owns
<1>5. Firsts(t)' /\ Judging(t)'
  BY <1>1, <1>2, <1>3 DEF Firsts, Judging, Owns, InTime
<1>6. Reads(t)'
  <2>1. files[tab[t].res].n \in Nat
    BY <1>1, ReadHere
  <2> QED BY <1>1, <1>2, <1>3, <2>1 DEF Reads, Covers
<1> QED BY <1>4, <1>5, <1>6

LEMMA ParseKnows ==
  ASSUME TabsTyped, NEW t \in Tabs, Parse(t), Noted(t)
  PROVE  Noted(t)'
<1> USE DEF Noted
<1>1. /\ UNCHANGED <<now, files, tui>> /\ polls[t].pc = "parse" /\ tab[t].res # 0
      /\ polls'[t] = NoLook
  BY ParseIs DEF Lives, TabsTyped
<1>2. CASE UNCHANGED <<tab, shown>>
  <2>1. Lives(t)'
    BY <1>1, <1>2, Nothing DEF Lives, Owns
  <2> QED BY <1>1, <1>2, <2>1, Nothing DEF Judging, Firsts, Reads, Owns, InTime, Covers
<1>3. ASSUME NEW p \in PageRec, p.sig = polls[t].sig, p.n = files[tab[t].res].n,
             tab' = [tab EXCEPT ![t].cache = p], shown' = [shown EXCEPT ![t] = p]
      PROVE  Noted(t)'
  <2>1. /\ shown'[t] = p /\ tab'[t].cache = p /\ tab'[t].res = tab[t].res
        /\ tab'[t].at = tab[t].at /\ tab'[t].fin = tab[t].fin
    BY <1>3 DEF TabsTyped
  <2>2. Lives(t)'
    BY <1>1, <2>1, Nothing DEF Lives, Owns
  <2>3. Firsts(t)' /\ Judging(t)'
    BY <1>1, <2>1, Nothing DEF Judging, Firsts, Owns, InTime
  <2>4. Reads(t)'
    <3>1. files[tab[t].res].n \in Nat
      BY <1>1, ReadHere
    <3>2. p.sig <= files[tab[t].res].n
      BY <1>1, <1>3 DEF Reads
    <3> QED BY <1>1, <1>3, <2>1, <3>1, <3>2, Nothing DEF Reads, Covers
  <2> QED BY <2>2, <2>3, <2>4
<1> QED BY <1>2, <1>3, ParseIs

LEMMA KnownStep ==
  ASSUME CxInv, CxNext
  PROVE  \A s \in Tabs : Noted(s)'
<1>1. /\ TabsTyped /\ AllLive /\ AllMade /\ \A s \in Tabs : Noted(s)
  BY DEF CxInv, AllLive, AllJudging, AllFirsts, AllReads, Noted
<1>2. TabKept /\ files' \in Seq(File) /\ now <= now' /\ now \in Int /\ now' \in Int
  BY <1>1, FilesStep, Clock
<1>3. ASSUME NEW s \in Tabs, Still(s), NotMine(s) PROVE Noted(s)'
  BY <1>1, <1>2, <1>3, StillLives, StillJudging, StillFirsts, StillReads DEF Noted, Still
<1>4. ASSUME NEW t \in Tabs, TabOwn(t), NEW s \in Tabs PROVE Noted(s)'
  <2>1. CASE s # t
    BY <1>1, <1>3, <1>4, <2>1, StillOthers
  <2>2. Noted(t)'
    BY <1>1, <1>4, CreateKnows, OpensKnows, RenewedKnows, MessageKnows, DiesKnows,
       ReleaseKnows, LookKnows, JudgeKnows, SignKnows, ParseKnows, ReopensKnows DEF TabOwn
  <2> QED BY <2>1, <2>2
<1>5. ASSUME \/ Passes \/ (\E t \in Tabs : Foreigner(DirOf[t]))
             \/ (\E f \in DOMAIN files : Vanishes(f)),
             NEW s \in Tabs
      PROVE  Noted(s)'
  BY <1>1, <1>3, <1>5, StillAll
<1> QED BY <1>4, <1>5, Whose

(* The time a tab was opened at is never another one.                        *)
LEMMA AtKept ==
  ASSUME TabsTyped, AllLive, CxNext, NEW s \in Tabs, tab[s].at # NoTime
  PROVE  tab'[s].at = tab[s].at
<1>1. CASE Still(s)
  BY <1>1 DEF Still
<1>2. CASE TabOwn(s)
  <2>1. tui[s].st # "none"
    BY DEF AllLive, Lives
  <2>2. CASE UNCHANGED tab
    BY <2>2
  <2>3. CASE Release(s)
    BY <2>3 DEF Release, TabsTyped
  <2>4. CASE Judge(s)
    <3>1. PICK r \in Nat, g \in BOOLEAN :
            tab' = [tab EXCEPT ![s] = [at |-> tab[s].at, res |-> r, last |-> polls[s].now,
                                       fin |-> g, cache |-> tab[s].cache]]
      BY ONLY TabsTyped, s \in Tabs, <2>4, JudgeIs, ZenonT(40)
    <3> QED BY <3>1 DEF TabsTyped
  <2>5. CASE Parse(s)
    BY <2>5, ParseIs DEF TabsTyped, AllLive
  <2> QED
    BY <1>2, <2>1, <2>2, <2>3, <2>4, <2>5 DEF TabOwn, CodexCreate, Opens, Renewed, Message, Dies,
       Look, Sign, ViewReopens
<1> QED BY <1>1, <1>2, StillOthers, StillAll, Whose

(* A transcript was made by the tab it names, which is in its directory.     *)
LEMMA MadeStep ==
  ASSUME CxInv, CxNext
  PROVE  AllMade'
<1>1. TabsTyped /\ AllLive /\ AllMade /\ AllFirsts
  BY DEF CxInv
<1>2. TabKept
  BY <1>1, FilesStep
<1>3. ASSUME NEW f \in DOMAIN files PROVE Made(f)'
  <2>1. PICK o : o = files[f].owner
    OBVIOUS
  <2>2. /\ files'[f].owner = o /\ files'[f].dir = files[f].dir /\ files'[f].at = files[f].at
        /\ files'[f].mark = files[f].mark /\ files'[f].worker = files[f].worker
        /\ files'[f].first = files[f].first
    BY <1>2, <2>1 DEF TabKept, TabSame
  <2>3. o \in Tabs => tab[o].at # NoTime /\ tab'[o].at = tab[o].at
    BY <1>1, <2>1, AtKept DEF AllMade, Made
  <2> QED BY <1>1, <2>1, <2>2, <2>3 DEF AllMade, Made, AppSpawnable, InTime
<1>4. ASSUME NEW t \in Tabs, Message(t), Adds(Transcript(t, DirOf[t], tui[t].opened))
      PROVE  \A f \in DOMAIN files' : f \notin DOMAIN files => Made(f)'
  <2>1. PICK new : new = Len(files')
    OBVIOUS
  <2>2. PICK e : e = Transcript(t, DirOf[t], tui[t].opened)
    OBVIOUS
  <2>3. \A f \in DOMAIN files' : f \notin DOMAIN files => f = new
    BY <1>4, <2>1 DEF Adds
  <2>4. files'[new] = e
    BY <1>4, <2>1, <2>2 DEF Adds
  <2>5. /\ e.owner = t /\ e.mark /\ ~e.worker /\ e.dir = DirOf[t] /\ e.at = tui[t].opened
        /\ e.first => \A f \in DOMAIN files : files[f].owner # t
    BY <2>2, CodexAssumption DEF Transcript
  <2>6. UNCHANGED tab /\ tui[t].opened # NoTime /\ tab[t].at # NoTime
    BY <1>1, <1>4 DEF Message, AllLive, Lives
  <2>7. e.first => InTime(t, tui[t].opened)
    BY <1>1, <2>5, <2>6 DEF AllFirsts, Firsts, Owns
  <2>8. Made(new)'
    BY <2>4, <2>5, <2>6, <2>7 DEF Made, AppSpawnable, InTime
  <2> QED BY <2>3, <2>8
<1>5. ASSUME NEW e \in File, Adds(e), e.owner = "user", e.mark => e.worker
      PROVE  \A f \in DOMAIN files' : f \notin DOMAIN files => Made(f)'
  <2>1. PICK new : new = Len(files')
    OBVIOUS
  <2>2. \A f \in DOMAIN files' : f \notin DOMAIN files => f = new
    BY <1>5, <2>1 DEF Adds
  <2>3. files'[new] = e
    BY <1>5, <2>1 DEF Adds
  <2>4. Made(new)'
    BY <1>5, <2>3, CodexAssumption DEF Made, AppSpawnable
  <2> QED BY <2>2, <2>4
<1>6. \A f \in DOMAIN files' : f \notin DOMAIN files => Made(f)'
  BY <1>1, <1>4, <1>5, FilesStep DEF NoNew
<1> QED BY <1>3, <1>6 DEF AllMade

-----------------------------------------------------------------------------
(* A tab's own transcript.                                                  *)

LEMMA SecondStays == ASSUME TabKept, NEW d, SecondIn(d) PROVE SecondIn(d)'
BY DEF SecondIn, TabKept, TabSame

(* A transcript that a tab may take is its own, or a second conversation was *)
(* begun in the directory: the tab whose first conversation it is competes   *)
(* for it until it has found another one, which is then a second one.       *)
LEMMA OnlyItsOwn ==
  ASSUME CxInv, NEW t \in Tabs, polls[t].pc = "judge", NEW f \in MatchRollout(t)
  PROVE  files[f].owner = t \/ (files[f].owner \in Tabs /\ SecondIn(DirOf[t]))
<1>1. /\ f \in polls[t].cands /\ Covers(t, f) /\ (\A s \in Tabs : tab[s].res # f)
      /\ \A s \in Tabs \ {t} : tab[s].at # NoTime /\ tab[s].res = 0 => ~Covers(s, f)
  BY MatchIs
<1>2. f \in DOMAIN files /\ files[f].mark /\ AppSpawnable(f)
  BY <1>1 DEF CxInv, AllLive, AllJudging, Lives, Judging
<1>3. PICK o : o = files[f].owner
  OBVIOUS
<1>4. o \in Tabs
  BY <1>2, <1>3 DEF CxInv, AllMade, Made, AppSpawnable
<1>5. files[f].dir = DirOf[o] /\ tab[o].at # NoTime /\ (files[f].first => InTime(o, files[f].at))
  BY <1>2, <1>3, <1>4 DEF CxInv, AllMade, Made
<1>6. DirOf[o] = DirOf[t]
  BY <1>1, <1>5 DEF Covers
<1>7. SUFFICES ASSUME o # t, files[f].first PROVE SecondIn(DirOf[t])
  BY <1>2, <1>3, <1>4, <1>5, <1>6 DEF SecondIn
<1>8. Covers(o, f)
  <2>1. files[f].at \in Int /\ tab[o].at \in Int
    <3>1. TabsTyped
      BY DEF CxInv
    <3>2. files[f] \in File
      BY <1>2, <3>1, FileAt
    <3>3. files[f].at \in Nat
      BY <3>2 DEF File
    <3>4. tab[o].at \in Int
      BY <1>4, <3>1 DEF TabsTyped, Time, NoTime
    <3> QED BY <3>3, <3>4
  <2> QED BY <1>5, <1>7, <2>1, CodexAssumption DEF Covers, InTime
<1>9. PICK g : g = tab[o].res
  OBVIOUS
<1>10. g # 0 /\ g # f
  BY <1>1, <1>4, <1>5, <1>7, <1>8, <1>9
<1>11. g \in DOMAIN files
  BY <1>4, <1>9, <1>10, Numbers, LenProperties DEF CxInv, AllLive, Lives, TabsTyped
<1>12. CASE files[g].owner = o
  <2>1. files[g].dir = DirOf[o]
    BY <1>4, <1>11, <1>12 DEF CxInv, AllMade, Made
  <2>2. ~files[g].first
    BY <1>2, <1>3, <1>4, <1>7, <1>10, <1>11, <1>12 DEF CxInv, AllFirsts, Firsts, Owns
  <2> QED BY <1>4, <1>6, <1>11, <1>12, <2>1, <2>2 DEF SecondIn
<1>13. CASE SecondIn(DirOf[o])
  BY <1>6, <1>13
<1> QED BY <1>4, <1>9, <1>10, <1>12, <1>13 DEF CxInv, OwnTranscript

LEMMA ResKept ==
  ASSUME TabsTyped, AllLive, CxNext, NEW s \in Tabs, ~Judge(s)
  PROVE  tab'[s].res = tab[s].res
<1>1. CASE Still(s)
  BY <1>1 DEF Still
<1>2. CASE TabOwn(s)
  <2>1. CASE UNCHANGED tab
    BY <2>1
  <2>2. CASE CodexCreate(s)
    BY <2>2 DEF CodexCreate, TabsTyped
  <2>3. CASE Release(s)
    BY <2>3 DEF Release, TabsTyped
  <2>4. CASE Parse(s)
    BY <2>4, ParseIs DEF TabsTyped, AllLive
  <2> QED
    BY <1>2, <2>1, <2>2, <2>3, <2>4 DEF TabOwn, Opens, Renewed, Message, Dies, Look, Sign,
       ViewReopens
<1> QED BY <1>1, <1>2, StillOthers, StillAll, Whose

LEMMA OwnStep ==
  ASSUME CxInv, CxNext
  PROVE  OwnTranscript'
<1>1. TabsTyped /\ AllLive /\ TabKept /\ OwnTranscript
  BY FilesStep DEF CxInv
<1> SUFFICES ASSUME NEW s \in Tabs, tab'[s].res # 0
             PROVE  \/ files'[tab'[s].res].owner = s
                    \/ files'[tab'[s].res].owner \in Tabs /\ SecondIn(DirOf[s])'
  BY DEF OwnTranscript
<1>2. CASE tab'[s].res = tab[s].res
  <2>1. tab[s].res \in DOMAIN files
    BY <1>1, <1>2, Numbers, LenProperties DEF AllLive, Lives, TabsTyped
  <2>2. files'[tab'[s].res].owner = files[tab[s].res].owner
    BY <1>1, <1>2, <2>1 DEF TabKept, TabSame
  <2>3. SecondIn(DirOf[s]) => SecondIn(DirOf[s])'
    BY <1>1, SecondStays
  <2> QED BY <1>1, <1>2, <2>2, <2>3 DEF OwnTranscript
<1>3. CASE Judge(s) /\ tab'[s].res # tab[s].res
  <2>1. PICK r \in Nat, g \in BOOLEAN :
          /\ tab' = [tab EXCEPT ![s] = [at |-> tab[s].at, res |-> r, last |-> polls[s].now,
                                        fin |-> g, cache |-> tab[s].cache]]
          /\ r \in MatchRollout(s) \/ r = tab[s].res
    BY <1>1, <1>3, JudgeIs
  <2>2. tab'[s].res = r
    BY <1>1, <2>1 DEF TabsTyped
  <2>3. r \in MatchRollout(s) /\ polls[s].pc = "judge" /\ files' = files
    BY <1>3, <2>1, <2>2 DEF Judge
  <2>4. files[r].owner = s \/ (files[r].owner \in Tabs /\ SecondIn(DirOf[s]))
    BY <2>3, OnlyItsOwn
  <2> QED BY <1>1, <2>2, <2>3, <2>4, SecondStays
<1> QED BY <1>1, <1>2, <1>3, ResKept

(* The last look takes it.                                                  *)
LEMMA LastLookTakes ==
  ASSUME CxInv, NEW t \in Tabs, Judge(t), ~polls[t].alive, NEW f \in DOMAIN files, TabAlone(t, f)
  PROVE  tab'[t].res = f
<1>1. TabsTyped /\ Judging(t) /\ Lives(t) /\ polls[t].pc = "judge" /\ f \in Nat /\ f # 0
  BY FileAt, Numbers DEF CxInv, AllJudging, AllLive, Judge
<1>2. f \in polls[t].cands /\ tab[t].res = 0 /\ polls[t].cands \subseteq DOMAIN files
      /\ \A g \in polls[t].cands : files[g].mark /\ AppSpawnable(g)
  BY <1>1 DEF Judging, Lives, TabAlone
<1>3. \A s \in Tabs : tab[s].res # f
  <2> TAKE s \in Tabs
  <2>1. CASE s = t
    BY <1>1, <1>2, <2>1
  <2>2. CASE s # t
    BY <1>1, <2>2 DEF TabAlone, CxInv, AllReads, Reads
  <2> QED BY <2>1, <2>2
<1>4. f \in MatchRollout(t)
  BY <1>2, <1>3 DEF MatchRollout, Claimed, Unresolved, TabAlone
<1>5. \A g \in MatchRollout(t) : g = f
  BY <1>2, MatchIs DEF TabAlone
<1>6. MatchRollout(t) = {f}
  BY <1>4, <1>5
<1>7. Cardinality(MatchRollout(t)) = 1
  BY <1>6, FS_Singleton
<1>8. PICK r \in Nat, g \in BOOLEAN :
        /\ tab' = [tab EXCEPT ![t] = [at |-> tab[t].at, res |-> r, last |-> polls[t].now,
                                      fin |-> g, cache |-> tab[t].cache]]
        /\ r \in MatchRollout(t)
  BY <1>1, <1>7, JudgeIs
<1>9. tab'[t].res = r
  BY <1>1, <1>8 DEF TabsTyped
<1> QED BY <1>5, <1>8, <1>9

(* What is alone after a step was so before it.                             *)
LEMMA AloneBefore ==
  ASSUME CxInv, CxNext, NEW t \in Tabs, NotMine(t), tab'[t].at = tab[t].at,
         NEW f \in DOMAIN files', TabAlone(t, f)'
  PROVE  f \in DOMAIN files /\ TabAlone(t, f)
<1>1. TabsTyped /\ AllLive /\ TabKept
  BY FilesStep DEF CxInv
<1>2. f \in DOMAIN files
  BY DEF TabAlone, Owns, NotMine
<1>3. \A g \in DOMAIN files :
        /\ files'[g].dir = files[g].dir /\ files'[g].at = files[g].at /\ g \in DOMAIN files'
        /\ files'[g].mark = files[g].mark /\ files'[g].worker = files[g].worker
  BY <1>1 DEF TabKept, TabSame
<1>4. Owns(t, f) /\ files[f].there
  BY <1>1, <1>2 DEF TabAlone, Owns, TabKept, TabSame
<1>5. \A g \in DOMAIN files : Covers(t, g) <=> Covers(t, g)'
  BY <1>3 DEF Covers
<1>6. \A s \in Tabs : Covers(s, f) => Covers(s, f)'
  <2> TAKE s \in Tabs
  <2>1. tab[s].at # NoTime => tab'[s].at = tab[s].at
    BY <1>1, AtKept
  <2> QED BY <1>2, <1>3, <2>1 DEF Covers
<1>7. \A s \in Tabs \ {t} : ~Covers(s, f)
  BY <1>6 DEF TabAlone
<1>8. ASSUME NEW g \in DOMAIN files, files[g].mark, AppSpawnable(g), Covers(t, g) PROVE g = f
  <2>1. g \in DOMAIN files' /\ files'[g].mark /\ ~files'[g].worker /\ Covers(t, g)'
    BY <1>3, <1>5, <1>8 DEF AppSpawnable
  <2> QED BY <2>1 DEF TabAlone, AppSpawnable
<1>9. Covers(t, f)
  BY <1>2, <1>5 DEF TabAlone
<1> QED BY <1>2, <1>4, <1>7, <1>8, <1>9 DEF TabAlone

LEMMA JudgeEntry ==
  ASSUME TabsTyped, NEW t \in Tabs, Judge(t)
  PROVE  tab'[t].at = tab[t].at /\ (tab'[t].fin => tab[t].fin \/ ~polls[t].alive)
<1>1. PICK r \in Nat, g \in BOOLEAN :
        /\ tab' = [tab EXCEPT ![t] = [at |-> tab[t].at, res |-> r, last |-> polls[t].now,
                                      fin |-> g, cache |-> tab[t].cache]]
        /\ g = (tab[t].fin \/ ~polls[t].alive)
        /\ r \in MatchRollout(t) \/ r = tab[t].res
  BY JudgeIs
<1>2. tab'[t].at = tab[t].at /\ tab'[t].fin = g
  BY <1>1 DEF TabsTyped
<1> QED BY <1>1, <1>2

LEMMA LastLookStep ==
  ASSUME CxInv, CxNext
  PROVE  AllLastLooks'
<1>1. TabsTyped /\ AllLive /\ AllLastLooks
  BY DEF CxInv
<1> SUFFICES ASSUME NEW t \in Tabs, tab'[t].fin, tui'[t].st = "dead",
                    NEW f \in DOMAIN files', TabAlone(t, f)'
             PROVE  tab'[t].res = f
  BY DEF AllLastLooks, LastLook, TabAlone
<1>2. CASE Judge(t)
  <2>2. tab'[t].at = tab[t].at /\ (tab'[t].fin => tab[t].fin \/ ~polls[t].alive)
    BY <1>1, <1>2, JudgeEntry
  <2>3. files' = files /\ polls[t].pc = "judge"
    BY <1>2 DEF Judge
  <2>4. ~tab[t].fin
    BY <2>3 DEF CxInv, AllJudging, Judging
  <2>5. ~polls[t].alive
    BY <2>2, <2>4
  <2>6. NotMine(t)
    BY <2>3 DEF NotMine
  <2>7. f \in DOMAIN files /\ TabAlone(t, f)
    BY <2>2, <2>6, AloneBefore
  <2> QED BY <1>2, <2>5, <2>7, LastLookTakes
<1>3. CASE ~Judge(t)
  <2>1. tab[t].fin /\ tui[t].st = "dead" /\ tab'[t].at = tab[t].at /\ NotMine(t)
    <3>1. CASE Still(t) /\ NotMine(t)
      BY <3>1 DEF Still
    <3>2. CASE TabOwn(t)
      <4>1. tab[t].fin => tui[t].st \in {"dead", "closed"}
        BY <1>1 DEF AllLive, Lives
      <4>2. ~CodexCreate(t) /\ ~Opens(t) /\ ~Renewed(t) /\ ~Message(t) /\ ~Dies(t) /\ ~Release(t)
        <5>1. ~CodexCreate(t)
          BY <1>1 DEF CodexCreate, TabsTyped
        <5>2. ~Opens(t)
          BY <1>1, ZenonT(40) DEF Opens, TabsTyped
        <5>3. ~Renewed(t)
          BY <1>1 DEF Renewed, TabsTyped
        <5>4. ~Dies(t)
          BY <1>1, <4>1 DEF Dies
        <5>5. ~Release(t)
          BY <1>1 DEF Release, TabsTyped
        <5>6. ~Message(t)
          <6> SUFFICES ASSUME Message(t) PROVE tui'[t].st = "live"
            OBVIOUS
          <6>1. tui' = tui \/ tui' = [tui EXCEPT ![t].file = Len(files')]
            BY <1>1, MessageFiles DEF AllLive
          <6> QED BY <1>1, <6>1 DEF Message, TabsTyped
        <5> QED BY <5>1, <5>2, <5>3, <5>4, <5>5, <5>6
      <4>3. tui' = tui /\ files' = files
        BY <1>3, <3>2, <4>2 DEF TabOwn, Look, Sign, Parse, ViewReopens
      <4>4. tab'[t].fin = tab[t].fin /\ tab'[t].at = tab[t].at
        <5>1. CASE UNCHANGED tab
          BY <5>1
        <5>2. CASE Parse(t)
          <6>1. tab' = tab \/ \E p \in PageRec : tab' = [tab EXCEPT ![t].cache = p]
            BY <1>1, <5>2, ParseIs DEF AllLive
          <6>2. tab \in [Tabs -> TabRec] /\ tab[t] \in TabRec BY <1>1 DEF TabsTyped
          <6>3. CASE tab' = tab BY <6>3
          <6>4. ASSUME NEW p \in PageRec, tab' = [tab EXCEPT ![t].cache = p]
                PROVE  tab'[t].fin = tab[t].fin /\ tab'[t].at = tab[t].at
            <7>1. tab'[t] = [tab[t] EXCEPT !.cache = p] BY ONLY t \in Tabs, <6>2, <6>4
            <7> QED BY ONLY <6>2, <7>1 DEF TabRec
          <6> QED BY ONLY <6>1, <6>3, <6>4
        <5>3. Look(t) \/ Sign(t) \/ Parse(t) \/ ViewReopens(t)
          BY ONLY <1>3, <3>2, <4>2 DEF TabOwn
        <5>4. Look(t) \/ Sign(t) \/ ViewReopens(t) => UNCHANGED tab
          BY DEF Look, Sign, ViewReopens
        <5> QED BY ONLY <5>1, <5>2, <5>3, <5>4
      <4> QED BY <4>3, <4>4 DEF NotMine
    <3> QED BY <1>1, <3>1, <3>2, StillOthers, StillAll, Whose
  <2>2. f \in DOMAIN files /\ TabAlone(t, f)
    BY <2>1, AloneBefore
  <2>3. tab[t].res = f
    BY <1>1, <2>1, <2>2 DEF AllLastLooks, LastLook
  <2> QED BY <1>1, <1>3, <2>3, ResKept
<1> QED BY <1>2, <1>3

-----------------------------------------------------------------------------
(* The invariant, and what it says of what a tab shows.                     *)

LEMMA CxInvInit == CxInit => CxInv
<1> SUFFICES ASSUME CxInit PROVE CxInv
  OBVIOUS
<1>1. TabsTyped
  BY CxTypedInit
<1>2. Len(files) = 0 /\ DOMAIN files = {} /\ now = 0
  BY EmptySeq DEF CxInit
<1>3. ASSUME NEW t \in Tabs
      PROVE  /\ tui[t].st = "none" /\ tui[t].opened = NoTime /\ tui[t].file = 0
             /\ tab[t].at = NoTime /\ tab[t].res = 0 /\ ~tab[t].fin /\ tab[t].cache = NoPage
             /\ polls[t].pc = "idle" /\ polls[t].cands = {} /\ shown[t] = NoPage
  BY DEF CxInit, Fresh0, NoLook
<1>4. ASSUME NEW t \in Tabs PROVE Lives(t) /\ Judging(t) /\ Firsts(t) /\ Reads(t) /\ LastLook(t)
  <2>1. Lives(t)
    BY <1>2, <1>3 DEF Lives, NoTime
  <2> QED BY <1>2, <1>3, <2>1 DEF Judging, Firsts, Reads, LastLook
<1> QED
  BY <1>1, <1>2, <1>3, <1>4
  DEF CxInv, AllLive, AllJudging, AllFirsts, AllMade, AllReads, AllLastLooks, OwnTranscript

LEMMA CxInvStep == CxInv /\ [CxNext]_cxVars => CxInv'
<1> SUFFICES ASSUME CxInv, [CxNext]_cxVars PROVE CxInv'
  OBVIOUS
<1>1. CASE CxNext
  <2>1. TabsTyped' /\ AllMade' /\ OwnTranscript' /\ AllLastLooks'
    BY <1>1, TypedStep, MadeStep, OwnStep, LastLookStep DEF CxInv
  <2>2. AllLive' /\ AllJudging' /\ AllFirsts' /\ AllReads'
    BY <1>1, KnownStep DEF Noted, AllLive, AllJudging, AllFirsts, AllReads
  <2> QED BY <2>1, <2>2 DEF CxInv
<1>2. CASE UNCHANGED cxVars
  BY <1>2 DEF cxVars, CxInv, TabsTyped, AllLive, AllJudging, AllFirsts, AllMade, AllReads,
              OwnTranscript, AllLastLooks, Lives, Judging, Firsts, Made, Reads, LastLook, TabAlone,
              Owns, Covers, AppSpawnable, InTime, SecondIn
<1> QED BY <1>1, <1>2

LEMMA CxInvShows == CxInv => TabsShowTheirOwn
<1> SUFFICES ASSUME CxInv PROVE TabsShowTheirOwn
  OBVIOUS
<1>1. OwnTranscript /\ TabsTyped
  BY DEF CxInv
<1>2. ShownIsCurrent
  <2> SUFFICES ASSUME NEW t \in Tabs, tab[t].res # 0, shown[t].sig = files[tab[t].res].n
               PROVE  shown[t].n = files[tab[t].res].n
    BY DEF ShownIsCurrent
  <2>1. shown[t].sig \in Nat /\ shown[t].n \in Nat
    BY <1>1 DEF TabsTyped, PageRec
  <2>2. shown[t].sig <= shown[t].n /\ shown[t].n <= files[tab[t].res].n
    BY DEF CxInv, AllReads, Reads
  <2> QED BY <2>1, <2>2
<1>3. FinalLookFinds
  <2> SUFFICES ASSUME NEW t \in Tabs, NEW f \in DOMAIN files,
                      tab[t].fin, tui[t].st = "dead", files[f].owner = t, files[f].there,
                      {g \in DOMAIN files : files[g].mark /\ AppSpawnable(g) /\ Covers(t, g)} = {f},
                      \A s \in Tabs \ {t} : ~Covers(s, f)
               PROVE  tab[t].res = f
    BY DEF FinalLookFinds
  <2>1. TabAlone(t, f)
    BY DEF TabAlone, Owns
  <2> QED BY <2>1 DEF CxInv, AllLastLooks, LastLook
<1> QED BY <1>1, <1>2, <1>3 DEF TabsShowTheirOwn

(* What the backend keeps of a tab has its type: what was found, read or is  *)
(* being judged are transcripts there are (CodexState, the poll thread).     *)
THEOREM CxTypeTheorem == CxSpec => []CxTypeOK
<1>1. CxInv => CxTypeOK
  <2> SUFFICES ASSUME CxInv PROVE CxTypeOK
    OBVIOUS
  <2>1. TabsTyped /\ AllLive
    BY DEF CxInv
  <2>2. \A t \in Tabs : tui[t].file \in 0 .. Len(files)
    <3> TAKE t \in Tabs
    <3>1. tui[t].file # 0 => tui[t].file \in DOMAIN files
      BY <2>1 DEF AllLive, Lives, Owns
    <3> QED BY <2>1, <3>1, Numbers, FileAt
  <2> QED BY <2>1, <2>2 DEF CxTypeOK, TabsTyped, AllLive, Lives
<1> QED BY <1>1, CxInvInit, CxInvStep, PTL DEF CxSpec

(* A tab never shows the conversation of the user's own codex nor a worker's *)
(* log, nor another tab's as long as no tab of the directory has begun a     *)
(* second conversation; a view whose signature is the file's shows all of    *)
(* the file; and a tab that ended right after its transcript was made finds  *)
(* it (match_rollout, the poll of a Codex timeline).                         *)
THEOREM TabsTheorem == CxSpec => []TabsShowTheirOwn
BY CxInvInit, CxInvStep, CxInvShows, PTL DEF CxSpec

-----------------------------------------------------------------------------
(* Recursion over a list.  The prover has no induction over data: a least    *)
(* counterexample takes its place.                                           *)

LEMMA LeastNat ==
  ASSUME NEW S \in SUBSET Nat, S # {}
  PROVE  \E m \in S : \A n \in S : m <= n
<1> DEFINE R == OpToRel(<, Nat)
<1>1. PICK m \in S : \A n \in S : ~(<<n, m>> \in R)
  <2> HIDE DEF R
  <2>1. IsWellFoundedOn(R, Nat)
    BY NatLessThanWellFounded DEF R
  <2> QED BY <2>1, WFMin
<1>2. \A n \in S : ~(n < m)
  BY <1>1 DEF OpToRel
<1> QED BY <1>2

LEMMA UpTo ==
  ASSUME NEW m \in Nat, NEW S, 0 \in S, \A n \in 1..m : n - 1 \in S => n \in S
  PROVE  m \in S
<1> DEFINE T == {n \in 0..m : n \notin S}
<1>1. SUFFICES ASSUME T # {} PROVE FALSE
  OBVIOUS
<1>2. PICK n \in T : \A k \in T : n <= k
  <2>1. T \in SUBSET Nat OBVIOUS
  <2> HIDE DEF T
  <2> QED BY <1>1, <2>1, LeastNat
<1>3. n \in 1..m /\ n - 1 \in 0..m /\ ~(n <= n - 1) BY <1>2
<1> QED BY <1>2, <1>3

(* The values of a recursion with the steps `step`.                          *)
Running(f, v, step, m) ==
  /\ f = [n \in 0..m |-> f[n]]
  /\ f[0] = v /\ \A n \in 1..m : f[n] = step[n][f[n - 1]]

LEMMA RunExists ==
  ASSUME NEW W, NEW v \in W, NEW m \in Nat, NEW step, \A n \in 1..m : step[n] \in [W -> W]
  PROVE  \E f \in [0..m -> W] : Running(f, v, step, m)
<1> DEFINE S == {n \in 0..m : \E f \in [0..n -> W] : Running(f, v, step, n)}
<1>1. 0 \in S
  <2>1. [n \in 0..0 |-> v] \in [0..0 -> W] OBVIOUS
  <2>2. Running([n \in 0..0 |-> v], v, step, 0) BY DEF Running
  <2> QED BY <2>1, <2>2
<1>2. ASSUME NEW n \in 1..m, n - 1 \in S PROVE n \in S
  <2>1. PICK f \in [0..(n - 1) -> W] : Running(f, v, step, n - 1) BY <1>2
  <2> DEFINE g == [k \in 0..n |-> IF k = n THEN step[n][f[n - 1]] ELSE f[k]]
  <2>2. n - 1 \in 0..(n - 1) /\ f[n - 1] \in W OBVIOUS
  <2>3. step[n][f[n - 1]] \in W BY <2>2
  <2>4. g \in [0..n -> W]
    <3> SUFFICES ASSUME NEW k \in 0..n PROVE g[k] \in W
      OBVIOUS
    <3>1. CASE k = n BY <2>3, <3>1
    <3>2. CASE k # n
      <4>1. k \in 0..(n - 1) BY <3>2
      <4> QED BY <3>2, <4>1
    <3> QED BY <3>1, <3>2
  <2>5. g[0] = v /\ 0 # n BY <2>1 DEF Running
  <2>6. ASSUME NEW k \in 1..n PROVE g[k] = step[k][g[k - 1]]
    <3>1. k - 1 \in 0..n /\ k - 1 # n /\ g[k - 1] = f[k - 1] OBVIOUS
    <3>2. CASE k = n BY <3>1, <3>2
    <3>3. CASE k # n
      <4>1. k \in 1..(n - 1) /\ k \in 0..n BY <3>3
      <4>2. f[k] = step[k][f[k - 1]] BY <2>1, <4>1 DEF Running
      <4> QED BY <3>1, <3>3, <4>1, <4>2
    <3> QED BY <3>2, <3>3
  <2>7. Running(g, v, step, n)
    <3>1. g = [k \in 0..n |-> g[k]] OBVIOUS
    <3> HIDE DEF g
    <3> QED BY <2>5, <2>6, <3>1 DEF Running
  <2>8. n \in 0..m OBVIOUS
  <2> QED BY <2>4, <2>7, <2>8
<1>3. m \in S
  <2> HIDE DEF S
  <2> QED BY <1>1, <1>2, UpTo
<1> QED BY <1>3

-----------------------------------------------------------------------------
(* The mapper: its types, and what an application of a block or a record     *)
(* does to the items.                                                        *)

Item == [seq : Nat, turn : Nat, status : ItemStatus, rev : Nat]
Tally == [0 .. MaxLog -> Nat]
Mappers == [items : [CallIds -> Item], next : Nat, turn : Nat, answers : Tally, tokens : Tally, usage : Nat]
Blocks == {Text} \cup ToolBlocks \cup {Block("think", i, "") : i \in CallIds}
Roles == {"user", "assistant", "junk"}
Fits(role, b) == b.type = "think" => role = "assistant"

(* Every item has its place, its own, and was first seen in a turn that was. *)
Placed(m) ==
  /\ m.next >= 1
  /\ \A i \in CallIds : m.items[i].seq < m.next /\ m.items[i].turn <= m.turn
  /\ \A i, j \in CallIds : i # j /\ m.items[i].seq # 0 => m.items[i].seq # m.items[j].seq

(* What may become of the items of m in w.                                   *)
Later(m, w) ==
  \A i \in CallIds : Known(m, i) =>
    /\ Known(w, i)
    /\ w.items[i] # m.items[i] => w.items[i].rev > m.items[i].rev
    /\ w.items[i].seq = m.items[i].seq /\ w.items[i].turn = m.items[i].turn
    /\ IsOpen(w.items[i]) => IsOpen(m.items[i])

LEMMA TallyUp == ASSUME NEW f \in Tally, NEW t PROVE [f EXCEPT ![t] = @ + 1] \in Tally
<1>1. \A u \in 0 .. MaxLog : f[u] \in Nat /\ [f EXCEPT ![t] = @ + 1][u] = IF u = t THEN f[u] + 1 ELSE f[u]
  BY DEF Tally
<1>2. \A u \in 0 .. MaxLog : [f EXCEPT ![t] = @ + 1][u] \in Nat BY <1>1
<1>3. PICK g : g = [f EXCEPT ![t] = @ + 1] OBVIOUS
<1>4. DOMAIN g = 0 .. MaxLog /\ g = [u \in 0 .. MaxLog |-> g[u]] BY <1>3 DEF Tally
<1> QED BY <1>2, <1>3, <1>4 DEF Tally

LEMMA LaterSame == ASSUME NEW m \in Mappers, NEW w, w.items = m.items PROVE Later(m, w)
BY DEF Later, Known

LEMMA LaterAgain ==
  ASSUME NEW m \in Mappers, NEW w \in Mappers, NEW u \in Mappers, Later(m, w), Later(w, u)
  PROVE  Later(m, u)
<1> SUFFICES ASSUME NEW i \in CallIds, Known(m, i)
             PROVE  /\ Known(u, i)
                    /\ u.items[i] # m.items[i] => u.items[i].rev > m.items[i].rev
                    /\ u.items[i].seq = m.items[i].seq /\ u.items[i].turn = m.items[i].turn
                    /\ IsOpen(u.items[i]) => IsOpen(m.items[i])
  BY DEF Later
<1>1. Known(w, i) /\ Known(u, i) BY DEF Later
<1>2. PICK a \in Item, b \in Item, c \in Item : a = m.items[i] /\ b = w.items[i] /\ c = u.items[i]
  BY DEF Mappers
<1>3. /\ b # a => b.rev > a.rev
      /\ b.seq = a.seq /\ b.turn = a.turn /\ (IsOpen(b) => IsOpen(a))
  BY <1>2 DEF Later
<1>4. /\ c # b => c.rev > b.rev
      /\ c.seq = b.seq /\ c.turn = b.turn /\ (IsOpen(c) => IsOpen(b))
  BY <1>1, <1>2 DEF Later
<1>5. a.rev \in Nat /\ b.rev \in Nat /\ c.rev \in Nat BY DEF Item
<1>6. c # a => c.rev > a.rev BY <1>3, <1>4, <1>5
<1> QED BY <1>1, <1>2, <1>3, <1>4, <1>6

(* An item of an id, changed or made.                                        *)
LEMMA EntryFact ==
  ASSUME NEW m \in Mappers, Placed(m), NEW i \in CallIds
  PROVE  LET w == Entry(m, i)
         IN /\ w \in Mappers /\ Placed(w) /\ Later(m, w) /\ Known(w, i)
            /\ w.turn = m.turn /\ w.tokens = m.tokens
            /\ w.items[i].rev = m.items[i].rev \/ ~Known(m, i)
            /\ \A j \in CallIds : j # i => w.items[j] = m.items[j]
<1>1. CASE Known(m, i)
  <2>1. Entry(m, i) = m BY <1>1 DEF Entry
  <2> QED BY <1>1, <2>1, LaterSame
<1>2. CASE ~Known(m, i)
  <2>1. PICK it : it = [NoItem EXCEPT !.seq = m.next, !.turn = m.turn] OBVIOUS
  <2>2. it \in Item /\ it.seq = m.next /\ it.turn = m.turn
    BY <2>1 DEF NoItem, Item, ItemStatus, Mappers
  <2>3. PICK its : its = [m.items EXCEPT ![i] = it] OBVIOUS
  <2>4. its \in [CallIds -> Item] /\ its[i] = it /\ \A j \in CallIds : j # i => its[j] = m.items[j]
    BY <2>2, <2>3 DEF Mappers
  <2> m.next \in Nat /\ m.turn \in Nat BY DEF Mappers
  <2> PICK next \in Nat : next = m.next + 1 OBVIOUS
  <2>5. PICK w : w = [m EXCEPT !.items = its, !.next = next] OBVIOUS
  <2>6. Entry(m, i) = w
    BY <1>2, <2>1, <2>3, <2>5 DEF Entry
  <2>7. w \in Mappers /\ w.items = its /\ w.next = m.next + 1 /\ w.turn = m.turn /\ w.tokens = m.tokens
    BY <2>4, <2>5 DEF Mappers
  <2>8. m.items \in [CallIds -> Item] /\ \A j \in CallIds : m.items[j].seq \in Nat /\ m.items[j].turn \in Nat
    BY DEF Mappers, Item
  <2>9. Placed(w) BY <2>2, <2>4, <2>7, <2>8 DEF Placed
  <2>10. Later(m, w) BY <1>2, <2>4, <2>7 DEF Later, Known
  <2>11. Known(w, i) BY <2>2, <2>4, <2>7 DEF Known, Placed
  <2> QED BY <1>2, <2>4, <2>6, <2>7, <2>9, <2>10, <2>11
<1> QED BY <1>1, <1>2

(* What a block leaves of the rest, and makes of the item of its id.         *)
Lands(m, i, w) ==
  /\ w \in Mappers /\ Placed(w) /\ Later(m, w) /\ Known(w, i)
  /\ w.turn = m.turn /\ w.tokens = m.tokens

(* The item of an entry gets a status, and a revision if it was there.       *)
LEMMA LandsFact ==
  ASSUME NEW m \in Mappers, Placed(m), NEW i \in CallIds, NEW s \in ItemStatus, NEW rev \in Nat,
         Known(m, i) => rev > m.items[i].rev,
         Known(m, i) /\ s \in {"pending", "running"} => IsOpen(m.items[i]),
         NEW w, w = [Entry(m, i) EXCEPT !.items[i].status = s, !.items[i].rev = rev]
  PROVE  Lands(m, i, w)
<1>1. PICK e \in Mappers : e = Entry(m, i) BY EntryFact
<1>2. /\ Placed(e) /\ Later(m, e) /\ Known(e, i) /\ e.turn = m.turn /\ e.tokens = m.tokens
      /\ \A j \in CallIds : j # i => e.items[j] = m.items[j]
  BY <1>1, EntryFact
<1>3. PICK it : it = [e.items[i] EXCEPT !.status = s, !.rev = rev] OBVIOUS
<1>4. it \in Item /\ it.seq = e.items[i].seq /\ it.turn = e.items[i].turn /\ it.status = s /\ it.rev = rev
  BY <1>3 DEF Item, Mappers
<1>5. PICK its : its = [e.items EXCEPT ![i] = it] OBVIOUS
<1>6. /\ its \in [CallIds -> Item] /\ its[i] = it /\ \A j \in CallIds : j # i => its[j] = e.items[j]
  BY <1>4, <1>5 DEF Mappers
<1>7. w = [e EXCEPT !.items = its] BY <1>1, <1>3, <1>5 DEF Mappers, Item
<1>8. w \in Mappers /\ w.items = its /\ w.next = e.next /\ w.turn = e.turn /\ w.tokens = e.tokens
  BY <1>6, <1>7 DEF Mappers
<1>9. \A j \in CallIds : w.items[j].seq = e.items[j].seq /\ w.items[j].turn = e.items[j].turn
  BY <1>4, <1>6, <1>8
<1>10. Placed(w) BY <1>2, <1>8, <1>9 DEF Placed
<1>11. Later(m, w)
  <2> SUFFICES ASSUME NEW j \in CallIds, Known(m, j)
               PROVE  /\ Known(w, j)
                      /\ w.items[j] # m.items[j] => w.items[j].rev > m.items[j].rev
                      /\ w.items[j].seq = m.items[j].seq /\ w.items[j].turn = m.items[j].turn
                      /\ IsOpen(w.items[j]) => IsOpen(m.items[j])
    BY DEF Later
  <2>1. /\ Known(e, j) /\ e.items[j].seq = m.items[j].seq /\ e.items[j].turn = m.items[j].turn
        /\ Known(w, j)
    BY <1>2, <1>9 DEF Later, Known
  <2>2. CASE j = i BY <1>4, <1>6, <1>8, <2>1, <2>2 DEF IsOpen
  <2>3. CASE j # i BY <1>2, <1>6, <1>8, <2>1, <2>3
  <2> QED BY <2>2, <2>3
<1>12. Known(w, i) BY <1>2, <1>9 DEF Known
<1> QED BY <1>2, <1>8, <1>10, <1>11, <1>12 DEF Lands

LEMMA BlockFact ==
  ASSUME NEW m \in Mappers, Placed(m), NEW role \in Roles, NEW b \in Blocks, Fits(role, b)
  PROVE  LET w == ApplyBlock(role, m, b)
         IN /\ w \in Mappers /\ Placed(w) /\ Later(m, w) /\ w.turn = m.turn /\ w.tokens = m.tokens
            /\ b.type # "text" => b.id \in CallIds /\ Known(w, b.id)
<1>0. \A i \in CallIds : m.items[i] \in Item BY DEF Mappers
<1>1. CASE b = Text
  <2>1. b.type = "text" /\ b.id = "" BY <1>1 DEF Text, Block
  <2>2. CASE role # "assistant"
    <3>1. ApplyBlock(role, m, b) = m BY <2>1, <2>2 DEF ApplyBlock
    <3> QED BY <2>1, <3>1, LaterSame
  <2>3. CASE role = "assistant"
    <3>1. PICK w : w = [m EXCEPT !.answers[m.turn] = @ + 1] OBVIOUS
    <3>2. ApplyBlock(role, m, b) = w BY <2>1, <2>3, <3>1 DEF ApplyBlock
    <3>3. PICK ans \in Tally : ans = [m.answers EXCEPT ![m.turn] = @ + 1]
      BY TallyUp DEF Mappers
    <3>4. w = [m EXCEPT !.answers = ans] BY <3>1, <3>3 DEF Mappers
    <3>5. w \in Mappers /\ w.items = m.items /\ w.next = m.next /\ w.turn = m.turn /\ w.tokens = m.tokens
      BY <3>4 DEF Mappers
    <3>6. Placed(w) BY <3>5 DEF Placed
    <3> QED BY <2>1, <3>2, <3>5, <3>6, LaterSame
  <2> QED BY <2>2, <2>3
<1>2. ASSUME NEW i \in CallIds, b = Block("use", i, "")
      PROVE  Lands(m, i, ApplyBlock(role, m, b))
  <2>1. PICK e \in Mappers : e = Entry(m, i) BY EntryFact
  <2>2. e.items[i].rev \in Nat /\ e.items[i].status \in ItemStatus /\ e.items \in [CallIds -> Item]
    BY DEF Mappers, Item
  <2>3. PICK s : s = IF e.items[i].status = "pending" THEN "running" ELSE e.items[i].status OBVIOUS
  <2>4. PICK rev : rev = IF Known(m, i) THEN e.items[i].rev + 1 ELSE e.items[i].rev OBVIOUS
  <2>5. s \in ItemStatus /\ rev \in Nat BY <2>2, <2>3, <2>4 DEF ItemStatus
  <2>6. Known(m, i) => e = m BY <2>1 DEF Entry
  <2>7. Known(m, i) => rev > m.items[i].rev BY <2>2, <2>4, <2>6
  <2>8. Known(m, i) /\ s \in {"pending", "running"} => IsOpen(m.items[i]) BY <2>3, <2>6 DEF IsOpen
  <2>9. ApplyBlock(role, m, b) = [Entry(m, i) EXCEPT !.items[i].status = s, !.items[i].rev = rev]
    <3>1. ApplyBlock(role, m, b) = OpenToolUse(m, i) BY <1>2 DEF ApplyBlock, Block
    <3> QED BY <2>1, <2>2, <2>3, <2>4, <3>1 DEF OpenToolUse, Item, Mappers
  <2> QED BY <2>5, <2>7, <2>8, <2>9, LandsFact
<1>3. ASSUME NEW i \in CallIds, NEW h \in Outcomes, b = Block("result", i, h)
      PROVE  Lands(m, i, ApplyBlock(role, m, b))
  <2>1. PICK e \in Mappers : e = Entry(m, i) BY EntryFact
  <2>2. e.items[i].rev \in Nat /\ e.items \in [CallIds -> Item] BY DEF Mappers, Item
  <2>3. PICK s : s = CASE h = "rejected" -> "canceled" [] h = "error" -> "failed" [] h = "ok" -> "completed"
    OBVIOUS
  <2>4. PICK rev \in Nat : rev = e.items[i].rev + 1 BY <2>2
  <2>5. s \in ItemStatus /\ s \notin {"pending", "running"} BY <1>3, <2>3 DEF ItemStatus, Outcomes
  <2>6. Known(m, i) => rev > m.items[i].rev BY <2>1, <2>2, <2>4 DEF Entry
  <2>7. ApplyBlock(role, m, b) = [Entry(m, i) EXCEPT !.items[i].status = s, !.items[i].rev = rev]
    <3>1. ApplyBlock(role, m, b) = CompleteToolResult(m, i, h) BY <1>3 DEF ApplyBlock, Block
    <3> QED BY <2>1, <2>2, <2>3, <2>4, <3>1 DEF CompleteToolResult, Item, Mappers
  <2> QED BY <2>5, <2>6, <2>7, LandsFact
<1>4. ASSUME NEW i \in CallIds, b = Block("think", i, "")
      PROVE  Lands(m, i, ApplyBlock(role, m, b))
  <2>1. PICK e \in Mappers : e = Entry(m, i) BY EntryFact
  <2>2. e.items[i].rev \in Nat /\ e.items \in [CallIds -> Item] BY DEF Mappers, Item
  <2>3. PICK rev : rev = IF Known(m, i) THEN e.items[i].rev + 1 ELSE e.items[i].rev OBVIOUS
  <2>4. rev \in Nat BY <2>2, <2>3
  <2>5. Known(m, i) => rev > m.items[i].rev BY <2>1, <2>2, <2>3 DEF Entry
  <2>6. ApplyBlock(role, m, b) = [Entry(m, i) EXCEPT !.items[i].status = "completed", !.items[i].rev = rev]
    <3>1. ApplyBlock(role, m, b) = OpenThinking(m, i) BY <1>4 DEF ApplyBlock, Block, Fits
    <3> QED BY <2>1, <2>2, <2>3, <3>1 DEF OpenThinking, Item, Mappers
  <2>7. "completed" \in ItemStatus /\ "completed" \notin {"pending", "running"} BY DEF ItemStatus
  <2> QED BY <2>4, <2>5, <2>6, <2>7, LandsFact
<1>5. CASE b # Text
  <2>1. \E i \in CallIds : b.id = i /\ Lands(m, i, ApplyBlock(role, m, b))
    <3>1. \/ \E i \in CallIds : b = Block("use", i, "")
          \/ \E i \in CallIds : b = Block("think", i, "")
          \/ \E i \in CallIds : \E h \in Outcomes : b = Block("result", i, h)
      BY <1>5 DEF Blocks, ToolBlocks
    <3>2. \A i, h : Block("use", i, "").id = i /\ Block("think", i, "").id = i /\ Block("result", i, h).id = i
      BY DEF Block
    <3> QED BY <1>2, <1>3, <1>4, <3>1, <3>2
  <2> QED BY <2>1 DEF Lands
<1> QED BY <1>1, <1>5

(* The blocks of a record: what their application keeps.                     *)
LEMMA BlocksRun ==
  ASSUME NEW m \in Mappers, Placed(m), NEW role \in Roles, NEW bs \in Seq(Blocks),
         \A k \in 1..Len(bs) : Fits(role, bs[k])
  PROVE  \E f : /\ f[0] = m /\ ApplyBlocks(role, m, bs) = f[Len(bs)]
                /\ \A k \in 1..Len(bs) : f[k] = ApplyBlock(role, f[k - 1], bs[k])
<1> DEFINE W == {w \in Mappers : Placed(w)}
           step == [k \in 1..Len(bs) |-> [w \in W |-> ApplyBlock(role, w, bs[k])]]
<1>1. Len(bs) \in Nat /\ \A k \in 1..Len(bs) : bs[k] \in Blocks OBVIOUS
<1>2. \A k \in 1..Len(bs) : step[k] \in [W -> W]
  <2> SUFFICES ASSUME NEW k \in 1..Len(bs), NEW w \in W PROVE ApplyBlock(role, w, bs[k]) \in W
    OBVIOUS
  <2> QED BY <1>1, BlockFact
<1>3. PICK f \in [0..Len(bs) -> W] : Running(f, m, step, Len(bs))
  <2> m \in W OBVIOUS
  <2> HIDE DEF W, step
  <2> QED BY <1>1, <1>2, RunExists
<1>4. f[0] = m /\ \A k \in 1..Len(bs) : f[k] = ApplyBlock(role, f[k - 1], bs[k])
  <2>1. \A k \in 1..Len(bs) : k - 1 \in 0..Len(bs) /\ f[k - 1] \in W BY <1>1
  <2> QED BY <1>3, <2>1 DEF Running
<1>5. f = [n \in 0..Len(bs) |-> IF n = 0 THEN m ELSE ApplyBlock(role, f[n - 1], bs[n])]
  <2>1. f = [n \in 0..Len(bs) |-> f[n]] OBVIOUS
  <2>2. \A n \in 0..Len(bs) : n = 0 \/ n \in 1..Len(bs) BY <1>1
  <2> QED BY <1>4, <2>1, <2>2
<1> DEFINE g == CHOOSE g0 : g0 = [n \in 0..Len(bs) |-> IF n = 0 THEN m ELSE ApplyBlock(role, g0[n - 1], bs[n])]
<1>6. g = [n \in 0..Len(bs) |-> IF n = 0 THEN m ELSE ApplyBlock(role, g[n - 1], bs[n])]
  BY <1>5
<1>7. ApplyBlocks(role, m, bs) = g[Len(bs)] BY DEF ApplyBlocks
<1>8. g[0] = m /\ \A k \in 1..Len(bs) : g[k] = ApplyBlock(role, g[k - 1], bs[k])
  <2> HIDE DEF g
  <2>1. \A k \in 1..Len(bs) : k \in 0..Len(bs) /\ k # 0 BY <1>1
  <2>2. 0 \in 0..Len(bs) BY <1>1
  <2> QED BY <1>6, <2>1, <2>2
<1> QED
  <2> HIDE DEF g
  <2> QED BY <1>7, <1>8

LEMMA BlocksFact ==
  ASSUME NEW m \in Mappers, Placed(m), NEW role \in Roles, NEW bs \in Seq(Blocks),
         \A k \in 1..Len(bs) : Fits(role, bs[k])
  PROVE  LET w == ApplyBlocks(role, m, bs)
         IN /\ w \in Mappers /\ Placed(w) /\ Later(m, w) /\ w.turn = m.turn /\ w.tokens = m.tokens
            /\ \A k \in 1..Len(bs) : bs[k].type # "text" => bs[k].id \in CallIds /\ Known(w, bs[k].id)
<1>1. PICK f : /\ f[0] = m /\ ApplyBlocks(role, m, bs) = f[Len(bs)]
               /\ \A k \in 1..Len(bs) : f[k] = ApplyBlock(role, f[k - 1], bs[k])
  BY BlocksRun
<1> DEFINE P(n) == /\ f[n] \in Mappers /\ Placed(f[n]) /\ Later(m, f[n])
                   /\ f[n].turn = m.turn /\ f[n].tokens = m.tokens
                   /\ \A k \in 1..n : bs[k].type # "text" => bs[k].id \in CallIds /\ Known(f[n], bs[k].id)
           S == {n \in 0..Len(bs) : P(n)}
<1>2. Len(bs) \in Nat /\ \A k \in 1..Len(bs) : bs[k] \in Blocks OBVIOUS
<1>3. 0 \in S BY <1>1, <1>2, LaterSame
<1>4. ASSUME NEW n \in 1..Len(bs), n - 1 \in S PROVE n \in S
  <2> DEFINE u == f[n - 1]
             w == f[n]
  <2>1. P(n - 1) BY <1>4
  <2>2. w = ApplyBlock(role, u, bs[n]) BY <1>1
  <2>3. u \in Mappers /\ Placed(u) /\ Later(m, u) /\ u.turn = m.turn /\ u.tokens = m.tokens BY <2>1
  <2>4. /\ w \in Mappers /\ Placed(w) /\ Later(u, w) /\ w.turn = u.turn /\ w.tokens = u.tokens
        /\ bs[n].type # "text" => bs[n].id \in CallIds /\ Known(w, bs[n].id)
    BY <1>2, <2>2, <2>3, BlockFact
  <2>5. Later(m, w) BY <2>3, <2>4, LaterAgain
  <2>6. ASSUME NEW k \in 1..n, bs[k].type # "text" PROVE bs[k].id \in CallIds /\ Known(w, bs[k].id)
    <3>1. CASE k = n BY <2>4, <2>6, <3>1
    <3>2. CASE k # n
      <4>1. k \in 1..(n - 1) BY <3>2
      <4>2. bs[k].id \in CallIds /\ Known(u, bs[k].id) BY <2>1, <2>6, <4>1
      <4> QED BY <2>4, <4>2 DEF Later
    <3> QED BY <3>1, <3>2
  <2>7. n \in 0..Len(bs) BY <1>2
  <2>8. P(n)
    <3> HIDE DEF u, w
    <3> QED BY <2>3, <2>4, <2>5, <2>6 DEF w
  <2> QED BY <2>7, <2>8
<1>5. Len(bs) \in S
  <2> HIDE DEF S
  <2> QED BY <1>2, <1>3, <1>4, UpTo
<1>6. P(Len(bs)) BY <1>5
<1> QED
  <2> HIDE DEF P, S
  <2> QED BY <1>1, <1>6 DEF P

(* The records one by one: one of no blocks, of one, or of two.              *)
LEMMA RecordIs ==
  ASSUME NEW r \in Records
  PROVE  \/ \E t \in {"prompt", "interrupt"} : r = [role |-> "user", text |-> t, blocks |-> <<>>]
         \/ \E b \in ToolBlocks : r = [role |-> "user", text |-> "", blocks |-> <<b>>]
         \/ \E i \in CallIds : r = [role |-> "assistant", text |-> "", blocks |-> <<Text, Block("use", i, "")>>]
         \/ \E i \in CallIds : r = [role |-> "assistant", text |-> "", blocks |-> <<Block("think", i, "")>>]
         \/ \E i \in CallIds : r = [role |-> "user", text |-> "prompt", blocks |-> <<Block("result", i, "ok")>>]
         \/ r = [role |-> "junk", text |-> "", blocks |-> <<>>]
<1>1. CASE r \in {[role |-> "user", text |-> t, blocks |-> <<>>] : t \in {"prompt", "interrupt"}}
  <2>1. \E t \in {"prompt", "interrupt"} : r = [role |-> "user", text |-> t, blocks |-> <<>>] BY <1>1, Zenon
  <2> QED BY <2>1
<1>2. CASE r \in {[role |-> "user", text |-> "", blocks |-> <<b>>] : b \in ToolBlocks}
  <2>1. \E b \in ToolBlocks : r = [role |-> "user", text |-> "", blocks |-> <<b>>] BY <1>2, Zenon
  <2> QED BY <2>1
<1>3. CASE r \in {[role |-> "assistant", text |-> "", blocks |-> <<Text, Block("use", i, "")>>] : i \in CallIds}
  <2>1. \E i \in CallIds : r = [role |-> "assistant", text |-> "", blocks |-> <<Text, Block("use", i, "")>>]
    BY <1>3, Zenon
  <2> QED BY <2>1
<1>4. CASE r \in {[role |-> "assistant", text |-> "", blocks |-> <<Block("think", i, "")>>] : i \in CallIds}
  <2>1. \E i \in CallIds : r = [role |-> "assistant", text |-> "", blocks |-> <<Block("think", i, "")>>]
    BY <1>4, Zenon
  <2> QED BY <2>1
<1>5. CASE r \in {[role |-> "user", text |-> "prompt", blocks |-> <<Block("result", i, "ok")>>] : i \in CallIds}
  <2>1. \E i \in CallIds : r = [role |-> "user", text |-> "prompt", blocks |-> <<Block("result", i, "ok")>>]
    BY <1>5, Zenon
  <2> QED BY <2>1
<1>6. CASE r \in {[role |-> "junk", text |-> "", blocks |-> <<>>]} BY <1>6
<1> QED BY <1>1, <1>2, <1>3, <1>4, <1>5, <1>6, Zenon DEF Records

LEMMA BlockIs ==
  /\ Text \in Blocks /\ Text.type = "text" /\ ToolBlocks \subseteq Blocks
  /\ \A i \in CallIds : /\ Block("use", i, "") \in Blocks /\ Block("use", i, "").type = "use"
                        /\ Block("think", i, "") \in Blocks /\ Block("think", i, "").type = "think"
                        /\ Block("result", i, "ok") \in Blocks /\ Block("result", i, "ok").type = "result"
  /\ \A b \in ToolBlocks : b.type \in {"use", "result"}
<1>1. Text \in Blocks /\ ToolBlocks \subseteq Blocks BY Zenon DEF Blocks
<1>2. \A i, t, h : Block(t, i, h).type = t BY DEF Block
<1>3. Text.type = "text" BY DEF Text, Block
<1>4. ASSUME NEW i \in CallIds
      PROVE  /\ Block("use", i, "") \in Blocks /\ Block("think", i, "") \in Blocks
             /\ Block("result", i, "ok") \in Blocks
  <2>1. "ok" \in Outcomes BY DEF Outcomes
  <2>2. Block("result", i, "ok") \in {Block("result", i, h) : h \in Outcomes} BY <2>1, Zenon
  <2>3. Block("result", i, "ok") \in UNION {{Block("result", j, h) : h \in Outcomes} : j \in CallIds}
    BY <2>2, Zenon
  <2>4. Block("use", i, "") \in Blocks BY Zenon DEF Blocks, ToolBlocks
  <2>5. Block("think", i, "") \in Blocks BY Zenon DEF Blocks
  <2>6. Block("result", i, "ok") \in Blocks BY <2>3, Zenon DEF Blocks, ToolBlocks
  <2> QED BY <2>4, <2>5, <2>6
<1>5. ASSUME NEW b \in ToolBlocks PROVE b.type \in {"use", "result"}
  <2>1. (\E i \in CallIds : b = Block("use", i, "")) \/ \E i \in CallIds : \E h \in Outcomes : b = Block("result", i, h)
    BY DEF ToolBlocks
  <2>2. CASE \E i \in CallIds : b = Block("use", i, "")
    <3>1. PICK i \in CallIds : b = Block("use", i, "") BY <2>2
    <3> QED BY <1>2, <3>1
  <2>3. CASE \E i \in CallIds : \E h \in Outcomes : b = Block("result", i, h)
    <3>1. PICK i \in CallIds, h \in Outcomes : b = Block("result", i, h) BY <2>3
    <3> QED BY <1>2, <3>1
  <2> QED BY <2>1, <2>2, <2>3
<1> QED BY <1>1, <1>2, <1>3, <1>4, <1>5, Zenon

LEMMA RecordFact ==
  ASSUME NEW r \in Records
  PROVE  /\ r.role \in Roles /\ r.text \in {"prompt", "interrupt", ""}
         /\ r.role = "assistant" => r.text = ""
         /\ r.blocks \in Seq(Blocks) /\ \A k \in 1..Len(r.blocks) : Fits(r.role, r.blocks[k])
<1>1. ASSUME NEW b \in Blocks, r.blocks = <<b>>, Fits(r.role, b)
      PROVE  r.blocks \in Seq(Blocks) /\ \A k \in 1..Len(r.blocks) : Fits(r.role, r.blocks[k])
  <2>1. <<b>> \in Seq(Blocks) /\ Len(<<b>>) = 1 /\ <<b>>[1] = b OBVIOUS
  <2> QED BY <1>1, <2>1
<1>2. ASSUME NEW b \in Blocks, NEW c \in Blocks, r.blocks = <<b, c>>, Fits(r.role, b), Fits(r.role, c)
      PROVE  r.blocks \in Seq(Blocks) /\ \A k \in 1..Len(r.blocks) : Fits(r.role, r.blocks[k])
  <2>1. <<b, c>> \in Seq(Blocks) /\ Len(<<b, c>>) = 2 /\ <<b, c>>[1] = b /\ <<b, c>>[2] = c OBVIOUS
  <2> QED BY <1>2, <2>1
<1>3. CASE r.blocks = <<>> /\ r.role \in {"user", "junk"} /\ r.text \in {"prompt", "interrupt", ""}
  <2>1. <<>> \in Seq(Blocks) /\ Len(<<>>) = 0 OBVIOUS
  <2>2. \A k \in 1..Len(r.blocks) : FALSE
    <3>1. Len(r.blocks) = 0 BY <1>3, <2>1
    <3>2. \A k \in 1..0 : FALSE OBVIOUS
    <3> QED BY <3>1, <3>2
  <2>3. r.role \in Roles /\ r.role # "assistant" BY <1>3 DEF Roles
  <2> QED BY <1>3, <2>1, <2>2, <2>3
<1>4. CASE \E b \in ToolBlocks : r = [role |-> "user", text |-> "", blocks |-> <<b>>]
  <2>1. PICK b \in ToolBlocks : r = [role |-> "user", text |-> "", blocks |-> <<b>>] BY <1>4
  <2>2. r.role = "user" /\ r.text = "" /\ r.blocks = <<b>> BY <2>1
  <2>3. b \in Blocks /\ Fits(r.role, b) BY BlockIs DEF Fits
  <2> QED BY <1>1, <2>2, <2>3 DEF Roles
<1>5. CASE \E i \in CallIds : r = [role |-> "assistant", text |-> "", blocks |-> <<Text, Block("use", i, "")>>]
  <2>1. PICK i \in CallIds : r = [role |-> "assistant", text |-> "", blocks |-> <<Text, Block("use", i, "")>>]
    BY <1>5
  <2>2. PICK b \in Blocks : b = Block("use", i, "") BY BlockIs
  <2>3. r.role = "assistant" /\ r.text = "" /\ r.blocks = <<Text, b>> BY <2>1, <2>2
  <2>4. Text \in Blocks /\ Fits(r.role, b) /\ Fits(r.role, Text) BY <2>3, BlockIs DEF Fits
  <2> QED BY <1>2, <2>3, <2>4 DEF Roles
<1>6. CASE \E i \in CallIds : r = [role |-> "assistant", text |-> "", blocks |-> <<Block("think", i, "")>>]
  <2>1. PICK i \in CallIds : r = [role |-> "assistant", text |-> "", blocks |-> <<Block("think", i, "")>>]
    BY <1>6
  <2>2. PICK b \in Blocks : b = Block("think", i, "") BY BlockIs
  <2>3. r.role = "assistant" /\ r.text = "" /\ r.blocks = <<b>> BY <2>1, <2>2
  <2>4. Fits(r.role, b) BY <2>3 DEF Fits
  <2> QED BY <1>1, <2>3, <2>4 DEF Roles
<1>7. CASE \E i \in CallIds : r = [role |-> "user", text |-> "prompt", blocks |-> <<Block("result", i, "ok")>>]
  <2>1. PICK i \in CallIds : r = [role |-> "user", text |-> "prompt", blocks |-> <<Block("result", i, "ok")>>]
    BY <1>7
  <2>2. PICK b \in Blocks : b = Block("result", i, "ok") BY BlockIs
  <2>3. r.role = "user" /\ r.text = "prompt" /\ r.blocks = <<b>> BY <2>1, <2>2
  <2>4. Fits(r.role, b) BY <2>2, BlockIs DEF Fits
  <2> QED BY <1>1, <2>3, <2>4 DEF Roles
<1>8. CASE \/ \E t \in {"prompt", "interrupt"} : r = [role |-> "user", text |-> t, blocks |-> <<>>]
           \/ r = [role |-> "junk", text |-> "", blocks |-> <<>>]
  <2>1. r.blocks = <<>> /\ r.role \in {"user", "junk"} /\ r.text \in {"prompt", "interrupt", ""}
    <3>1. CASE \E t \in {"prompt", "interrupt"} : r = [role |-> "user", text |-> t, blocks |-> <<>>]
      <4>1. PICK t \in {"prompt", "interrupt"} : r = [role |-> "user", text |-> t, blocks |-> <<>>] BY <3>1
      <4> QED BY <4>1
    <3>2. CASE r = [role |-> "junk", text |-> "", blocks |-> <<>>] BY <3>2
    <3> QED BY <1>8, <3>1, <3>2
  <2> QED BY <1>3, <2>1
<1> QED BY <1>4, <1>5, <1>6, <1>7, <1>8, RecordIs

(* An interrupt closes what is open.                                         *)
LEMMA CancelFact ==
  ASSUME NEW m \in Mappers, Placed(m)
  PROVE  LET w == CancelOpen(m)
         IN /\ w \in Mappers /\ Placed(w) /\ Later(m, w) /\ w.turn = m.turn /\ w.tokens = m.tokens
            /\ \A i \in CallIds : Known(w, i) => ~IsOpen(w.items[i])
<1>1. PICK its : its = [i \in CallIds |-> IF Known(m, i) /\ IsOpen(m.items[i])
                                         THEN [m.items[i] EXCEPT !.status = "canceled", !.rev = @ + 1]
                                         ELSE m.items[i]]
  OBVIOUS
<1>2. PICK w : w = [m EXCEPT !.items = its] OBVIOUS
<1>3. CancelOpen(m) = w
  <2>1. CancelOpen(m) = [m EXCEPT !.items = [i \in CallIds |-> IF Known(m, i) /\ IsOpen(m.items[i])
                                         THEN [m.items[i] EXCEPT !.status = "canceled", !.rev = @ + 1]
                                         ELSE m.items[i]]]
    BY DEF CancelOpen
  <2> QED BY <1>1, <1>2, <2>1, Zenon
<1>4. \A i \in CallIds : m.items[i] \in Item BY DEF Mappers
<1>5. ASSUME NEW i \in CallIds
      PROVE  /\ its[i] \in Item /\ its[i].seq = m.items[i].seq /\ its[i].turn = m.items[i].turn
             /\ its[i] # m.items[i] => its[i].rev > m.items[i].rev
             /\ IsOpen(its[i]) => IsOpen(m.items[i])
             /\ m.items[i].seq # 0 => ~IsOpen(its[i])
  <2>1. CASE Known(m, i) /\ IsOpen(m.items[i])
    <3>1. PICK a \in Item, rev \in Nat : a = m.items[i] /\ rev = a.rev + 1 BY <1>4 DEF Item
    <3>2. its[i] = [a EXCEPT !.status = "canceled", !.rev = rev] BY <1>1, <2>1, <3>1
    <3>3. its[i] \in Item /\ its[i].seq = a.seq /\ its[i].turn = a.turn /\ its[i].rev = rev
          /\ its[i].status = "canceled"
      BY <3>2 DEF Item, ItemStatus
    <3>4. rev > a.rev BY <3>1 DEF Item
    <3> QED BY <2>1, <3>1, <3>3, <3>4 DEF IsOpen
  <2>2. CASE ~(Known(m, i) /\ IsOpen(m.items[i])) BY <1>1, <1>4, <2>2 DEF Known
  <2> QED BY <2>1, <2>2
<1>6. its \in [CallIds -> Item]
  <2>1. its = [i \in CallIds |-> its[i]] BY <1>1
  <2> QED BY <1>5, <2>1
<1>7. w \in Mappers /\ w.items = its /\ w.next = m.next /\ w.turn = m.turn /\ w.tokens = m.tokens
  BY <1>2, <1>6 DEF Mappers
<1>8. Placed(w) BY <1>5, <1>7 DEF Placed
<1>9. Later(m, w) BY <1>5, <1>7 DEF Later, Known
<1>10. \A i \in CallIds : Known(w, i) => ~IsOpen(w.items[i]) BY <1>5, <1>7 DEF Known
<1> QED BY <1>3, <1>7, <1>8, <1>9, <1>10

LEMMA LineFact ==
  ASSUME NEW m \in Mappers, Placed(m), NEW r \in Records
  PROVE  LET w == ApplyLine(m, r)
         IN /\ w \in Mappers /\ Placed(w) /\ Later(m, w) /\ (w.turn = m.turn \/ w.turn = m.turn + 1)
            /\ w.tokens = IF r.role = "assistant" THEN [m.tokens EXCEPT ![m.turn] = @ + 1] ELSE m.tokens
            /\ \A i \in CallIds : Mentions(r, i) => Known(w, i)
            /\ r.text = "interrupt" => \A i \in CallIds : Known(w, i) => ~IsOpen(w.items[i])
<1>0. /\ r.role \in Roles /\ r.text \in {"prompt", "interrupt", ""} /\ (r.role = "assistant" => r.text = "")
      /\ r.blocks \in Seq(Blocks) /\ \A k \in 1..Len(r.blocks) : Fits(r.role, r.blocks[k])
  BY RecordFact
<1>1. CASE r.text = "interrupt"
  <2>1. ApplyLine(m, r) = CancelOpen(m) BY <1>1 DEF ApplyLine
  <2>2. r.role # "assistant" /\ \A i \in CallIds : ~Mentions(r, i) BY <1>0, <1>1 DEF Mentions
  <2> QED BY <2>1, <2>2, CancelFact
<1>2. CASE r.text = "prompt"
  <2>1. PICK turn \in Nat : turn = m.turn + 1 BY DEF Mappers
  <2>2. PICK w : w = [m EXCEPT !.turn = turn] OBVIOUS
  <2>3. ApplyLine(m, r) = w BY <1>2, <2>1, <2>2 DEF ApplyLine
  <2>4. w \in Mappers /\ w.items = m.items /\ w.next = m.next /\ w.turn = m.turn + 1 /\ w.tokens = m.tokens
    BY <2>1, <2>2 DEF Mappers
  <2>5. r.role # "assistant" /\ r.text # "interrupt" /\ \A i \in CallIds : ~Mentions(r, i)
    BY <1>0, <1>2 DEF Mentions
  <2>6. Placed(w)
    <3>1. m.turn \in Nat /\ \A i \in CallIds : m.items[i].turn \in Nat BY DEF Mappers, Item
    <3> QED BY <2>4, <3>1 DEF Placed
  <2> QED BY <2>3, <2>4, <2>5, <2>6, LaterSame
<1>3. CASE r.text = ""
  <2>1. PICK c : c = Counted(m, r) OBVIOUS
  <2>2. /\ c \in Mappers /\ c.items = m.items /\ c.next = m.next /\ c.turn = m.turn
        /\ c.tokens = IF r.role = "assistant" THEN [m.tokens EXCEPT ![m.turn] = @ + 1] ELSE m.tokens
    <3>1. CASE r.role # "assistant" BY <2>1, <3>1 DEF Counted
    <3>2. CASE r.role = "assistant"
      <4>1. PICK tok \in Tally : tok = [m.tokens EXCEPT ![m.turn] = @ + 1] BY TallyUp DEF Mappers
      <4>2. c = [m EXCEPT !.tokens = tok, !.usage = m.turn] BY <2>1, <3>2, <4>1 DEF Counted, Mappers
      <4>3. m.turn \in Nat BY DEF Mappers
      <4>4. c \in Mappers /\ c.items = m.items /\ c.next = m.next /\ c.turn = m.turn /\ c.tokens = tok
        BY <4>2, <4>3 DEF Mappers
      <4> QED BY <3>2, <4>1, <4>4
    <3> QED BY <3>1, <3>2
  <2>3. Placed(c) BY <2>2 DEF Placed
  <2>4. Later(m, c) BY <2>2, LaterSame
  <2>5. PICK w : w = ApplyBlocks(r.role, c, r.blocks) OBVIOUS
  <2>6. ApplyLine(m, r) = w BY <1>3, <2>1, <2>5 DEF ApplyLine
  <2>7. /\ w \in Mappers /\ Placed(w) /\ Later(c, w) /\ w.turn = c.turn /\ w.tokens = c.tokens
        /\ \A k \in 1..Len(r.blocks) : r.blocks[k].type # "text"
             => r.blocks[k].id \in CallIds /\ Known(w, r.blocks[k].id)
    BY <1>0, <2>2, <2>3, <2>5, BlocksFact
  <2>8. Later(m, w) BY <2>2, <2>4, <2>7, LaterAgain
  <2>9. \A i \in CallIds : Mentions(r, i) => Known(w, i)
    <3>0. PICK bs \in Seq(Blocks) : bs = r.blocks BY <1>0
    <3>1. DOMAIN r.blocks = 1..Len(r.blocks) BY <3>0
    <3> QED BY <2>7, <3>1 DEF Mentions
  <2> QED BY <1>3, <2>2, <2>6, <2>7, <2>8, <2>9
<1> QED BY <1>0, <1>1, <1>2, <1>3

-----------------------------------------------------------------------------
(* The records of a log one after the other, and a log in two parts.         *)

LEMMA LinesRun ==
  ASSUME NEW m \in Mappers, Placed(m), NEW s \in Seq(Records)
  PROVE  \E f : /\ f[0] = m /\ ApplyLines(m, s) = f[Len(s)]
                /\ \A k \in 1..Len(s) : f[k] = ApplyLine(f[k - 1], s[k])
                /\ \A k \in 0..Len(s) : f[k] \in Mappers /\ Placed(f[k])
<1> DEFINE W == {w \in Mappers : Placed(w)}
           step == [k \in 1..Len(s) |-> [w \in W |-> ApplyLine(w, s[k])]]
<1>1. Len(s) \in Nat /\ \A k \in 1..Len(s) : s[k] \in Records OBVIOUS
<1>2. \A k \in 1..Len(s) : step[k] \in [W -> W]
  <2> SUFFICES ASSUME NEW k \in 1..Len(s), NEW w \in W PROVE ApplyLine(w, s[k]) \in W
    OBVIOUS
  <2> QED BY <1>1, LineFact
<1>3. PICK f \in [0..Len(s) -> W] : Running(f, m, step, Len(s))
  <2> m \in W OBVIOUS
  <2> HIDE DEF W, step
  <2> QED BY <1>1, <1>2, RunExists
<1>4. f[0] = m /\ \A k \in 1..Len(s) : f[k] = ApplyLine(f[k - 1], s[k])
  <2>1. \A k \in 1..Len(s) : k - 1 \in 0..Len(s) /\ f[k - 1] \in W BY <1>1
  <2> QED BY <1>3, <2>1 DEF Running
<1>5. f = [n \in 0..Len(s) |-> IF n = 0 THEN m ELSE ApplyLine(f[n - 1], s[n])]
  <2>1. f = [n \in 0..Len(s) |-> f[n]] OBVIOUS
  <2>2. \A n \in 0..Len(s) : n = 0 \/ n \in 1..Len(s) BY <1>1
  <2> QED BY <1>4, <2>1, <2>2
<1> DEFINE g == CHOOSE g0 : g0 = [n \in 0..Len(s) |-> IF n = 0 THEN m ELSE ApplyLine(g0[n - 1], s[n])]
<1>6. g = [n \in 0..Len(s) |-> IF n = 0 THEN m ELSE ApplyLine(g[n - 1], s[n])]
  BY <1>5
<1>7. ApplyLines(m, s) = g[Len(s)] BY DEF ApplyLines
<1>8. g[0] = m /\ \A k \in 1..Len(s) : g[k] = ApplyLine(g[k - 1], s[k])
  <2> HIDE DEF g
  <2>1. \A k \in 1..Len(s) : k \in 0..Len(s) /\ k # 0 BY <1>1
  <2>2. 0 \in 0..Len(s) BY <1>1
  <2> QED BY <1>6, <2>1, <2>2
<1>9. \A k \in 0..Len(s) : g[k] \in W
  <2> HIDE DEF g, W
  <2> SUFFICES ASSUME NEW k \in 0..Len(s) PROVE g[k] \in W
    OBVIOUS
  <2> DEFINE S == {n \in 0..k : g[n] \in W}
  <2>1. 0 \in S BY <1>8 DEF W
  <2>2. ASSUME NEW n \in 1..k, n - 1 \in S PROVE n \in S
    <3>1. n \in 1..Len(s) /\ n \in 0..k BY <1>1
    <3>2. g[n - 1] \in Mappers /\ Placed(g[n - 1]) /\ g[n] = ApplyLine(g[n - 1], s[n])
      BY <1>8, <2>2, <3>1 DEF W
    <3> QED BY <1>1, <3>1, <3>2, LineFact DEF W
  <2>3. k \in Nat BY <1>1
  <2>4. k \in S
    <3> HIDE DEF S
    <3> QED BY <2>1, <2>2, <2>3, UpTo
  <2> QED BY <2>4
<1> QED
  <2> HIDE DEF g
  <2>1. \A k \in 0..Len(s) : g[k] \in Mappers /\ Placed(g[k]) BY <1>9
  <2> QED BY <1>7, <1>8, <2>1

LEMMA Prefix ==
  ASSUME NEW s \in Seq(Records), NEW a \in Nat, NEW b \in Nat, a <= b, b <= Len(s)
  PROVE  /\ SubSeq(s, a + 1, b) \in Seq(Records) /\ Len(SubSeq(s, a + 1, b)) = b - a
         /\ \A k \in 1..(b - a) : SubSeq(s, a + 1, b)[k] = s[a + k]
<1>1. PICK c \in Nat : c = a + 1 OBVIOUS
<1>2. \A k \in c..b : s[k] \in Records BY <1>1
<1>3. SubSeq(s, c, b) \in Seq(Records) BY <1>1
<1>4. Len(SubSeq(s, c, b)) = b - a BY <1>1
<1>5. \A k \in 1..(b - a) : SubSeq(s, c, b)[k] = s[a + k]
  <2> SUFFICES ASSUME NEW k \in 1..(b - a) PROVE SubSeq(s, c, b)[k] = s[a + k]
    OBVIOUS
  <2>1. SubSeq(s, c, b)[k] = s[c + k - 1] BY <1>1
  <2>2. c + k - 1 = a + k BY <1>1
  <2> QED BY <2>1, <2>2
<1> QED BY <1>1, <1>3, <1>4, <1>5

(* What mapping the first n records of a log from nothing gives.             *)
Mapped(s, n) == ApplyLines(EmptyMapper, SubSeq(s, 1, n))

LEMMA EmptyFact == EmptyMapper \in Mappers /\ Placed(EmptyMapper)
<1>1. NoItem \in Item BY DEF NoItem, Item, ItemStatus
<1>2. EmptyMapper \in Mappers BY <1>1 DEF EmptyMapper, Mappers, Tally
<1>3. Placed(EmptyMapper) BY <1>1 DEF EmptyMapper, Placed, NoItem
<1> QED BY <1>2, <1>3

LEMMA MappedStep ==
  ASSUME NEW s \in Seq(Records), NEW n \in Nat, n <= Len(s)
  PROVE  /\ Mapped(s, 0) = EmptyMapper /\ Mapped(s, n) \in Mappers /\ Placed(Mapped(s, n))
         /\ n # 0 => Mapped(s, n) = ApplyLine(Mapped(s, n - 1), s[n])
<1> DEFINE q == SubSeq(s, 1, n)
<1>0. EmptyMapper \in Mappers /\ Placed(EmptyMapper) BY EmptyFact
<1>1. q \in Seq(Records) /\ Len(q) = n /\ \A k \in 1..n : q[k] = s[k]
  <2>1. /\ SubSeq(s, 0 + 1, n) \in Seq(Records) /\ Len(SubSeq(s, 0 + 1, n)) = n - 0
        /\ \A k \in 1..(n - 0) : SubSeq(s, 0 + 1, n)[k] = s[0 + k]
    BY 0 <= n, Prefix
  <2>2. 0 + 1 = 1 /\ n - 0 = n OBVIOUS
  <2>3. \A k \in 1..n : 0 + k = k OBVIOUS
  <2> QED BY <2>1, <2>2, <2>3
<1>2. PICK f : /\ f[0] = EmptyMapper /\ ApplyLines(EmptyMapper, q) = f[n]
               /\ \A k \in 1..n : f[k] = ApplyLine(f[k - 1], s[k])
               /\ \A k \in 0..n : f[k] \in Mappers /\ Placed(f[k])
  <2> HIDE DEF q
  <2>1. \E f : /\ f[0] = EmptyMapper /\ ApplyLines(EmptyMapper, q) = f[Len(q)]
               /\ \A k \in 1..Len(q) : f[k] = ApplyLine(f[k - 1], q[k])
               /\ \A k \in 0..Len(q) : f[k] \in Mappers /\ Placed(f[k])
    BY <1>0, <1>1, LinesRun
  <2> QED BY <1>1, <2>1
<1>3. Mapped(s, n) = f[n] /\ n \in 0..n BY <1>2 DEF Mapped
<1>4. Mapped(s, 0) = EmptyMapper
  <2>1. SubSeq(s, 1, 0) = <<>> OBVIOUS
  <2>2. <<>> \in Seq(Records) /\ Len(<<>>) = 0 OBVIOUS
  <2>3. PICK z \in Seq(Records) : z = <<>> /\ Len(z) = 0 BY <2>2
  <2>4. PICK g : g[0] = EmptyMapper /\ ApplyLines(EmptyMapper, z) = g[Len(z)]
    BY <1>0, LinesRun
  <2> QED BY <2>1, <2>3, <2>4 DEF Mapped
<1>5. ASSUME n # 0 PROVE Mapped(s, n) = ApplyLine(Mapped(s, n - 1), s[n])
  <2> DEFINE p == SubSeq(s, 1, n - 1)
  <2>0. n - 1 \in Nat /\ n - 1 <= Len(s) BY <1>5
  <2>1. p \in Seq(Records) /\ Len(p) = n - 1 /\ \A k \in 1..(n - 1) : p[k] = s[k]
    <3>1. PICK l \in Nat : l = n - 1 BY <2>0
    <3>2. /\ SubSeq(s, 0 + 1, l) \in Seq(Records) /\ Len(SubSeq(s, 0 + 1, l)) = l - 0
          /\ \A k \in 1..(l - 0) : SubSeq(s, 0 + 1, l)[k] = s[0 + k]
      BY 0 <= l, <2>0, <3>1, Prefix
    <3>3. 0 + 1 = 1 /\ l - 0 = l BY <3>1
    <3>4. \A k \in 1..l : 0 + k = k BY <3>1
    <3> QED BY <3>1, <3>2, <3>3, <3>4
  <2>2. PICK g : /\ g[0] = EmptyMapper /\ ApplyLines(EmptyMapper, p) = g[n - 1]
                 /\ \A k \in 1..(n - 1) : g[k] = ApplyLine(g[k - 1], s[k])
    <3> HIDE DEF p
    <3>1. \E g : /\ g[0] = EmptyMapper /\ ApplyLines(EmptyMapper, p) = g[Len(p)]
                 /\ \A k \in 1..Len(p) : g[k] = ApplyLine(g[k - 1], p[k])
      BY <1>0, <2>1, LinesRun
    <3> QED BY <2>1, <3>1
  <2> DEFINE S == {k \in 0..(n - 1) : g[k] = f[k]}
  <2>3. 0 \in S BY <1>2, <2>0, <2>2
  <2>4. ASSUME NEW k \in 1..(n - 1), k - 1 \in S PROVE k \in S
    <3>1. k \in 1..n /\ k \in 0..(n - 1) /\ g[k - 1] = f[k - 1] BY <2>4
    <3> QED BY <1>2, <2>2, <3>1
  <2>5. n - 1 \in S
    <3> HIDE DEF S
    <3> QED BY <2>0, <2>3, <2>4, UpTo
  <2>6. Mapped(s, n - 1) = f[n - 1] BY <2>2, <2>5 DEF Mapped
  <2>7. n \in 1..n BY <1>5
  <2> QED BY <1>2, <1>3, <2>6, <2>7
<1> QED
  <2> HIDE DEF q
  <2> QED BY <1>2, <1>3, <1>4, <1>5

(* However a log is cut, its parts one after the other are the whole.        *)
LEMMA MappedCut ==
  ASSUME NEW s \in Seq(Records), NEW a \in Nat, NEW b \in Nat, a <= b, b <= Len(s)
  PROVE  ApplyLines(Mapped(s, a), SubSeq(s, a + 1, b)) = Mapped(s, b)
<1> DEFINE q == SubSeq(s, a + 1, b)
           m == Mapped(s, a)
<1>1. q \in Seq(Records) /\ Len(q) = b - a /\ \A k \in 1..(b - a) : q[k] = s[a + k] BY Prefix
<1>2. m \in Mappers /\ Placed(m)
  <2>1. a <= Len(s) OBVIOUS
  <2> QED BY <2>1, MappedStep
<1>3. PICK g : /\ g[0] = m /\ ApplyLines(m, q) = g[b - a]
               /\ \A k \in 1..(b - a) : g[k] = ApplyLine(g[k - 1], s[a + k])
  <2> HIDE DEF q, m
  <2>1. \E g : /\ g[0] = m /\ ApplyLines(m, q) = g[Len(q)]
               /\ \A k \in 1..Len(q) : g[k] = ApplyLine(g[k - 1], q[k])
    BY <1>1, <1>2, LinesRun
  <2> QED BY <1>1, <2>1
<1> DEFINE S == {k \in 0..(b - a) : g[k] = Mapped(s, a + k)}
<1>4. 0 \in S /\ b - a \in Nat
  <2>1. a + 0 = a /\ 0 \in 0..(b - a) /\ b - a \in Nat OBVIOUS
  <2> QED BY <1>3, <2>1
<1>5. ASSUME NEW k \in 1..(b - a), k - 1 \in S PROVE k \in S
  <2>1. g[k - 1] = Mapped(s, a + (k - 1)) /\ g[k] = ApplyLine(g[k - 1], s[a + k]) /\ k \in 0..(b - a)
    BY <1>3, <1>5
  <2>2. PICK n \in Nat : n = a + k BY <1>4
  <2>3. n # 0 /\ n <= Len(s) /\ a + (k - 1) = n - 1 BY <2>2
  <2>4. Mapped(s, n) = ApplyLine(Mapped(s, n - 1), s[n]) BY <2>3, MappedStep
  <2> QED BY <2>1, <2>2, <2>3, <2>4
<1>6. b - a \in S
  <2> HIDE DEF S
  <2> QED BY <1>4, <1>5, UpTo
<1>7. a + (b - a) = b OBVIOUS
<1> QED BY <1>3, <1>6, <1>7

-----------------------------------------------------------------------------
(* A sum, as the number of steps of its recursion.                           *)
Total(f, N) ==
  LET upTo[t \in 0 .. N] == f[t] + (IF t = 0 THEN 0 ELSE upTo[t - 1])
  IN upTo[N]

Sums(F, f, N) ==
  /\ F[0] = f[0] /\ Total(f, N) = F[N]
  /\ \A t \in 1..N : F[t] = f[t] + F[t - 1]
  /\ \A t \in 0..N : F[t] \in Nat

LEMMA TotalRun ==
  ASSUME NEW N \in Nat, NEW f \in [0 .. N -> Nat]
  PROVE  \E F : Sums(F, f, N)
<1> DEFINE step == [t \in 1..N |-> [x \in Nat |-> f[t] + x]]
<1>1. f[0] \in Nat /\ \A t \in 1..N : f[t] \in Nat /\ step[t] \in [Nat -> Nat]
  <2>1. 0 \in 0..N /\ \A t \in 1..N : t \in 0..N OBVIOUS
  <2>2. f[0] \in Nat /\ \A t \in 1..N : f[t] \in Nat BY <2>1
  <2>3. \A t \in 1..N : \A x \in Nat : f[t] + x \in Nat BY <2>2
  <2> QED BY <2>2, <2>3
<1>2. PICK F \in [0..N -> Nat] : Running(F, f[0], step, N)
  <2> HIDE DEF step
  <2> QED BY <1>1, RunExists
<1>3. F[0] = f[0] /\ \A t \in 1..N : F[t] = f[t] + F[t - 1]
  <2>1. \A t \in 1..N : t - 1 \in 0..N /\ F[t - 1] \in Nat OBVIOUS
  <2> QED BY <1>2, <2>1 DEF Running
<1>4. F = [t \in 0..N |-> f[t] + (IF t = 0 THEN 0 ELSE F[t - 1])]
  <2>1. F = [t \in 0..N |-> F[t]] OBVIOUS
  <2>2. \A t \in 0..N : F[t] = f[t] + (IF t = 0 THEN 0 ELSE F[t - 1])
    <3> SUFFICES ASSUME NEW t \in 0..N PROVE F[t] = f[t] + (IF t = 0 THEN 0 ELSE F[t - 1])
      OBVIOUS
    <3>1. CASE t = 0
      <4>1. f[0] + 0 = f[0] BY <1>1
      <4> QED BY <1>3, <3>1, <4>1
    <3>2. CASE t # 0
      <4>1. t \in 1..N BY <3>2
      <4> QED BY <1>3, <3>2, <4>1
    <3> QED BY <3>1, <3>2
  <2> QED BY <2>1, <2>2
<1> DEFINE g == CHOOSE g0 : g0 = [t \in 0..N |-> f[t] + (IF t = 0 THEN 0 ELSE g0[t - 1])]
<1>5. g = [t \in 0..N |-> f[t] + (IF t = 0 THEN 0 ELSE g[t - 1])]
  BY <1>4
<1>6. Total(f, N) = g[N] BY DEF Total
<1>7. g[0] = f[0] /\ \A t \in 1..N : g[t] = f[t] + g[t - 1]
  <2> HIDE DEF g
  <2>1. 0 \in 0..N /\ \A t \in 1..N : t \in 0..N /\ t # 0 OBVIOUS
  <2>2. g[0] = f[0] + 0 BY <1>5, <2>1
  <2>3. \A t \in 1..N : g[t] = f[t] + g[t - 1] BY <1>5, <2>1
  <2> QED BY <1>1, <2>2, <2>3
<1>8. \A t \in 0..N : g[t] \in Nat
  <2> HIDE DEF g
  <2> SUFFICES ASSUME NEW t \in 0..N PROVE g[t] \in Nat
    OBVIOUS
  <2> DEFINE S == {k \in 0..t : g[k] \in Nat}
  <2>1. 0 \in S /\ t \in Nat BY <1>1, <1>7
  <2>2. ASSUME NEW k \in 1..t, k - 1 \in S PROVE k \in S
    <3>1. k \in 1..N /\ k \in 0..t /\ g[k - 1] \in Nat BY <2>2
    <3>2. g[k] = f[k] + g[k - 1] /\ f[k] \in Nat BY <1>1, <1>7, <3>1
    <3> QED BY <3>1, <3>2
  <2>3. t \in S
    <3> HIDE DEF S
    <3> QED BY <2>1, <2>2, UpTo
  <2> QED BY <2>3
<1> QED
  <2> HIDE DEF g
  <2> QED BY <1>6, <1>7, <1>8 DEF Sums

LEMMA TotalZero ==
  ASSUME NEW N \in Nat PROVE Total([t \in 0 .. N |-> 0], N) = 0
<1> DEFINE f == [t \in 0 .. N |-> 0]
<1>1. f \in [0 .. N -> Nat] /\ f[0] = 0 /\ \A t \in 1..N : f[t] = 0 OBVIOUS
<1>2. PICK F : F[0] = f[0] /\ Total(f, N) = F[N] /\ \A t \in 1..N : F[t] = f[t] + F[t - 1]
  <2> HIDE DEF f
  <2>1. PICK F : Sums(F, f, N) BY <1>1, TotalRun
  <2> QED BY <2>1 DEF Sums
<1> DEFINE S == {t \in 0..N : F[t] = 0}
<1>3. 0 \in S BY <1>1, <1>2
<1>4. ASSUME NEW t \in 1..N, t - 1 \in S PROVE t \in S
  <2>1. F[t - 1] = 0 /\ t \in 0..N BY <1>4
  <2>2. F[t] = 0 + 0 BY <1>1, <1>2, <2>1
  <2> QED BY <2>1, <2>2
<1>5. N \in S
  <2> HIDE DEF S
  <2> QED BY <1>3, <1>4, UpTo
<1> QED BY <1>2, <1>5

LEMMA TotalUp ==
  ASSUME NEW N \in Nat, NEW f \in [0 .. N -> Nat], NEW u \in 0 .. N
  PROVE  Total([f EXCEPT ![u] = @ + 1], N) = Total(f, N) + 1
<1> DEFINE h == [f EXCEPT ![u] = @ + 1]
<1>1. h \in [0 .. N -> Nat] /\ h[u] = f[u] + 1 /\ \A t \in 0..N : t # u => h[t] = f[t] OBVIOUS
<1>2. PICK F : /\ F[0] = f[0] /\ Total(f, N) = F[N] /\ \A t \in 1..N : F[t] = f[t] + F[t - 1]
               /\ \A t \in 0..N : F[t] \in Nat
  <2>1. PICK F : Sums(F, f, N) BY TotalRun
  <2> QED BY <2>1 DEF Sums
<1>3. PICK H : H[0] = h[0] /\ Total(h, N) = H[N] /\ \A t \in 1..N : H[t] = h[t] + H[t - 1]
  <2> HIDE DEF h
  <2>1. PICK H : Sums(H, h, N) BY <1>1, TotalRun
  <2> QED BY <2>1 DEF Sums
<1> HIDE DEF h
<1> DEFINE S == {t \in 0..N : H[t] = F[t] + (IF u <= t THEN 1 ELSE 0)}
<1>4. 0 \in S
  <2>1. f[0] \in Nat /\ 0 \in 0..N OBVIOUS
  <2>2. CASE u = 0 BY <1>1, <1>2, <1>3, <2>1, <2>2
  <2>3. CASE u # 0
    <3>1. h[0] = f[0] /\ ~(u <= 0) BY <1>1, <2>1, <2>3
    <3> QED BY <1>2, <1>3, <2>1, <3>1
  <2> QED BY <2>2, <2>3
<1>5. ASSUME NEW t \in 1..N, t - 1 \in S PROVE t \in S
  <2>1. PICK a \in Nat, b \in Nat : a = F[t - 1] /\ b = f[t] BY <1>2
  <2>2. H[t - 1] = a + (IF u <= t - 1 THEN 1 ELSE 0) /\ t \in 0..N BY <1>5, <2>1
  <2>3. F[t] = b + a /\ H[t] = h[t] + H[t - 1] BY <1>2, <1>3, <2>1
  <2>4. CASE t = u
    <3>1. h[t] = b + 1 /\ ~(u <= t - 1) /\ u <= t BY <1>1, <2>1, <2>4
    <3>2. H[t - 1] = a BY <2>2, <3>1
    <3>3. H[t] = (b + 1) + a BY <2>3, <3>1, <3>2
    <3>4. (b + 1) + a = (b + a) + 1 OBVIOUS
    <3>5. H[t] = F[t] + 1 BY <2>3, <3>3, <3>4
    <3> QED BY <2>2, <3>1, <3>5
  <2>5. CASE t # u
    <3>1. h[t] = b /\ (u <= t - 1 <=> u <= t) BY <1>1, <2>1, <2>2, <2>5
    <3>2. PICK x \in Nat : x = IF u <= t THEN 1 ELSE 0 OBVIOUS
    <3>3. H[t] = b + (a + x) BY <2>2, <2>3, <3>1, <3>2
    <3>4. b + (a + x) = (b + a) + x OBVIOUS
    <3>5. H[t] = F[t] + x BY <2>3, <3>3, <3>4
    <3> QED BY <2>2, <3>2, <3>5
  <2> QED BY <2>4, <2>5
<1>6. N \in S
  <2> HIDE DEF S
  <2> QED BY <1>4, <1>5, UpTo
<1>7. u <= N OBVIOUS
<1> QED BY <1>2, <1>3, <1>6, <1>7 DEF h

-----------------------------------------------------------------------------
(* What the timeline of the first n records of a log tells of them.          *)
Told(s, n) ==
  LET m == Mapped(s, n)
  IN /\ m.turn <= n
     /\ \A i \in CallIds : \A j \in 1..n : Mentions(s[j], i) => Known(m, i)
     /\ \A i \in CallIds : \A k \in 1..n :
          Known(m, i) /\ IsOpen(m.items[i]) /\ s[k].text = "interrupt" => \A j \in 1..k : ~Mentions(s[j], i)
     /\ Total(m.tokens, MaxLog) = Cardinality({k \in 1..n : s[k].role = "assistant"})

LEMMA ToldNone == ASSUME NEW s \in Seq(Records) PROVE Told(s, 0)
<1>1. Mapped(s, 0) = EmptyMapper
  <2>1. 0 \in Nat /\ 0 <= Len(s) OBVIOUS
  <2> QED BY <2>1, MappedStep
<1>2. EmptyMapper.turn = 0 /\ EmptyMapper.tokens = [t \in 0 .. MaxLog |-> 0] BY DEF EmptyMapper
<1>3. Total(EmptyMapper.tokens, MaxLog) = 0 BY <1>2, TotalZero, TranscriptMapAssumption DEF TranscriptMapAssumption
<1>4. {k \in 1..0 : s[k].role = "assistant"} = {} OBVIOUS
<1>5. Cardinality({}) = 0 BY FS_EmptySet
<1>6. 0 <= 0 /\ \A k \in 1..0 : FALSE OBVIOUS
<1> QED BY <1>1, <1>2, <1>3, <1>4, <1>5, <1>6 DEF Told

LEMMA CountMore ==
  ASSUME NEW n \in Nat, NEW s
  PROVE  LET C(k) == Cardinality({j \in 1..k : s[j].role = "assistant"})
         IN C(n + 1) = C(n) + (IF s[n + 1].role = "assistant" THEN 1 ELSE 0)
<1> DEFINE A == {j \in 1..n : s[j].role = "assistant"}
           B == {j \in 1..(n + 1) : s[j].role = "assistant"}
<1>1. IsFiniteSet(A)
  <2>1. A \subseteq 1..n /\ IsFiniteSet(1..n) BY FS_Interval
  <2> QED BY <2>1, FS_Subset
<1>2. CASE s[n + 1].role = "assistant"
  <2>1. B = A \cup {n + 1} /\ n + 1 \notin A BY <1>2
  <2>2. Cardinality(A \cup {n + 1}) = Cardinality(A) + 1
    <3> HIDE DEF A, B
    <3> QED BY <1>1, <2>1, FS_AddElement
  <2> QED BY <1>2, <2>1, <2>2
<1>3. CASE s[n + 1].role # "assistant"
  <2>1. B = A BY <1>3
  <2>2. Cardinality(A) \in Nat BY <1>1, FS_CardinalityType
  <2>3. Cardinality(A) + 0 = Cardinality(A)
    <3> HIDE DEF A
    <3> QED BY <2>2
  <2> QED BY <1>3, <2>1, <2>3
<1> QED BY <1>2, <1>3

LEMMA ToldMore ==
  ASSUME NEW s \in Seq(Records), NEW n \in 1..Len(s), Len(s) <= MaxLog, Told(s, n - 1)
  PROVE  Told(s, n)
<1> PICK a \in Nat : a = n - 1 /\ n = a + 1 /\ a <= Len(s) /\ n <= Len(s) /\ a < MaxLog
  BY TranscriptMapAssumption DEF TranscriptMapAssumption
<1>0. MaxLog \in Nat BY TranscriptMapAssumption DEF TranscriptMapAssumption
<1> DEFINE m == Mapped(s, a)
           w == Mapped(s, n)
           r == s[n]
<1>1. m \in Mappers /\ Placed(m) BY MappedStep
<1>2. w = ApplyLine(m, r) /\ r \in Records
  <2>1. n \in Nat /\ n # 0 /\ n <= Len(s) OBVIOUS
  <2> QED BY <2>1, MappedStep
<1> HIDE DEF m, w, r
<1>3. /\ w \in Mappers /\ Placed(w) /\ Later(m, w) /\ (w.turn = m.turn \/ w.turn = m.turn + 1)
      /\ w.tokens = IF r.role = "assistant" THEN [m.tokens EXCEPT ![m.turn] = @ + 1] ELSE m.tokens
      /\ \A i \in CallIds : Mentions(r, i) => Known(w, i)
      /\ r.text = "interrupt" => \A i \in CallIds : Known(w, i) => ~IsOpen(w.items[i])
  BY <1>1, <1>2, LineFact
<1>4. /\ m.turn <= a
      /\ \A i \in CallIds : \A j \in 1..a : Mentions(s[j], i) => Known(m, i)
      /\ \A i \in CallIds : \A k \in 1..a :
           Known(m, i) /\ IsOpen(m.items[i]) /\ s[k].text = "interrupt" => \A j \in 1..k : ~Mentions(s[j], i)
      /\ Total(m.tokens, MaxLog) = Cardinality({k \in 1..a : s[k].role = "assistant"})
  BY DEF Told, m
<1>5. m.turn \in 0..MaxLog /\ m.turn \in Nat /\ m.tokens \in [0 .. MaxLog -> Nat]
  <2>1. m.turn \in Nat /\ m.tokens \in [0 .. MaxLog -> Nat] BY <1>1 DEF Mappers, Tally
  <2> QED BY <1>0, <1>4, <2>1
<1>6. w.turn <= n BY <1>3, <1>4, <1>5
<1>7. ASSUME NEW i \in CallIds, NEW j \in 1..n, Mentions(s[j], i) PROVE Known(w, i)
  <2>1. CASE j = n BY <1>3, <1>7, <2>1 DEF r
  <2>2. CASE j # n
    <3>1. j \in 1..a BY <2>2
    <3> QED BY <1>3, <1>4, <1>7, <3>1 DEF Later
  <2> QED BY <2>1, <2>2
<1>8. ASSUME NEW i \in CallIds, NEW k \in 1..n, Known(w, i), IsOpen(w.items[i]), s[k].text = "interrupt",
             NEW j \in 1..k, Mentions(s[j], i)
      PROVE  FALSE
  <2>1. k # n BY <1>3, <1>8 DEF r
  <2>2. k \in 1..a /\ j \in 1..a BY <2>1
  <2>3. Known(m, i) BY <1>4, <1>8, <2>2
  <2>4. IsOpen(m.items[i]) BY <1>3, <1>8, <2>3 DEF Later
  <2> QED BY <1>4, <1>8, <2>2, <2>3, <2>4
<1>9. Total(w.tokens, MaxLog) = Cardinality({k \in 1..n : s[k].role = "assistant"})
  <2>1. Cardinality({k \in 1..(a + 1) : s[k].role = "assistant"})
        = Cardinality({k \in 1..a : s[k].role = "assistant"}) + (IF s[a + 1].role = "assistant" THEN 1 ELSE 0)
    BY CountMore
  <2>2. CASE r.role = "assistant"
    <3>1. Total(w.tokens, MaxLog) = Total(m.tokens, MaxLog) + 1 BY <1>0, <1>3, <1>5, <2>2, TotalUp
    <3> QED BY <1>4, <2>1, <2>2, <3>1 DEF r
  <2>3. CASE r.role # "assistant"
    <3>1. Total(w.tokens, MaxLog) = Total(m.tokens, MaxLog) BY <1>3, <2>3
    <3>2. PICK N : N = Total(m.tokens, MaxLog) OBVIOUS
    <3>3. N \in Nat
      <4>1. PICK F : Sums(F, m.tokens, MaxLog) BY <1>0, <1>5, TotalRun
      <4>2. MaxLog \in 0..MaxLog BY <1>0
      <4> QED BY <3>2, <4>1, <4>2 DEF Sums
    <3>4. N + 0 = N BY <3>3
    <3> QED BY <1>4, <2>1, <2>3, <3>1, <3>2, <3>4 DEF r
  <2> QED BY <2>2, <2>3
<1> QED BY <1>6, <1>7, <1>8, <1>9 DEF Told, w

LEMMA ToldFact ==
  ASSUME NEW s \in Seq(Records), NEW n \in Nat, n <= Len(s), Len(s) <= MaxLog
  PROVE  Told(s, n)
<1> DEFINE S == {k \in 0..n : Told(s, k)}
<1>1. 0 \in S BY ToldNone
<1>2. ASSUME NEW k \in 1..n, k - 1 \in S PROVE k \in S
  <2>1. k \in 1..Len(s) /\ k \in 0..n OBVIOUS
  <2> QED BY <1>2, <2>1, ToldMore
<1>3. n \in S
  <2> HIDE DEF S
  <2> QED BY <1>1, <1>2, UpTo
<1> QED BY <1>3

LEMMA LaterMapped ==
  ASSUME NEW s \in Seq(Records), NEW a \in Nat, NEW b \in Nat, a <= b, b <= Len(s)
  PROVE  Later(Mapped(s, a), Mapped(s, b))
<1> DEFINE S == {k \in 0..(b - a) : Later(Mapped(s, a), Mapped(s, a + k))}
<1>0. a <= Len(s) OBVIOUS
<1>1. 0 \in S
  <2>1. a + 0 = a /\ 0 \in 0..(b - a) OBVIOUS
  <2>2. Mapped(s, a) \in Mappers BY <1>0, MappedStep
  <2> QED BY <2>1, <2>2, LaterSame
<1>2. ASSUME NEW k \in 1..(b - a), k - 1 \in S PROVE k \in S
  <2>1. PICK n \in Nat, l \in Nat : n = a + k /\ l = a + (k - 1) OBVIOUS
  <2>2. n # 0 /\ n <= Len(s) /\ l = n - 1 /\ l <= Len(s) BY <2>1
  <2>3. Mapped(s, n) = ApplyLine(Mapped(s, l), s[n]) /\ Mapped(s, n) \in Mappers BY <2>2, MappedStep
  <2>4. Mapped(s, l) \in Mappers /\ Placed(Mapped(s, l)) BY <2>2, MappedStep
  <2>5. s[n] \in Records BY <2>2
  <2>6. Later(Mapped(s, l), Mapped(s, n)) BY <2>3, <2>4, <2>5, LineFact
  <2>7. Mapped(s, a) \in Mappers BY <1>0, MappedStep
  <2>8. Later(Mapped(s, a), Mapped(s, l)) BY <1>2, <2>1
  <2>9. Later(Mapped(s, a), Mapped(s, n)) BY <2>3, <2>4, <2>6, <2>7, <2>8, LaterAgain
  <2>10. k \in 0..(b - a) OBVIOUS
  <2> QED BY <2>1, <2>9, <2>10
<1>3. b - a \in S
  <2>1. b - a \in Nat OBVIOUS
  <2> HIDE DEF S
  <2> QED BY <1>1, <1>2, <2>1, UpTo
<1>4. a + (b - a) = b OBVIOUS
<1> QED BY <1>3, <1>4

-----------------------------------------------------------------------------
(* The tail: the timeline is that of the complete lines that were read.      *)
LogInv ==
  /\ log \in Seq(Records) /\ Len(log) <= MaxLog
  /\ wrote \in {2 * Len(log), 2 * Len(log) - 1}
  /\ offset \in 0 .. wrote /\ applied = offset \div 2
  /\ mapper = Mapped(log, applied)

LEMMA Halves ==
  ASSUME NEW l \in Nat, NEW v \in {2 * l, 2 * l - 1}, NEW o \in 0 .. v
  PROVE  o \div 2 \in Nat /\ v \div 2 \in Nat /\ o \div 2 <= v \div 2 /\ v \div 2 <= l
OBVIOUS

LEMMA LogInvInit == TMInit => LogInv
<1> SUFFICES ASSUME TMInit PROVE LogInv
  OBVIOUS
<1>1. PICK z \in Seq(Records) : z = <<>> /\ Len(z) = 0
  <2>1. <<>> \in Seq(Records) /\ Len(<<>>) = 0 OBVIOUS
  <2> QED BY <2>1
<1>2. Mapped(z, 0) = EmptyMapper
  <2>1. 0 \in Nat /\ 0 <= Len(z) BY <1>1
  <2> QED BY <2>1, MappedStep
<1>3. 0 \div 2 = 0 /\ 0 <= MaxLog BY TranscriptMapAssumption DEF TranscriptMapAssumption
<1> QED BY <1>1, <1>2, <1>3 DEF TMInit, LogInv

LEMMA LogInvStep == LogInv /\ [TMNext]_tmVars => LogInv'
<1> SUFFICES ASSUME LogInv, [TMNext]_tmVars PROVE LogInv'
  OBVIOUS
<1>0. /\ log \in Seq(Records) /\ Len(log) <= MaxLog
      /\ wrote \in {2 * Len(log), 2 * Len(log) - 1}
      /\ offset \in 0 .. wrote /\ applied = offset \div 2
      /\ mapper = Mapped(log, applied)
  BY DEF LogInv
<1>1. PICK l \in Nat : l = Len(log) BY <1>0
<1>2. applied \in Nat /\ wrote \div 2 \in Nat /\ applied <= wrote \div 2 /\ wrote \div 2 <= l /\ wrote \in Int
  BY <1>0, <1>1, Halves
<1>3. MaxLog \in Nat BY TranscriptMapAssumption DEF TranscriptMapAssumption
<1>4. CASE BeginLine
  <2>1. PICK r \in Records : log' = Append(log, r) BY <1>4 DEF BeginLine
  <2>2. /\ wrote = 2 * l /\ l < MaxLog /\ wrote' = wrote + 1
        /\ offset' = offset /\ applied' = applied /\ mapper' = mapper
    BY <1>1, <1>4 DEF BeginLine
  <2>3. log' \in Seq(Records) /\ Len(log') = l + 1 BY <1>0, <1>1, <2>1
  <2>4. wrote' = 2 * Len(log') - 1 /\ Len(log') <= MaxLog /\ offset' \in 0 .. wrote'
    BY <1>0, <1>1, <1>3, <2>2, <2>3
  <2>5. SubSeq(log', 1, applied) = SubSeq(log, 1, applied)
    <3>1. PICK q \in Seq(Records), n \in Nat : q = log /\ n = applied /\ n <= Len(q) BY <1>0, <1>1, <1>2
    <3>2. SubSeq(Append(q, r), 1, n) = SubSeq(q, 1, n) BY <3>1
    <3> QED BY <2>1, <3>1, <3>2
  <2> QED BY <1>0, <2>2, <2>3, <2>4, <2>5 DEF LogInv, Mapped
<1>5. CASE EndLine
  <2>1. /\ wrote < 2 * l /\ wrote' = wrote + 1
        /\ log' = log /\ offset' = offset /\ applied' = applied /\ mapper' = mapper
    BY <1>1, <1>5 DEF EndLine
  <2>2. wrote' = 2 * l /\ offset' \in 0 .. wrote' BY <1>0, <1>1, <2>1
  <2> QED BY <1>0, <1>1, <2>1, <2>2 DEF LogInv
<1>6. CASE PollTail
  <2>1. PICK b \in Nat : b = wrote \div 2 BY <1>2
  <2>2. /\ offset' = wrote /\ applied' = b /\ log' = log /\ wrote' = wrote
        /\ mapper' = ApplyLines(mapper, SubSeq(log, applied + 1, b))
    BY <1>6, <2>1 DEF PollTail, CompleteLines
  <2>3. mapper' = Mapped(log, b) BY <1>0, <1>1, <1>2, <2>1, <2>2, MappedCut
  <2>4. offset' \in 0 .. wrote' BY <1>0, <1>1, <2>2
  <2> QED BY <1>0, <2>1, <2>2, <2>3, <2>4 DEF LogInv
<1>7. CASE UNCHANGED tmVars
  BY <1>0, <1>7 DEF LogInv, Mapped, tmVars
<1> QED BY <1>4, <1>5, <1>6, <1>7 DEF TMNext

LEMMA LogSays ==
  ASSUME LogInv
  PROVE  /\ TMTypeOK /\ ChunkingIsInvisible /\ InterruptIsFinal /\ UsageIsTotal
<1>0. /\ log \in Seq(Records) /\ Len(log) <= MaxLog
      /\ wrote \in {2 * Len(log), 2 * Len(log) - 1}
      /\ offset \in 0 .. wrote /\ applied = offset \div 2
      /\ mapper = Mapped(log, applied)
  BY DEF LogInv
<1>1. applied \in Nat /\ applied <= Len(log)
  <2>1. PICK l \in Nat : l = Len(log) BY <1>0
  <2>2. applied \in Nat /\ wrote \div 2 \in Nat /\ applied <= wrote \div 2 /\ wrote \div 2 <= l
    BY <1>0, <2>1, Halves
  <2> QED BY <2>1, <2>2
<1>2. mapper \in Mappers /\ Placed(mapper) BY <1>0, <1>1, MappedStep
<1>3. Told(log, applied) BY <1>0, <1>1, ToldFact
<1>4. TMTypeOK
  <2>1. \A i \in CallIds : mapper.items[i].status \in ItemStatus BY <1>2 DEF Mappers, Item
  <2>2. applied \in 0 .. Len(log) BY <1>0, <1>1
  <2> QED BY <1>0, <1>2, <2>1, <2>2 DEF TMTypeOK, Placed
<1>5. ChunkingIsInvisible BY <1>0 DEF ChunkingIsInvisible, Mapped
<1>6. InterruptIsFinal BY <1>0, <1>3 DEF InterruptIsFinal, Told
<1>7. UsageIsTotal BY <1>0, <1>3 DEF UsageIsTotal, Told, Total
<1> QED BY <1>4, <1>5, <1>6, <1>7

LEMMA StepIsLater == LogInv /\ LogInv' /\ [TMNext]_tmVars => Later(mapper, mapper')
<1> SUFFICES ASSUME LogInv, LogInv', [TMNext]_tmVars PROVE Later(mapper, mapper')
  OBVIOUS
<1>0. /\ log \in Seq(Records) /\ wrote \in {2 * Len(log), 2 * Len(log) - 1}
      /\ offset \in 0 .. wrote /\ applied = offset \div 2 /\ mapper = Mapped(log, applied)
  BY DEF LogInv
<1>1. PICK l \in Nat : l = Len(log) BY <1>0
<1>2. applied \in Nat /\ wrote \div 2 \in Nat /\ applied <= wrote \div 2 /\ wrote \div 2 <= l
  BY <1>0, <1>1, Halves
<1>3. mapper \in Mappers BY <1>0, <1>1, <1>2, MappedStep
<1>4. CASE mapper' = mapper BY <1>3, <1>4, LaterSame
<1>5. CASE PollTail
  <2>1. log' = log /\ applied' = wrote \div 2 BY <1>5 DEF PollTail, CompleteLines
  <2>2. mapper' = Mapped(log, wrote \div 2) BY <2>1 DEF LogInv
  <2> QED BY <1>0, <1>1, <1>2, <2>2, LaterMapped
<1> QED BY <1>4, <1>5 DEF TMNext, BeginLine, EndLine, tmVars

(* The types of the tail and the mapper, and every item has a place of its   *)
(* own.                                                                      *)
THEOREM TMTypeTheorem == TMSpec => []TMTypeOK
<1>1. LogInv => TMTypeOK BY LogSays
<1> QED BY <1>1, LogInvInit, LogInvStep, PTL DEF TMSpec

(* The timeline is the one that the records tell: neither where the writes   *)
(* and the polls fall nor the order of uses and results shows in it.         *)
THEOREM TimelineTheorem == TMSpec => TimelineIsTheLog
<1>1. LogInv => ChunkingIsInvisible /\ InterruptIsFinal /\ UsageIsTotal BY LogSays
<1>2. LogInv /\ LogInv' /\ [TMNext]_tmVars =>
        [\A i \in CallIds : LET it == mapper.items[i] new == mapper'.items[i] IN
           Known(mapper, i) => /\ new # it => new.rev > it.rev
                               /\ new.seq = it.seq /\ new.turn = it.turn]_tmVars
  BY StepIsLater DEF Later
<1>3. LogInv /\ LogInv' /\ [TMNext]_tmVars =>
        [\A i \in CallIds : Known(mapper, i) /\ IsOpen(mapper'.items[i]) => IsOpen(mapper.items[i])]_tmVars
  BY StepIsLater DEF Later
<1>4. TMSpec => []LogInv BY LogInvInit, LogInvStep, PTL DEF TMSpec
<1>5. TMSpec => [](ChunkingIsInvisible /\ InterruptIsFinal /\ UsageIsTotal) BY <1>1, <1>4, PTL
<1>6. TMSpec => ChangesCount BY <1>2, <1>4, PTL DEF TMSpec, ChangesCount
<1>7. TMSpec => NeverReopened BY <1>3, <1>4, PTL DEF TMSpec, NeverReopened
<1> QED BY <1>5, <1>6, <1>7 DEF TimelineIsTheLog

-----------------------------------------------------------------------------
(* The Codex records, and a parse with its types.                            *)

CallTypes == {"function_call", "custom_tool_call", "output", "exec_command_end", "patch_apply_end",
              "web_search_end", "mcp_tool_call_end"}
PlainTypes == {"user_message", "agent_message", "token_count", "reasoning", "turn_aborted", "known",
               "unknown", "bad"}
Words == {"", "other", "execute", "plan", "tool", "edit", "read", "fetch", "patch", "paths", "query",
          "server.tool", "output", "stdout", "result", "cwd"}
CallItem == [status : CallStatus, turn : Nat, rev : Nat, kind : Words, title : Words, body : Words, cwd : Words]
Counts == [0 .. MaxRollout -> Nat]
Parses == [items : [Calls -> CallItem], turn : Nat, answers : Counts, tokens : Counts, thoughts : Nat,
           lines : Nat, bad : Nat, skipped : Nat]

RecordShape(r) ==
  /\ \/ r.t \in CallTypes /\ r.id \in Calls
     \/ r.t \in PlainTypes /\ r.id = ""
  /\ r.t \in CallLines \cup {"web_search_end"} => r.body = ""
  /\ r.t = "patch_apply_end" => r.body = ""
  /\ r.what \in Words /\ r.what # "other" /\ r.body \in Words /\ r.failed \in BOOLEAN

LEMMA LineShape ==
  ASSUME NEW r, NEW t \in CallTypes, NEW i \in Calls, NEW w \in Words, w # "other", NEW f \in BOOLEAN, NEW b \in Words,
         t \in CallLines \cup {"web_search_end", "patch_apply_end"} => b = "", r = Line(t, i, w, f, b)
  PROVE  RecordShape(r)
<1>1. r.t = t /\ r.id = i /\ r.what = w /\ r.failed = f /\ r.body = b BY DEF Line
<1> QED BY <1>1 DEF RecordShape

LEMMA ShapeFact == ASSUME NEW r \in RolloutRecords PROVE RecordShape(r)
<1>1. CASE r \in PlainRecords
  <2>1. PICK t \in PlainTypes : r = Plain(t) BY <1>1, Zenon DEF PlainRecords, PlainTypes
  <2>2. r.t = t /\ r.id = "" /\ r.what = "" /\ r.failed = FALSE /\ r.body = "" BY <2>1 DEF Plain, Line
  <2>3. "" \in Words /\ "" # "other" /\ FALSE \in BOOLEAN BY DEF Words
  <2> QED BY <2>2, <2>3, Zenon DEF RecordShape
<1>2. ASSUME NEW i \in Calls, r \in CallRecords(i) PROVE RecordShape(r)
  <2> DEFINE A == {Line("function_call", i, w, FALSE, "") : w \in {"execute", "plan", "tool"}}
             B == {Line("custom_tool_call", i, w, FALSE, "") : w \in {"edit", "execute"}}
             C == {Line("output", i, "", FALSE, b) : b \in {"", "output"}}
             D == UNION {{Line("exec_command_end", i, w, f, "stdout") : w \in {"", "read"}} : f \in BOOLEAN}
             E == UNION {{Line("patch_apply_end", i, w, f, "") : w \in {"", "paths"}} : f \in BOOLEAN}
             F == {Line("web_search_end", i, "fetch", FALSE, "")}
             G == {Line("mcp_tool_call_end", i, "tool", f, "result") : f \in BOOLEAN}
  <2>0. r \in A \/ r \in B \/ r \in C \/ r \in D \/ r \in E \/ r \in F \/ r \in G
    <3>1. CallRecords(i) = A \cup B \cup C \cup D \cup E \cup F \cup G BY DEF CallRecords
    <3> HIDE DEF A, B, C, D, E, F, G
    <3> QED BY <1>2, <3>1
  <2>1. CASE r \in A
    <3>1. PICK w \in {"execute", "plan", "tool"} : r = Line("function_call", i, w, FALSE, "") BY <2>1
    <3>2. w \in Words /\ w # "other" /\ "" \in Words /\ "function_call" \in CallTypes BY DEF Words, CallTypes
    <3> QED BY <3>1, <3>2, LineShape
  <2>2. CASE r \in B
    <3>1. PICK w \in {"edit", "execute"} : r = Line("custom_tool_call", i, w, FALSE, "") BY <2>2
    <3>2. w \in Words /\ w # "other" /\ "" \in Words /\ "custom_tool_call" \in CallTypes BY DEF Words, CallTypes
    <3> QED BY <3>1, <3>2, LineShape
  <2>3. CASE r \in C
    <3>1. PICK b \in {"", "output"} : r = Line("output", i, "", FALSE, b) BY <2>3
    <3>2. b \in Words /\ "" \in Words /\ "" # "other" /\ "output" \in CallTypes BY DEF Words, CallTypes
    <3>3. "output" \notin CallLines \cup {"web_search_end", "patch_apply_end"} BY DEF CallLines
    <3> QED BY <3>1, <3>2, <3>3, LineShape
  <2>4. CASE r \in D
    <3>1. PICK f \in BOOLEAN : \E w \in {"", "read"} : r = Line("exec_command_end", i, w, f, "stdout") BY <2>4
    <3>2. PICK w \in {"", "read"} : r = Line("exec_command_end", i, w, f, "stdout") BY <3>1
    <3>3. w \in Words /\ w # "other" /\ "stdout" \in Words /\ "exec_command_end" \in CallTypes BY DEF Words, CallTypes
    <3>4. "exec_command_end" \notin CallLines \cup {"web_search_end", "patch_apply_end"} BY DEF CallLines
    <3> QED BY <3>2, <3>3, <3>4, LineShape
  <2>5. CASE r \in E
    <3>1. PICK f \in BOOLEAN : \E w \in {"", "paths"} : r = Line("patch_apply_end", i, w, f, "") BY <2>5
    <3>2. PICK w \in {"", "paths"} : r = Line("patch_apply_end", i, w, f, "") BY <3>1
    <3>3. w \in Words /\ w # "other" /\ "" \in Words /\ "patch_apply_end" \in CallTypes BY DEF Words, CallTypes
    <3> QED BY <3>2, <3>3, LineShape
  <2>6. CASE r \in F
    <3>1. "fetch" \in Words /\ "fetch" # "other" /\ "" \in Words /\ "web_search_end" \in CallTypes BY DEF Words, CallTypes
    <3>2. r = Line("web_search_end", i, "fetch", FALSE, "") /\ FALSE \in BOOLEAN BY <2>6
    <3> QED BY <3>1, <3>2, LineShape
  <2>7. CASE r \in G
    <3>1. PICK f \in BOOLEAN : r = Line("mcp_tool_call_end", i, "tool", f, "result") BY <2>7
    <3>2. "tool" \in Words /\ "tool" # "other" /\ "result" \in Words /\ "mcp_tool_call_end" \in CallTypes BY DEF Words, CallTypes
    <3>3. "mcp_tool_call_end" \notin CallLines \cup {"web_search_end", "patch_apply_end"} BY DEF CallLines
    <3> QED BY <3>1, <3>2, <3>3, LineShape
  <2> QED
    <3> HIDE DEF A, B, C, D, E, F, G
    <3> QED BY <2>0, <2>1, <2>2, <2>3, <2>4, <2>5, <2>6, <2>7
<1>3. CASE \E i \in Calls : r \in CallRecords(i) BY <1>2, <1>3
<1> QED BY <1>1, <1>3 DEF RolloutRecords
-----------------------------------------------------------------------------
(* What a record does to an item.                                            *)

OpenedItem(it, turn, sort, title) ==
  [status |-> IF it.status # "none" THEN it.status ELSE "inProgress",
   turn |-> IF it.status # "none" THEN it.turn ELSE turn,
   rev |-> IF it.status # "none" THEN it.rev + 1 ELSE it.rev,
   kind |-> IF it.kind = "other" THEN sort ELSE it.kind, title |-> Filled(it.title, title),
   body |-> it.body, cwd |-> it.cwd]
DoneItem(it, turn, body, status) ==
  [status |-> status, turn |-> IF it.status # "none" THEN it.turn ELSE turn, rev |-> it.rev + 1,
   kind |-> it.kind, title |-> it.title, body |-> Filled(it.body, body), cwd |-> it.cwd]
AbortedItem(it) ==
  IF it.status = "inProgress"
    THEN [status |-> "canceled", turn |-> it.turn, rev |-> it.rev + 1, kind |-> it.kind,
          title |-> it.title, body |-> it.body, cwd |-> it.cwd]
    ELSE it
EndedItem(it, turn, r) ==
  LET d == DoneItem(it, turn, r.body, Outcome(r))
  IN [status |-> d.status, turn |-> d.turn, rev |-> d.rev,
      kind |-> IF r.t = "patch_apply_end" THEN "edit" ELSE Filled(r.what, d.kind),
      title |-> IF r.t = "patch_apply_end" /\ r.what = "paths" THEN "paths" ELSE d.title,
      body |-> d.body, cwd |-> IF r.t = "patch_apply_end" THEN d.cwd ELSE Filled(d.cwd, "cwd")]
ToldItem(it, turn, r) ==
  CASE r.t = "function_call"     -> OpenedItem(it, turn, IF r.what = "tool" THEN "other" ELSE r.what, r.what)
    [] r.t = "custom_tool_call"  -> OpenedItem(it, turn, r.what, IF r.what = "edit" THEN "patch" ELSE r.what)
    [] r.t = "output"            -> DoneItem(it, turn, r.body, "completed")
    [] r.t \in EndLines          -> EndedItem(it, turn, r)
    [] r.t = "web_search_end"    -> DoneItem(OpenedItem(it, turn, "fetch", "query"), turn, "", "completed")
    [] r.t = "mcp_tool_call_end" -> DoneItem(OpenedItem(it, turn, "other", "server.tool"), turn, r.body, Outcome(r))
ItemAfter(it, turn, r, i) ==
  IF r.t = "turn_aborted" THEN AbortedItem(it) ELSE IF r.id = i THEN ToldItem(it, turn, r) ELSE it

(* The change of one item.                                                   *)
Puts(p, q, i, it) == q \in Parses /\ it \in CallItem /\ q = [p EXCEPT !.items = [p.items EXCEPT ![i] = it]]

LEMMA PutsFact ==
  ASSUME NEW p \in Parses, NEW i \in Calls, NEW it \in CallItem
  PROVE  Puts(p, [p EXCEPT !.items = [p.items EXCEPT ![i] = it]], i, it)
<1>1. PICK f : f = [p.items EXCEPT ![i] = it] OBVIOUS
<1>2. f \in [Calls -> CallItem] BY <1>1 DEF Parses
<1>3. [p EXCEPT !.items = f] \in Parses BY <1>2 DEF Parses
<1> QED BY <1>1, <1>3 DEF Puts

ItemOf(s, t, v, k, h, b, c) ==
  [status |-> s, turn |-> t, rev |-> v, kind |-> k, title |-> h, body |-> b, cwd |-> c]

LEMMA ItemIs ==
  ASSUME NEW it \in CallItem
  PROVE  /\ it = ItemOf(it.status, it.turn, it.rev, it.kind, it.title, it.body, it.cwd)
         /\ it.status \in CallStatus /\ it.turn \in Nat /\ it.rev \in Nat
         /\ it.kind \in Words /\ it.title \in Words /\ it.body \in Words /\ it.cwd \in Words
BY DEF CallItem, ItemOf

LEMMA ItemMade ==
  ASSUME NEW s \in CallStatus, NEW t \in Nat, NEW v \in Nat, NEW k \in Words, NEW h \in Words, NEW b \in Words,
         NEW c \in Words
  PROVE  ItemOf(s, t, v, k, h, b, c) \in CallItem
BY DEF CallItem, ItemOf

LEMMA FilledWord == ASSUME NEW a \in Words, NEW b \in Words PROVE Filled(a, b) \in Words
BY DEF Filled

LEMMA OpenFact ==
  ASSUME NEW p \in Parses, NEW i \in Calls, NEW sort \in Words, NEW title \in Words
  PROVE  Puts(p, OpenCall(p, i, sort, title), i, OpenedItem(p.items[i], p.turn, sort, title))
<1>1. PICK it \in CallItem : it = p.items[i] BY DEF Parses
<1>2. PICK s \in CallStatus, t \in Nat, v \in Nat, k \in Words, h \in Words, b \in Words, c \in Words :
        it = ItemOf(s, t, v, k, h, b, c)
  BY ItemIs
<1>3. it.status = s /\ it.turn = t /\ it.rev = v /\ it.kind = k /\ it.title = h /\ it.body = b /\ it.cwd = c
  BY <1>2 DEF ItemOf
<1>4. PICK s1 \in CallStatus : s1 = IF Seen(p, i) THEN s ELSE "inProgress" BY DEF CallStatus
<1>5. PICK t1 \in Nat : t1 = IF Seen(p, i) THEN t ELSE p.turn BY DEF Parses
<1>6. PICK v1 \in Nat : v1 = IF Seen(p, i) THEN v + 1 ELSE v OBVIOUS
<1>7. PICK k1 \in Words : k1 = IF k = "other" THEN sort ELSE k OBVIOUS
<1>8. PICK h1 \in Words : h1 = Filled(h, title) BY FilledWord
<1>9. ItemOf(s1, t1, v1, k1, h1, b, c) \in CallItem BY ItemMade
<1>10. OpenedItem(it, p.turn, sort, title) = ItemOf(s1, t1, v1, k1, h1, b, c)
  <2>1. Seen(p, i) <=> s # "none" BY <1>1, <1>3 DEF Seen
  <2> QED BY <1>3, <1>4, <1>5, <1>6, <1>7, <1>8, <2>1 DEF OpenedItem, ItemOf
<1>11. [it EXCEPT !.status = IF Seen(p, i) THEN @ ELSE "inProgress",
                  !.turn = IF Seen(p, i) THEN @ ELSE p.turn,
                  !.rev = IF Seen(p, i) THEN @ + 1 ELSE @,
                  !.title = Filled(@, title), !.kind = IF @ = "other" THEN sort ELSE @]
         = ItemOf(s1, t1, v1, k1, h1, b, c)
  <2>1. PICK x1 : x1 = [it EXCEPT !.status = IF Seen(p, i) THEN @ ELSE "inProgress"] OBVIOUS
  <2>2. x1 = ItemOf(s1, t, v, k, h, b, c) BY <1>2, <1>4, <2>1 DEF ItemOf
  <2>3. PICK x2 : x2 = [x1 EXCEPT !.turn = IF Seen(p, i) THEN @ ELSE p.turn] OBVIOUS
  <2>4. x2 = ItemOf(s1, t1, v, k, h, b, c) BY <1>5, <2>2, <2>3 DEF ItemOf
  <2>5. PICK x3 : x3 = [x2 EXCEPT !.rev = IF Seen(p, i) THEN @ + 1 ELSE @] OBVIOUS
  <2>6. x3 = ItemOf(s1, t1, v1, k, h, b, c) BY <1>6, <2>4, <2>5 DEF ItemOf
  <2>7. PICK x4 : x4 = [x3 EXCEPT !.title = Filled(@, title)] OBVIOUS
  <2>8. x4 = ItemOf(s1, t1, v1, k, h1, b, c) BY <1>8, <2>6, <2>7 DEF ItemOf
  <2>9. [x4 EXCEPT !.kind = IF @ = "other" THEN sort ELSE @] = ItemOf(s1, t1, v1, k1, h1, b, c)
    BY <1>7, <2>8 DEF ItemOf
  <2> QED BY <2>1, <2>3, <2>5, <2>7, <2>9
<1>12. OpenCall(p, i, sort, title) = [p EXCEPT !.items = [p.items EXCEPT ![i] = ItemOf(s1, t1, v1, k1, h1, b, c)]]
  BY <1>1, <1>11 DEF OpenCall, Parses
<1> QED BY <1>1, <1>9, <1>10, <1>12, PutsFact

LEMMA CompleteFact ==
  ASSUME NEW p \in Parses, NEW i \in Calls, NEW body \in Words, NEW status \in CallStatus
  PROVE  Puts(p, CompleteCall(p, i, body, status), i, DoneItem(p.items[i], p.turn, body, status))
<1>1. PICK it \in CallItem : it = p.items[i] BY DEF Parses
<1>2. PICK s \in CallStatus, t \in Nat, v \in Nat, k \in Words, h \in Words, b \in Words, c \in Words :
        it = ItemOf(s, t, v, k, h, b, c)
  BY ItemIs
<1>3. it.status = s /\ it.turn = t /\ it.rev = v /\ it.kind = k /\ it.title = h /\ it.body = b /\ it.cwd = c
  BY <1>2 DEF ItemOf
<1>4. PICK t1 \in Nat : t1 = IF Seen(p, i) THEN t ELSE p.turn BY DEF Parses
<1>5. PICK b1 \in Words : b1 = Filled(b, body) BY FilledWord
<1>6. ItemOf(status, t1, v + 1, k, h, b1, c) \in CallItem BY ItemMade
<1>7. DoneItem(it, p.turn, body, status) = ItemOf(status, t1, v + 1, k, h, b1, c)
  <2>1. Seen(p, i) <=> s # "none" BY <1>1, <1>3 DEF Seen
  <2> QED BY <1>3, <1>4, <1>5, <2>1 DEF DoneItem, ItemOf
<1>8. [it EXCEPT !.status = status, !.rev = @ + 1, !.body = Filled(@, body),
                 !.turn = IF Seen(p, i) THEN @ ELSE p.turn]
        = ItemOf(status, t1, v + 1, k, h, b1, c)
  <2>1. PICK x1 : x1 = [it EXCEPT !.status = status] OBVIOUS
  <2>2. x1 = ItemOf(status, t, v, k, h, b, c) BY <1>2, <2>1 DEF ItemOf
  <2>3. PICK x2 : x2 = [x1 EXCEPT !.rev = @ + 1] OBVIOUS
  <2>4. x2 = ItemOf(status, t, v + 1, k, h, b, c) BY <2>2, <2>3 DEF ItemOf
  <2>5. PICK x3 : x3 = [x2 EXCEPT !.body = Filled(@, body)] OBVIOUS
  <2>6. x3 = ItemOf(status, t, v + 1, k, h, b1, c) BY <1>5, <2>4, <2>5 DEF ItemOf
  <2>7. [x3 EXCEPT !.turn = IF Seen(p, i) THEN @ ELSE p.turn] = ItemOf(status, t1, v + 1, k, h, b1, c)
    BY <1>4, <2>6 DEF ItemOf
  <2> QED BY <2>1, <2>3, <2>5, <2>7
<1>9. CompleteCall(p, i, body, status)
        = [p EXCEPT !.items = [p.items EXCEPT ![i] = ItemOf(status, t1, v + 1, k, h, b1, c)]]
  BY <1>1, <1>8 DEF CompleteCall, Parses
<1> QED BY <1>1, <1>6, <1>7, <1>9, PutsFact

LEMMA PutsAgain ==
  ASSUME NEW p \in Parses, NEW q, NEW w, NEW i \in Calls, NEW a, NEW b, Puts(p, q, i, a), Puts(q, w, i, b)
  PROVE  Puts(p, w, i, b) /\ q.turn = p.turn /\ q.items[i] = a
<1>1. q.items = [p.items EXCEPT ![i] = a] /\ q.turn = p.turn BY DEF Puts, Parses
<1>2. [q.items EXCEPT ![i] = b] = [p.items EXCEPT ![i] = b] BY <1>1 DEF Parses
<1>3. w = [q EXCEPT !.items = [p.items EXCEPT ![i] = b]] BY <1>2 DEF Puts
<1>4. w = [p EXCEPT !.items = [p.items EXCEPT ![i] = b]] BY <1>3 DEF Puts, Parses
<1>5. q.items[i] = a BY <1>1 DEF Parses
<1> QED BY <1>1, <1>4, <1>5 DEF Puts

LEMMA EndFact ==
  ASSUME NEW p \in Parses, NEW r, RecordShape(r), r.t \in EndLines
  PROVE  /\ r.t = "exec_command_end" => Puts(p, ApplyExecEnd(p, r), r.id, EndedItem(p.items[r.id], p.turn, r))
         /\ r.t = "patch_apply_end" => Puts(p, ApplyPatchEnd(p, r), r.id, EndedItem(p.items[r.id], p.turn, r))
<1>1. PICK i \in Calls : i = r.id BY DEF RecordShape, EndLines, PlainTypes
<1>2. r.body \in Words /\ r.what \in Words /\ Outcome(r) \in CallStatus BY DEF RecordShape, Outcome, CallStatus
<1>3. PICK it \in CallItem : it = p.items[i] BY DEF Parses
<1>4. PICK d : d = DoneItem(it, p.turn, r.body, Outcome(r)) OBVIOUS
<1>5. PICK c : c = CompleteCall(p, i, r.body, Outcome(r)) OBVIOUS
<1>6. Puts(p, c, i, d) BY <1>2, <1>3, <1>4, <1>5, CompleteFact
<1>7. c \in Parses /\ d \in CallItem /\ c.items[i] = d BY <1>6 DEF Puts, Parses
<1>8. PICK new : new = EndedItem(it, p.turn, r) OBVIOUS
<1>9. new \in CallItem
  <2>1. PICK k \in Words : k = IF r.t = "patch_apply_end" THEN "edit" ELSE Filled(r.what, d.kind)
    BY <1>2, <1>7 DEF CallItem, Filled, Words
  <2>2. PICK h \in Words : h = IF r.t = "patch_apply_end" /\ r.what = "paths" THEN "paths" ELSE d.title
    BY <1>7 DEF CallItem, Words
  <2>3. PICK o \in Words : o = IF r.t = "patch_apply_end" THEN d.cwd ELSE Filled(d.cwd, "cwd")
    BY <1>7 DEF CallItem, Filled, Words
  <2>4. new = [status |-> d.status, turn |-> d.turn, rev |-> d.rev, kind |-> k, title |-> h, body |-> d.body,
               cwd |-> o]
    BY <1>4, <1>8, <2>1, <2>2, <2>3 DEF EndedItem
  <2> QED BY ONLY <1>7, <2>1, <2>2, <2>3, <2>4 DEF CallItem
<1>10. Puts(c, [c EXCEPT !.items = [c.items EXCEPT ![i] = new]], i, new) BY <1>7, <1>9, PutsFact
<1>11. Puts(p, [c EXCEPT !.items = [c.items EXCEPT ![i] = new]], i, new) BY <1>6, <1>10, PutsAgain
<1>12. ASSUME r.t = "exec_command_end" PROVE ApplyExecEnd(p, r) = [c EXCEPT !.items = [c.items EXCEPT ![i] = new]]
  <2>1. new = [d EXCEPT !.kind = Filled(r.what, @), !.cwd = Filled(@, "cwd")]
    <3>1. PICK s, t, v, k, h, b, e : d = ItemOf(s, t, v, k, h, b, e) BY <1>7, ItemIs
    <3>2. PICK x : x = [d EXCEPT !.kind = Filled(r.what, @)] OBVIOUS
    <3>3. x = ItemOf(s, t, v, Filled(r.what, k), h, b, e) BY <3>1, <3>2 DEF ItemOf
    <3>4. [x EXCEPT !.cwd = Filled(@, "cwd")] = ItemOf(s, t, v, Filled(r.what, k), h, b, Filled(e, "cwd"))
      BY <3>3 DEF ItemOf
    <3>5. [d EXCEPT !.kind = Filled(r.what, @), !.cwd = Filled(@, "cwd")] = [x EXCEPT !.cwd = Filled(@, "cwd")]
      BY <3>2
    <3>6. new = ItemOf(s, t, v, Filled(r.what, k), h, b, Filled(e, "cwd"))
      BY <1>4, <1>8, <1>12, <3>1 DEF EndedItem, ItemOf
    <3> QED BY <3>4, <3>5, <3>6
  <2>2. ApplyExecEnd(p, r) = [c EXCEPT !.items[i].kind = Filled(r.what, @), !.items[i].cwd = Filled(@, "cwd")]
    BY <1>1, <1>5 DEF ApplyExecEnd
  <2> QED BY <1>7, <2>1, <2>2 DEF Parses, CallItem
<1>13. ASSUME r.t = "patch_apply_end" PROVE ApplyPatchEnd(p, r) = [c EXCEPT !.items = [c.items EXCEPT ![i] = new]]
  <2>1. new = [d EXCEPT !.kind = "edit", !.title = IF r.what = "paths" THEN "paths" ELSE @]
    <3>1. PICK s, t, v, k, h, b, e : d = ItemOf(s, t, v, k, h, b, e) BY <1>7, ItemIs
    <3>2. PICK x : x = [d EXCEPT !.kind = "edit"] OBVIOUS
    <3>3. x = ItemOf(s, t, v, "edit", h, b, e) BY <3>1, <3>2 DEF ItemOf
    <3>4. PICK h1 : h1 = IF r.what = "paths" THEN "paths" ELSE h OBVIOUS
    <3>5. [x EXCEPT !.title = IF r.what = "paths" THEN "paths" ELSE @] = ItemOf(s, t, v, "edit", h1, b, e)
      BY <3>3, <3>4 DEF ItemOf
    <3>6. [d EXCEPT !.kind = "edit", !.title = IF r.what = "paths" THEN "paths" ELSE @]
            = [x EXCEPT !.title = IF r.what = "paths" THEN "paths" ELSE @]
      BY <3>2
    <3>7. new = ItemOf(s, t, v, "edit", h1, b, e)
      BY <1>4, <1>8, <1>13, <3>1, <3>4 DEF EndedItem, ItemOf
    <3> QED BY <3>5, <3>6, <3>7
  <2>2. ApplyPatchEnd(p, r) = [c EXCEPT !.items[i].kind = "edit", !.items[i].title = IF r.what = "paths" THEN "paths" ELSE @]
    BY <1>1, <1>5 DEF ApplyPatchEnd
  <2> QED BY <1>7, <2>1, <2>2, ZenonT(40) DEF Parses, CallItem
<1> QED BY <1>1, <1>3, <1>8, <1>11, <1>12, <1>13

Applied(p, r) == IF r.t \in ResponseItems THEN ApplyResponseItem(p, r) ELSE ApplyEvent(p, r)

LEMMA CallStep ==
  ASSUME NEW p \in Parses, NEW r, RecordShape(r), r.t \in CallTypes
  PROVE  r.id \in Calls /\ Puts(p, Applied(p, r), r.id, ToldItem(p.items[r.id], p.turn, r))
<1>1. PICK i \in Calls : i = r.id BY DEF RecordShape, CallTypes, PlainTypes
<1>2. PICK it \in CallItem : it = p.items[i] BY <1>1 DEF Parses
<1>3. r.body \in Words /\ r.what \in Words /\ Outcome(r) \in CallStatus BY DEF RecordShape, Outcome, CallStatus
<1>4. CASE r.t = "function_call"
  <2>1. PICK k \in Words : k = IF r.what = "tool" THEN "other" ELSE r.what BY <1>3 DEF Words
  <2>2. Applied(p, r) = OpenCall(p, i, k, r.what)
    BY <1>1, <1>4, <2>1 DEF Applied, ApplyResponseItem, ApplyFunctionCall, ResponseItems
  <2>3. ToldItem(it, p.turn, r) = OpenedItem(it, p.turn, k, r.what) BY <1>4, <2>1 DEF ToldItem, EndLines
  <2> QED BY <1>1, <1>2, <1>3, <2>2, <2>3, OpenFact
<1>5. CASE r.t = "custom_tool_call"
  <2>1. PICK h \in Words : h = IF r.what = "edit" THEN "patch" ELSE r.what BY <1>3 DEF Words
  <2>2. Applied(p, r) = OpenCall(p, i, r.what, h)
    BY <1>1, <1>5, <2>1 DEF Applied, ApplyResponseItem, ApplyCustomCall, ResponseItems
  <2>3. ToldItem(it, p.turn, r) = OpenedItem(it, p.turn, r.what, h) BY <1>5, <2>1 DEF ToldItem, EndLines
  <2> QED BY <1>1, <1>2, <1>3, <2>2, <2>3, OpenFact
<1>6. CASE r.t = "output"
  <2>1. Applied(p, r) = CompleteCall(p, i, r.body, "completed")
    BY <1>1, <1>6 DEF Applied, ApplyResponseItem, ApplyOutput, ResponseItems
  <2>2. ToldItem(it, p.turn, r) = DoneItem(it, p.turn, r.body, "completed") BY <1>6 DEF ToldItem, EndLines
  <2>3. "completed" \in CallStatus BY DEF CallStatus
  <2> QED BY <1>1, <1>2, <1>3, <2>1, <2>2, <2>3, CompleteFact
<1>7. CASE r.t = "exec_command_end"
  <2>1. Applied(p, r) = ApplyExecEnd(p, r) BY <1>7 DEF Applied, ApplyEvent, ResponseItems
  <2>2. ToldItem(it, p.turn, r) = EndedItem(it, p.turn, r) BY <1>7 DEF ToldItem, EndLines
  <2> QED BY <1>1, <1>2, <1>7, <2>1, <2>2, EndFact DEF EndLines
<1>8. CASE r.t = "patch_apply_end"
  <2>1. Applied(p, r) = ApplyPatchEnd(p, r) BY <1>8 DEF Applied, ApplyEvent, ResponseItems
  <2>2. ToldItem(it, p.turn, r) = EndedItem(it, p.turn, r) BY <1>8 DEF ToldItem, EndLines
  <2> QED BY <1>1, <1>2, <1>8, <2>1, <2>2, EndFact DEF EndLines
<1>9. CASE r.t = "web_search_end"
  <2>1. PICK q : q = OpenCall(p, i, "fetch", "query") OBVIOUS
  <2>2. PICK o : o = OpenedItem(it, p.turn, "fetch", "query") OBVIOUS
  <2>3. "fetch" \in Words /\ "query" \in Words /\ "" \in Words /\ "completed" \in CallStatus
    BY DEF Words, CallStatus
  <2>4. Puts(p, q, i, o) BY <1>2, <2>1, <2>2, <2>3, OpenFact
  <2>5. q \in Parses BY <2>4 DEF Puts
  <2>6. PICK w, d : /\ w = CompleteCall(q, i, "", "completed") /\ d = DoneItem(q.items[i], q.turn, "", "completed")
                    /\ Puts(q, w, i, d)
    BY <2>3, <2>5, CompleteFact
  <2>7. /\ q.turn = p.turn /\ q.items[i] = o
        /\ Puts(p, w, i, d)
    <3>1. Puts(q, w, i, d) BY <2>6
    <3> QED BY <2>4, <3>1, PutsAgain
  <2>8. Applied(p, r) = CompleteCall(q, i, "", "completed")
    BY <1>1, <1>9, <2>1 DEF Applied, ApplyEvent, ApplyWebSearch, ResponseItems
  <2>9. ToldItem(it, p.turn, r) = DoneItem(o, p.turn, "", "completed") BY <1>9, <2>2 DEF ToldItem, EndLines
  <2> QED BY <1>1, <1>2, <2>6, <2>7, <2>8, <2>9
<1>10. CASE r.t = "mcp_tool_call_end"
  <2>1. PICK q : q = OpenCall(p, i, "other", "server.tool") OBVIOUS
  <2>2. PICK o : o = OpenedItem(it, p.turn, "other", "server.tool") OBVIOUS
  <2>3. "other" \in Words /\ "server.tool" \in Words BY DEF Words
  <2>4. Puts(p, q, i, o) BY <1>2, <2>1, <2>2, <2>3, OpenFact
  <2>5. q \in Parses BY <2>4 DEF Puts
  <2>6. Puts(q, CompleteCall(q, i, r.body, Outcome(r)), i, DoneItem(q.items[i], q.turn, r.body, Outcome(r)))
    BY <1>3, <2>5, CompleteFact
  <2>7. /\ q.turn = p.turn /\ q.items[i] = o
        /\ Puts(p, CompleteCall(q, i, r.body, Outcome(r)), i, DoneItem(q.items[i], q.turn, r.body, Outcome(r)))
    BY <2>4, <2>6, PutsAgain
  <2>8. Applied(p, r) = CompleteCall(q, i, r.body, Outcome(r))
    BY <1>1, <1>10, <2>1 DEF Applied, ApplyEvent, ApplyMcpEnd, ResponseItems
  <2>9. ToldItem(it, p.turn, r) = DoneItem(o, p.turn, r.body, Outcome(r)) BY <1>10, <2>2 DEF ToldItem, EndLines
  <2> QED BY <1>1, <1>2, <2>7, <2>8, <2>9
<1> QED BY <1>4, <1>5, <1>6, <1>7, <1>8, <1>9, <1>10 DEF CallTypes

LEMMA AbortFact ==
  ASSUME NEW p \in Parses
  PROVE  /\ AbortOpen(p) \in Parses
         /\ AbortOpen(p) = [p EXCEPT !.items = [i \in Calls |-> AbortedItem(p.items[i])]]
         /\ \A i \in Calls : AbortedItem(p.items[i]) \in CallItem
<1>1. ASSUME NEW i \in Calls
      PROVE  /\ AbortedItem(p.items[i]) \in CallItem
             /\ AbortedItem(p.items[i]) = IF p.items[i].status = "inProgress"
                  THEN [p.items[i] EXCEPT !.status = "canceled", !.rev = @ + 1] ELSE p.items[i]
  <2>1. PICK it \in CallItem : it = p.items[i] BY DEF Parses
  <2>2. PICK s \in CallStatus, t \in Nat, v \in Nat, k \in Words, h \in Words, b \in Words, c \in Words :
          it = ItemOf(s, t, v, k, h, b, c)
    BY ItemIs
  <2>3. "canceled" \in CallStatus /\ ItemOf("canceled", t, v + 1, k, h, b, c) \in CallItem
    <3>1. "canceled" \in CallStatus BY DEF CallStatus
    <3> QED BY <3>1, ItemMade
  <2>4. [it EXCEPT !.status = "canceled", !.rev = @ + 1] = ItemOf("canceled", t, v + 1, k, h, b, c)
    <3>1. PICK x : x = [it EXCEPT !.status = "canceled"] OBVIOUS
    <3>2. x = ItemOf("canceled", t, v, k, h, b, c) BY <2>2, <3>1 DEF ItemOf
    <3>3. [x EXCEPT !.rev = @ + 1] = ItemOf("canceled", t, v + 1, k, h, b, c) BY <3>2 DEF ItemOf
    <3> QED BY <3>1, <3>3
  <2>5. it.status = "inProgress" => AbortedItem(it) = ItemOf("canceled", t, v + 1, k, h, b, c)
    BY <2>2 DEF AbortedItem, ItemOf
  <2>6. it.status # "inProgress" => AbortedItem(it) = it BY DEF AbortedItem
  <2> QED BY <2>1, <2>3, <2>4, <2>5, <2>6
<1>2. PICK f : f = [i \in Calls |-> AbortedItem(p.items[i])] OBVIOUS
<1>3. f \in [Calls -> CallItem] BY <1>1, <1>2
<1>4. f = [i \in Calls |-> IF p.items[i].status = "inProgress"
             THEN [p.items[i] EXCEPT !.status = "canceled", !.rev = @ + 1] ELSE p.items[i]]
  BY <1>1, <1>2
<1>5. AbortOpen(p) = [p EXCEPT !.items = f] BY <1>4 DEF AbortOpen
<1>6. [p EXCEPT !.items = f] \in Parses BY <1>3 DEF Parses
<1> QED BY <1>1, <1>2, <1>5, <1>6

LEMMA CountUp == ASSUME NEW f \in Counts, NEW t PROVE [f EXCEPT ![t] = @ + 1] \in Counts
<1>1. \A u \in 0 .. MaxRollout :
        f[u] \in Nat /\ [f EXCEPT ![t] = @ + 1][u] = IF u = t THEN f[u] + 1 ELSE f[u]
  BY DEF Counts
<1>2. \A u \in 0 .. MaxRollout : [f EXCEPT ![t] = @ + 1][u] \in Nat BY <1>1
<1>3. PICK g : g = [f EXCEPT ![t] = @ + 1] OBVIOUS
<1>4. DOMAIN g = 0 .. MaxRollout /\ g = [u \in 0 .. MaxRollout |-> g[u]] BY <1>3 DEF Counts
<1> QED BY <1>2, <1>3, <1>4 DEF Counts

LEMMA RecordStep ==
  ASSUME NEW p \in Parses, NEW r \in RolloutRecords, NEW q, q = ApplyRecord(p, r)
  PROVE  /\ q \in Parses
         /\ q.lines = p.lines + 1 /\ q.bad + q.skipped <= p.bad + p.skipped + 1
         /\ q.turn = IF r.t = "user_message" THEN p.turn + 1 ELSE p.turn
         /\ q.tokens = IF r.t = "token_count" THEN [p.tokens EXCEPT ![p.turn] = @ + 1] ELSE p.tokens
         /\ \A i \in Calls : q.items[i] = ItemAfter(p.items[i], p.turn, r, i)
<1>1. RecordShape(r) BY ShapeFact
<1>2. PICK m : m = [p EXCEPT !.lines = @ + 1] OBVIOUS
<1>3. /\ m \in Parses /\ m.lines = p.lines + 1 /\ m.bad = p.bad /\ m.skipped = p.skipped
      /\ m.turn = p.turn /\ m.tokens = p.tokens /\ m.items = p.items /\ m.answers = p.answers
  BY <1>2 DEF Parses
<1>4. p.bad \in Nat /\ p.skipped \in Nat /\ p.turn \in Nat /\ p.tokens \in Counts /\ p.answers \in Counts BY DEF Parses
<1>5. CASE r.t \in CallTypes
  <2>1. r.t \notin {"bad", "unknown", "known", "turn_aborted", "user_message", "token_count"}
    BY <1>5 DEF CallTypes
  <2>2. q = Applied(m, r) BY <1>2, <2>1 DEF ApplyRecord, Applied
  <2>3. PICK it : it = ToldItem(m.items[r.id], m.turn, r) OBVIOUS
  <2>4. r.id \in Calls /\ Puts(m, q, r.id, it) BY <1>1, <1>3, <1>5, <2>2, <2>3, CallStep
  <2>5. q \in Parses /\ q = [m EXCEPT !.items = [m.items EXCEPT ![r.id] = it]] BY <2>4 DEF Puts
  <2>6. q.lines = m.lines /\ q.bad = m.bad /\ q.skipped = m.skipped /\ q.turn = m.turn /\ q.tokens = m.tokens
    BY <1>3, <2>5 DEF Parses
  <2>7. \A i \in Calls : q.items[i] = IF i = r.id THEN it ELSE m.items[i]
    BY <1>3, <2>4, <2>5 DEF Parses
  <2>8. \A i \in Calls : q.items[i] = ItemAfter(p.items[i], p.turn, r, i)
    BY <1>3, <2>1, <2>3, <2>7 DEF ItemAfter
  <2> QED BY <1>3, <1>4, <2>1, <2>5, <2>6, <2>8
<1>6. CASE r.t = "turn_aborted"
  <2>1. q = AbortOpen(m) BY <1>2, <1>6 DEF ApplyRecord, ApplyEvent, ResponseItems
  <2>2. /\ q \in Parses /\ q = [m EXCEPT !.items = [i \in Calls |-> AbortedItem(m.items[i])]]
    BY <1>3, <2>1, AbortFact
  <2>3. q.lines = m.lines /\ q.bad = m.bad /\ q.skipped = m.skipped /\ q.turn = m.turn /\ q.tokens = m.tokens
    BY <1>3, <2>2 DEF Parses
  <2>4. \A i \in Calls : q.items[i] = AbortedItem(m.items[i]) BY <1>3, <2>2 DEF Parses
  <2>5. \A i \in Calls : q.items[i] = ItemAfter(p.items[i], p.turn, r, i)
    BY <1>3, <1>6, <2>4 DEF ItemAfter
  <2> QED BY <1>3, <1>4, <1>6, <2>2, <2>3, <2>5
<1>7. CASE r.t \in PlainTypes /\ r.t # "turn_aborted"
  <2>1. r.id \notin Calls BY <1>1, <1>7, CodexRolloutAssumption DEF RecordShape, CallTypes, PlainTypes
  <2>2. \A i \in Calls : p.items[i] = ItemAfter(p.items[i], p.turn, r, i) BY <1>7, <2>1 DEF ItemAfter
  <2>3. CASE r.t = "user_message"
    <3>1. q = [m EXCEPT !.turn = @ + 1] BY <1>2, <2>3 DEF ApplyRecord, ApplyEvent, ResponseItems
    <3> QED BY <1>3, <1>4, <2>2, <2>3, <3>1 DEF Parses
  <2>4. CASE r.t = "agent_message"
    <3>1. q = [m EXCEPT !.answers[m.turn] = @ + 1]
      BY <1>2, <2>4 DEF ApplyRecord, ApplyEvent, ResponseItems
    <3>2. PICK f : f = [m.answers EXCEPT ![m.turn] = @ + 1] OBVIOUS
    <3>3. f \in Counts BY <1>3, <1>4, <3>2, CountUp
    <3>4. q = [m EXCEPT !.answers = f] BY <3>1, <3>2
    <3> QED BY <1>3, <1>4, <2>2, <2>4, <3>3, <3>4 DEF Parses
  <2>5. CASE r.t = "token_count"
    <3>1. q = [m EXCEPT !.tokens[m.turn] = @ + 1]
      BY <1>2, <2>5 DEF ApplyRecord, ApplyEvent, ApplyTokens, ResponseItems
    <3>2. PICK f : f = [m.tokens EXCEPT ![m.turn] = @ + 1] OBVIOUS
    <3>3. f \in Counts BY <1>3, <1>4, <3>2, CountUp
    <3>4. q = [m EXCEPT !.tokens = f] BY <3>1, <3>2
    <3>5. q \in Parses /\ q.tokens = f BY <1>3, <3>3, <3>4 DEF Parses
    <3> QED BY <1>3, <1>4, <2>2, <2>5, <3>2, <3>4, <3>5 DEF Parses
  <2>6. CASE r.t = "reasoning"
    <3>1. q = [m EXCEPT !.thoughts = @ + 1]
      BY <1>2, <2>6 DEF ApplyRecord, ApplyResponseItem, ResponseItems
    <3> QED BY <1>3, <1>4, <2>2, <2>6, <3>1 DEF Parses
  <2>7. CASE r.t = "known"
    <3>1. q = m BY <1>2, <2>7 DEF ApplyRecord
    <3> QED BY <1>3, <1>4, <2>2, <2>7, <3>1
  <2>8. CASE r.t = "unknown"
    <3>1. q = [m EXCEPT !.skipped = @ + 1] BY <1>2, <2>8 DEF ApplyRecord
    <3> QED BY <1>3, <1>4, <2>2, <2>8, <3>1 DEF Parses
  <2>9. CASE r.t = "bad"
    <3>1. q = [m EXCEPT !.bad = @ + 1] BY <1>2, <2>9 DEF ApplyRecord
    <3> QED BY <1>3, <1>4, <2>2, <2>9, <3>1 DEF Parses
  <2> QED BY <1>7, <2>3, <2>4, <2>5, <2>6, <2>7, <2>8, <2>9 DEF PlainTypes
<1>8. r.t \in CallTypes \/ r.t \in PlainTypes BY <1>1 DEF RecordShape
<1> QED BY <1>5, <1>6, <1>7, <1>8

-----------------------------------------------------------------------------
(* What the item of a call tells of the records that were read: `n` of `s`.  *)
ItemStory(it, turn, s, n, i) ==
  /\ it \in CallItem /\ (it.status = "none" => it = NoCall) /\ it.turn <= turn
  /\ it.status # "none" <=> \E k \in 1..n : s[k].id = i
  /\ it.status = "inProgress" => \A k \in 1..n : s[k].t = "turn_aborted" => \A j \in 1..k : s[j].id # i
  /\ it.status \in {"inProgress", "canceled"} => \A j \in 1..n : s[j].id = i => s[j].t \in CallLines
  /\ it.status = "canceled" => \E k \in 1..n : s[k].t = "turn_aborted" /\ \E j \in 1..k : s[j].id = i
  /\ it.body = "" => \A k \in 1..n : s[k].id = i => s[k].body = ""
  /\ it.body # "" => \E k \in 1..n : /\ s[k].id = i /\ s[k].body = it.body
                                     /\ \A j \in 1..n : j < k /\ s[j].id = i => s[j].body = ""

LEMMA NoStory == ASSUME NEW s, NEW i \in Calls PROVE ItemStory(NoCall, 0, s, 0, i)
<1>1. \A k \in 1..0 : FALSE OBVIOUS
<1>2. NoCall \in CallItem BY DEF NoCall, CallItem, CallStatus, Words
<1>3. NoCall.status = "none" /\ NoCall.turn = 0 /\ NoCall.body = "" BY DEF NoCall
<1>4. 0 <= 0 /\ "none" \notin {"inProgress", "canceled"} OBVIOUS
<1> QED BY <1>1, <1>2, <1>3, <1>4 DEF ItemStory

LEMMA DoneFields ==
  ASSUME NEW it, NEW turn, NEW body, NEW status, NEW w, w = DoneItem(it, turn, body, status)
  PROVE  /\ w.status = status /\ w.turn = (IF it.status # "none" THEN it.turn ELSE turn)
         /\ w.body = Filled(it.body, body)
BY DEF DoneItem

LEMMA ToldFields ==
  ASSUME NEW it \in CallItem, NEW turn \in Nat, NEW r, RecordShape(r), r.t \in CallTypes, NEW w,
         w = ToldItem(it, turn, r)
  PROVE  /\ w.turn = IF it.status # "none" THEN it.turn ELSE turn
         /\ w.body = Filled(it.body, r.body)
         /\ r.t \in CallLines => w.status = IF it.status # "none" THEN it.status ELSE "inProgress"
         /\ r.t \notin CallLines => w.status \in {"completed", "failed"}
<1>1. CASE r.t \in CallLines
  <2>1. r.body = "" BY <1>1 DEF RecordShape
  <2>2. Filled(it.body, "") = it.body BY DEF Filled
  <2>3. r.t \in {"function_call", "custom_tool_call"} BY <1>1 DEF CallLines
  <2>4. w.turn = IF it.status # "none" THEN it.turn ELSE turn BY <2>3 DEF ToldItem, OpenedItem, EndLines
  <2>5. w.body = it.body BY <2>3 DEF ToldItem, OpenedItem, EndLines
  <2>6. w.status = IF it.status # "none" THEN it.status ELSE "inProgress" BY <2>3 DEF ToldItem, OpenedItem, EndLines
  <2> QED BY <1>1, <2>1, <2>2, <2>4, <2>5, <2>6
<1>2. CASE r.t = "output"
  <2>1. w = DoneItem(it, turn, r.body, "completed") BY <1>2 DEF ToldItem, EndLines
  <2>2. "output" \notin CallLines BY DEF CallLines
  <2> QED BY <1>2, <2>1, <2>2 DEF DoneItem
<1>3. CASE r.t \in EndLines
  <2>1. w = EndedItem(it, turn, r) BY <1>3 DEF ToldItem, EndLines
  <2>2. r.t \notin CallLines BY <1>3 DEF CallLines, EndLines
  <2>3. PICK d : d = DoneItem(it, turn, r.body, Outcome(r)) OBVIOUS
  <2>4. w.status = d.status /\ w.turn = d.turn /\ w.body = d.body BY <2>1, <2>3 DEF EndedItem
  <2> QED BY <2>2, <2>3, <2>4 DEF DoneItem, Outcome
<1>4. CASE r.t = "web_search_end"
  <2>1. PICK o : o = OpenedItem(it, turn, "fetch", "query") OBVIOUS
  <2>2. w = DoneItem(o, turn, "", "completed") BY <1>4, <2>1 DEF ToldItem, EndLines
  <2>3. r.t \notin CallLines /\ r.body = "" BY <1>4 DEF CallLines, RecordShape
  <2>4. /\ o.status # "none" /\ o.turn = IF it.status # "none" THEN it.turn ELSE turn
        /\ o.body = it.body
    BY <2>1 DEF OpenedItem
  <2>5. w.turn = o.turn /\ w.status = "completed" /\ w.body = Filled(o.body, "")
    <3>1. /\ w.status = "completed" /\ w.turn = (IF o.status # "none" THEN o.turn ELSE turn)
          /\ w.body = Filled(o.body, "")
      <4>1. PICK b, c : b = "" /\ c = "completed" OBVIOUS
      <4>2. w = DoneItem(o, turn, b, c) BY <2>2, <4>1
      <4>3. w.status = c /\ w.turn = (IF o.status # "none" THEN o.turn ELSE turn) /\ w.body = Filled(o.body, b)
        BY <4>2, DoneFields
      <4> QED BY <4>1, <4>3
    <3>2. o.status # "none" BY <2>4
    <3> QED BY <3>1, <3>2, Zenon
  <2>6. w.body = Filled(it.body, r.body) BY <2>3, <2>4, <2>5
  <2> QED BY <2>3, <2>4, <2>5, <2>6
<1>5. CASE r.t = "mcp_tool_call_end"
  <2>1. PICK o : o = OpenedItem(it, turn, "other", "server.tool") OBVIOUS
  <2>2. w = DoneItem(o, turn, r.body, Outcome(r)) BY <1>5, <2>1 DEF ToldItem, EndLines
  <2>3. r.t \notin CallLines BY <1>5 DEF CallLines
  <2>4. /\ o.status # "none" /\ o.turn = IF it.status # "none" THEN it.turn ELSE turn
        /\ o.body = it.body
    BY <2>1 DEF OpenedItem
  <2> QED BY <2>2, <2>3, <2>4 DEF DoneItem, Outcome
<1> QED BY <1>1, <1>2, <1>3, <1>4, <1>5 DEF CallTypes, EndLines, CallLines

LEMMA StoryGoesOn ==
  ASSUME NEW a \in Nat, NEW n \in Nat, n = a + 1, NEW s, NEW i \in Calls, NEW turn \in Nat, NEW next \in Nat, turn <= next,
         NEW it, ItemStory(it, turn, s, a, i), RecordShape(s[n]),
         NEW w \in CallItem, w = ItemAfter(it, turn, s[n], i)
  PROVE  ItemStory(w, next, s, n, i)
<1> PICK r : r = s[n] OBVIOUS
<1>0. \A k \in 1..n : k = n \/ k \in 1..a OBVIOUS
<1>00. \A k \in 1..a : k \in 1..n OBVIOUS
<1>01. n \in 1..n /\ \A k \in 1..a : k < n OBVIOUS
<1>02. it \in CallItem /\ it.turn \in Nat /\ it.turn <= turn BY DEF ItemStory, CallItem
<1>1. CASE r.t = "turn_aborted" /\ it.status = "inProgress"
  <2>1. r.id # i BY <1>1, CodexRolloutAssumption DEF RecordShape, CallTypes
  <2>2. w.status = "canceled" /\ w.turn = it.turn /\ w.body = it.body BY <1>1 DEF ItemAfter, AbortedItem
  <2>3. (\E k \in 1..n : s[k].id = i) <=> \E k \in 1..a : s[k].id = i BY <1>0, <1>00, <2>1
  <2>4. \E k \in 1..a : s[k].id = i BY <1>1 DEF ItemStory
  <2>5. \E k \in 1..n : s[k].t = "turn_aborted" /\ \E j \in 1..k : s[j].id = i
    BY <1>00, <1>01, <1>1, <2>4
  <2>6. \A j \in 1..n : s[j].id = i => s[j].t \in CallLines BY <1>0, <1>1, <2>1 DEF ItemStory
  <2>7. it.body = "" => \A k \in 1..n : s[k].id = i => s[k].body = "" BY <1>0, <2>1 DEF ItemStory
  <2>8. it.body # "" => \E k \in 1..n : /\ s[k].id = i /\ s[k].body = it.body
                                       /\ \A j \in 1..n : j < k /\ s[j].id = i => s[j].body = ""
    BY <1>0, <1>00, <2>1, ZenonT(40) DEF ItemStory
  <2>9. w.turn <= next BY <1>02, <2>2
  <2>10. w.status # "none" /\ w.status # "inProgress" BY <2>2
  <2> QED BY <2>2, <2>3, <2>4, <2>5, <2>6, <2>7, <2>8, <2>9, <2>10 DEF ItemStory
<1>2. CASE r.id = i
  <2>1. r.t \in CallTypes /\ r.t # "turn_aborted" BY <1>2, CodexRolloutAssumption DEF RecordShape, CallTypes
  <2>2. w = ToldItem(it, turn, r) BY <1>2, <2>1 DEF ItemAfter
  <2>3. /\ w.turn = IF it.status # "none" THEN it.turn ELSE turn
        /\ w.body = Filled(it.body, r.body)
        /\ r.t \in CallLines => w.status = IF it.status # "none" THEN it.status ELSE "inProgress"
        /\ r.t \notin CallLines => w.status \in {"completed", "failed"}
    BY <1>02, <2>1, <2>2, ToldFields
  <2>4. w.turn <= next BY <1>02, <2>3
  <2>5. w.status # "none" BY <2>3
  <2>6. \E k \in 1..n : s[k].id = i BY <1>01, <1>2
  <2>7. w.status \in {"inProgress", "canceled"} =>
          r.t \in CallLines /\ ((it.status = w.status) \/ (it.status = "none" /\ w.status = "inProgress"))
    BY <2>3
  <2>8. it.status = "none" => \A k \in 1..a : s[k].id # i BY DEF ItemStory
  <2>9. w.status = "inProgress" => \A k \in 1..n : s[k].t = "turn_aborted" => \A j \in 1..k : s[j].id # i
    <3> SUFFICES ASSUME w.status = "inProgress", NEW k \in 1..n, s[k].t = "turn_aborted", NEW j \in 1..k
                 PROVE  s[j].id # i
      OBVIOUS
    <3>1. k \in 1..a BY <1>0, <2>1
    <3>2. j \in 1..a BY <3>1
    <3> QED BY <2>7, <2>8, <3>1, <3>2 DEF ItemStory
  <2>10. w.status \in {"inProgress", "canceled"} => \A j \in 1..n : s[j].id = i => s[j].t \in CallLines
    BY <1>0, <2>7, <2>8 DEF ItemStory
  <2>11. w.status = "canceled" => \E k \in 1..n : s[k].t = "turn_aborted" /\ \E j \in 1..k : s[j].id = i
    BY <1>00, <2>7 DEF ItemStory
  <2>12. w.body = "" => \A k \in 1..n : s[k].id = i => s[k].body = ""
    BY <1>0, <2>3 DEF ItemStory, Filled
  <2>13. ASSUME w.body # ""
         PROVE  \E k \in 1..n : /\ s[k].id = i /\ s[k].body = w.body
                               /\ \A j \in 1..n : j < k /\ s[j].id = i => s[j].body = ""
    <3>1. CASE it.body = ""
      <4>1. r.body = w.body BY <2>3, <3>1 DEF Filled
      <4>2. \A j \in 1..a : s[j].id = i => s[j].body = "" BY <3>1 DEF ItemStory
      <4>3. \A j \in 1..n : j < n => j \in 1..a OBVIOUS
      <4> QED BY <1>01, <1>2, <4>1, <4>2, <4>3
    <3>2. CASE it.body # ""
      <4>1. w.body = it.body BY <2>3, <3>2 DEF Filled
      <4>2. PICK k \in 1..a : /\ s[k].id = i /\ s[k].body = it.body
                              /\ \A j \in 1..a : j < k /\ s[j].id = i => s[j].body = ""
        BY <3>2 DEF ItemStory
      <4>3. \A j \in 1..n : j < k => j \in 1..a OBVIOUS
      <4> QED BY <1>00, <4>1, <4>2, <4>3
    <3> QED BY <3>1, <3>2
  <2> QED BY <2>4, <2>5, <2>6, <2>9, <2>10, <2>11, <2>12, <2>13 DEF ItemStory
<1>3. CASE r.id # i /\ ~(r.t = "turn_aborted" /\ it.status = "inProgress")
  <2>1. w = it BY <1>3 DEF ItemAfter, AbortedItem
  <2>2. (\E k \in 1..n : s[k].id = i) <=> \E k \in 1..a : s[k].id = i BY <1>0, <1>00, <1>3
  <2>3. it.status = "inProgress" => \A k \in 1..n : s[k].t = "turn_aborted" => \A j \in 1..k : s[j].id # i
    <3> SUFFICES ASSUME it.status = "inProgress", NEW k \in 1..n, s[k].t = "turn_aborted", NEW j \in 1..k
                 PROVE  s[j].id # i
      OBVIOUS
    <3>1. k \in 1..a BY <1>0, <1>3
    <3> QED BY <3>1 DEF ItemStory
  <2>4. it.status \in {"inProgress", "canceled"} => \A j \in 1..n : s[j].id = i => s[j].t \in CallLines
    BY <1>0, <1>3 DEF ItemStory
  <2>5. it.status = "canceled" => \E k \in 1..n : s[k].t = "turn_aborted" /\ \E j \in 1..k : s[j].id = i
    BY <1>00 DEF ItemStory
  <2>6. it.body = "" => \A k \in 1..n : s[k].id = i => s[k].body = "" BY <1>0, <1>3 DEF ItemStory
  <2>7. it.body # "" => \E k \in 1..n : /\ s[k].id = i /\ s[k].body = it.body
                                       /\ \A j \in 1..n : j < k /\ s[j].id = i => s[j].body = ""
    BY <1>0, <1>00, <1>3, ZenonT(40) DEF ItemStory
  <2>8. it.turn <= next BY <1>02
  <2>9. it.status = "none" => it = NoCall BY DEF ItemStory
  <2>10. it.status # "none" <=> \E k \in 1..a : s[k].id = i BY DEF ItemStory
  <2> QED BY <1>02, <2>1, <2>2, <2>3, <2>4, <2>5, <2>6, <2>7, <2>8, <2>9, <2>10 DEF ItemStory
<1>4. r.t = "turn_aborted" => r.id # i BY CodexRolloutAssumption DEF RecordShape, CallTypes
<1> QED BY <1>1, <1>2, <1>3, <1>4

(* The steps of a parse, and what each of them tells.                        *)
Steps(f, s) ==
  /\ f[0] = EmptyParse /\ Parsed(s) = f[Len(s)]
  /\ \A k \in 1..Len(s) : f[k] = ApplyRecord(f[k - 1], s[k])
  /\ \A k \in 0..Len(s) : f[k] \in Parses

LEMMA EmptyParseFact ==
  /\ EmptyParse \in Parses /\ EmptyParse.lines = 0 /\ EmptyParse.bad = 0 /\ EmptyParse.skipped = 0
  /\ EmptyParse.turn = 0 /\ EmptyParse.tokens = [t \in 0 .. MaxRollout |-> 0]
  /\ \A i \in Calls : EmptyParse.items[i] = NoCall
<1>1. NoCall \in CallItem BY DEF NoCall, CallItem, CallStatus, Words
<1>2. PICK z : z = [t \in 0 .. MaxRollout |-> 0] OBVIOUS
<1>3. z \in Counts BY <1>2 DEF Counts
<1>4. EmptyParse = [items |-> [i \in Calls |-> NoCall], turn |-> 0, answers |-> z,
                    tokens |-> z, thoughts |-> 0, lines |-> 0, bad |-> 0, skipped |-> 0]
  BY <1>2 DEF EmptyParse
<1>5. EmptyParse \in Parses BY <1>1, <1>3, <1>4 DEF Parses
<1> QED BY <1>2, <1>4, <1>5

LEMMA StepsExist == ASSUME NEW s \in Seq(RolloutRecords) PROVE \E f : Steps(f, s)
<1> DEFINE step == [k \in 1..Len(s) |-> [p \in Parses |-> ApplyRecord(p, s[k])]]
<1>1. Len(s) \in Nat /\ \A k \in 1..Len(s) : s[k] \in RolloutRecords OBVIOUS
<1>2. \A k \in 1..Len(s) : step[k] \in [Parses -> Parses]
  <2> SUFFICES ASSUME NEW k \in 1..Len(s), NEW p \in Parses PROVE ApplyRecord(p, s[k]) \in Parses
    OBVIOUS
  <2> QED BY <1>1, RecordStep
<1>3. PICK f \in [0..Len(s) -> Parses] : Running(f, EmptyParse, step, Len(s))
  <2> HIDE DEF step
  <2> QED BY <1>1, <1>2, EmptyParseFact, RunExists
<1>4. f[0] = EmptyParse /\ \A k \in 1..Len(s) : f[k] = ApplyRecord(f[k - 1], s[k])
  <2>1. \A k \in 1..Len(s) : k - 1 \in 0..Len(s) /\ f[k - 1] \in Parses BY <1>1
  <2> QED BY <1>3, <2>1 DEF Running
<1>5. f = [n \in 0..Len(s) |-> IF n = 0 THEN EmptyParse ELSE ApplyRecord(f[n - 1], s[n])]
  <2>1. f = [n \in 0..Len(s) |-> f[n]] OBVIOUS
  <2>2. \A n \in 0..Len(s) : n = 0 \/ n \in 1..Len(s) BY <1>1
  <2> QED BY <1>4, <2>1, <2>2
<1> DEFINE g == CHOOSE g0 : g0 = [n \in 0..Len(s) |-> IF n = 0 THEN EmptyParse ELSE ApplyRecord(g0[n - 1], s[n])]
<1>6. g = [n \in 0..Len(s) |-> IF n = 0 THEN EmptyParse ELSE ApplyRecord(g[n - 1], s[n])]
  BY <1>5
<1>7. Parsed(s) = g[Len(s)] BY DEF Parsed
<1>8. g[0] = EmptyParse /\ \A k \in 1..Len(s) : g[k] = ApplyRecord(g[k - 1], s[k])
  <2> HIDE DEF g
  <2>1. \A k \in 1..Len(s) : k \in 0..Len(s) /\ k # 0 BY <1>1
  <2>2. 0 \in 0..Len(s) BY <1>1
  <2> QED BY <1>6, <2>1, <2>2
<1>9. ASSUME NEW k \in 0..Len(s) PROVE g[k] \in Parses
  <2> HIDE DEF g
  <2> DEFINE S == {n \in 0..k : g[n] \in Parses}
  <2>1. 0 \in S BY <1>8, EmptyParseFact
  <2>2. ASSUME NEW n \in 1..k, n - 1 \in S PROVE n \in S
    <3>1. n \in 1..Len(s) /\ n \in 0..k BY <1>1
    <3>2. g[n - 1] \in Parses /\ g[n] = ApplyRecord(g[n - 1], s[n]) BY <1>8, <2>2, <3>1
    <3> QED BY <1>1, <3>1, <3>2, RecordStep
  <2>3. k \in Nat BY <1>1
  <2>4. k \in S
    <3> HIDE DEF S
    <3> QED BY <2>1, <2>2, <2>3, UpTo
  <2> QED BY <2>4
<1>10. Steps(g, s)
  <2> HIDE DEF g
  <2> QED BY <1>7, <1>8, <1>9 DEF Steps
<1> QED BY <1>10

Story(p, s, n) ==
  /\ p \in Parses /\ p.lines = n /\ p.bad + p.skipped <= n /\ p.turn <= n
  /\ Total(p.tokens, MaxRollout) = Cardinality({k \in 1..n : s[k].t = "token_count"})
  /\ \A i \in Calls : ItemStory(p.items[i], p.turn, s, n, i)

LEMMA CountTokens ==
  ASSUME NEW n \in Nat, NEW s
  PROVE  LET C(k) == Cardinality({j \in 1..k : s[j].t = "token_count"})
         IN C(n + 1) = C(n) + (IF s[n + 1].t = "token_count" THEN 1 ELSE 0)
<1> DEFINE A == {j \in 1..n : s[j].t = "token_count"}
           B == {j \in 1..(n + 1) : s[j].t = "token_count"}
<1>1. IsFiniteSet(A)
  <2>1. A \subseteq 1..n /\ IsFiniteSet(1..n) BY FS_Interval
  <2> QED BY <2>1, FS_Subset
<1>2. CASE s[n + 1].t = "token_count"
  <2>1. B = A \cup {n + 1} /\ n + 1 \notin A BY <1>2
  <2>2. Cardinality(A \cup {n + 1}) = Cardinality(A) + 1
    <3> HIDE DEF A, B
    <3> QED BY <1>1, <2>1, FS_AddElement
  <2> QED BY <1>2, <2>1, <2>2
<1>3. CASE s[n + 1].t # "token_count"
  <2>1. B = A BY <1>3
  <2>2. Cardinality(A) \in Nat BY <1>1, FS_CardinalityType
  <2>3. Cardinality(A) + 0 = Cardinality(A)
    <3> HIDE DEF A
    <3> QED BY <2>2
  <2> QED BY <1>3, <2>1, <2>3
<1> QED BY <1>2, <1>3

LEMMA StoryBegins == ASSUME NEW s PROVE Story(EmptyParse, s, 0)
<1>1. Total(EmptyParse.tokens, MaxRollout) = 0
  BY EmptyParseFact, TotalZero, CodexRolloutAssumption DEF CodexRolloutAssumption
<1>2. {k \in 1..0 : s[k].t = "token_count"} = {} OBVIOUS
<1>3. Cardinality({}) = 0 BY FS_EmptySet
<1>4. 0 + 0 <= 0 /\ 0 <= 0 OBVIOUS
<1>5. \A i \in Calls : ItemStory(EmptyParse.items[i], 0, s, 0, i) BY NoStory, EmptyParseFact
<1> QED BY <1>1, <1>2, <1>3, <1>4, <1>5, EmptyParseFact DEF Story

LEMMA StoryStep ==
  ASSUME NEW s \in Seq(RolloutRecords), Len(s) <= MaxRollout, NEW n \in 1..Len(s), NEW p, Story(p, s, n - 1)
  PROVE  Story(ApplyRecord(p, s[n]), s, n)
<1>0. MaxRollout \in Nat BY CodexRolloutAssumption DEF CodexRolloutAssumption
<1> PICK a \in Nat, l \in Nat : a = n - 1 /\ n = a + 1 /\ l = Len(s) OBVIOUS
<1>00. n \in Nat /\ a < MaxRollout BY <1>0
<1> PICK r, q : r = s[n] /\ q = ApplyRecord(p, r) OBVIOUS
<1>1. r \in RolloutRecords /\ RecordShape(r) BY ShapeFact
<1>2. /\ p \in Parses /\ p.lines = a /\ p.bad + p.skipped <= a /\ p.turn <= a
      /\ Total(p.tokens, MaxRollout) = Cardinality({k \in 1..a : s[k].t = "token_count"})
      /\ \A i \in Calls : ItemStory(p.items[i], p.turn, s, a, i)
  BY DEF Story
<1>3. /\ q \in Parses
      /\ q.lines = p.lines + 1 /\ q.bad + q.skipped <= p.bad + p.skipped + 1
      /\ q.turn = IF r.t = "user_message" THEN p.turn + 1 ELSE p.turn
      /\ q.tokens = IF r.t = "token_count" THEN [p.tokens EXCEPT ![p.turn] = @ + 1] ELSE p.tokens
      /\ \A i \in Calls : q.items[i] = ItemAfter(p.items[i], p.turn, r, i)
  BY <1>1, <1>2, RecordStep
<1>4. PICK t \in Nat, u \in Nat : t = p.turn /\ u = q.turn BY <1>2, <1>3 DEF Parses
<1>5. t <= u /\ u <= n /\ t \in 0..MaxRollout BY <1>0, <1>00, <1>2, <1>3, <1>4
<1>6. q.lines = n BY <1>2, <1>3
<1>7. q.bad + q.skipped <= n
  <2>1. PICK c \in Nat, d \in Nat : c = p.bad + p.skipped /\ d = q.bad + q.skipped
    BY <1>2, <1>3 DEF Parses
  <2> QED BY <1>2, <1>3, <2>1
<1>8. ASSUME NEW i \in Calls PROVE ItemStory(q.items[i], q.turn, s, n, i)
  <2>1. PICK it, w \in CallItem : it = p.items[i] /\ w = q.items[i] BY <1>2, <1>3 DEF Parses
  <2>2. ItemStory(it, t, s, a, i) BY <1>2, <1>4, <2>1
  <2>3. w = ItemAfter(it, t, s[n], i) BY <1>3, <1>4, <2>1
  <2>4. ItemStory(w, u, s, n, i) BY <1>00, <1>1, <1>5, <2>2, <2>3, StoryGoesOn
  <2> QED BY <1>4, <2>1, <2>4
<1>9. Total(q.tokens, MaxRollout) = Cardinality({k \in 1..n : s[k].t = "token_count"})
  <2>0. p.tokens \in [0 .. MaxRollout -> Nat] BY <1>2 DEF Parses, Counts
  <2>1. Cardinality({k \in 1..(a + 1) : s[k].t = "token_count"})
        = Cardinality({k \in 1..a : s[k].t = "token_count"}) + (IF s[a + 1].t = "token_count" THEN 1 ELSE 0)
    BY CountTokens
  <2>2. CASE r.t = "token_count"
    <3>1. Total(q.tokens, MaxRollout) = Total(p.tokens, MaxRollout) + 1
      <4>1. PICK g \in [0 .. MaxRollout -> Nat] : g = p.tokens BY <2>0
      <4>2. q.tokens = [g EXCEPT ![t] = @ + 1] BY <1>3, <1>4, <2>2, <4>1
      <4>3. Total([g EXCEPT ![t] = @ + 1], MaxRollout) = Total(g, MaxRollout) + 1 BY <1>0, <1>5, TotalUp
      <4> QED BY <4>1, <4>2, <4>3
    <3> QED BY <1>2, <2>1, <2>2, <3>1
  <2>3. CASE r.t # "token_count"
    <3>1. Total(q.tokens, MaxRollout) = Total(p.tokens, MaxRollout) BY <1>3, <2>3
    <3>2. PICK N : N = Total(p.tokens, MaxRollout) OBVIOUS
    <3>3. N \in Nat
      <4>1. PICK F : Sums(F, p.tokens, MaxRollout) BY <1>0, <2>0, TotalRun
      <4>2. MaxRollout \in 0..MaxRollout BY <1>0
      <4> QED BY <3>2, <4>1, <4>2 DEF Sums
    <3>4. N + 0 = N BY <3>3
    <3> QED BY <1>2, <2>1, <2>3, <3>1, <3>2, <3>4
  <2> QED BY <2>2, <2>3
<1>10. q.turn <= n BY <1>4, <1>5
<1> QED BY <1>3, <1>6, <1>7, <1>8, <1>9, <1>10 DEF Story

LEMMA StepsStory ==
  ASSUME NEW s \in Seq(RolloutRecords), Len(s) <= MaxRollout, NEW f, Steps(f, s), NEW n \in 0..Len(s)
  PROVE  Story(f[n], s, n)
<1> DEFINE S == {k \in 0..n : Story(f[k], s, k)}
<1>1. 0 \in S BY StoryBegins DEF Steps
<1>2. ASSUME NEW k \in 1..n, k - 1 \in S PROVE k \in S
  <2>1. k \in 1..Len(s) /\ k \in 0..n OBVIOUS
  <2>2. Story(f[k - 1], s, k - 1) /\ f[k] = ApplyRecord(f[k - 1], s[k]) BY <1>2, <2>1 DEF Steps
  <2>3. Story(f[k], s, k) BY <2>1, <2>2, StoryStep
  <2> QED BY <2>1, <2>3
<1>3. n \in S
  <2> n \in Nat OBVIOUS
  <2> HIDE DEF S
  <2> QED BY <1>1, <1>2, UpTo
<1> QED BY <1>3

(* A parse tells of all the records it has read.                             *)
LEMMA ParseStory ==
  ASSUME NEW s \in Seq(RolloutRecords), Len(s) <= MaxRollout
  PROVE  Story(Parsed(s), s, Len(s))
<1>1. PICK f : Steps(f, s) BY StepsExist
<1>2. Len(s) \in 0..Len(s) OBVIOUS
<1>3. Story(f[Len(s)], s, Len(s)) BY <1>1, <1>2, StepsStory
<1> QED BY <1>1, <1>3 DEF Steps

-----------------------------------------------------------------------------
(* The order of a call and of the event that ends it: the same but for how   *)
(* often the item was revised.                                               *)
Resembles(a, b) ==
  /\ a.status = b.status /\ a.turn = b.turn /\ a.kind = b.kind /\ a.title = b.title
  /\ a.body = b.body /\ a.cwd = b.cwd
Alike(p, q) ==
  /\ p \in Parses /\ q \in Parses /\ p.turn = q.turn
  /\ \A i \in Calls : Resembles(p.items[i], q.items[i])

LEMMA OpenAlike ==
  ASSUME NEW a, NEW b, Resembles(a, b), NEW turn, NEW sort, NEW title
  PROVE  Resembles(OpenedItem(a, turn, sort, title), OpenedItem(b, turn, sort, title))
BY DEF Resembles, OpenedItem

LEMMA DoneAlike ==
  ASSUME NEW a, NEW b, Resembles(a, b), NEW turn, NEW body, NEW status
  PROVE  Resembles(DoneItem(a, turn, body, status), DoneItem(b, turn, body, status))
BY DEF Resembles, DoneItem

LEMMA EndAlike ==
  ASSUME NEW a, NEW b, Resembles(a, b), NEW turn, NEW r
  PROVE  Resembles(EndedItem(a, turn, r), EndedItem(b, turn, r))
<1>1. PICK c, d : c = DoneItem(a, turn, r.body, Outcome(r)) /\ d = DoneItem(b, turn, r.body, Outcome(r))
  OBVIOUS
<1>2. Resembles(c, d) BY <1>1, DoneAlike
<1> QED BY <1>1, <1>2 DEF Resembles, EndedItem

LEMMA AfterAlike ==
  ASSUME NEW a, NEW b, Resembles(a, b), NEW turn, NEW r, RecordShape(r), NEW i \in Calls
  PROVE  Resembles(ItemAfter(a, turn, r, i), ItemAfter(b, turn, r, i))
<1>1. CASE r.t = "turn_aborted"
  <2>1. Resembles(AbortedItem(a), AbortedItem(b)) BY DEF Resembles, AbortedItem
  <2> QED BY <1>1, <2>1 DEF ItemAfter
<1>2. CASE r.t \in CallTypes
  <2>1. Resembles(ToldItem(a, turn, r), ToldItem(b, turn, r))
    <3>1. CASE r.t = "function_call"
      <4>1. PICK k : k = IF r.what = "tool" THEN "other" ELSE r.what OBVIOUS
      <4>2. ToldItem(a, turn, r) = OpenedItem(a, turn, k, r.what) BY <3>1, <4>1 DEF ToldItem, EndLines
      <4>3. ToldItem(b, turn, r) = OpenedItem(b, turn, k, r.what) BY <3>1, <4>1 DEF ToldItem, EndLines
      <4> QED BY <4>2, <4>3, OpenAlike
    <3>2. CASE r.t = "custom_tool_call"
      <4>1. PICK h : h = IF r.what = "edit" THEN "patch" ELSE r.what OBVIOUS
      <4>2. ToldItem(a, turn, r) = OpenedItem(a, turn, r.what, h) BY <3>2, <4>1 DEF ToldItem, EndLines
      <4>3. ToldItem(b, turn, r) = OpenedItem(b, turn, r.what, h) BY <3>2, <4>1 DEF ToldItem, EndLines
      <4> QED BY <4>2, <4>3, OpenAlike
    <3>3. CASE r.t = "output"
      <4>1. PICK c : c = "completed" OBVIOUS
      <4>2. ToldItem(a, turn, r) = DoneItem(a, turn, r.body, c) BY <3>3, <4>1 DEF ToldItem, EndLines
      <4>3. ToldItem(b, turn, r) = DoneItem(b, turn, r.body, c) BY <3>3, <4>1 DEF ToldItem, EndLines
      <4> QED BY <4>2, <4>3, DoneAlike
    <3>4. CASE r.t \in EndLines
      <4>1. ToldItem(a, turn, r) = EndedItem(a, turn, r) BY <3>4 DEF ToldItem, EndLines
      <4>2. ToldItem(b, turn, r) = EndedItem(b, turn, r) BY <3>4 DEF ToldItem, EndLines
      <4> QED BY <4>1, <4>2, EndAlike
    <3>5. CASE r.t = "web_search_end"
      <4>1. PICK k, h, e, c : k = "fetch" /\ h = "query" /\ e = "" /\ c = "completed" OBVIOUS
      <4>2. PICK x, y : x = OpenedItem(a, turn, k, h) /\ y = OpenedItem(b, turn, k, h) OBVIOUS
      <4>3. ToldItem(a, turn, r) = DoneItem(x, turn, e, c) BY <3>5, <4>1, <4>2 DEF ToldItem, EndLines
      <4>4. ToldItem(b, turn, r) = DoneItem(y, turn, e, c) BY <3>5, <4>1, <4>2 DEF ToldItem, EndLines
      <4>5. Resembles(x, y) BY <4>2, OpenAlike
      <4> QED BY <4>3, <4>4, <4>5, DoneAlike
    <3>6. CASE r.t = "mcp_tool_call_end"
      <4>1. PICK k, h : k = "other" /\ h = "server.tool" OBVIOUS
      <4>2. PICK x, y : x = OpenedItem(a, turn, k, h) /\ y = OpenedItem(b, turn, k, h) OBVIOUS
      <4>3. ToldItem(a, turn, r) = DoneItem(x, turn, r.body, Outcome(r)) BY <3>6, <4>1, <4>2 DEF ToldItem, EndLines
      <4>4. ToldItem(b, turn, r) = DoneItem(y, turn, r.body, Outcome(r)) BY <3>6, <4>1, <4>2 DEF ToldItem, EndLines
      <4>5. Resembles(x, y) BY <4>2, OpenAlike
      <4> QED BY <4>3, <4>4, <4>5, DoneAlike
    <3> QED BY <1>2, <3>1, <3>2, <3>3, <3>4, <3>5, <3>6 DEF CallTypes, EndLines
  <2>2. r.t # "turn_aborted" BY <1>2 DEF CallTypes
  <2> QED BY <2>1, <2>2 DEF ItemAfter
<1>3. CASE r.t # "turn_aborted" /\ r.t \notin CallTypes
  <2>1. r.id # i BY <1>3, CodexRolloutAssumption DEF RecordShape, CodexRolloutAssumption
  <2> QED BY <1>3, <2>1 DEF ItemAfter
<1> QED BY <1>1, <1>2, <1>3

LEMMA SwapItem ==
  ASSUME NEW a, NEW b, RecordShape(a), RecordShape(b), a.t \in CallLines, b.t \in EndLines, NEW turn
  PROVE  Resembles(ToldItem(ToldItem(NoCall, turn, a), turn, b), ToldItem(ToldItem(NoCall, turn, b), turn, a))
<1>1. PICK k, h : \A it : ToldItem(it, turn, a) = OpenedItem(it, turn, k, h)
  <2>1. CASE a.t = "function_call" BY <2>1 DEF ToldItem, EndLines
  <2>2. CASE a.t = "custom_tool_call" BY <2>2 DEF ToldItem, EndLines
  <2> QED BY <2>1, <2>2 DEF CallLines
<1>2. \A it : ToldItem(it, turn, b) = EndedItem(it, turn, b) BY DEF ToldItem, EndLines
<1>3. Outcome(b) # "none" BY DEF Outcome
<1>4. PICK x : x = OpenedItem(NoCall, turn, k, h) OBVIOUS
<1>5. x = ItemOf("inProgress", turn, 0, k, h, "", "")
  BY <1>4 DEF OpenedItem, NoCall, ItemOf, Filled
<1>6. PICK y : y = EndedItem(NoCall, turn, b) OBVIOUS
<1>7. PICK c, d : c = DoneItem(x, turn, b.body, Outcome(b)) /\ d = DoneItem(NoCall, turn, b.body, Outcome(b))
  OBVIOUS
<1>70. Filled("", b.body) = b.body /\ 0 + 1 = 1 BY DEF Filled
<1>71. PICK o, f : o = Outcome(b) /\ f = b.body OBVIOUS
<1>8. c = ItemOf(o, turn, 1, k, h, f, "")
  <2>1. /\ x.status = "inProgress" /\ x.turn = turn /\ x.rev = 0 /\ x.kind = k /\ x.title = h
        /\ x.body = "" /\ x.cwd = ""
    BY <1>5 DEF ItemOf
  <2>2. c = [status |-> o, turn |-> turn, rev |-> 0 + 1, kind |-> k, title |-> h, body |-> Filled("", f), cwd |-> ""]
    BY <1>7, <1>71, <2>1 DEF DoneItem
  <2> QED BY <1>70, <1>71, <2>2 DEF ItemOf
<1>9. d = ItemOf(o, turn, 1, "other", "", f, "")
  <2>1. /\ NoCall.status = "none" /\ NoCall.rev = 0 /\ NoCall.kind = "other" /\ NoCall.title = ""
        /\ NoCall.body = "" /\ NoCall.cwd = ""
    BY DEF NoCall
  <2>2. d = [status |-> o, turn |-> turn, rev |-> 0 + 1, kind |-> "other", title |-> "", body |-> Filled("", f), cwd |-> ""]
    BY <1>7, <1>71, <2>1 DEF DoneItem
  <2> QED BY <1>70, <1>71, <2>2 DEF ItemOf
<1>90. /\ c.status = o /\ c.turn = turn /\ c.rev = 1 /\ c.kind = k /\ c.title = h /\ c.body = f /\ c.cwd = ""
       /\ d.status = o /\ d.turn = turn /\ d.rev = 1 /\ d.kind = "other" /\ d.title = "" /\ d.body = f /\ d.cwd = ""
  BY <1>8, <1>9 DEF ItemOf
<1>10. PICK u, v : u = EndedItem(x, turn, b) /\ v = OpenedItem(y, turn, k, h) OBVIOUS
<1>11. CASE b.t = "patch_apply_end"
  <2>1. PICK g : g = IF b.what = "paths" THEN "paths" ELSE h OBVIOUS
  <2>2. u = ItemOf(o, turn, 1, "edit", g, f, "")
    BY <1>7, <1>90, <1>10, <1>11, <2>1 DEF EndedItem, ItemOf
  <2>3. PICK e : e = IF b.what = "paths" THEN "paths" ELSE "" OBVIOUS
  <2>4. y = ItemOf(o, turn, 1, "edit", e, f, "")
    BY <1>6, <1>7, <1>90, <1>11, <2>3 DEF EndedItem, ItemOf
  <2>5. Filled(e, h) = g BY <2>1, <2>3 DEF Filled
  <2>6. v = ItemOf(o, turn, 1 + 1, "edit", g, f, "")
    BY <1>3, <1>71, <1>10, <2>4, <2>5 DEF OpenedItem, ItemOf
  <2>7. Resembles(u, v) BY <2>2, <2>6 DEF Resembles, ItemOf
  <2> QED BY <1>1, <1>2, <1>4, <1>6, <1>10, <2>7
<1>12. CASE b.t = "exec_command_end"
  <2>1. b.what # "other" BY DEF RecordShape
  <2>2. PICK z : z = "cwd" /\ z = Filled("", "cwd") BY DEF Filled
  <2>3. u = ItemOf(o, turn, 1, Filled(b.what, k), h, f, z)
    BY <1>7, <1>90, <1>10, <1>12, <2>2 DEF EndedItem, ItemOf
  <2>4. y = ItemOf(o, turn, 1, Filled(b.what, "other"), "", f, z)
    BY <1>6, <1>7, <1>90, <1>12, <2>2 DEF EndedItem, ItemOf
  <2>5. (IF Filled(b.what, "other") = "other" THEN k ELSE Filled(b.what, "other")) = Filled(b.what, k)
    BY <2>1 DEF Filled
  <2>6. Filled("", h) = h BY DEF Filled
  <2>7. v = ItemOf(o, turn, 1 + 1, Filled(b.what, k), h, f, z)
    BY <1>3, <1>71, <1>10, <2>4, <2>5, <2>6 DEF OpenedItem, ItemOf
  <2>8. Resembles(u, v) BY <2>3, <2>7 DEF Resembles, ItemOf
  <2> QED BY <1>1, <1>2, <1>4, <1>6, <1>10, <2>8
<1> QED BY <1>11, <1>12 DEF EndLines

LEMMA AlikeStep ==
  ASSUME NEW p, NEW q, Alike(p, q), NEW r \in RolloutRecords
  PROVE  Alike(ApplyRecord(p, r), ApplyRecord(q, r))
<1>1. PICK u, w : u = ApplyRecord(p, r) /\ w = ApplyRecord(q, r) OBVIOUS
<1>2. p \in Parses /\ q \in Parses /\ p.turn = q.turn BY DEF Alike
<1>3. /\ u \in Parses /\ u.turn = IF r.t = "user_message" THEN p.turn + 1 ELSE p.turn
      /\ \A i \in Calls : u.items[i] = ItemAfter(p.items[i], p.turn, r, i)
  BY <1>1, <1>2, RecordStep
<1>4. /\ w \in Parses /\ w.turn = IF r.t = "user_message" THEN q.turn + 1 ELSE q.turn
      /\ \A i \in Calls : w.items[i] = ItemAfter(q.items[i], q.turn, r, i)
  BY <1>1, <1>2, RecordStep
<1>5. ASSUME NEW i \in Calls PROVE Resembles(u.items[i], w.items[i])
  <2>1. Resembles(p.items[i], q.items[i]) BY DEF Alike
  <2>2. RecordShape(r) BY ShapeFact
  <2>3. Resembles(ItemAfter(p.items[i], p.turn, r, i), ItemAfter(q.items[i], p.turn, r, i))
    BY <2>1, <2>2, AfterAlike
  <2> QED BY <1>2, <1>3, <1>4, <2>3
<1> QED BY <1>1, <1>2, <1>3, <1>4, <1>5 DEF Alike

(* A record that neither opens a turn nor aborts one leaves its item's trace. *)
TakesIn(p, r, q) ==
  q \in Parses /\ q.turn = p.turn /\ \A i \in Calls : q.items[i] = ItemAfter(p.items[i], p.turn, r, i)

LEMMA RecordTaken ==
  ASSUME NEW p \in Parses, NEW r \in RolloutRecords, r.t # "user_message"
  PROVE  TakesIn(p, r, ApplyRecord(p, r))
<1>1. PICK q : q = ApplyRecord(p, r) OBVIOUS
<1>2. /\ q \in Parses /\ q.turn = IF r.t = "user_message" THEN p.turn + 1 ELSE p.turn
      /\ \A i \in Calls : q.items[i] = ItemAfter(p.items[i], p.turn, r, i)
  BY ONLY p \in Parses, r \in RolloutRecords, <1>1, RecordStep, ZenonT(40)
<1> QED BY <1>1, <1>2 DEF TakesIn

LEMMA SwapFact ==
  ASSUME NEW p \in Parses, NEW a \in RolloutRecords, NEW b \in RolloutRecords,
         a.id = b.id, a.t \in CallLines, b.t \in EndLines, \A i \in Calls : i = a.id => p.items[i] = NoCall
  PROVE  Alike(ApplyRecord(ApplyRecord(p, a), b), ApplyRecord(ApplyRecord(p, b), a))
<1>1. PICK x, y : x = ApplyRecord(p, a) /\ y = ApplyRecord(p, b) OBVIOUS
<1>2. PICK u, w : u = ApplyRecord(x, b) /\ w = ApplyRecord(y, a) OBVIOUS
<1>3. /\ RecordShape(a) /\ RecordShape(b) BY ShapeFact
<1>4. /\ a.t \notin {"user_message", "turn_aborted"} /\ b.t \notin {"user_message", "turn_aborted"}
  BY DEF CallLines, EndLines
<1>5. /\ x \in Parses /\ x.turn = p.turn
      /\ \A i \in Calls : x.items[i] = ItemAfter(p.items[i], p.turn, a, i)
  <2>1. TakesIn(p, a, x) BY <1>1, <1>4, RecordTaken
  <2> QED BY ONLY <2>1 DEF TakesIn
<1>6. /\ y \in Parses /\ y.turn = p.turn
      /\ \A i \in Calls : y.items[i] = ItemAfter(p.items[i], p.turn, b, i)
  <2>1. TakesIn(p, b, y) BY <1>1, <1>4, RecordTaken
  <2> QED BY ONLY <2>1 DEF TakesIn
<1>7. /\ u \in Parses /\ u.turn = p.turn
      /\ \A i \in Calls : u.items[i] = ItemAfter(x.items[i], p.turn, b, i)
  <2>1. TakesIn(x, b, u) BY <1>2, <1>4, <1>5, RecordTaken
  <2> QED BY ONLY <1>5, <2>1 DEF TakesIn
<1>8. /\ w \in Parses /\ w.turn = p.turn
      /\ \A i \in Calls : w.items[i] = ItemAfter(y.items[i], p.turn, a, i)
  <2>1. TakesIn(y, a, w) BY <1>2, <1>4, <1>6, RecordTaken
  <2> QED BY ONLY <1>6, <2>1 DEF TakesIn
<1>9. ASSUME NEW i \in Calls PROVE Resembles(u.items[i], w.items[i])
  <2>1. CASE i = a.id
    <3>1. p.items[i] = NoCall BY <2>1
    <3>2. x.items[i] = ToldItem(NoCall, p.turn, a) BY <1>4, <1>5, <2>1, <3>1 DEF ItemAfter
    <3>3. y.items[i] = ToldItem(NoCall, p.turn, b) BY <1>4, <1>6, <2>1, <3>1 DEF ItemAfter
    <3>4. u.items[i] = ToldItem(x.items[i], p.turn, b) BY <1>4, <1>7, <2>1 DEF ItemAfter
    <3>5. w.items[i] = ToldItem(y.items[i], p.turn, a) BY <1>4, <1>8, <2>1 DEF ItemAfter
    <3> QED BY <1>3, <3>2, <3>3, <3>4, <3>5, SwapItem
  <2>2. CASE i # a.id
    <3>1. u.items[i] = p.items[i] BY <1>4, <1>5, <1>7, <2>2 DEF ItemAfter
    <3>2. w.items[i] = p.items[i] BY <1>4, <1>6, <1>8, <2>2 DEF ItemAfter
    <3> QED BY <3>1, <3>2 DEF Resembles
  <2> QED BY <2>1, <2>2
<1> QED BY <1>1, <1>2, <1>7, <1>8, <1>9 DEF Alike

LEMMA OrderFact ==
  ASSUME NEW s \in Seq(RolloutRecords), Len(s) <= MaxRollout, NEW k \in 1 .. Len(s) - 1,
         s[k].id = s[k + 1].id, s[k].t \in CallLines, s[k + 1].t \in EndLines,
         \A j \in 1 .. k - 1 : s[j].id # s[k].id
  PROVE  Alike(Parsed(s), Parsed([s EXCEPT ![k] = s[k + 1], ![k + 1] = s[k]]))
<1>0. PICK h \in Nat, l \in Nat, n \in Nat : h = k - 1 /\ l = k + 1 /\ n = Len(s)
  <2>1. PICK n \in Nat : n = Len(s) OBVIOUS
  <2>2. k \in 1 .. n - 1 BY <2>1
  <2>3. k - 1 \in Nat /\ k + 1 \in Nat BY <2>2
  <2> QED BY <2>1, <2>3
<1>00. /\ k \in 1..n /\ l \in 1..n /\ k = l - 1 /\ h \in 0..n /\ k \in 0..n /\ l \in 0..n
       /\ k # l /\ k \in Nat /\ l <= n
  <2>1. k \in 1 .. n - 1 BY <1>0
  <2> QED BY <1>0, <2>1
<1> PICK a, b : a = s[k] /\ b = s[l] OBVIOUS
<1>1. a \in RolloutRecords /\ b \in RolloutRecords BY <1>0, <1>00
<1> PICK u : u = [s EXCEPT ![k] = b, ![l] = a] OBVIOUS
<1>2. /\ u \in Seq(RolloutRecords) /\ Len(u) = n /\ u[k] = b /\ u[l] = a
      /\ \A j \in 1..n : j # k /\ j # l => u[j] = s[j]
  <2>1. PICK v : v = [s EXCEPT ![k] = b] OBVIOUS
  <2>2. v \in Seq(RolloutRecords) /\ Len(v) = n /\ v[k] = b /\ \A j \in 1..n : j # k => v[j] = s[j]
    BY <1>0, <1>00, <1>1, <2>1
  <2>3. PICK m \in Seq(RolloutRecords) : m = v /\ Len(m) = n BY <2>2
  <2>4. PICK w : w = [m EXCEPT ![l] = a] OBVIOUS
  <2>5. w \in Seq(RolloutRecords) /\ Len(w) = n /\ w[l] = a /\ \A j \in 1..n : j # l => w[j] = m[j]
    BY <1>00, <1>1, <2>3, <2>4
  <2>6. u = w BY <2>1, <2>3, <2>4
  <2> QED BY <1>00, <2>2, <2>3, <2>5, <2>6
<1>3. PICK f : Steps(f, s) BY StepsExist
<1>4. PICK g : Steps(g, u) BY <1>2, StepsExist
<1>5. /\ f[0] = EmptyParse /\ g[0] = EmptyParse /\ Parsed(s) = f[n] /\ Parsed(u) = g[n]
      /\ \A j \in 1..n : f[j] = ApplyRecord(f[j - 1], s[j]) /\ g[j] = ApplyRecord(g[j - 1], u[j])
      /\ \A j \in 0..n : f[j] \in Parses /\ g[j] \in Parses
  BY <1>0, <1>2, <1>3, <1>4 DEF Steps
<1>6. f[h] = g[h]
  <2> DEFINE S == {j \in 0..h : f[j] = g[j]}
  <2>1. 0 \in S BY <1>5
  <2>2. ASSUME NEW j \in 1..h, j - 1 \in S PROVE j \in S
    <3>1. j \in 1..n /\ j # k /\ j # l /\ j \in 0..h BY <1>0, <1>00
    <3>2. f[j - 1] = g[j - 1] BY <2>2
    <3>3. u[j] = s[j] BY <1>2, <3>1
    <3>4. f[j] = g[j] BY <1>5, <3>1, <3>2, <3>3
    <3> QED BY <3>1, <3>4
  <2>3. h \in S
    <3> HIDE DEF S
    <3> QED BY <2>1, <2>2, UpTo
  <2> QED BY <2>3
<1>7. Alike(f[l], g[l])
  <2>1. f[k] = ApplyRecord(f[h], a) /\ g[k] = ApplyRecord(f[h], b) BY <1>0, <1>00, <1>2, <1>5, <1>6
  <2>2. f[l] = ApplyRecord(f[k], b) /\ g[l] = ApplyRecord(g[k], a) BY <1>00, <1>2, <1>5
  <2>3. f[h] \in Parses BY <1>00, <1>5
  <2>4. Story(f[h], s, h) BY <1>0, <1>00, <1>3, StepsStory
  <2>5. ASSUME NEW i \in Calls, i = a.id PROVE f[h].items[i] = NoCall
    <3>1. PICK it : it = f[h].items[i] OBVIOUS
    <3>2. ItemStory(it, f[h].turn, s, h, i) BY <2>4, <3>1 DEF Story
    <3>3. \A j \in 1..h : s[j].id # i BY <1>0, <2>5
    <3>4. it.status = "none" BY <3>2, <3>3 DEF ItemStory
    <3> QED BY <3>1, <3>2, <3>4 DEF ItemStory
  <2>6. a.id = b.id /\ a.t \in CallLines /\ b.t \in EndLines BY <1>0
  <2>7. Alike(ApplyRecord(ApplyRecord(f[h], a), b), ApplyRecord(ApplyRecord(f[h], b), a))
    BY <1>1, <2>3, <2>5, <2>6, SwapFact
  <2> QED BY <2>1, <2>2, <2>7
<1>8. PICK m \in Nat : m = n - l /\ l + m = n BY <1>0, <1>00
<1> DEFINE S == {j \in 0..m : Alike(f[l + j], g[l + j])}
<1>9. 0 \in S BY <1>7
<1>10. ASSUME NEW j \in 1..m, j - 1 \in S PROVE j \in S
  <2>0. j \in Nat /\ j >= 1 /\ j <= m OBVIOUS
  <2>1. PICK c \in Nat, d \in Nat : c = l + j /\ d = l + (j - 1) BY <1>0, <2>0
  <2>2. d = c - 1 /\ c \in 1..n /\ c # k /\ c # l /\ j \in 0..m
    <3>0. l + m = n /\ k = l - 1 /\ k >= 1 BY <1>00, <1>8
    <3> HIDE DEF S
    <3>1. d = c - 1 BY <1>0, <2>0, <2>1
    <3>2. c <= n BY <1>0, <1>8, <2>0, <2>1, <3>0, SMTT(30)
    <3>3. c > l BY <1>0, <2>0, <2>1
    <3>4. l > k /\ k >= 1 BY <1>0, <3>0
    <3>5. k \in Nat /\ c # l /\ c # k /\ c >= 1 BY <1>00, <3>3, <3>4
    <3>6. c \in 1..n BY <1>0, <3>2, <3>5
    <3>7. j \in 0..m BY <2>0
    <3> QED BY <3>1, <3>5, <3>6, <3>7
  <2>3. Alike(f[d], g[d]) BY <1>10, <2>1
  <2>4. s[c] \in RolloutRecords /\ u[c] = s[c] BY <1>0, <1>2, <2>2
  <2>5. f[c] = ApplyRecord(f[d], s[c]) /\ g[c] = ApplyRecord(g[d], s[c]) BY <1>5, <2>2, <2>4
  <2>6. Alike(f[c], g[c]) BY <2>3, <2>4, <2>5, AlikeStep
  <2> QED BY <2>1, <2>2, <2>6
<1>11. m \in S
  <2> HIDE DEF S
  <2> QED BY <1>9, <1>10, UpTo
<1>12. Alike(f[n], g[n])
  <2> QED BY <1>8, <1>11
<1> QED BY <1>0, <1>5, <1>12

(* What a parse shows is the same in either order.                           *)
LEMMA AlikeShown ==
  ASSUME NEW p, NEW q, Alike(p, q)
  PROVE  [i \in Calls |-> [p.items[i] EXCEPT !.rev = 0]] = [i \in Calls |-> [q.items[i] EXCEPT !.rev = 0]]
<1>1. ASSUME NEW i \in Calls PROVE [p.items[i] EXCEPT !.rev = 0] = [q.items[i] EXCEPT !.rev = 0]
  <2>1. PICK a \in CallItem, b \in CallItem : a = p.items[i] /\ b = q.items[i] BY DEF Alike, Parses
  <2>2. Resembles(a, b) BY <2>1 DEF Alike
  <2>3. [a EXCEPT !.rev = 0] = ItemOf(a.status, a.turn, 0, a.kind, a.title, a.body, a.cwd) BY DEF CallItem, ItemOf
  <2>4. [b EXCEPT !.rev = 0] = ItemOf(b.status, b.turn, 0, b.kind, b.title, b.body, b.cwd) BY DEF CallItem, ItemOf
  <2> QED BY <2>1, <2>2, <2>3, <2>4 DEF Resembles
<1> QED BY <1>1

-----------------------------------------------------------------------------
(* The file and what was read of it.                                         *)
RolloutInv ==
  /\ rollout \in Seq(RolloutRecords) /\ Len(rollout) <= MaxRollout
  /\ torn \in BOOLEAN /\ (torn => rollout # <<>>)
  /\ \E q \in Seq(RolloutRecords) : Len(q) <= Len(rollout) /\ parse = Parsed(q)

LEMMA MaxIsNat == MaxRollout \in Nat
BY CodexRolloutAssumption DEF CodexRolloutAssumption

LEMMA RolloutInvInit == RolloutInit => RolloutInv
<1> SUFFICES ASSUME RolloutInit PROVE RolloutInv
  OBVIOUS
<1>0. <<>> \in Seq(RolloutRecords) /\ Len(<<>>) = 0 OBVIOUS
<1>1. PICK z \in Seq(RolloutRecords) : z = <<>> /\ Len(z) = 0 BY <1>0
<1>2. PICK f : Steps(f, z) BY StepsExist
<1>3. Parsed(z) = EmptyParse BY <1>1, <1>2 DEF Steps
<1>4. rollout = z /\ Len(z) <= MaxRollout /\ Len(z) <= Len(z)
  BY <1>1, MaxIsNat DEF RolloutInit
<1> QED BY <1>3, <1>4 DEF RolloutInit, RolloutInv

LEMMA RolloutInvStep == RolloutInv /\ [RolloutNext]_rolloutVars => RolloutInv'
<1> SUFFICES ASSUME RolloutInv, [RolloutNext]_rolloutVars PROVE RolloutInv'
  OBVIOUS
<1>1. PICK q \in Seq(RolloutRecords) : Len(q) <= Len(rollout) /\ parse = Parsed(q) BY DEF RolloutInv
<1>2. PICK s \in Seq(RolloutRecords), n \in Nat : s = rollout /\ n = Len(s) /\ n <= MaxRollout BY DEF RolloutInv
<1>3. CASE AppendRecord
  <2>1. PICK r \in RolloutRecords : rollout' = Append(s, r) BY <1>2, <1>3 DEF AppendRecord
  <2>2. n < MaxRollout /\ parse' = parse /\ torn' \in BOOLEAN BY <1>2, <1>3 DEF AppendRecord
  <2>3. /\ Append(s, r) \in Seq(RolloutRecords) /\ Len(Append(s, r)) = n + 1 BY <1>2
  <2>4. n + 1 <= MaxRollout BY <1>2, <2>2, MaxIsNat
  <2>5. Append(s, r) # <<>> BY <1>2
  <2>6. Len(q) <= n + 1
    <3>1. PICK l \in Nat : l = Len(q) OBVIOUS
    <3> QED BY <1>1, <1>2, <3>1
  <2> QED BY <1>1, <2>1, <2>2, <2>3, <2>4, <2>5, <2>6 DEF RolloutInv
<1>4. CASE CompleteRecord BY <1>4 DEF CompleteRecord, RolloutInv
<1>5. CASE ParseRollout
  <2>1. PICK u : u = Readable OBVIOUS
  <2>2. u \in Seq(RolloutRecords) /\ Len(u) = n
    <3>1. CASE torn
      <4>1. Plain("bad") \in RolloutRecords BY DEF RolloutRecords, PlainRecords
      <4>2. u = [s EXCEPT ![n] = Plain("bad")] BY <1>2, <2>1, <3>1 DEF Readable
      <4>3. s # <<>> BY <1>2, <3>1 DEF RolloutInv
      <4>4. n \in 1..Len(s) BY <1>2, <4>3
      <4> QED BY <1>2, <4>1, <4>2, <4>4
    <3>2. CASE ~torn BY <1>2, <2>1, <3>2 DEF Readable
    <3> QED BY <3>1, <3>2
  <2>3. parse' = Parsed(u) /\ rollout' = rollout /\ torn' = torn BY <1>5, <2>1 DEF ParseRollout
  <2>4. Len(u) <= n BY <2>2
  <2> QED BY <1>2, <2>2, <2>3, <2>4 DEF RolloutInv
<1>6. CASE UNCHANGED rolloutVars BY <1>6 DEF rolloutVars, RolloutInv
<1> QED BY <1>3, <1>4, <1>5, <1>6 DEF RolloutNext

LEMMA RolloutInvHolds == RolloutSpec => []RolloutInv
BY RolloutInvInit, RolloutInvStep, PTL DEF RolloutSpec

LEMMA RolloutTypes == RolloutInv => RolloutTypeOK
<1> SUFFICES ASSUME RolloutInv PROVE RolloutTypeOK
  OBVIOUS
<1>1. PICK q \in Seq(RolloutRecords) : Len(q) <= Len(rollout) /\ parse = Parsed(q) BY DEF RolloutInv
<1>2. PICK l \in Nat, n \in Nat : l = Len(q) /\ n = Len(rollout) /\ n <= MaxRollout /\ l <= n
  BY <1>1 DEF RolloutInv
<1>3. l <= MaxRollout BY <1>2, MaxIsNat
<1>4. Story(parse, q, l) BY <1>1, <1>2, <1>3, ParseStory
<1>5. parse \in Parses /\ parse.lines = l /\ parse.bad + parse.skipped <= l BY <1>4 DEF Story
<1>6. ASSUME NEW i \in Calls
      PROVE  /\ parse.items[i].status \in CallStatus /\ parse.items[i].turn <= parse.turn
             /\ parse.items[i].status = "none" => parse.items[i] = NoCall
  <2>1. PICK it : it = parse.items[i] OBVIOUS
  <2>2. ItemStory(it, parse.turn, q, l, i) BY <1>4, <2>1 DEF Story
  <2>3. it.status \in CallStatus BY <2>2 DEF ItemStory, CallItem
  <2>4. it.turn <= parse.turn BY <2>2 DEF ItemStory
  <2>5. it.status = "none" => it = NoCall BY <2>2 DEF ItemStory
  <2> QED BY <2>1, <2>3, <2>4, <2>5
<1>7. parse.lines <= Len(rollout) /\ parse.bad + parse.skipped <= parse.lines BY <1>2, <1>5
<1>8. rollout \in Seq(RolloutRecords) /\ Len(rollout) <= MaxRollout /\ (torn => rollout # <<>>) BY DEF RolloutInv
<1> QED BY <1>6, <1>7, <1>8 DEF RolloutTypeOK

LEMMA OrderHolds == RolloutInv => OrderIsInvisible
<1> SUFFICES ASSUME RolloutInv, NEW k \in 1 .. Len(rollout) - 1,
                    rollout[k].id = rollout[k + 1].id, rollout[k].t \in CallLines,
                    rollout[k + 1].t \in EndLines, \A j \in 1 .. k - 1 : ~About(rollout[k].id, j)
             PROVE  [i \in Calls |-> [Parsed(rollout).items[i] EXCEPT !.rev = 0]]
                      = [i \in Calls |-> [Parsed([rollout EXCEPT ![k] = rollout[k + 1], ![k + 1] = rollout[k]]).items[i]
                                            EXCEPT !.rev = 0]]
  BY DEF OrderIsInvisible
<1>1. PICK s \in Seq(RolloutRecords) : s = rollout /\ Len(s) <= MaxRollout BY DEF RolloutInv
<1>2. \A j \in 1 .. k - 1 : s[j].id # s[k].id BY <1>1 DEF About
<1>3. Alike(Parsed(s), Parsed([s EXCEPT ![k] = s[k + 1], ![k + 1] = s[k]])) BY <1>1, <1>2, OrderFact
<1>4. PICK p, q : p = Parsed(s) /\ q = Parsed([s EXCEPT ![k] = s[k + 1], ![k + 1] = s[k]]) OBVIOUS
<1>5. [i \in Calls |-> [p.items[i] EXCEPT !.rev = 0]] = [i \in Calls |-> [q.items[i] EXCEPT !.rev = 0]]
  <2>1. Alike(p, q) BY <1>3, <1>4
  <2> QED BY <2>1, AlikeShown
<1> QED BY <1>1, <1>4, <1>5

LEMMA WholeStory ==
  ASSUME RolloutInv, Whole
  PROVE  Story(parse, rollout, Len(rollout)) /\ DOMAIN rollout = 1 .. Len(rollout)
BY ParseStory DEF RolloutInv, Whole

LEMMA AbortHolds == RolloutInv => AbortIsFinal
<1> SUFFICES ASSUME RolloutInv, Whole, NEW i \in Calls
             PROVE  /\ parse.items[i].status = "inProgress"
                         => \A k \in DOMAIN rollout : rollout[k].t = "turn_aborted"
                              => \A j \in 1 .. k : ~About(i, j)
                    /\ parse.items[i].status = "canceled"
                         => \E k \in DOMAIN rollout :
                              /\ rollout[k].t = "turn_aborted"
                              /\ \E j \in 1 .. k : About(i, j)
                              /\ \A j \in DOMAIN rollout : About(i, j) => rollout[j].t \in CallLines
  BY DEF AbortIsFinal
<1>1. PICK s, n : s = rollout /\ n = Len(rollout) OBVIOUS
<1>2. DOMAIN rollout = 1..n /\ Story(parse, s, n) BY <1>1, WholeStory
<1>3. PICK it : it = parse.items[i] OBVIOUS
<1>4. ItemStory(it, parse.turn, s, n, i) BY <1>2, <1>3 DEF Story
<1>5. it.status = "inProgress" => \A k \in 1..n : s[k].t = "turn_aborted" => \A j \in 1..k : s[j].id # i
  BY <1>4 DEF ItemStory
<1>6. it.status = "canceled" => \A j \in 1..n : s[j].id = i => s[j].t \in CallLines BY <1>4 DEF ItemStory
<1>7. it.status = "canceled" => \E k \in 1..n : s[k].t = "turn_aborted" /\ \E j \in 1..k : s[j].id = i
  BY <1>4 DEF ItemStory
<1> QED BY <1>1, <1>2, <1>3, <1>5, <1>6, <1>7 DEF About

LEMMA BodyHolds == RolloutInv => FirstBodyStays
<1> SUFFICES ASSUME RolloutInv, Whole PROVE FirstBodyStays
  BY DEF FirstBodyStays
<1>1. PICK s \in Seq(RolloutRecords), n \in Nat : s = rollout /\ n = Len(rollout) BY DEF RolloutInv
<1>2. DOMAIN rollout = 1..n /\ Story(parse, s, n) BY <1>1, WholeStory
<1>3. ASSUME NEW i \in Calls, NEW with, with = {k \in DOMAIN rollout : About(i, k) /\ rollout[k].body # ""}
      PROVE  IF with = {} THEN parse.items[i].body = ""
             ELSE \E k \in with : (\A j \in with : k <= j) /\ parse.items[i].body = rollout[k].body
  <2>1. PICK it : it = parse.items[i] OBVIOUS
  <2>2. ItemStory(it, parse.turn, s, n, i) BY <1>2, <2>1 DEF Story
  <2>3. with = {k \in 1..n : s[k].id = i /\ s[k].body # ""} BY <1>1, <1>2, <1>3 DEF About
  <2>4. CASE it.body = ""
    <3>1. \A k \in 1..n : s[k].id = i => s[k].body = "" BY <2>2, <2>4 DEF ItemStory
    <3> QED BY <2>1, <2>3, <2>4, <3>1
  <2>5. CASE it.body # ""
    <3>1. PICK k \in 1..n : /\ s[k].id = i /\ s[k].body = it.body
                            /\ \A j \in 1..n : j < k /\ s[j].id = i => s[j].body = ""
      BY <2>2, <2>5 DEF ItemStory
    <3>2. k \in with BY <2>3, <2>5, <3>1
    <3>3. ASSUME NEW j \in with PROVE k <= j
      <4>1. j \in 1..n /\ s[j].id = i /\ s[j].body # "" BY <2>3
      <4>2. ~(j < k) BY <3>1, <4>1
      <4>3. PICK l \in 1..n : l = j BY <4>1
      <4>4. l \in Nat /\ k \in Nat OBVIOUS
      <4> QED BY <4>2, <4>3, <4>4
    <3> QED BY <1>1, <2>1, <3>1, <3>2, <3>3
  <2> QED BY <2>4, <2>5
<1> QED BY <1>3 DEF FirstBodyStays

LEMMA NothingHolds == RolloutInv => NothingIsDropped
<1> SUFFICES ASSUME RolloutInv, Whole PROVE NothingIsDropped
  BY DEF NothingIsDropped
<1>1. PICK s, n : s = rollout /\ n = Len(rollout) OBVIOUS
<1>2. DOMAIN rollout = 1..n /\ Story(parse, s, n) BY <1>1, WholeStory
<1>3. parse.lines = Len(rollout) BY <1>1, <1>2 DEF Story
<1>4. Total(parse.tokens, MaxRollout) = Cardinality({k \in DOMAIN rollout : rollout[k].t = "token_count"})
  BY <1>1, <1>2 DEF Story
<1>5. ASSUME NEW k \in DOMAIN rollout, NEW i \in Calls, About(i, k) PROVE Seen(parse, i)
  <2>1. PICK it : it = parse.items[i] OBVIOUS
  <2>2. ItemStory(it, parse.turn, s, n, i) BY <1>2, <2>1 DEF Story
  <2>3. \E j \in 1..n : s[j].id = i BY <1>1, <1>2, <1>5 DEF About
  <2>4. it.status # "none" BY <2>2, <2>3 DEF ItemStory
  <2> QED BY <2>1, <2>4 DEF Seen
<1> QED BY <1>3, <1>4, <1>5 DEF NothingIsDropped, Total

(* What a parse counts never passes the lines of the file, and an item is of *)
(* a turn that was begun and of a status there is (RolloutParse).            *)
THEOREM RolloutTypeTheorem == RolloutSpec => []RolloutTypeOK
BY RolloutInvHolds, RolloutTypes, PTL

(* An item does not show whether a call's output or its end was read first,  *)
(* an aborted turn leaves nothing running, the body that came first stays,   *)
(* every line is counted, each token count is in one turn and every call of  *)
(* the file is shown (RolloutMapper, parse_rollout).                         *)
THEOREM RolloutTheorem == RolloutSpec => []RolloutIsMapped
<1>1. RolloutInv => RolloutIsMapped
  BY OrderHolds, AbortHolds, BodyHolds, NothingHolds DEF RolloutIsMapped
<1> QED BY <1>1, RolloutInvHolds, PTL

-----------------------------------------------------------------------------
(* The four parts together.  A step of one leaves the state of the others    *)
(* alone, so a behaviour of the composition is one of each part.             *)

LEMMA StepsOfAll ==
  [TranscriptsNext]_transcriptsVars =>
    [ArNext]_arVars /\ [CxNext]_cxVars /\ [TMNext]_tmVars /\ [RolloutNext]_rolloutVars
BY DEF TranscriptsNext, transcriptsVars

LEMMA PartsOfAll == TranscriptsSpec => ArSpec /\ CxSpec /\ TMSpec /\ RolloutSpec
<1>1. TranscriptsInit => ArInit /\ CxInit /\ TMInit /\ RolloutInit BY DEF TranscriptsInit
<1> QED BY <1>1, StepsOfAll, PTL DEF TranscriptsSpec, ArSpec, CxSpec, TMSpec, RolloutSpec

(* Every part keeps the types of its state: the archive, the Codex tabs, the *)
(* mapper of the Claude transcripts and that of the Codex ones.              *)
THEOREM TranscriptsTypeTheorem == TranscriptsSpec => []TypeOK
<1>1. TranscriptsSpec => []ArTypeOK /\ []CxTypeOK /\ []TMTypeOK /\ []RolloutTypeOK
  BY PartsOfAll, ArTypeTheorem, CxTypeTheorem, TMTypeTheorem, RolloutTypeTheorem
<1>2. ArTypeOK /\ CxTypeOK /\ TMTypeOK /\ RolloutTypeOK => TypeOK BY DEF TypeOK
<1> QED BY <1>1, <1>2, PTL
=============================================================================
