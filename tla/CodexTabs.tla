----------------------------- MODULE CodexTabs ------------------------------
(***************************************************************************)
(* Codex tabs and their transcripts. Codex picks the id of a session and   *)
(* writes its transcript at the first message, so the application finds    *)
(* the transcript of a tab by the mark it put into it, the directory and   *)
(* the time the session was opened, and shows nothing when in doubt. A     *)
(* poll of the view reads the state and scans the directories without the  *)
(* lock, judges under it, and then reads the transcript if its signature   *)
(* is news. A file is                                                      *)
(* [owner, dir, at, mark, worker, first, n, there]: n counts its records   *)
(* and is its signature; first: of the first conversation of its tab; a    *)
(* worker is a `codex exec` or a subagent, which inherits the mark of the  *)
(* tab it runs in. The entry of a tab is never forgotten.                  *)
(***************************************************************************)
EXTENDS Integers, Sequences, FiniteSets
LOCAL INSTANCE FiniteSetsExt

CONSTANTS
  Tabs,
  DirOf,     \* tab -> the directory it was spawned in
  Skew,      \* MATCH_SKEW_MS
  Window,    \* MATCH_WINDOW_MS
  Rescan,    \* RESCAN_MS
  Delay,     \* the longest a tab's session takes to open
  MaxTime, MaxFiles,
  MaxWritten \* bounds: time, transcripts, records after the first ones; one file may vanish

ASSUME CodexAssumption ==
  /\ Skew \in Nat /\ Window \in Nat /\ Delay \in Nat /\ Delay <= Window
  /\ Rescan \in Nat /\ "user" \notin Tabs /\ MaxTime \in Nat /\ MaxFiles \in Nat

VARIABLES
  now,
  files,    \* the transcripts, in the order they were made
  tui,      \* tab -> [st, opened, file] of its codex process
  tab,      \* tab -> [at, res, last, fin, cache] in CodexState; at NoTime: not there
  polls,    \* tab -> [pc, alive, now, cands, sig] of its poll
  shown     \* tab -> [sig, n], what the view shows
cxVars == <<now, files, tui, tab, polls, shown>>

NoTime == -1
NoPage == [sig |-> 0, n |-> 0]
NoLook == [pc |-> "idle", alive |-> FALSE, now |-> 0, cands |-> {}, sig |-> 0]
Fresh0 == [at |-> NoTime, res |-> 0, last |-> -Rescan, fin |-> FALSE, cache |-> NoPage]

CxTypeOK ==
  /\ now \in 0 .. MaxTime /\ Len(files) <= MaxFiles
  /\ \A t \in Tabs : /\ tab[t].res \in 0 .. Len(files) /\ tui[t].file \in 0 .. Len(files)
                     /\ polls[t].cands \subseteq DOMAIN files
                     /\ polls[t].pc \in {"sign", "parse"} => tab[t].res # 0

CxInit ==
  /\ now = 0 /\ files = <<>>
  /\ tui = [t \in Tabs |-> [st |-> "none", opened |-> NoTime, file |-> 0]]
  /\ tab = [t \in Tabs |-> Fresh0] /\ polls = [t \in Tabs |-> NoLook]
  /\ shown = [t \in Tabs |-> NoPage]

-----------------------------------------------------------------------------
(* Time, codex in its tab, and sessions of the user outside the app.       *)

Passes == now < MaxTime /\ now' = now + 1 /\ UNCHANGED <<files, tui, tab, polls, shown>>

CodexCreate(t) ==
  /\ tui[t].st = "none"
  /\ tui' = [tui EXCEPT ![t].st = "live"] /\ tab' = [tab EXCEPT ![t].at = now]
  /\ UNCHANGED <<now, files, polls, shown>>

Opens(t) ==
  /\ tui[t].st = "live" /\ tui[t].opened = NoTime /\ now <= tab[t].at + Delay
  /\ tui' = [tui EXCEPT ![t].opened = now]
  /\ UNCHANGED <<now, files, tab, polls, shown>>

Renewed(t) ==
  /\ tui[t].st = "live" /\ tui[t].file # 0 /\ Len(files) < MaxFiles
  /\ tui' = [tui EXCEPT ![t].opened = now, ![t].file = 0]
  /\ UNCHANGED <<now, files, tab, polls, shown>>

Transcript(o, d, at) ==
  [owner |-> o, dir |-> d, at |-> at, mark |-> o # "user", worker |-> FALSE,
   n |-> 1, there |-> TRUE,
   first |-> \A f \in DOMAIN files : files[f].owner # o]

Written == MapThenSumSet(LAMBDA f : files[f].n - 1, DOMAIN files)

Message(t) ==
  /\ tui[t].st = "live" /\ tui[t].opened # NoTime
  /\ IF tui[t].file = 0
     THEN /\ Len(files) < MaxFiles
          /\ files' = Append(files, Transcript(t, DirOf[t], tui[t].opened))
          /\ tui' = [tui EXCEPT ![t].file = Len(files')]
     ELSE /\ Written < MaxWritten
          /\ files' = [files EXCEPT ![tui[t].file].n = @ + 1] /\ UNCHANGED tui
  /\ UNCHANGED <<now, tab, polls, shown>>

Foreigner(d) ==
  /\ Len(files) < MaxFiles
  /\ \E worker \in BOOLEAN :
       files' = Append(files, [Transcript("user", d, now) EXCEPT !.mark = worker, !.worker = worker])
  /\ UNCHANGED <<now, tui, tab, polls, shown>>

Vanishes(f) ==
  /\ \A g \in DOMAIN files : files[g].there
  /\ files' = [files EXCEPT ![f].there = FALSE]
  /\ UNCHANGED <<now, tui, tab, polls, shown>>

Dies(t) ==
  /\ tui[t].st = "live" /\ tui' = [tui EXCEPT ![t].st = "dead"]
  /\ UNCHANGED <<now, files, tab, polls, shown>>

\* The panel closes: the process ends, the entry stays and is not scanned for.
Release(t) ==
  /\ tui[t].st \in {"live", "dead"} /\ polls[t].pc = "idle"
  /\ tui' = [tui EXCEPT ![t].st = "closed"] /\ tab' = [tab EXCEPT ![t].fin = TRUE]
  /\ UNCHANGED <<now, files, polls, shown>>

-----------------------------------------------------------------------------
(* One poll of the view of a tab.                                          *)

ShouldScan(alive, me) ==
  IF alive THEN now <= me.at + Window \/ now - me.last >= Rescan ELSE ~me.fin

Covers(t, f) ==
  /\ tab[t].at # NoTime /\ files[f].dir = DirOf[t]
  /\ files[f].at >= tab[t].at - Skew /\ files[f].at <= tab[t].at + Window

\* What the first line of a transcript tells: no tab of the application is a worker.
AppSpawnable(f) == ~files[f].worker

Marked(s) == {f \in s : files[f].mark}

\* scan_candidates: the transcripts of the days around the spawn, and who may own them.
Candidates == Marked({f \in DOMAIN files : files[f].there /\ AppSpawnable(f)})

\* What the poll reads first: whether the process lives, the entry, the directories.
Look(t) ==
  LET me == tab[t]  alive == tui[t].st = "live"
      Goes(pc, c) == polls' = [polls EXCEPT ![t] =
                       [NoLook EXCEPT !.pc = pc, !.alive = alive, !.now = now, !.cands = c]] IN
  /\ tui[t].st \in {"live", "dead"} /\ polls[t].pc = "idle"
  /\ \/ me.res # 0 /\ files[me.res].there /\ Goes("sign", {})
     \/ /\ me.res = 0 /\ ShouldScan(alive, me)
        /\ Goes("judge", Candidates)
  /\ UNCHANGED <<now, files, tui, tab, shown>>

\* A wrong variant: a dead tab no longer competes for a transcript.
UnresolvedWrongLive == {t \in Tabs : tab[t].at # NoTime /\ tab[t].res = 0 /\ tui[t].st = "live"}

Unresolved == {t \in Tabs : tab[t].at # NoTime /\ tab[t].res = 0}
Claimed == {tab[t].res : t \in Tabs}

MatchRollout(t) ==
  LET mine == {f \in polls[t].cands \ Claimed : Covers(t, f)}
  IN  {f \in mine : \A s \in Unresolved \ {t} : ~Covers(s, f)}

Looked(me, l) == [me EXCEPT !.last = l.now, !.fin = @ \/ ~l.alive]

Judge(t) ==
  LET free == MatchRollout(t)  me == Looked(tab[t], polls[t]) IN
  /\ polls[t].pc = "judge"
  /\ \/ /\ Cardinality(free) = 1
        /\ tab' = [tab EXCEPT ![t] = [me EXCEPT !.res = CHOOSE f \in free : TRUE]]
        /\ polls' = [polls EXCEPT ![t].pc = "sign", ![t].cands = {}]
     \/ /\ Cardinality(free) # 1
        /\ tab' = [tab EXCEPT ![t] = me] /\ polls' = [polls EXCEPT ![t] = NoLook]
  /\ UNCHANGED <<now, files, tui, shown>>

Sign(t) ==
  LET sig == files[tab[t].res].n IN
  /\ polls[t].pc = "sign"
  /\ IF files[tab[t].res].there /\ sig \notin {shown[t].sig, tab[t].cache.sig}
     THEN polls' = [polls EXCEPT ![t].pc = "parse", ![t].sig = sig]
     ELSE polls' = [polls EXCEPT ![t] = NoLook]
  /\ shown' = IF files[tab[t].res].there /\ sig # shown[t].sig /\ sig = tab[t].cache.sig
              THEN [shown EXCEPT ![t] = tab[t].cache] ELSE shown
  /\ UNCHANGED <<now, files, tui, tab>>

Page(t) == [sig |-> polls[t].sig, n |-> files[tab[t].res].n]

Parse(t) ==
  /\ polls[t].pc = "parse" /\ polls' = [polls EXCEPT ![t] = NoLook]
  /\ \/ /\ files[tab[t].res].there
        /\ tab' = [tab EXCEPT ![t].cache = Page(t)] /\ shown' = [shown EXCEPT ![t] = Page(t)]
     \/ ~files[tab[t].res].there /\ UNCHANGED <<tab, shown>>
  /\ UNCHANGED <<now, files, tui>>

\* Another window shows the tab: it asks without a signature.
ViewReopens(t) ==
  /\ shown[t] # NoPage /\ polls[t].pc = "idle" /\ shown' = [shown EXCEPT ![t] = NoPage]
  /\ UNCHANGED <<now, files, tui, tab, polls>>

CxNext ==
  \/ Passes
  \/ \E t \in Tabs : \/ CodexCreate(t) \/ Opens(t) \/ Renewed(t) \/ Message(t) \/ Dies(t)
                     \/ Release(t) \/ Look(t) \/ Judge(t) \/ Sign(t)
                     \/ Parse(t) \/ ViewReopens(t) \/ Foreigner(DirOf[t])
  \/ \E f \in DOMAIN files : Vanishes(f)

CxSpec == CxInit /\ [][CxNext]_cxVars

-----------------------------------------------------------------------------
(* A tab never shows the conversation of the user's own codex nor the log   *)
(* of a worker that carries the tab's mark, nor, as long as no tab of the   *)
(* directory has begun a second conversation, that of another tab,          *)
(* whichever of them is closed, dies or writes first (match_rollout). What  *)
(* a second conversation may be taken for is not promised.                  *)
SecondIn(d) ==
  \E f \in DOMAIN files : files[f].owner \in Tabs /\ ~files[f].first /\ files[f].dir = d

OwnTranscript ==
  \A t \in Tabs : tab[t].res # 0 =>
    files[tab[t].res].owner = t \/ (files[tab[t].res].owner \in Tabs /\ SecondIn(DirOf[t]))

(* A view whose signature is the file's shows all of the file, also when    *)
(* the file grows while it is read.                                         *)
ShownIsCurrent ==
  \A t \in Tabs : tab[t].res # 0 /\ shown[t].sig = files[tab[t].res].n
                  => shown[t].n = files[tab[t].res].n

(* A tab that ended right after its transcript was made still finds it: the *)
(* one look a dead tab has left comes after its last record.                *)
FinalLookFinds ==
  \A t \in Tabs, f \in DOMAIN files :
    /\ tab[t].fin /\ tui[t].st = "dead" /\ polls[t].pc = "idle"
    /\ files[f].owner = t /\ files[f].there
    /\ {g \in DOMAIN files : files[g].mark /\ AppSpawnable(g) /\ Covers(t, g)} = {f}
    /\ \A s \in Tabs \ {t} : ~Covers(s, f)
    => tab[t].res = f

(* A tab shows its own transcript, all of it, and finds it.                 *)
TabsShowTheirOwn == OwnTranscript /\ ShownIsCurrent /\ FinalLookFinds
=============================================================================
