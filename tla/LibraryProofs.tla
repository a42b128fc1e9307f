---------------------------- MODULE LibraryProofs ----------------------------
(* That sessions are taken over from nobody, for any number of transcripts,  *)
(* processes and seconds, that the scan of a transcript's head keeps its     *)
(* budget and says what it leaves out, for any budget, buffer and file, and  *)
(* that the library of saved sessions shows what is there and not what was   *)
(* deleted, for any sessions, windows and cap of the dismissals, and that a  *)
(* rewrite of a Git history loses nothing, for any branches and number of    *)
(* backups, whatever others do in the repository meanwhile.                  *)
EXTENDS SessionLibrary, SessionAdoption, HeadScan, GitHistory, SequenceTheorems, FiniteSetTheorems,
        WellFoundedInduction, TLAPS

(* Take-over. A process that has written to a transcript leaves a time there *)
(* that is not before its own start (WroteAfterStart), and the verdict       *)
(* "free" needs every unpinned process of the directory to have started      *)
(* later than that by more than the clock can have been moved.               *)

Proc == [st : {"none", "alive", "gone"}, looks : Looks, on : Transcripts \cup {Other},
         start : 0 .. MaxTick, wrote : BOOLEAN]
Take == [pc : {"idle", "scan", "spawn"}, on : Transcripts, mtime : 0 .. MaxTick + MaxShift,
         before : SUBSET Procs]

Typed ==
    /\ tick \in 0 .. MaxTick /\ shift \in 0 .. MaxShift
    /\ mtime \in [Transcripts -> 0 .. MaxTick + MaxShift]
    /\ proc \in [Procs -> Proc]
    /\ own \subseteq Transcripts /\ take \in Take
    /\ take.pc # "idle" => take.on \notin own

WroteAfterStart ==
    \A p \in Procs : proc[p].st # "none" =>
        /\ proc[p].start <= tick
        /\ proc[p].wrote => proc[p].on \in Transcripts /\ mtime[proc[p].on] >= proc[p].start

NothingLater == \A s \in Transcripts : mtime[s] <= tick + shift

(* What the take-over has seen of the processes that wrote before it looked. *)
SeenBefore ==
    take.pc # "idle" => \A p \in take.before :
        /\ proc[p].st \in {"alive", "gone"}
        /\ proc[p].on = take.on /\ take.mtime >= proc[p].start
        /\ take.pc = "spawn" => proc[p].st = "gone"

AdoptInv == Typed /\ WroteAfterStart /\ NothingLater /\ SeenBefore

USE AdoptionAssumption DEF AdoptionAssumption

-----------------------------------------------------------------------------
(* A non-empty set of integers with a lower bound has a least element.       *)
LEMMA LeastInt ==
  ASSUME NEW S \in SUBSET Int, S # {}, NEW b \in Int, \A x \in S : x >= b
  PROVE  \E t \in S : \A u \in S : t <= u
<1> DEFINE T == {x - b : x \in S}
           R == OpToRel(<, Nat)
<1>1. T \in SUBSET Nat /\ T # {}
  <2>1. \A x \in S : x - b \in Nat
    OBVIOUS
  <2> QED BY <2>1
<1>2. PICK x \in T : \A y \in T : ~ (<<y, x>> \in R)
  <2> HIDE DEF T, R
  <2>1. IsWellFoundedOn(R, Nat)
    BY NatLessThanWellFounded DEF R
  <2> QED BY <1>1, <2>1, WFMin
<1>3. \A y \in T : ~(y < x)
  BY <1>1, <1>2 DEF OpToRel
<1>4. PICK t \in S : x = t - b
  OBVIOUS
<1>5. \A u \in S : t <= u
  <2> TAKE u \in S
  <2>1. u - b \in T
    OBVIOUS
  <2>2. ~(u - b < x)
    BY <2>1, <1>3
  <2> QED BY <2>2, <1>4
<1> QED BY <1>5

(* The threshold is the start of one of the unpinned processes, less the     *)
(* margin, and not above that of any other.                                  *)
LEMMA ThresholdIsLeast ==
  ASSUME Typed, NEW err \in Error, Here # {}
  PROVE  /\ \E p \in Here : Threshold(err) = Started(p, err) - Epsilon
         /\ \A p \in Here : Threshold(err) <= Started(p, err) - Epsilon
<1> DEFINE starts == {Started(p, err) : p \in Here}
           least == CHOOSE t \in starts : \A u \in starts : t <= u
<1>1. \A p \in Here : Started(p, err) \in Int /\ Started(p, err) >= -1
  BY DEF Typed, Proc, Here, Running, Started, Error
<1>2. starts \in SUBSET Int /\ starts # {} /\ \A x \in starts : x >= -1
  BY <1>1
<1>3. \E t \in starts : \A u \in starts : t <= u
  <2> HIDE DEF starts
  <2>1. -1 \in Int
    OBVIOUS
  <2> DEFINE b == -1
  <2>2. b \in Int /\ \A x \in starts : x >= b
    BY <1>2, <2>1
  <2> HIDE DEF b
  <2> QED BY <1>2, <2>2, LeastInt
<1>4. least \in starts /\ \A u \in starts : least <= u
  BY <1>3
<1>5. Threshold(err) = least - Epsilon
  BY DEF Threshold
<1> HIDE DEF least
<1>6. PICK p \in Here : least = Started(p, err)
  BY <1>4
<1>7. \A q \in Here : least <= Started(q, err)
  BY <1>4
<1> QED BY <1>1, <1>5, <1>6, <1>7

(* A verdict "free" on a transcript means that every process running on it   *)
(* started after the time that was seen there.                               *)
LEMMA FreeMeansLater ==
  ASSUME Typed, NEW err \in Error, NEW held \in BOOLEAN, NEW s \in Transcripts,
         NEW m \in Int, Verdict(s, m, err, held) = "free",
         NEW p \in Running, proc[p].on = s
  PROVE  m < proc[p].start
<1>1. proc[p].looks \in Looks /\ proc[p].start \in Int /\ shift \in 0 .. MaxShift
  BY DEF Typed, Proc, Running
<1>2. PinnedTo(s) = {} /\ Anywhere = {}
  BY DEF Verdict
<1>3. p \in Here
  BY <1>1, <1>2 DEF PinnedTo, Anywhere, Here, Looks
<1>4. m < Threshold(err)
  BY <1>2, <1>3 DEF Verdict
<1>5. Threshold(err) <= Started(p, err) - Epsilon
  BY <1>3, ThresholdIsLeast
<1>6. Threshold(err) \in Int
  <2>1. PICK q \in Here : Threshold(err) = Started(q, err) - Epsilon
    BY <1>3, ThresholdIsLeast
  <2>2. proc[q].start \in Int
    BY DEF Typed, Proc, Here, Running
  <2> QED BY <2>1, <2>2, <1>1 DEF Started, Error
<1>7. Started(p, err) - Epsilon <= proc[p].start
  BY <1>1 DEF Started, Error
<1> QED BY <1>1, <1>4, <1>5, <1>6, <1>7 DEF Started, Error

-----------------------------------------------------------------------------
LEMMA AdoptInit == LvInit => AdoptInv
<1> SUFFICES ASSUME LvInit PROVE AdoptInv
  OBVIOUS
<1>1. (CHOOSE s \in Transcripts : TRUE) \in Transcripts
  OBVIOUS
<1>2. NoTake \in Take /\ NoTake.pc = "idle"
  BY <1>1 DEF NoTake, Take
<1>3. NoProc \in Proc
  BY DEF NoProc, Proc, Looks
<1>4. Typed
  BY <1>2, <1>3 DEF LvInit, Typed
<1>5. WroteAfterStart /\ NothingLater /\ SeenBefore
  BY <1>2 DEF LvInit, WroteAfterStart, NothingLater, SeenBefore, NoProc
<1> QED BY <1>4, <1>5 DEF AdoptInv

(* The world outside: the clock and the other processes.                     *)
LEMMA AdoptWorld ==
  ASSUME AdoptInv, Tick \/ ClockSteps \/ \E p \in Procs : Starts(p) \/ Writes(p) \/ Exits(p)
  PROVE  AdoptInv'
<1> USE DEF AdoptInv
<1>1. CASE Tick
  <2>1. tick' = tick + 1 /\ tick < MaxTick /\ UNCHANGED <<shift, mtime, proc, own, take>>
    BY <1>1 DEF Tick
  <2> HIDE DEF AdoptInv
  <2>2. Typed'
    BY <2>1 DEF AdoptInv, Typed
  <2>3. WroteAfterStart'
    <3>1. ASSUME NEW p \in Procs, proc[p].st # "none" PROVE proc[p].start <= tick + 1
      <4>1. proc[p] \in Proc
        BY DEF AdoptInv, Typed
      <4>2. proc[p].start \in Int /\ tick \in Int /\ proc[p].start <= tick
        BY <4>1, <3>1 DEF AdoptInv, Typed, WroteAfterStart, Proc
      <4> QED BY <4>2
    <3> QED BY <2>1, <3>1 DEF AdoptInv, WroteAfterStart
  <2>4. NothingLater'
    <3>1. \A s \in Transcripts : mtime[s] \in Int /\ tick \in Int /\ shift \in Int
      BY DEF AdoptInv, Typed
    <3> QED BY <2>1, <3>1 DEF AdoptInv, NothingLater
  <2>5. SeenBefore'
    BY <2>1 DEF AdoptInv, SeenBefore
  <2> QED BY <2>2, <2>3, <2>4, <2>5 DEF AdoptInv
<1>2. CASE ClockSteps
  BY <1>2 DEF ClockSteps, Typed, WroteAfterStart, NothingLater, SeenBefore
<1>3. ASSUME NEW p \in Procs, Starts(p) PROVE AdoptInv'
  <2>1. PICK looks \in Looks, s \in Transcripts \cup {Other} :
          proc' = [proc EXCEPT ![p] = [st |-> "alive", looks |-> looks, on |-> s,
                                       start |-> tick, wrote |-> FALSE]]
    BY <1>3 DEF Starts
  <2> USE <2>1, <1>3 DEF Starts
  <2>2. Typed'
    BY DEF Typed, Proc
  <2>3. WroteAfterStart'
    BY DEF WroteAfterStart, Typed, Proc
  <2>4. NothingLater'
    BY DEF NothingLater
  <2>5. SeenBefore'
    BY DEF SeenBefore, Typed, Proc, Take
  <2> QED BY <2>2, <2>3, <2>4, <2>5
<1>4. ASSUME NEW p \in Procs, Writes(p) PROVE AdoptInv'
  <2>1. proc[p] \in Proc /\ proc[p].st = "alive" /\ proc[p].on \in Transcripts
    BY <1>4 DEF Writes, Running, Typed, Proc
  <2>2. proc' = [proc EXCEPT ![p].wrote = TRUE]
        /\ mtime' = [mtime EXCEPT ![proc[p].on] = tick + shift]
        /\ UNCHANGED <<tick, shift, own, take>>
    BY <1>4 DEF Writes
  <2> HIDE DEF AdoptInv
  <2>3. Typed'
    <3>1. tick + shift \in 0 .. MaxTick + MaxShift
      BY DEF AdoptInv, Typed
    <3>2. mtime' \in [Transcripts -> 0 .. MaxTick + MaxShift]
      BY <2>1, <2>2, <3>1 DEF AdoptInv, Typed
    <3>3. [proc[p] EXCEPT !.wrote = TRUE] \in Proc
      BY <2>1 DEF Proc
    <3>4. proc' = [proc EXCEPT ![p] = [proc[p] EXCEPT !.wrote = TRUE]]
      BY <2>2
    <3>5. proc' \in [Procs -> Proc]
      <4> HIDE DEF Proc
      <4> QED BY <3>3, <3>4 DEF AdoptInv, Typed
    <3> QED BY <2>2, <3>2, <3>5 DEF AdoptInv, Typed
  <2>4. WroteAfterStart'
    BY <2>1, <2>2 DEF AdoptInv, WroteAfterStart, NothingLater, Typed, Proc
  <2>5. NothingLater'
    BY <2>1, <2>2 DEF AdoptInv, NothingLater, Typed
  <2>6. SeenBefore'
    BY <2>1, <2>2 DEF AdoptInv, SeenBefore, Typed, Proc, Take
  <2> QED BY <2>3, <2>4, <2>5, <2>6 DEF AdoptInv
<1>5. ASSUME NEW p \in Procs, Exits(p) PROVE AdoptInv'
  <2>1. proc' = [proc EXCEPT ![p].st = "gone"] /\ UNCHANGED <<tick, shift, mtime, own, take>>
        /\ proc[p].st = "alive"
    BY <1>5 DEF Exits, Running
  <2>2. Typed'
    BY <2>1 DEF Typed, Proc
  <2>3. WroteAfterStart' /\ NothingLater'
    BY <2>1 DEF WroteAfterStart, NothingLater, Typed, Proc
  <2>4. SeenBefore'
    BY <2>1 DEF SeenBefore, Typed, Proc, Take
  <2> QED BY <2>2, <2>3, <2>4
<1> QED BY <1>1, <1>2, <1>3, <1>4, <1>5

(* The application: what it looks at, decides and starts.                    *)
LEMMA AdoptTakes ==
  ASSUME AdoptInv,
         \/ \E s \in Transcripts : TakeOver(s) \/ Forgets(s)
         \/ Recheck \/ RecheckFails \/ Spawn
  PROVE  AdoptInv'
<1>0. NoTake \in Take /\ NoTake.pc = "idle"
  BY DEF NoTake, Take
<1>1. ASSUME NEW s \in Transcripts, TakeOver(s) PROVE AdoptInv'
  <2>1. /\ take'.pc = "scan" /\ take'.on = s /\ take'.mtime = mtime[s] /\ take'.before = Writers(s)
        /\ take' \in Take /\ s \notin own
    BY <1>0, <1>1 DEF TakeOver, Take, NoTake, AdoptInv, Typed, Writers, Running
  <2>2. UNCHANGED <<tick, shift, mtime, proc, own>>
    BY <1>1 DEF TakeOver
  <2>3. Typed'
    BY <2>1, <2>2 DEF AdoptInv, Typed
  <2>4. WroteAfterStart' /\ NothingLater'
    BY <2>2 DEF AdoptInv, WroteAfterStart, NothingLater
  <2>5. \A p \in Writers(s) : p \in Procs /\ proc[p].st = "alive" /\ proc[p].on = s
                              /\ mtime[s] >= proc[p].start
    BY DEF Writers, Running, AdoptInv, WroteAfterStart
  <2>6. SeenBefore'
    BY <2>1, <2>2, <2>5 DEF SeenBefore
  <2> QED BY <2>3, <2>4, <2>6 DEF AdoptInv
<1>2. ASSUME take' = NoTake, UNCHANGED <<tick, shift, mtime, proc>>,
             own' \in SUBSET Transcripts
      PROVE  AdoptInv'
  BY <1>0, <1>2 DEF AdoptInv, Typed, WroteAfterStart, NothingLater, SeenBefore
<1>3. CASE Recheck
  <2>1. PICK err \in Error, held \in MayShow(take.on) :
          take' = IF Verdict(take.on, take.mtime, err, held) = "free"
                  THEN [take EXCEPT !.pc = "spawn"] ELSE NoTake
    BY <1>3 DEF Recheck
  <2>2. UNCHANGED <<tick, shift, mtime, proc, own>> /\ take.pc = "scan"
    BY <1>3 DEF Recheck
  <2>3. CASE take' = NoTake
    BY <1>2, <2>2, <2>3 DEF AdoptInv, Typed
  <2>4. CASE Verdict(take.on, take.mtime, err, held) = "free"
    <3>1. take' = [take EXCEPT !.pc = "spawn"] /\ take \in Take
      BY <2>1, <2>4 DEF AdoptInv, Typed
    <3>2. Typed'
      BY <2>2, <3>1 DEF AdoptInv, Typed, Take
    <3>3. WroteAfterStart' /\ NothingLater'
      BY <2>2 DEF AdoptInv, WroteAfterStart, NothingLater
    <3>4. ASSUME NEW p \in take.before PROVE proc[p].st = "gone"
      <4>1. p \in Procs /\ proc[p] \in Proc /\ proc[p].st \in {"alive", "gone"}
            /\ proc[p].on = take.on /\ take.mtime >= proc[p].start
        BY <2>2, <3>1, <3>4 DEF AdoptInv, SeenBefore, Typed, Take
      <4>2. CASE proc[p].st = "alive"
        <5>1. p \in Running /\ held \in BOOLEAN
          BY <2>1, <4>1, <4>2 DEF Running, MayShow
        <5>2. take.mtime < proc[p].start
          BY <2>4, <3>1, <4>1, <5>1, FreeMeansLater DEF AdoptInv, Take
        <5> QED BY <3>1, <4>1, <5>2 DEF Take, Proc
      <4> QED BY <4>1, <4>2
    <3>5. SeenBefore'
      BY <2>2, <3>1, <3>4 DEF AdoptInv, SeenBefore, Take
    <3> QED BY <3>2, <3>3, <3>5 DEF AdoptInv
  <2> QED BY <2>1, <2>3, <2>4
<1>4. CASE RecheckFails
  BY <1>2, <1>4 DEF RecheckFails, AdoptInv, Typed
<1>5. CASE Spawn
  BY <1>2, <1>5 DEF Spawn, AdoptInv, Typed, Take
<1>6. ASSUME NEW s \in Transcripts, Forgets(s) PROVE AdoptInv'
  BY <1>6 DEF Forgets, AdoptInv, Typed, WroteAfterStart, NothingLater, SeenBefore
<1> QED BY <1>1, <1>3, <1>4, <1>5, <1>6

LEMMA AdoptStep == AdoptInv /\ [LvNext]_lvVars => AdoptInv'
<1> SUFFICES ASSUME AdoptInv, [LvNext]_lvVars PROVE AdoptInv'
  OBVIOUS
<1>1. CASE UNCHANGED lvVars
  BY <1>1 DEF lvVars, AdoptInv, Typed, WroteAfterStart, NothingLater, SeenBefore
<1>2. CASE LvNext
  BY <1>2, AdoptWorld, AdoptTakes DEF LvNext
<1> QED BY <1>1, <1>2

(* Which transcripts can be taken does not depend on how the state came      *)
(* about: one that is older than every unpinned process here is free.        *)
LEMMA OlderFree == Typed => OlderIsFree
<1> SUFFICES ASSUME Typed, NEW s \in Transcripts, NEW err \in Error,
                    \A p \in Running :
                       /\ proc[p].looks \in {"pinned", "here"}
                       /\ proc[p].looks = "pinned" => proc[p].on # s
                       /\ proc[p].looks = "here" => mtime[s] < proc[p].start + shift - 1 - Epsilon
             PROVE  Verdict(s, mtime[s], err, FALSE) = "free"
  BY DEF OlderIsFree
<1>1. PinnedTo(s) = {} /\ Anywhere = {}
  BY DEF PinnedTo, Anywhere
<1>2. CASE Here = {}
  BY <1>1, <1>2 DEF Verdict
<1>3. CASE Here # {}
  <2>1. PICK p \in Here : Threshold(err) = Started(p, err) - Epsilon
    BY <1>3, ThresholdIsLeast
  <2>2. p \in Running /\ proc[p].looks = "here" /\ proc[p].start \in Int /\ shift \in Int
        /\ mtime[s] \in Int
    BY DEF Here, Running, Typed, Proc
  <2>3. mtime[s] < Threshold(err)
    BY <2>1, <2>2 DEF Started, Error
  <2> QED BY <1>1, <2>3 DEF Verdict
<1> QED BY <1>2, <1>3

(* Sessions are taken from nobody who wrote before the transcript was looked *)
(* at, whatever /proc hides, the clock does and however the processes start, *)
(* write and exit; and a session nobody can be running is free to take       *)
(* (classify, recheck_adoptable).                                            *)
THEOREM AdoptsRightlyTheorem == LvSpec => []AdoptsRightly
<1>1. AdoptInv => AdoptsRightly
  <2> SUFFICES ASSUME AdoptInv PROVE AdoptsRightly
    OBVIOUS
  <2>1. LvTypeOK
    BY DEF AdoptInv, Typed, LvTypeOK, Proc, Take
  <2>2. TakenFromNobody
    BY DEF AdoptInv, SeenBefore, TakenFromNobody, Running
  <2>3. OlderIsFree
    BY OlderFree DEF AdoptInv
  <2> QED BY <2>1, <2>2, <2>3 DEF AdoptsRightly
<1>2. AdoptInv /\ [LvNext]_lvVars => AdoptInv'
  BY AdoptStep
<1> QED BY <1>1, <1>2, AdoptInit, PTL DEF LvSpec

HIDE AdoptionAssumption DEF AdoptionAssumption

-----------------------------------------------------------------------------
(* The scan of a head. A record that was passed named no directory or was    *)
(* too long (Passed); that it was too long and not merely cut off by the     *)
(* budget is seen from the budget that is left (Drained).                    *)

Counted ==
    /\ lines \in Seq(Record) /\ ended \in BOOLEAN
    /\ at \in Nat \ {0} /\ at <= Len(lines) + 1 /\ off \in Nat /\ used \in Nat /\ peak \in Nat
    /\ records \in Nat /\ records <= MaxRecords
    /\ scan \in {"read", "drain", "found", "end", "budget"}

Budgeted ==
    /\ used <= MaxBytes + Buffer /\ peak <= MaxRecord
    /\ scan = "drain" => used <= MaxBytes

\* Where in its record the scan stands.
Placed ==
    /\ at <= Len(lines) => off <= lines[at].len
    /\ scan = "drain" => at <= Len(lines) /\ (off = lines[at].len => ~Terminated(at))

Drained == scan = "drain" /\ used < MaxBytes => lines[at].len > MaxRecord \/ ~Terminated(at)

Passed ==
    scan \in {"drain", "end"} \/ used < MaxBytes =>
        \A i \in DOMAIN lines : i < at /\ lines[i].cwd /\ scan # "found"
                                => lines[i].len > MaxRecord \/ ~Terminated(i)

Over == scan = "end" => at > Len(lines) \/ (off = lines[at].len /\ ~Terminated(at))

HeadInv == Counted /\ Budgeted /\ Placed /\ Drained /\ Passed /\ Over

USE HeadScanAssumption DEF HeadScanAssumption

-----------------------------------------------------------------------------
LEMMA FilesAreSequences == \A f \in Files : f \in Seq(Record)
BY DEF Files

LEMMA LengthsAreNumbers ==
  ASSUME NEW s \in Seq(Record)
  PROVE  Len(s) \in Nat /\ DOMAIN s = 1 .. Len(s) /\ \A i \in 1 .. Len(s) : s[i].len \in Nat
<1>1. \A i \in 1 .. Len(s) : s[i] \in Record
  OBVIOUS
<1>2. \A r \in Record : r.len \in Nat
  BY DEF Record
<1> QED BY <1>1, <1>2

LEMMA HeadInit == HsInit => HeadInv
<1> SUFFICES ASSUME HsInit PROVE HeadInv
  OBVIOUS
<1>1. Counted
  BY FilesAreSequences DEF HsInit, Counted
<1>2. Len(lines) \in Nat /\ \A i \in 1 .. Len(lines) : lines[i].len \in Nat
  BY <1>1, LengthsAreNumbers DEF Counted
<1>3. Budgeted /\ Placed /\ Drained /\ Over
  BY <1>2 DEF HsInit, Budgeted, Placed, Drained, Over
<1>4. Passed
  <2>1. DOMAIN lines = 1 .. Len(lines)
    BY <1>1 DEF Counted
  <2> QED BY <1>2, <2>1 DEF HsInit, Passed
<1> QED BY <1>1, <1>3, <1>4 DEF HeadInv

(* A record is read whole, or up to the cap and then drained.                *)
LEMMA HeadReads == HeadInv /\ ReadRecord => HeadInv'
<1> SUFFICES ASSUME HeadInv, ReadRecord PROVE HeadInv'
  OBVIOUS
<1> DEFINE n == Lesser(lines[at].len, Cap)
           cut == n = Cap /\ (n < lines[at].len \/ ~Terminated(at))
<1>1. /\ scan = "read" /\ records < MaxRecords /\ used < MaxBytes /\ at <= Len(lines)
      /\ used' = used + n /\ records' = records + 1 /\ peak' = IF n > peak THEN n ELSE peak
      /\ lines' = lines /\ ended' = ended
      /\ IF cut THEN off' = n /\ scan' = "drain" /\ at' = at
         ELSE off' = 0 /\ at' = at + 1 /\ scan' = IF lines[at].cwd THEN "found" ELSE "read"
  BY DEF ReadRecord
<1>2. /\ lines \in Seq(Record) /\ at \in Nat \ {0} /\ used \in Nat /\ peak \in Nat /\ records \in Nat
      /\ ended \in BOOLEAN /\ Len(lines) \in Nat /\ DOMAIN lines = 1 .. Len(lines)
  BY DEF HeadInv, Counted
<1>3. lines[at].len \in Nat /\ \A i \in 1 .. Len(lines) : lines[i].len \in Nat
  BY <1>1, <1>2, LengthsAreNumbers
<1>4. /\ Cap \in Nat /\ Cap <= MaxRecord /\ used + Cap <= MaxBytes
      /\ Cap # MaxRecord => used + Cap = MaxBytes
  BY <1>1, <1>2 DEF Cap, Lesser
<1>5. n \in Nat /\ n <= Cap /\ n <= lines[at].len
  BY <1>3, <1>4 DEF Lesser
<1> HIDE DEF n
<1>6. Counted'
  BY <1>1, <1>2, <1>5 DEF Counted
<1>7. Budgeted'
  BY <1>1, <1>2, <1>4, <1>5 DEF HeadInv, Budgeted
<1>9. CASE cut
  <2>1. off' = n /\ scan' = "drain" /\ at' = at
    BY <1>1, <1>9
  <2>2. Placed'
    BY <1>1, <1>2, <1>5, <1>9, <2>1 DEF Placed, Terminated
  <2>3. Drained'
    BY <1>1, <1>2, <1>3, <1>4, <1>5, <1>9, <2>1 DEF Drained, Terminated
  <2>4. Passed'
    BY <1>1, <2>1 DEF HeadInv, Passed, Terminated
  <2>5. Over'
    BY <2>1 DEF Over
  <2> QED BY <1>6, <1>7, <2>2, <2>3, <2>4, <2>5 DEF HeadInv
<1>10. CASE ~cut
  <2>1. off' = 0 /\ at' = at + 1 /\ scan' = (IF lines[at].cwd THEN "found" ELSE "read")
    BY <1>1, <1>10
  <2>2. Placed' /\ Drained' /\ Over'
    BY <1>1, <1>2, <1>3, <2>1 DEF Placed, Drained, Over
  <2>3. Passed'
    BY <1>1, <1>2, <2>1 DEF HeadInv, Passed, Terminated
  <2> QED BY <1>6, <1>7, <2>2, <2>3 DEF HeadInv
<1> QED BY <1>9, <1>10

(* The scan gives up, or there is nothing more to read.                      *)
LEMMA HeadStops == HeadInv /\ Stops => HeadInv'
<1> SUFFICES ASSUME HeadInv, Stops PROVE HeadInv'
  OBVIOUS
<1>1. /\ scan = "read" /\ UNCHANGED <<lines, ended, at, off, used, peak, records>>
      /\ scan' = "budget" \/ (scan' = "end" /\ used < MaxBytes /\ at > Len(lines))
  BY DEF Stops
<1>2. Counted'
  BY <1>1 DEF HeadInv, Counted
<1>3. Budgeted' /\ Placed' /\ Drained' /\ Over'
  BY <1>1 DEF HeadInv, Budgeted, Placed, Drained, Over, Terminated
<1>4. Passed'
  BY <1>1 DEF HeadInv, Passed, Terminated
<1> QED BY <1>2, <1>3, <1>4 DEF HeadInv

(* A chunk of a record that was too long, or that the budget cut.            *)
LEMMA HeadDrains == HeadInv /\ Drain => HeadInv'
<1> SUFFICES ASSUME HeadInv, Drain PROVE HeadInv'
  OBVIOUS
<1> DEFINE rest == lines[at].len - off
<1>1. PICK chunk \in 1 .. Buffer :
        IF rest = 0
        THEN scan' = "end" /\ UNCHANGED <<at, off, used>>
        ELSE IF rest <= chunk /\ Terminated(at)
        THEN used' = used + rest /\ at' = at + 1 /\ off' = 0 /\ scan' = "read"
        ELSE /\ used' = used + Lesser(rest, chunk) /\ off' = off + Lesser(rest, chunk)
             /\ scan' = IF used' >= MaxBytes THEN "budget" ELSE "drain"
             /\ UNCHANGED at
  BY DEF Drain
<1>2. scan = "drain" /\ UNCHANGED <<lines, ended, peak, records>>
  BY DEF Drain
<1>3. /\ lines \in Seq(Record) /\ at \in Nat \ {0} /\ at <= Len(lines) /\ used \in Nat /\ off \in Nat
      /\ peak \in Nat /\ records \in Nat /\ ended \in BOOLEAN
      /\ Len(lines) \in Nat /\ DOMAIN lines = 1 .. Len(lines)
  BY <1>2 DEF HeadInv, Counted, Placed
<1>4. /\ \A i \in 1 .. Len(lines) : lines[i].len \in Nat
      /\ off <= lines[at].len /\ rest \in Nat /\ chunk \in Nat /\ chunk >= 1 /\ chunk <= Buffer
  BY <1>2, <1>3, LengthsAreNumbers DEF HeadInv, Placed
<1>5. used <= MaxBytes /\ peak <= MaxRecord /\ records <= MaxRecords
  BY <1>2 DEF HeadInv, Budgeted, Counted
<1>6. \A i \in DOMAIN lines : i < at /\ lines[i].cwd => lines[i].len > MaxRecord \/ ~Terminated(i)
  BY <1>2 DEF HeadInv, Passed
<1>7. CASE rest = 0
  <2>1. scan' = "end" /\ UNCHANGED <<at, off, used>> /\ off = lines[at].len
    BY <1>1, <1>3, <1>4, <1>7
  <2>2. ~Terminated(at)
    BY <1>2, <2>1 DEF HeadInv, Placed
  <2>3. Counted' /\ Budgeted'
    BY <1>2, <1>3, <1>5, <2>1 DEF Counted, Budgeted
  <2>4. Placed' /\ Drained' /\ Over'
    BY <1>2, <1>3, <1>4, <2>1, <2>2 DEF Placed, Drained, Over, Terminated
  <2>5. Passed'
    BY <1>2, <1>6, <2>1 DEF Passed, Terminated
  <2> QED BY <2>3, <2>4, <2>5 DEF HeadInv
<1>8. CASE rest # 0 /\ rest <= chunk /\ Terminated(at)
  <2>1. used' = used + rest /\ at' = at + 1 /\ off' = 0 /\ scan' = "read"
    BY <1>1, <1>8
  <2>2. Counted' /\ Budgeted'
    BY <1>2, <1>3, <1>4, <1>5, <1>8, <2>1 DEF Counted, Budgeted
  <2>3. Placed' /\ Drained' /\ Over'
    BY <1>2, <1>3, <1>4, <2>1 DEF Placed, Drained, Over
  <2>4. used < MaxBytes => lines[at].len > MaxRecord
    BY <1>2, <1>8 DEF HeadInv, Drained
  <2>5. Passed'
    <3>1. ASSUME used' < MaxBytes, NEW i \in DOMAIN lines, i < at + 1, lines[i].cwd
          PROVE  lines[i].len > MaxRecord \/ ~Terminated(i)
      <4>1. used < MaxBytes
        BY <1>3, <1>4, <2>1, <3>1
      <4>2. i \in Nat /\ (i < at \/ i = at)
        BY <1>3, <3>1
      <4> QED BY <1>6, <2>4, <3>1, <4>1, <4>2
    <3> QED BY <1>2, <2>1, <3>1 DEF Passed, Terminated
  <2> QED BY <2>2, <2>3, <2>5 DEF HeadInv
<1>9. CASE rest # 0 /\ ~(rest <= chunk /\ Terminated(at))
  <2>1. /\ used' = used + Lesser(rest, chunk) /\ off' = off + Lesser(rest, chunk)
        /\ scan' = (IF used' >= MaxBytes THEN "budget" ELSE "drain") /\ at' = at
    BY <1>1, <1>9
  <2>2. /\ Lesser(rest, chunk) \in Nat /\ Lesser(rest, chunk) <= chunk
        /\ Lesser(rest, chunk) <= rest /\ (Lesser(rest, chunk) = rest => rest <= chunk)
    BY <1>4 DEF Lesser
  <2>3. Counted'
    BY <1>2, <1>3, <1>5, <2>1, <2>2 DEF Counted
  <2>4. Budgeted'
    BY <1>2, <1>3, <1>4, <1>5, <2>1, <2>2 DEF Budgeted
  <2>5. Placed'
    BY <1>2, <1>3, <1>4, <1>9, <2>1, <2>2 DEF Placed, Terminated
  <2>6. Drained' /\ Over'
    BY <1>2, <1>3, <1>4, <2>1, <2>2 DEF HeadInv, Drained, Over, Terminated
  <2>7. Passed'
    BY <1>2, <1>6, <2>1 DEF Passed, Terminated
  <2> QED BY <2>3, <2>4, <2>5, <2>6, <2>7 DEF HeadInv
<1> QED BY <1>7, <1>8, <1>9

LEMMA HeadStep == HeadInv /\ [HsNext]_hsVars => HeadInv'
<1> SUFFICES ASSUME HeadInv, [HsNext]_hsVars PROVE HeadInv'
  OBVIOUS
<1>1. CASE UNCHANGED hsVars
  <2>1. UNCHANGED <<lines, ended, at, off, used, peak, records, scan>>
    BY <1>1 DEF hsVars
  <2>2. Counted' /\ Budgeted' /\ Placed' /\ Drained' /\ Over'
    BY <2>1 DEF HeadInv, Counted, Budgeted, Placed, Drained, Over, Terminated
  <2>3. Passed'
    BY <2>1 DEF HeadInv, Passed, Terminated
  <2> QED BY <2>2, <2>3 DEF HeadInv
<1> QED BY <1>1, HeadReads, HeadStops, HeadDrains DEF HsNext

(* The scan reads at most one chunk of its buffer more than it was allowed,  *)
(* holds no more than one capped record, and ends without a word only when   *)
(* no finished record of a normal length names a directory (fold_head).      *)
THEOREM ScanIsBoundedTheorem == HsSpec => []ScanIsBounded
<1>1. HeadInv => ScanIsBounded
  <2> SUFFICES ASSUME HeadInv PROVE ScanIsBounded
    OBVIOUS
  <2>1. /\ Len(lines) \in Nat /\ DOMAIN lines = 1 .. Len(lines)
        /\ \A i \in 1 .. Len(lines) : lines[i].len \in Nat
    BY LengthsAreNumbers DEF HeadInv, Counted
  <2>2. HsTypeOK
    BY <2>1 DEF HeadInv, Counted, Placed, HsTypeOK
  <2>3. BudgetIsHeld
    BY DEF HeadInv, Budgeted, BudgetIsHeld
  <2>4. MissIsSaid
    <3> SUFFICES ASSUME scan = "end", NEW i \in DOMAIN lines, lines[i].cwd
                 PROVE  lines[i].len > MaxRecord \/ ~Terminated(i)
      BY DEF MissIsSaid
    <3>1. CASE i < at
      BY <3>1 DEF HeadInv, Passed
    <3>2. CASE i >= at
      <4>1. at \in Nat /\ at <= Len(lines) /\ ~Terminated(at)
        BY <2>1, <3>2 DEF HeadInv, Counted, Over
      <4>2. i = at
        BY <2>1, <3>2, <4>1 DEF Terminated
      <4> QED BY <4>1, <4>2
    <3>3. i \in Nat /\ at \in Nat
      BY <2>1 DEF HeadInv, Counted
    <3> QED BY <3>1, <3>2, <3>3
  <2> QED BY <2>2, <2>3, <2>4 DEF ScanIsBounded
<1>2. HeadInv /\ [HsNext]_hsVars => HeadInv'
  BY HeadStep
<1> QED BY <1>1, <1>2, HeadInit, PTL DEF HsSpec


(* The library. Facts about lists of any length are proved by the least      *)
(* prefix for which they fail (LeastNat, UpTo).                              *)

LEMMA LeastNat ==
  ASSUME NEW S \in SUBSET Nat, S # {}
  PROVE  \E m \in S : \A n \in S : m <= n
<1> DEFINE R == OpToRel(<, Nat)
<1>1. PICK m \in S : \A n \in S : ~(<<n, m>> \in R)
  <2> HIDE DEF R
  <2>1. IsWellFoundedOn(R, Nat)
    BY NatLessThanWellFounded DEF R
  <2> QED BY <2>1, WFMin
<1>2. \A n \in S : ~(n < m)
  BY <1>1 DEF OpToRel
<1> QED BY <1>2

LEMMA UpTo ==
  ASSUME NEW m \in Nat, NEW S, 0 \in S, \A n \in 1..m : n - 1 \in S => n \in S
  PROVE  m \in S
<1> DEFINE T == {n \in 0..m : n \notin S}
<1>1. SUFFICES ASSUME T # {} PROVE FALSE
  OBVIOUS
<1>2. PICK n \in T : \A k \in T : n <= k
  <2>1. T \in SUBSET Nat OBVIOUS
  <2> HIDE DEF T
  <2> QED BY <1>1, <2>1, LeastNat
<1>3. n \in 1..m /\ n - 1 \in 0..m /\ ~(n <= n - 1) BY <1>2
<1> QED BY <1>2, <1>3

-----------------------------------------------------------------------------
(* What retain leaves of a list.                                             *)

IsWithout(f, q, out, m) ==
  f = [n \in 0 .. m |-> IF n = 0 THEN <<>>
                        ELSE IF q[n] \in out THEN f[n - 1] ELSE Append(f[n - 1], q[n])]

LEMMA WithoutExists ==
  ASSUME NEW q, NEW out, NEW m \in Nat
  PROVE  \E f : IsWithout(f, q, out, m)
<1> DEFINE S == {n \in 0..m : \E f : IsWithout(f, q, out, n)}
<1>1. 0 \in S
  <2>1. IsWithout([k \in 0..0 |-> <<>>], q, out, 0) BY DEF IsWithout
  <2> QED BY <2>1
<1>2. ASSUME NEW n \in 1..m, n - 1 \in S PROVE n \in S
  <2>1. PICK f : IsWithout(f, q, out, n - 1) BY <1>2
  <2> DEFINE new == IF q[n] \in out THEN f[n - 1] ELSE Append(f[n - 1], q[n])
             g == [k \in 0..n |-> IF k = n THEN new ELSE f[k]]
  <2>2. \A k \in 0..n : g[k] = IF k = 0 THEN <<>>
                               ELSE IF q[k] \in out THEN g[k - 1] ELSE Append(g[k - 1], q[k])
    <3> SUFFICES ASSUME NEW k \in 0..n
                 PROVE  g[k] = IF k = 0 THEN <<>>
                               ELSE IF q[k] \in out THEN g[k - 1] ELSE Append(g[k - 1], q[k])
      OBVIOUS
    <3>1. k # 0 => k - 1 \in 0..n /\ k - 1 # n /\ g[k - 1] = f[k - 1] OBVIOUS
    <3>2. CASE k = n BY <3>1, <3>2
    <3>3. CASE k # n
      <4>1. k \in 0..(n - 1) /\ g[k] = f[k] BY <3>3
      <4>2. f[k] = IF k = 0 THEN <<>>
                   ELSE IF q[k] \in out THEN f[k - 1] ELSE Append(f[k - 1], q[k])
        BY <2>1, <4>1 DEF IsWithout
      <4> QED BY <3>1, <4>1, <4>2
    <3> QED BY <3>2, <3>3
  <2>3. IsWithout(g, q, out, n)
    <3>1. g = [k \in 0..n |-> g[k]] OBVIOUS
    <3> HIDE DEF g
    <3> QED BY <2>2, <3>1 DEF IsWithout
  <2> QED BY <2>3
<1> HIDE DEF S
<1>3. m \in S BY <1>1, <1>2, UpTo
<1> QED BY <1>3 DEF S

(* What is out of the list is gone from it, in whatever number; all else     *)
(* stays.                                                                    *)
LeftOf(r, q, out, n, V) ==
  /\ r \in Seq(V) /\ Len(r) <= n
  /\ \A k \in DOMAIN r : r[k] \notin out /\ \E l \in 1..n : q[l] = r[k]
  /\ \A l \in 1..n : q[l] \notin out => \E k \in DOMAIN r : r[k] = q[l]

LEMMA LeftOfNext ==
  ASSUME NEW V, NEW q \in Seq(V), NEW out, NEW n \in 1..Len(q), NEW r, LeftOf(r, q, out, n - 1, V)
  PROVE  LeftOf(IF q[n] \in out THEN r ELSE Append(r, q[n]), q, out, n, V)
<1>1. CASE q[n] \in out
  <2>1. \A l \in 1..n : l = n \/ l \in 1..(n - 1) OBVIOUS
  <2>2. LeftOf(r, q, out, n, V) BY <1>1, <2>1 DEF LeftOf
  <2> QED BY <1>1, <2>2
<1>2. CASE q[n] \notin out
  <2>1. PICK s : s = Append(r, q[n]) OBVIOUS
  <2>2. r \in Seq(V) /\ q[n] \in V /\ Len(r) \in Nat /\ Len(r) <= n - 1 BY DEF LeftOf
  <2>3. /\ s \in Seq(V) /\ Len(s) = Len(r) + 1 /\ DOMAIN s = 1..(Len(r) + 1)
        /\ DOMAIN r = 1..Len(r)
        /\ s[Len(r) + 1] = q[n] /\ \A k \in 1..Len(r) : s[k] = r[k]
    BY <2>1, <2>2, AppendProperties
  <2>4. ASSUME NEW k \in DOMAIN s PROVE s[k] \notin out /\ \E l \in 1..n : q[l] = s[k]
    <3>1. CASE k = Len(r) + 1 BY <1>2, <2>3, <3>1
    <3>2. CASE k # Len(r) + 1
      <4>1. k \in DOMAIN r /\ s[k] = r[k] BY <2>2, <2>3, <3>2
      <4> QED BY <4>1 DEF LeftOf
    <3> QED BY <3>1, <3>2
  <2>5. ASSUME NEW l \in 1..n, q[l] \notin out PROVE \E k \in DOMAIN s : s[k] = q[l]
    <3>1. CASE l = n BY <2>2, <2>3, <3>1
    <3>2. CASE l # n
      <4>1. PICK k \in DOMAIN r : r[k] = q[l] BY <2>5, <3>2 DEF LeftOf
      <4> QED BY <2>2, <2>3, <4>1
    <3> QED BY <3>1, <3>2
  <2>6. LeftOf(s, q, out, n, V) BY <2>2, <2>3, <2>4, <2>5 DEF LeftOf
  <2> QED BY <1>2, <2>1, <2>6
<1> QED BY <1>1, <1>2

LEMMA WithoutFact ==
  ASSUME NEW V, NEW q \in Seq(V), NEW out
  PROVE  /\ Without(q, out) \in Seq(V) /\ Len(Without(q, out)) <= Len(q)
         /\ Range(Without(q, out)) = Range(q) \ out
<1> DEFINE f == CHOOSE g : IsWithout(g, q, out, Len(q))
<1>1. IsWithout(f, q, out, Len(q))
  <2>1. Len(q) \in Nat OBVIOUS
  <2> QED BY <2>1, WithoutExists
<1>2. Without(q, out) = f[Len(q)] BY DEF Without, IsWithout
<1> HIDE DEF f
<1> DEFINE S == {n \in 0..Len(q) : LeftOf(f[n], q, out, n, V)}
<1>3. f[0] = <<>> /\ \A n \in 1..Len(q) : f[n] = IF q[n] \in out THEN f[n - 1] ELSE Append(f[n - 1], q[n])
  <2>1. Len(q) \in Nat OBVIOUS
  <2>2. \A n \in 0..Len(q) : f[n] = IF n = 0 THEN <<>>
                                   ELSE IF q[n] \in out THEN f[n - 1] ELSE Append(f[n - 1], q[n])
    BY <1>1 DEF IsWithout
  <2>3. \A n \in 1..Len(q) : n \in 0..Len(q) /\ n # 0 BY <2>1
  <2> QED BY <2>1, <2>2, <2>3
<1>4. 0 \in S
  <2>1. LeftOf(<<>>, q, out, 0, V) BY DEF LeftOf
  <2> QED BY <1>3, <2>1
<1>5. ASSUME NEW n \in 1..Len(q), n - 1 \in S PROVE n \in S
  BY <1>3, <1>5, LeftOfNext
<1>6. Len(q) \in S
  <2> HIDE DEF S
  <2>1. Len(q) \in Nat OBVIOUS
  <2> QED BY <1>4, <1>5, <2>1, UpTo
<1>7. LeftOf(Without(q, out), q, out, Len(q), V) BY <1>2, <1>6
<1> QED BY <1>7 DEF LeftOf, Range

(* What a dismissal makes of the list.                                       *)
LEMMA DismissedFact ==
  ASSUME NEW list \in Seq(Uuids), NEW u \in Uuids, NEW alive
  PROVE  LET d == Dismissed(list, u, alive) IN
         /\ d \in Seq(Uuids) /\ Len(d) <= HiddenCap
         /\ Range(d) \subseteq Range(list) \cup {u}
         /\ Range(d) \subseteq alive \/ Range(d) = Range(list) \cup {u}
<1>20. PICK kept : kept = Unhidden(list, u) OBVIOUS
<1>1. kept \in Seq(Uuids) /\ Range(kept) = Range(list) \ {u} BY <1>20, WithoutFact DEF Unhidden
<1>21. PICK all : all = Append(kept, u) OBVIOUS
<1>2. all \in Seq(Uuids) /\ Range(all) = Range(list) \cup {u}
  <2>1. /\ all \in Seq(Uuids) /\ Len(all) = Len(kept) + 1 /\ all[Len(kept) + 1] = u
        /\ \A k \in 1..Len(kept) : all[k] = kept[k]
    BY <1>1, <1>21, AppendProperties
  <2>2. Range(all) = Range(kept) \cup {u} BY <1>1, <2>1 DEF Range
  <2> QED BY <1>1, <2>1, <2>2
<1>22. PICK rest : rest = Without(all, Range(all) \ alive) OBVIOUS
<1>3. rest \in Seq(Uuids) /\ Range(rest) = Range(all) \cap alive
  <2>1. PICK out : out = Range(all) \ alive OBVIOUS
  <2>2. rest = Without(all, out) BY <1>22, <2>1
  <2>3. all \in Seq(Uuids) BY <1>2
  <2>4. rest \in Seq(Uuids) /\ Range(rest) = Range(all) \ out BY <2>2, <2>3, WithoutFact
  <2> QED BY <2>1, <2>4
<1>4. HiddenCap \in Nat /\ HiddenCap > 0 BY SessionLibraryAssumption
<1>0. Len(rest) \in Nat /\ DOMAIN rest = 1..Len(rest) /\ \A k \in 1..Len(rest) : rest[k] \in Uuids
  BY <1>3
<1>5. /\ Capped(rest) \in Seq(Uuids) /\ Len(Capped(rest)) <= HiddenCap
      /\ Range(Capped(rest)) \subseteq Range(rest)
  <2>1. CASE Len(rest) <= HiddenCap BY <1>0, <1>3, <1>4, <2>1 DEF Capped
  <2>2. CASE Len(rest) > HiddenCap
    <3>1. PICK m \in Nat : m = Len(rest) - HiddenCap + 1 BY <1>0, <1>4, <2>2
    <3>2. PICK n \in Nat : n = Len(rest) BY <1>0
    <3>3. \A k \in m..n : rest[k] \in Uuids BY <1>0, <2>2, <3>1, <3>2, <1>4
    <3>4. /\ SubSeq(rest, m, n) \in Seq(Uuids)
          /\ Len(SubSeq(rest, m, n)) = IF m <= n THEN n - m + 1 ELSE 0
          /\ \A k \in 1..(n - m + 1) : SubSeq(rest, m, n)[k] = rest[m + k - 1]
      BY <3>3, SubSeqProperties
    <3>5. Capped(rest) = SubSeq(rest, m, n) BY <2>2, <3>1, <3>2 DEF Capped, LastOf
    <3>6. n - m + 1 = HiddenCap /\ \A k \in 1..HiddenCap : m + k - 1 \in 1..n
      BY <1>4, <2>2, <3>1, <3>2
    <3>7. Len(SubSeq(rest, m, n)) <= HiddenCap BY <3>4, <3>6, <1>4
    <3>8. ASSUME NEW x \in Range(SubSeq(rest, m, n)) PROVE x \in Range(rest)
      <4>1. PICK k \in 1..HiddenCap : x = SubSeq(rest, m, n)[k]
        <5>1. PICK s : s = SubSeq(rest, m, n) OBVIOUS
        <5>2. s \in Seq(Uuids) /\ Len(s) = HiddenCap /\ x \in Range(s) BY <3>4, <3>6, <3>8, <1>4, <5>1
        <5> QED BY <5>1, <5>2 DEF Range
      <4> QED BY <1>0, <3>2, <3>4, <3>6, <4>1 DEF Range
    <3> QED BY <3>4, <3>5, <3>7, <3>8
  <2> QED BY <1>3, <1>4, <2>1, <2>2
<1>6. Dismissed(list, u, alive) = IF Len(all) > HiddenCap THEN Capped(rest) ELSE all
  BY <1>20, <1>21, <1>22 DEF Dismissed
<1>7. CASE Len(all) > HiddenCap
  <2>1. Dismissed(list, u, alive) = Capped(rest) BY <1>6, <1>7
  <2> QED BY <2>1, <1>2, <1>3, <1>5
<1>8. CASE ~(Len(all) > HiddenCap)
  <2>1. Dismissed(list, u, alive) = all BY <1>6, <1>8
  <2>2. Len(all) <= HiddenCap BY <1>2, <1>4, <1>8
  <2> QED BY <2>1, <2>2, <1>2
<1> QED BY <1>7, <1>8

-----------------------------------------------------------------------------
(* The library of saved sessions: the types.                                 *)

Bodies == 0 .. MaxChanges
Saves == [ver : Bodies, len : {0} \cup {SizeOf[v] : v \in Bodies}, at : Nat]
Threads == [pc : {"off", "tail", "built", "write", "meta"}, stop : BOOLEAN, dirty : BOOLEAN,
            ver : Bodies, snap : Bodies]
Deletes == [pc : {"idle", "body", "meta", "side", "hide", "listed", "blind"},
            uuid : Uuids \cup {""}, read : Seq(Uuids)]
Rows == [uuid : Uuids, ver : Bodies, seen : Bodies]
Heals == [uuid : Uuids, ver : Bodies]
Listings == [pc : {"idle", "next", "entry"}, left : SUBSET Uuids,
          entry : [uuid : Uuids \cup {""}, seen : Saves], heals : Seq(Heals), rows : Seq(Rows)]

LibTyped ==
  /\ trans \subseteq Uuids /\ panels \subseteq Uuids
  /\ clock \in Nat /\ faults \in Nat /\ opens \in Nat /\ clock + faults <= MaxTrouble
  /\ body \in [Uuids -> Saves] /\ meta \in [Uuids -> Saves] /\ side \in [Uuids -> SUBSET Sidecars]
  /\ thread \in [Uuids -> Threads] /\ job \in [Windows -> Deletes]
  /\ \A w \in Windows : job[w].pc # "idle" => job[w].uuid \in Uuids
  /\ hidden \in Seq(Uuids) /\ Len(hidden) <= HiddenCap /\ flock \subseteq Windows
  /\ look \in Listings /\ (look.pc = "entry" => look.entry.uuid \in Uuids)
  /\ deleted \subseteq Uuids

(* A file is of no later change than the last snapshot, and that of no later *)
(* one than the last.                                                        *)
Snapped == \A u \in Uuids : /\ thread[u].snap <= thread[u].ver
                            /\ body[u].ver <= thread[u].snap /\ meta[u].ver <= thread[u].snap
HealsSnapped == \A i \in DOMAIN look.heals : look.heals[i].ver <= thread[look.heals[i].uuid].snap

(* Who reads the list of dismissals, or fails to, writes it before anybody   *)
(* else.                                                                     *)
Locked ==
  \A w \in Windows : job[w].pc \in {"listed", "blind"} =>
    flock = {w} /\ job[w].read = IF job[w].pc = "listed" THEN hidden ELSE <<>>

(* A deleted session has no writer that is not known to be late, and what is *)
(* left of it a delete still has before it.                                  *)
Has(u, pcs) == \E w \in Windows : job[w].uuid = u /\ job[w].pc \in pcs
Doomed ==
  \A u \in deleted :
    /\ thread[u].stop
    /\ u \in panels => Has(u, {"body", "meta", "side", "hide", "listed", "blind"})
    /\ u \notin late => /\ thread[u].pc \notin {"write", "meta"}
                        /\ body[u] # NoFile => Has(u, {"body"})
                        /\ meta[u] # NoFile => Has(u, {"body", "meta"})
                        /\ side[u] # {} => Has(u, {"body", "meta", "side"})

KeptInv == LibTyped /\ Snapped /\ HealsSnapped /\ Locked /\ DismissalsKept /\ Doomed

LEMMA NoFileIs == NoFile \in Saves /\ NoFile.ver = 0
<1>1. 0 \in Bodies BY SessionLibraryAssumption DEF Bodies
<1> QED BY <1>1 DEF NoFile, Saves

LEMMA FileIs == ASSUME LibTyped, NEW v \in Bodies PROVE File(v) \in Saves /\ File(v).ver = v
BY DEF File, Saves, LibTyped

LEMMA RestIs == Rest \in Listings /\ Rest.pc = "idle"
<1>1. [uuid |-> "", seen |-> NoFile] \in [uuid : Uuids \cup {""}, seen : Saves] BY NoFileIs
<1>2. <<>> \in Seq(Heals) /\ <<>> \in Seq(Rows) OBVIOUS
<1> QED BY <1>1, <1>2 DEF Rest, Listings

LEMMA KeptInit == LibInit => KeptInv
<1> SUFFICES ASSUME LibInit PROVE KeptInv
  OBVIOUS
<1>0. 0 \in Bodies BY SessionLibraryAssumption DEF Bodies
<1>1. Off \in Threads BY <1>0 DEF Off, Threads
<1>2. Idle \in Deletes BY DEF Idle, Deletes
<1>3. Rest \in Listings BY RestIs
<1>4. LibTyped
  <2>1. HiddenCap \in Nat /\ MaxTrouble \in Nat BY SessionLibraryAssumption
  <2>2. Idle.pc = "idle" /\ Rest.pc = "idle" BY DEF Idle, Rest
  <2>3. <<>> \in Seq(Uuids) /\ Len(<<>>) = 0 OBVIOUS
  <2> QED BY <1>1, <1>2, <1>3, <2>1, <2>2, <2>3, NoFileIs DEF LibInit, LibTyped
<1>5. Snapped
  <2>1. \A u \in Uuids : thread[u] = Off /\ body[u] = NoFile /\ meta[u] = NoFile BY DEF LibInit
  <2>2. Off.snap = 0 /\ Off.ver = 0 BY DEF Off
  <2>3. \A u \in Uuids : /\ thread[u].snap = 0 /\ thread[u].ver = 0
                         /\ body[u].ver = 0 /\ meta[u].ver = 0
    BY <2>1, <2>2, NoFileIs
  <2>5. ASSUME NEW u \in Uuids
        PROVE  /\ thread[u].snap <= thread[u].ver
               /\ body[u].ver <= thread[u].snap /\ meta[u].ver <= thread[u].snap
    <3>1. PICK s, v, b, m \in Nat : s = thread[u].snap /\ v = thread[u].ver /\ b = body[u].ver /\ m = meta[u].ver
      BY <2>3
    <3>2. s = 0 /\ v = 0 /\ b = 0 /\ m = 0 BY <2>3, <3>1
    <3>3. s <= v /\ b <= s /\ m <= s BY <3>2
    <3> QED BY <3>1, <3>3
  <2> QED BY <2>5 DEF Snapped
<1>6. HealsSnapped
  <2>1. PICK h : h = <<>> OBVIOUS
  <2>2. DOMAIN h = {}
    <3>1. h \in Seq(Uuids) /\ Len(h) = 0 BY <2>1
    <3> QED BY <3>1
  <2>3. look.heals = h BY <2>1 DEF LibInit, Rest
  <2> QED BY <2>2, <2>3 DEF HealsSnapped
<1>7. Locked BY DEF LibInit, Locked, Idle
<1>8. DismissalsKept BY DEF LibInit, DismissalsKept, Range
<1>9. Doomed BY DEF LibInit, Doomed
<1> QED BY <1>4, <1>5, <1>6, <1>7, <1>8, <1>9 DEF KeptInv

-----------------------------------------------------------------------------
(* What the steps do to a thread, a job and a file.                          *)

Others(f, g, u) == \A v \in Uuids \ {u} : g[v] = f[v]
ThreadGoes(u, pc, stop, dirty, ver, snap) ==
  /\ thread' \in [Uuids -> Threads] /\ Others(thread, thread', u)
  /\ thread'[u] = [pc |-> pc, stop |-> stop, dirty |-> dirty, ver |-> ver, snap |-> snap]
FileGoes(f, g, u, x) == g \in [Uuids -> Saves] /\ Others(f, g, u) /\ g[u] = x

LEMMA ThreadIs ==
  ASSUME LibTyped, NEW u \in Uuids
  PROVE  thread[u] = [pc |-> thread[u].pc, stop |-> thread[u].stop, dirty |-> thread[u].dirty,
                      ver |-> thread[u].ver, snap |-> thread[u].snap]
BY DEF LibTyped, Threads

LEMMA FileSet ==
  ASSUME NEW f \in [Uuids -> Saves], NEW g, NEW u \in Uuids, NEW x \in Saves, g = [f EXCEPT ![u] = x]
  PROVE  FileGoes(f, g, u, x)
BY DEF FileGoes, Others

LEMMA ThreadSet ==
  ASSUME LibTyped, NEW u \in Uuids, NEW t \in Threads, thread' = [thread EXCEPT ![u] = t]
  PROVE  ThreadGoes(u, t.pc, t.stop, t.dirty, t.ver, t.snap)
BY DEF LibTyped, ThreadGoes, Others, Threads

(* The steps of a session.                                                   *)
LEMMA SessionSteps ==
  ASSUME LibTyped, NEW u \in Uuids
  PROVE  LET t == thread[u] IN
    /\ Open(u) => ThreadGoes(u, "tail", FALSE, t.dirty, t.ver, t.snap) /\ t.pc = "off"
    /\ Change(u) => ThreadGoes(u, "tail", FALSE, TRUE, t.ver + 1, t.snap) /\ t.pc = "tail" /\ ~t.stop
    /\ BuildSnapshot(u) => ThreadGoes(u, "built", FALSE, TRUE, t.ver, t.ver) /\ t.pc = "tail" /\ ~t.stop
    /\ StopReread(u) => ThreadGoes(u, IF t.stop THEN "tail" ELSE "write", t.stop, t.dirty, t.ver, t.snap)
    /\ SaveBody(u) => /\ t.pc = "write"
                      /\ \/ FileGoes(body, body', u, File(t.snap))
                            /\ ThreadGoes(u, "meta", t.stop, FALSE, t.ver, t.snap)
                         \/ body' = body /\ ThreadGoes(u, "tail", t.stop, t.dirty, t.ver, t.snap)
    /\ SaveMeta(u) => /\ t.pc = "meta" /\ ThreadGoes(u, "tail", t.stop, t.dirty, t.ver, t.snap)
                      /\ FileGoes(meta, meta', u, File(t.snap)) \/ meta' = meta
    /\ ThreadEnds(u) => ThreadGoes(u, "off", t.stop, FALSE, t.ver, t.snap) /\ t.pc = "tail"
    /\ CloseTab(u) => ThreadGoes(u, t.pc, TRUE, t.dirty, t.ver, t.snap)
    /\ \A w \in Windows : ForceClose(w, u) => ThreadGoes(u, t.pc, TRUE, t.dirty, t.ver, t.snap)
<1> DEFINE t == thread[u]
<1>1. /\ t \in Threads /\ t.ver \in Bodies /\ t.snap \in Bodies /\ t.stop \in BOOLEAN /\ t.dirty \in BOOLEAN
      /\ t.pc \in {"off", "tail", "built", "write", "meta"}
      /\ t = [pc |-> t.pc, stop |-> t.stop, dirty |-> t.dirty, ver |-> t.ver, snap |-> t.snap]
  BY DEF LibTyped, Threads
<1>2. MaxChanges \in Nat BY SessionLibraryAssumption
<1>3. ASSUME Open(u) PROVE ThreadGoes(u, "tail", FALSE, t.dirty, t.ver, t.snap) /\ t.pc = "off"
  BY <1>1, <1>3 DEF Open, LibTyped, ThreadGoes, Others, Threads
<1>4. ASSUME Change(u) PROVE ThreadGoes(u, "tail", FALSE, TRUE, t.ver + 1, t.snap) /\ t.pc = "tail" /\ ~t.stop
  <2>1. PICK v \in Bodies : v = t.ver + 1 BY <1>1, <1>2, <1>4 DEF Change, Bodies
  <2>2. thread' = [thread EXCEPT ![u].ver = v, ![u].dirty = TRUE] BY <2>1, <1>4 DEF Change
  <2>3. t.pc = "tail" /\ t.stop = FALSE BY <1>1, <1>4 DEF Change
  <2>4. ThreadGoes(u, "tail", FALSE, TRUE, v, t.snap)
    BY <1>1, <2>2, <2>3 DEF LibTyped, ThreadGoes, Others, Threads
  <2> QED BY <2>1, <2>3, <2>4
<1>5. ASSUME BuildSnapshot(u) PROVE ThreadGoes(u, "built", FALSE, TRUE, t.ver, t.ver) /\ t.pc = "tail" /\ ~t.stop
  BY <1>1, <1>5 DEF BuildSnapshot, LibTyped, ThreadGoes, Others, Threads
<1>6. ASSUME StopReread(u) PROVE ThreadGoes(u, IF t.stop THEN "tail" ELSE "write", t.stop, t.dirty, t.ver, t.snap)
  BY <1>1, <1>6 DEF StopReread, SetPc, LibTyped, ThreadGoes, Others, Threads
<1>7. File(t.snap) \in Saves BY <1>1, FileIs
<1>8. ASSUME SaveBody(u)
      PROVE  /\ t.pc = "write"
             /\ \/ FileGoes(body, body', u, File(t.snap)) /\ ThreadGoes(u, "meta", t.stop, FALSE, t.ver, t.snap)
                \/ body' = body /\ ThreadGoes(u, "tail", t.stop, t.dirty, t.ver, t.snap)
  <2>1. CASE body' = [body EXCEPT ![u] = File(t.snap)] /\ thread' = [thread EXCEPT ![u].pc = "meta", ![u].dirty = FALSE]
    <3>1. ThreadGoes(u, "meta", t.stop, FALSE, t.ver, t.snap)
      BY <1>1, <2>1 DEF LibTyped, ThreadGoes, Others, Threads
    <3>2. FileGoes(body, body', u, File(t.snap)) BY <1>7, <2>1, FileSet DEF LibTyped
    <3> QED BY <1>8, <3>1, <3>2 DEF SaveBody
  <2>2. CASE SetPc(u, "tail") /\ body' = body
    <3>1. ThreadGoes(u, "tail", t.stop, t.dirty, t.ver, t.snap)
      BY <1>1, <2>2 DEF SetPc, LibTyped, ThreadGoes, Others, Threads
    <3> QED BY <1>8, <2>2, <3>1 DEF SaveBody
  <2> QED BY <1>8, <2>1, <2>2 DEF SaveBody
<1>9. ASSUME SaveMeta(u)
      PROVE  /\ t.pc = "meta" /\ ThreadGoes(u, "tail", t.stop, t.dirty, t.ver, t.snap)
             /\ FileGoes(meta, meta', u, File(t.snap)) \/ meta' = meta
  <2>1. t.pc = "meta" /\ SetPc(u, "tail") BY <1>9 DEF SaveMeta
  <2>2. ThreadGoes(u, "tail", t.stop, t.dirty, t.ver, t.snap)
    BY <1>1, <2>1 DEF SetPc, LibTyped, ThreadGoes, Others, Threads
  <2>3. meta' = [meta EXCEPT ![u] = File(t.snap)] \/ meta' = meta BY <1>9 DEF SaveMeta
  <2>4. FileGoes(meta, meta', u, File(t.snap)) \/ meta' = meta BY <1>7, <2>3, FileSet DEF LibTyped
  <2> QED BY <2>1, <2>2, <2>4
<1>10. ASSUME ThreadEnds(u) PROVE ThreadGoes(u, "off", t.stop, FALSE, t.ver, t.snap) /\ t.pc = "tail"
  BY <1>1, <1>10 DEF ThreadEnds, LibTyped, ThreadGoes, Others, Threads
<1>11. ASSUME thread' = [thread EXCEPT ![u].stop = TRUE]
       PROVE  ThreadGoes(u, t.pc, TRUE, t.dirty, t.ver, t.snap)
  BY <1>1, <1>11 DEF LibTyped, ThreadGoes, Others, Threads
<1>12. CloseTab(u) => ThreadGoes(u, t.pc, TRUE, t.dirty, t.ver, t.snap) BY <1>11 DEF CloseTab
<1>13. \A w \in Windows : ForceClose(w, u) => ThreadGoes(u, t.pc, TRUE, t.dirty, t.ver, t.snap)
  BY <1>11 DEF ForceClose
<1> QED BY <1>3, <1>4, <1>5, <1>6, <1>8, <1>9, <1>10, <1>12, <1>13

LEMMA TypedSessions ==
  ASSUME LibTyped, NEW u \in Uuids,
         Open(u) \/ Change(u) \/ BuildSnapshot(u) \/ StopReread(u) \/ SaveBody(u) \/ SaveMeta(u)
         \/ ThreadEnds(u) \/ CloseTab(u)
  PROVE  LibTyped'
<1>1. /\ thread' \in [Uuids -> Threads]
      /\ body' \in [Uuids -> Saves] /\ meta' \in [Uuids -> Saves] /\ side' = side
  <2>1. thread' \in [Uuids -> Threads] BY SessionSteps DEF ThreadGoes
  <2>2. body' \in [Uuids -> Saves]
    <3>1. CASE SaveBody(u) BY <3>1, SessionSteps DEF FileGoes, LibTyped
    <3>2. CASE ~SaveBody(u)
      BY <3>2 DEF LibTyped, Open, Change, BuildSnapshot, StopReread, SaveMeta, ThreadEnds, CloseTab, fileVars
    <3> QED BY <3>1, <3>2
  <2>3. meta' \in [Uuids -> Saves]
    <3>1. CASE SaveMeta(u) BY <3>1, SessionSteps DEF FileGoes, LibTyped
    <3>2. CASE ~SaveMeta(u)
      BY <3>2 DEF LibTyped, Open, Change, BuildSnapshot, StopReread, SaveBody, ThreadEnds, CloseTab, fileVars
    <3> QED BY <3>1, <3>2
  <2>4. side' = side
    BY DEF Open, Change, BuildSnapshot, StopReread, SaveBody, SaveMeta, ThreadEnds, CloseTab, fileVars
  <2> QED BY <2>1, <2>2, <2>3, <2>4
<1>2. trans' \subseteq Uuids /\ panels' \subseteq Uuids /\ deleted' \subseteq deleted
  BY DEF LibTyped, Open, Change, BuildSnapshot, StopReread, SaveBody, SaveMeta, ThreadEnds, CloseTab, listVars
<1>3. clock' = clock /\ opens' \in Nat /\ faults' \in Nat /\ clock' + faults' <= MaxTrouble
  <2>1. MaxTrouble \in Nat BY SessionLibraryAssumption
  <2>2. clock' = clock
    BY DEF Open, Change, BuildSnapshot, StopReread, SaveBody, SaveMeta, ThreadEnds, CloseTab
  <2>3. opens' = opens \/ opens' = opens + 1
    BY DEF Open, Change, BuildSnapshot, StopReread, SaveBody, SaveMeta, ThreadEnds, CloseTab
  <2>4. faults' = faults \/ Fault
    BY DEF Open, Change, BuildSnapshot, StopReread, SaveBody, SaveMeta, ThreadEnds, CloseTab
  <2>5. clock \in Nat /\ faults \in Nat /\ opens \in Nat /\ clock + faults <= MaxTrouble BY DEF LibTyped
  <2>6. opens' \in Nat BY <2>3, <2>5
  <2> QED BY <2>1, <2>2, <2>4, <2>5, <2>6 DEF Fault
<1>4. job' = job /\ flock' = flock /\ look' = look
  BY DEF Open, Change, BuildSnapshot, StopReread, SaveBody, SaveMeta, ThreadEnds, CloseTab, listVars
<1>5. hidden' \in Seq(Uuids) /\ Len(hidden') <= HiddenCap
  <2>1. hidden' = hidden \/ hidden' = Unhidden(hidden, u)
    BY DEF Open, Change, BuildSnapshot, StopReread, SaveBody, SaveMeta, ThreadEnds, CloseTab, listVars
  <2>2. hidden \in Seq(Uuids) /\ Len(hidden) <= HiddenCap BY DEF LibTyped
  <2>3. CASE hidden' = Unhidden(hidden, u)
    <3>1. PICK h : h = Unhidden(hidden, u) OBVIOUS
    <3>2. h \in Seq(Uuids) /\ Len(h) <= Len(hidden) BY <2>2, <3>1, WithoutFact DEF Unhidden
    <3>3. HiddenCap \in Nat BY SessionLibraryAssumption
    <3>4. Len(h) <= HiddenCap BY <2>2, <3>2, <3>3
    <3> QED BY <2>3, <3>1, <3>2, <3>4
  <2> QED BY <2>1, <2>2, <2>3
<1> QED BY <1>1, <1>2, <1>3, <1>4, <1>5 DEF LibTyped

(* A delete that got the lock: it has the list, or none.                     *)
LEMMA ListTaken ==
  ASSUME LibTyped, NEW w \in Windows, LockList(w), ~(Fails(w) /\ UNCHANGED flock)
  PROVE  /\ flock = {} /\ flock' = {w} /\ UNCHANGED <<panels, deleted>>
         /\ faults' = faults \/ Fault
         /\ job' \in [Windows -> Deletes] /\ \A v \in Windows : v # w => job'[v] = job[v]
         /\ job'[w].uuid = job[w].uuid /\ job'[w].pc \in {"listed", "blind"}
         /\ job'[w].read = IF job'[w].pc = "listed" THEN hidden ELSE <<>>
<1>1. flock = {} /\ flock' = flock \cup {w} /\ UNCHANGED <<panels, deleted>> BY DEF LockList
<1>2. job \in [Windows -> Deletes] /\ job[w] \in Deletes BY DEF LibTyped
<1>3. hidden \in Seq(Uuids) /\ <<>> \in Seq(Uuids) BY DEF LibTyped
<1>4. CASE job' = [job EXCEPT ![w].pc = "listed", ![w].read = hidden] /\ UNCHANGED faults
  <2>1. PICK j : j = [pc |-> "listed", uuid |-> job[w].uuid, read |-> hidden] OBVIOUS
  <2>2. job' = [job EXCEPT ![w] = j]
    <3>1. PICK x \in Deletes : x = job[w] BY <1>2
    <3>2. PICK y : y = [x EXCEPT !.pc = "listed"] OBVIOUS
    <3>3. [x EXCEPT !.pc = "listed", !.read = hidden] = j
      <4>1. x = [pc |-> x.pc, uuid |-> x.uuid, read |-> x.read] BY DEF Deletes
      <4>2. y = [pc |-> "listed", uuid |-> x.uuid, read |-> x.read] BY <3>2, <4>1
      <4>3. [y EXCEPT !.read = hidden] = j BY <2>1, <3>1, <4>2
      <4> QED BY <3>2, <4>3
    <3>4. job' = [job EXCEPT ![w] = [job[w] EXCEPT !.pc = "listed", !.read = hidden]] BY <1>4
    <3> QED BY <3>1, <3>3, <3>4
  <2>3. j \in Deletes BY <1>2, <1>3, <2>1 DEF Deletes
  <2>4. job'[w] = j BY <1>2, <2>2
  <2>5. job' \in [Windows -> Deletes] /\ \A v \in Windows : v # w => job'[v] = job[v] BY <1>2, <2>2, <2>3
  <2> QED BY <1>1, <1>4, <2>1, <2>4, <2>5
<1>5. CASE job' = [job EXCEPT ![w].pc = "blind", ![w].read = <<>>] /\ Fault
  <2>1. PICK j : j = [pc |-> "blind", uuid |-> job[w].uuid, read |-> <<>>] OBVIOUS
  <2>2. job' = [job EXCEPT ![w] = j]
    <3>1. PICK x \in Deletes : x = job[w] BY <1>2
    <3>2. PICK y : y = [x EXCEPT !.pc = "blind"] OBVIOUS
    <3>3. [x EXCEPT !.pc = "blind", !.read = <<>>] = j
      <4>1. x = [pc |-> x.pc, uuid |-> x.uuid, read |-> x.read] BY DEF Deletes
      <4>2. y = [pc |-> "blind", uuid |-> x.uuid, read |-> x.read] BY <3>2, <4>1
      <4>3. [y EXCEPT !.read = <<>>] = j BY <2>1, <3>1, <4>2
      <4> QED BY <3>2, <4>3
    <3>4. job' = [job EXCEPT ![w] = [job[w] EXCEPT !.pc = "blind", !.read = <<>>]] BY <1>5
    <3> QED BY <3>1, <3>3, <3>4
  <2>3. j \in Deletes BY <1>2, <1>3, <2>1 DEF Deletes
  <2>4. job'[w] = j BY <1>2, <2>2
  <2>5. job' \in [Windows -> Deletes] /\ \A v \in Windows : v # w => job'[v] = job[v] BY <1>2, <2>2, <2>3
  <2> QED BY <1>1, <1>5, <2>1, <2>4, <2>5
<1> QED BY <1>4, <1>5 DEF LockList

LEMMA TypedDelete ==
  ASSUME LibTyped, NEW w \in Windows,
         (\E u \in Uuids : ForceClose(w, u)) \/ DeleteFile(w) \/ LockList(w) \/ Hide(w)
  PROVE  LibTyped'
<1>0. MaxTrouble \in Nat /\ HiddenCap \in Nat BY SessionLibraryAssumption
<1>1. clock \in Nat /\ faults \in Nat /\ opens \in Nat /\ clock + faults <= MaxTrouble BY DEF LibTyped
<1>2. job \in [Windows -> Deletes] /\ Idle \in Deletes /\ Idle.pc = "idle" 
  <2>1. <<>> \in Seq(Uuids) OBVIOUS
  <2> QED BY <2>1 DEF LibTyped, Idle, Deletes
<1>3. ASSUME NEW u \in Uuids, ForceClose(w, u) PROVE LibTyped'
  <2>1. thread' \in [Uuids -> Threads] BY <1>3, SessionSteps DEF ThreadGoes
  <2>2. PICK j : j = [pc |-> "body", uuid |-> u, read |-> <<>>] OBVIOUS
  <2>3. j \in Deletes /\ j.uuid \in Uuids
    <3>1. <<>> \in Seq(Uuids) OBVIOUS
    <3> QED BY <2>2, <3>1 DEF Deletes
  <2>4. job' = [job EXCEPT ![w] = j] BY <1>3, <2>2 DEF ForceClose
  <2>5. job' \in [Windows -> Deletes] /\ \A v \in Windows : job'[v].pc # "idle" => job'[v].uuid \in Uuids
    BY <2>3, <2>4 DEF LibTyped
  <2> QED BY <1>3, <2>1, <2>5 DEF LibTyped, ForceClose, fileVars
<1>4. job[w] \in Deletes BY <1>2
<1>5. ASSUME Answered(w)
      PROVE  /\ job' \in [Windows -> Deletes] /\ panels' \subseteq Uuids
             /\ \A v \in Windows : job'[v].pc # "idle" => job'[v].uuid \in Uuids
  BY <1>2, <1>5 DEF Answered, LibTyped
<1>6. ASSUME NEW pc \in {"meta", "side", "hide", "listed"}, SetJob(w, pc), job[w].pc # "idle"
      PROVE  /\ job' \in [Windows -> Deletes]
             /\ \A v \in Windows : job'[v].pc # "idle" => job'[v].uuid \in Uuids
  <2>1. PICK j : j = [pc |-> pc, uuid |-> job[w].uuid, read |-> job[w].read] OBVIOUS
  <2>2. job' = [job EXCEPT ![w] = j]
    <3>1. PICK p \in Deletes : p = job[w] BY <1>4
    <3>3. p = [pc |-> p.pc, uuid |-> p.uuid, read |-> p.read] BY DEF Deletes
    <3>4. [p EXCEPT !.pc = pc] = [pc |-> pc, uuid |-> p.uuid, read |-> p.read] BY <3>3
    <3>2. job' = [job EXCEPT ![w] = [job[w] EXCEPT !.pc = pc]] BY <1>6 DEF SetJob
    <3> QED BY <2>1, <3>1, <3>2, <3>4
  <2>3. j \in Deletes /\ j.uuid \in Uuids BY <1>4, <1>6, <2>1 DEF Deletes, LibTyped
  <2> QED BY <1>2, <2>2, <2>3 DEF LibTyped
<1>7. ASSUME DeleteFile(w) PROVE LibTyped'
  <2> DEFINE u == job[w].uuid
  <2>1. CASE Fails(w) /\ UNCHANGED fileVars
    BY <1>0, <1>1, <1>5, <1>7, <2>1 DEF DeleteFile, Fails, Fault, fileVars, LibTyped
  <2>2. CASE ~(Fails(w) /\ UNCHANGED fileVars)
    <3>1. /\ \E pc \in {"meta", "side", "hide"} : SetJob(w, pc) /\ job[w].pc # "idle"
          /\ body' = body \/ body' = [body EXCEPT ![u] = NoFile]
          /\ meta' = meta \/ meta' = [meta EXCEPT ![u] = NoFile]
          /\ side' = side \/ side' = [side EXCEPT ![u] = {}]
          /\ UNCHANGED <<panels, deleted, faults, trans, clock, thread, hidden, flock, look, opens>>
      BY <1>7, <2>2 DEF DeleteFile
    <3>2. job' \in [Windows -> Deletes] /\ \A v \in Windows : job'[v].pc # "idle" => job'[v].uuid \in Uuids
      BY <1>6, <3>1
    <3>3. body' \in [Uuids -> Saves] /\ meta' \in [Uuids -> Saves] /\ side' \in [Uuids -> SUBSET Sidecars]
      BY <3>1, NoFileIs DEF LibTyped
    <3> QED BY <3>1, <3>2, <3>3 DEF LibTyped
  <2> QED BY <2>1, <2>2
<1>8. ASSUME LockList(w) PROVE LibTyped'
  <2>1. CASE Fails(w) /\ UNCHANGED flock
    BY <1>0, <1>1, <1>5, <1>8, <2>1 DEF LockList, Fails, Fault, fileVars, LibTyped
  <2>2. CASE ~(Fails(w) /\ UNCHANGED flock)
    <3>2. /\ job' \in [Windows -> Deletes] /\ flock' \subseteq Windows
          /\ faults' \in Nat /\ clock + faults' <= MaxTrouble
      BY <1>0, <1>1, <1>8, <2>2, ListTaken DEF Fault
    <3>3. ASSUME NEW v \in Windows, job'[v].pc # "idle" PROVE job'[v].uuid \in Uuids
      <4>1. CASE v = w
        <5>1. job[w].pc = "hide" BY <1>8 DEF LockList
        <5> QED BY <1>8, <2>2, <4>1, <5>1, ListTaken DEF LibTyped
      <4>2. CASE v # w BY <1>8, <2>2, <3>3, <4>2, ListTaken DEF LibTyped
      <4> QED BY <4>1, <4>2
    <3> QED BY <1>8, <2>2, <3>2, <3>3, ListTaken DEF LibTyped, LockList, fileVars
  <2> QED BY <2>1, <2>2
<1>9. ASSUME Hide(w) PROVE LibTyped'
  <2>1. job[w].read \in Seq(Uuids) /\ job[w].uuid \in Uuids BY <1>4, <1>9 DEF Deletes, LibTyped, Hide
  <2>2. \E alive : hidden' = Dismissed(job[w].read, job[w].uuid, alive) BY <1>9 DEF Hide
  <2>3. hidden' \in Seq(Uuids) /\ Len(hidden') <= HiddenCap BY <2>1, <2>2, DismissedFact
  <2>4. /\ Answered(w) /\ flock' = flock \ {w}
        /\ faults' = faults \/ Fault
        /\ UNCHANGED <<trans, clock, fileVars, thread, deleted, look, opens>>
    BY <1>9 DEF Hide
  <2>5. faults' \in Nat /\ clock + faults' <= MaxTrouble BY <1>0, <1>1, <2>4 DEF Fault
  <2> QED BY <1>5, <2>3, <2>4, <2>5 DEF LibTyped, fileVars
<1> QED BY <1>3, <1>7, <1>8, <1>9

LEMMA TypedRest ==
  ASSUME LibTyped, Snapped, HealsSnapped,
         Stamp \/ (\E u \in Uuids : TranscriptGoes(u) \/ ListStats(u) \/ \E f \in Sidecars : WriteSidecar(u, f))
         \/ ListBegins \/ ListReads \/ ListHeals \/ ListEnds \/ UNCHANGED seVars
  PROVE  LibTyped'
<1>0. MaxTrouble \in Nat BY SessionLibraryAssumption
<1>1. ASSUME Stamp PROVE LibTyped'
  <2>1. clock' \in Nat /\ clock' + faults <= MaxTrouble BY <1>0, <1>1 DEF Stamp, LibTyped
  <2> QED BY <1>1, <2>1 DEF Stamp, LibTyped, fileVars, listVars
<1>2. ASSUME NEW u \in Uuids, TranscriptGoes(u) PROVE LibTyped'
  BY <1>2 DEF TranscriptGoes, LibTyped, fileVars, listVars
<1>3. ASSUME NEW u \in Uuids, NEW f \in Sidecars, WriteSidecar(u, f) PROVE LibTyped'
  <2>1. side' \in [Uuids -> SUBSET Sidecars] BY <1>3 DEF WriteSidecar, Replaced, LibTyped
  <2> QED BY <1>3, <2>1 DEF WriteSidecar, LibTyped, listVars
<1>4. look \in Listings BY DEF LibTyped
<1>5. ASSUME look' \in Listings, look'.pc = "entry" => look'.entry.uuid \in Uuids,
             UNCHANGED <<trans, clock, fileVars, thread, panels, job, listVars, late, opens, faults>>
      PROVE  LibTyped'
  BY <1>5 DEF LibTyped, fileVars, listVars
<1>6. Rest \in Listings /\ Rest.pc = "idle" BY RestIs
<1>7. ASSUME ListBegins PROVE LibTyped'
  <2>1. PICK r \in Listings : r = Rest BY <1>6
  <2>2. Saved \subseteq Uuids BY DEF Saved
  <2>3. look' = [r EXCEPT !.pc = "next", !.left = Saved] BY <1>7, <2>1 DEF ListBegins
  <2>4. look' \in Listings /\ look'.pc = "next" BY <2>2, <2>3 DEF Listings
  <2> QED BY <1>5, <1>7, <2>4 DEF ListBegins
<1>8. ASSUME NEW u \in Uuids, ListStats(u) PROVE LibTyped'
  <2>1. PICK e : e = [uuid |-> u, seen |-> body[u]] OBVIOUS
  <2>2. e \in [uuid : Uuids \cup {""}, seen : Saves] /\ e.uuid \in Uuids BY <2>1 DEF LibTyped
  <2>3. PICK pc \in {"next", "entry"} : pc = IF body[u] = NoFile THEN "next" ELSE "entry" OBVIOUS
  <2>4. look' = [look EXCEPT !.left = @ \ {u}, !.entry = e, !.pc = pc] BY <1>8, <2>1, <2>3 DEF ListStats
  <2>5. look' \in Listings /\ look'.entry = e BY <1>4, <2>2, <2>4 DEF Listings
  <2> QED BY <1>5, <1>8, <2>2, <2>5 DEF ListStats
<1>9. ASSUME ListReads PROVE LibTyped'
  <2>1. PICK u \in Uuids : u = look.entry.uuid BY <1>9 DEF ListReads, LibTyped
  <2>2. PICK seen \in Saves : seen = look.entry.seen BY <1>4 DEF Listings
  <2>3. /\ seen.ver \in Bodies /\ meta[u].ver \in Bodies /\ body[u].ver \in Bodies
        /\ look.rows \in Seq(Rows) /\ look.heals \in Seq(Heals)
    BY <1>4, <2>2 DEF LibTyped, Saves, Listings
  <2>4. PICK a : a = [uuid |-> u, ver |-> meta[u].ver, seen |-> seen.ver] OBVIOUS
  <2>5. PICK b : b = [uuid |-> u, ver |-> body[u].ver, seen |-> seen.ver] OBVIOUS
  <2>6. PICK c : c = [uuid |-> u, ver |-> body[u].ver] OBVIOUS
  <2>7. a \in Rows /\ b \in Rows /\ c \in Heals BY <2>3, <2>4, <2>5, <2>6 DEF Rows, Heals
  <2>70. /\ Append(look.rows, a) \in Seq(Rows) /\ Append(look.rows, b) \in Seq(Rows)
         /\ Append(look.heals, c) \in Seq(Heals)
    BY <2>3, <2>7, AppendProperties
  <2>8. PICK rows \in Seq(Rows) :
          rows = IF Fresh(meta[u], seen) THEN Append(look.rows, a)
                 ELSE IF body[u] = NoFile THEN look.rows ELSE Append(look.rows, b)
    BY <2>3, <2>70
  <2>9. PICK heals \in Seq(Heals) :
          heals = IF Fresh(meta[u], seen) \/ body[u] = NoFile THEN look.heals ELSE Append(look.heals, c)
    BY <2>3, <2>70
  <2>10. look' = [look EXCEPT !.pc = "next", !.rows = rows, !.heals = heals]
    BY <1>9, <2>1, <2>2, <2>4, <2>5, <2>6, <2>8, <2>9 DEF ListReads
  <2>11. look' \in Listings /\ look'.pc = "next"
    <3>1. PICK l \in Listings : l = look BY <1>4
    <3>2. look' = [l EXCEPT !.pc = "next", !.rows = rows, !.heals = heals] BY <2>10, <3>1
    <3> QED BY <3>2 DEF Listings
  <2> QED BY <1>5, <1>9, <2>11 DEF ListReads
<1>10. ASSUME ListHeals PROVE LibTyped'
  <2>0. PICK hs \in Seq(Heals) : hs = look.heals BY <1>4 DEF Listings
  <2>20. hs # <<>> BY <1>10, <2>0 DEF ListHeals
  <2>21. Head(hs) \in Heals /\ Tail(hs) \in Seq(Heals) BY <2>20
  <2>1. PICK h \in Heals : h = Head(look.heals) BY <2>0, <2>21
  <2>2. h.uuid \in Uuids /\ h.ver \in Bodies BY DEF Heals
  <2>3. meta' = [meta EXCEPT ![h.uuid] = File(h.ver)] BY <1>10, <2>1 DEF ListHeals
  <2>4. meta' \in [Uuids -> Saves] BY <2>2, <2>3, FileIs DEF LibTyped
  <2>5. PICK t \in Seq(Heals) : t = Tail(look.heals) BY <2>0, <2>21
  <2>6. look' = [look EXCEPT !.heals = t] BY <1>10, <2>5 DEF ListHeals
  <2>7. look' \in Listings /\ look'.pc = "next" BY <1>4, <1>10, <2>6 DEF Listings, ListHeals
  <2> QED BY <1>10, <2>4, <2>7 DEF ListHeals, LibTyped, listVars
<1>11. ASSUME ListEnds PROVE LibTyped'
  BY <1>5, <1>6, <1>11 DEF ListEnds
<1>12. ASSUME UNCHANGED seVars PROVE LibTyped' BY <1>12 DEF seVars, fileVars, listVars, LibTyped
<1> QED BY <1>1, <1>2, <1>3, <1>7, <1>8, <1>9, <1>10, <1>11, <1>12

LEMMA TypedNext == LibTyped /\ Snapped /\ HealsSnapped /\ [LibNext]_seVars => LibTyped'
<1> SUFFICES ASSUME LibTyped, Snapped, HealsSnapped, [LibNext]_seVars PROVE LibTyped'
  OBVIOUS
<1>1. CASE \E u \in Uuids : Open(u) \/ Change(u) \/ BuildSnapshot(u) \/ StopReread(u) \/ SaveBody(u)
                            \/ SaveMeta(u) \/ ThreadEnds(u) \/ CloseTab(u)
  BY <1>1, TypedSessions
<1>2. CASE \E w \in Windows : (\E u \in Uuids : ForceClose(w, u)) \/ DeleteFile(w) \/ LockList(w) \/ Hide(w)
  BY <1>2, TypedDelete
<1>3. CASE Stamp \/ (\E u \in Uuids : TranscriptGoes(u) \/ ListStats(u) \/ \E f \in Sidecars : WriteSidecar(u, f))
           \/ ListBegins \/ ListReads \/ ListHeals \/ ListEnds \/ UNCHANGED seVars
  BY <1>3, TypedRest
<1> QED BY <1>1, <1>2, <1>3 DEF LibNext

-----------------------------------------------------------------------------
(* Snapshots only get newer, and a file is the last of them or an older one. *)

Filed(snap, file) == \E v \in Bodies : v <= snap /\ file = File(v)

LEMMA FilesStep ==
  ASSUME LibTyped, Snapped, HealsSnapped, [LibNext]_seVars, NEW u \in Uuids
  PROVE  /\ thread[u].snap <= thread'[u].snap /\ thread'[u].snap <= thread'[u].ver
         /\ body'[u] = body[u] \/ body'[u] = NoFile \/ body'[u] = File(thread[u].snap)
         /\ meta'[u] = meta[u] \/ meta'[u] = NoFile \/ Filed(thread[u].snap, meta'[u])
<1> DEFINE Sure == /\ thread[u].snap <= thread'[u].snap /\ thread'[u].snap <= thread'[u].ver
                   /\ body'[u] = body[u] \/ body'[u] = NoFile \/ body'[u] = File(thread[u].snap)
                   /\ meta'[u] = meta[u] \/ meta'[u] = NoFile \/ Filed(thread[u].snap, meta'[u])
<1>1. PICK s, v \in Nat : s = thread[u].snap /\ v = thread[u].ver /\ s <= v
  BY SessionLibraryAssumption DEF LibTyped, Threads, Bodies, Snapped
<1>2. ASSUME thread' = thread \/ thread'[u] = thread[u]
      PROVE  thread[u].snap <= thread'[u].snap /\ thread'[u].snap <= thread'[u].ver
  BY <1>1, <1>2
<1>3. thread[u].snap \in Bodies /\ NoFile.ver <= thread[u].snap
  BY <1>1, NoFileIs DEF LibTyped, Threads
<1>4. ASSUME UNCHANGED <<body, meta, thread>> PROVE Sure BY <1>2, <1>4
<1>5. ASSUME NEW x \in Uuids,
             Open(x) \/ Change(x) \/ BuildSnapshot(x) \/ StopReread(x) \/ SaveBody(x)
             \/ SaveMeta(x) \/ ThreadEnds(x) \/ CloseTab(x) \/ \E w \in Windows : ForceClose(w, x)
      PROVE  Sure
  <2>1. CASE x # u
    <3>1. thread'[u] = thread[u] BY <1>5, <2>1, SessionSteps DEF ThreadGoes, Others
    <3>2. body'[u] = body[u]
      <4>1. CASE SaveBody(x) BY <2>1, <4>1, SessionSteps DEF FileGoes, Others
      <4> QED BY <1>5, <4>1 DEF Open, Change, BuildSnapshot, StopReread, SaveMeta, ThreadEnds, CloseTab, ForceClose, fileVars
    <3>3. meta'[u] = meta[u]
      <4>1. CASE SaveMeta(x) BY <2>1, <4>1, SessionSteps DEF FileGoes, Others
      <4> QED BY <1>5, <4>1 DEF Open, Change, BuildSnapshot, StopReread, SaveBody, ThreadEnds, CloseTab, ForceClose, fileVars
    <3> QED BY <1>2, <3>1, <3>2, <3>3
  <2>2. CASE x = u
    <3>10. PICK t : t = thread[u] OBVIOUS
    <3>11. \/ \E pc, stop, dirty : ThreadGoes(u, pc, stop, dirty, t.ver, t.snap)
           \/ \E pc, stop, dirty : ThreadGoes(u, pc, stop, dirty, t.ver + 1, t.snap)
           \/ \E pc, stop, dirty : ThreadGoes(u, pc, stop, dirty, t.ver, t.ver)
      <4>1. CASE Change(u) BY <4>1, <3>10, SessionSteps
      <4>2. CASE BuildSnapshot(u) BY <4>2, <3>10, SessionSteps
      <4>3. CASE Open(u) BY <4>3, <3>10, SessionSteps
      <4>4. CASE StopReread(u) BY <4>4, <3>10, SessionSteps
      <4>5. CASE SaveBody(u) BY <4>5, <3>10, SessionSteps
      <4>6. CASE SaveMeta(u) BY <4>6, <3>10, SessionSteps
      <4>7. CASE ThreadEnds(u) BY <4>7, <3>10, SessionSteps
      <4>8. CASE CloseTab(u) BY <4>8, <3>10, SessionSteps
      <4>9. CASE \E w \in Windows : ForceClose(w, u) BY <4>9, <3>10, SessionSteps
      <4> QED BY <1>5, <2>2, <4>1, <4>2, <4>3, <4>4, <4>5, <4>6, <4>7, <4>8, <4>9
    <3>12. t.snap = s /\ t.ver = v BY <1>1, <3>10
    <3>1. thread'[u].snap \in {s, v} /\ thread'[u].ver \in {v, v + 1}
      <4>1. ASSUME NEW pc, NEW stop, NEW dirty, NEW ver, NEW snap, ThreadGoes(u, pc, stop, dirty, ver, snap)
            PROVE  thread'[u].ver = ver /\ thread'[u].snap = snap
        BY <4>1 DEF ThreadGoes
      <4>2. \/ thread'[u].ver = t.ver /\ thread'[u].snap = t.snap
            \/ thread'[u].ver = t.ver + 1 /\ thread'[u].snap = t.snap
            \/ thread'[u].ver = t.ver /\ thread'[u].snap = t.ver
        BY <3>11, <4>1
      <4> QED BY <3>12, <4>2
    <3>2. thread[u].snap <= thread'[u].snap /\ thread'[u].snap <= thread'[u].ver BY <1>1, <3>1
    <3>3. body'[u] = body[u] \/ body'[u] = File(thread[u].snap)
      <4>1. CASE SaveBody(x) BY <2>2, <4>1, SessionSteps DEF FileGoes
      <4> QED BY <1>5, <4>1 DEF Open, Change, BuildSnapshot, StopReread, SaveMeta, ThreadEnds, CloseTab, ForceClose, fileVars
    <3>4. meta'[u] = meta[u] \/ Filed(thread[u].snap, meta'[u])
      <4>1. CASE SaveMeta(x)
        <5>1. Filed(thread[u].snap, File(thread[u].snap)) BY <1>1, <1>3 DEF Filed
        <5> QED BY <2>2, <4>1, <5>1, SessionSteps DEF FileGoes
      <4> QED BY <1>5, <4>1 DEF Open, Change, BuildSnapshot, StopReread, SaveBody, ThreadEnds, CloseTab, ForceClose, fileVars
    <3> QED BY <3>2, <3>3, <3>4
  <2> QED BY <2>1, <2>2
<1>6. ASSUME NEW w \in Windows, DeleteFile(w) \/ LockList(w) \/ Hide(w) PROVE Sure
  <2>1. thread' = thread BY <1>6 DEF DeleteFile, LockList, Hide
  <2>2. body' = body \/ body' = [body EXCEPT ![job[w].uuid] = NoFile]
    BY <1>6 DEF DeleteFile, LockList, Hide, fileVars
  <2>3. meta' = meta \/ meta' = [meta EXCEPT ![job[w].uuid] = NoFile]
    BY <1>6 DEF DeleteFile, LockList, Hide, fileVars
  <2>4. body'[u] = body[u] \/ body'[u] = NoFile BY <2>2 DEF LibTyped
  <2>5. meta'[u] = meta[u] \/ meta'[u] = NoFile BY <2>3 DEF LibTyped
  <2> QED BY <1>2, <1>3, <2>1, <2>4, <2>5
<1>7. ASSUME ListHeals PROVE Sure
  <2>1. PICK h \in Heals : h = Head(look.heals) /\ h.ver <= thread[h.uuid].snap
    <3>1. look.heals \in Seq(Heals) /\ look.heals # <<>> BY <1>7 DEF ListHeals, LibTyped, Listings
    <3>2. 1 \in DOMAIN look.heals /\ Head(look.heals) = look.heals[1] /\ look.heals[1] \in Heals BY <3>1
    <3> QED BY <3>2 DEF HealsSnapped
  <2>2. h.uuid \in Uuids /\ h.ver \in Bodies BY DEF Heals
  <2>3. meta' = [meta EXCEPT ![h.uuid] = File(h.ver)] BY <1>7, <2>1 DEF ListHeals
  <2>4. meta'[u] = meta[u] \/ (h.uuid = u /\ meta'[u] = File(h.ver)) BY <2>3 DEF LibTyped
  <2>6. thread' = thread /\ body' = body BY <1>7 DEF ListHeals
  <2> QED BY <1>2, <2>1, <2>2, <2>4, <2>6 DEF Filed
<1>8. ASSUME \/ Stamp \/ ListBegins \/ ListReads \/ ListEnds \/ UNCHANGED seVars
             \/ \E x \in Uuids : TranscriptGoes(x) \/ ListStats(x) \/ \E f \in Sidecars : WriteSidecar(x, f)
      PROVE  Sure
  <2>1. UNCHANGED <<body, meta, thread>>
    BY <1>8 DEF Stamp, ListBegins, ListReads, ListEnds, TranscriptGoes, ListStats, WriteSidecar, seVars, fileVars
  <2> QED BY <1>4, <2>1
<1> HIDE DEF Sure
<1>9. Sure BY <1>5, <1>6, <1>7, <1>8 DEF LibNext
<1> QED BY <1>9 DEF Sure

LEMMA Numbers ==
  ASSUME LibTyped, NEW u \in Uuids
  PROVE  /\ thread[u].snap \in Nat /\ thread[u].ver \in Nat
         /\ body[u].ver \in Nat /\ meta[u].ver \in Nat
<1>1. \A n \in Bodies : n \in Nat BY SessionLibraryAssumption DEF Bodies
<1>2. thread[u] \in Threads /\ body[u] \in Saves /\ meta[u] \in Saves BY DEF LibTyped
<1> QED BY <1>1, <1>2 DEF Threads, Saves

LEMMA NumbersNext ==
  ASSUME LibTyped', NEW u \in Uuids
  PROVE  /\ thread'[u].snap \in Nat /\ thread'[u].ver \in Nat
         /\ body'[u].ver \in Nat /\ meta'[u].ver \in Nat
<1>1. \A n \in Bodies : n \in Nat BY SessionLibraryAssumption DEF Bodies
<1>2. thread'[u] \in Threads /\ body'[u] \in Saves /\ meta'[u] \in Saves BY DEF LibTyped
<1> QED BY <1>1, <1>2 DEF Threads, Saves

LEMMA SnappedStep == KeptInv /\ [LibNext]_seVars => Snapped'
<1> SUFFICES ASSUME KeptInv, [LibNext]_seVars, NEW u \in Uuids
             PROVE  /\ thread'[u].snap <= thread'[u].ver
                    /\ body'[u].ver <= thread'[u].snap /\ meta'[u].ver <= thread'[u].snap
  BY DEF Snapped
<1>1. LibTyped /\ Snapped /\ HealsSnapped BY DEF KeptInv
<1>2. LibTyped' BY <1>1, TypedNext
<1>30. thread[u].snap \in Nat /\ body[u].ver \in Nat /\ meta[u].ver \in Nat BY <1>1, Numbers
<1>31. (thread[u].snap \in Nat /\ thread[u].ver \in Nat /\ body[u].ver \in Nat /\ meta[u].ver \in Nat)'
  BY <1>2, NumbersNext
<1>3. PICK s, sn, vn \in Nat : s = thread[u].snap /\ sn = thread'[u].snap /\ vn = thread'[u].ver
  BY <1>30, <1>31
<1>4. PICK b, bn, m, mn \in Nat : b = body[u].ver /\ bn = body'[u].ver /\ m = meta[u].ver /\ mn = meta'[u].ver
  BY <1>30, <1>31
<1>5. s <= sn /\ sn <= vn BY <1>1, <1>3, FilesStep
<1>6. b <= s /\ m <= s BY <1>1, <1>3, <1>4 DEF Snapped
<1>7. thread[u].snap \in Bodies BY <1>1 DEF LibTyped, Threads
<1>8. File(thread[u].snap).ver = s BY <1>1, <1>3, <1>7, FileIs
<1>9. bn <= s BY <1>1, <1>4, <1>6, <1>8, FilesStep, NoFileIs
<1>10. mn <= s
  <2>1. CASE Filed(s, meta'[u])
    <3>1. PICK v \in Bodies : v <= s /\ meta'[u] = File(v) BY <2>1 DEF Filed
    <3> QED BY <1>1, <1>4, <3>1, FileIs
  <2> QED BY <1>1, <1>3, <1>4, <1>6, <2>1, FilesStep, NoFileIs
<1> QED BY <1>3, <1>4, <1>5, <1>9, <1>10

LEMMA HealsStep == KeptInv /\ [LibNext]_seVars => HealsSnapped'
<1> SUFFICES ASSUME KeptInv, [LibNext]_seVars PROVE HealsSnapped'
  OBVIOUS
<1>1. LibTyped /\ Snapped /\ HealsSnapped BY DEF KeptInv
<1>2. LibTyped' BY <1>1, TypedNext
<1>3. ASSUME NEW u \in Uuids, NEW n \in Bodies, n <= thread[u].snap PROVE n <= thread'[u].snap
  <2>1. PICK s, sn \in Nat : s = thread[u].snap /\ sn = thread'[u].snap
    <3>1. thread[u].snap \in Nat BY <1>1, Numbers
    <3>2. thread'[u].snap \in Nat BY <1>2, NumbersNext
    <3> QED BY <3>1, <3>2
  <2>2. s <= sn BY <1>1, <2>1, FilesStep
  <2>3. n \in Nat BY SessionLibraryAssumption DEF Bodies
  <2> QED BY <1>3, <2>1, <2>2, <2>3
<1>4. look.heals \in Seq(Heals) /\ look'.heals \in Seq(Heals) BY <1>1, <1>2 DEF LibTyped, Listings
<1>5. ASSUME NEW i \in DOMAIN look'.heals, NEW j \in DOMAIN look.heals, look'.heals[i] = look.heals[j]
      PROVE  look'.heals[i].ver <= thread'[look'.heals[i].uuid].snap
  <2>1. look.heals[j] \in Heals BY <1>4
  <2>2. look.heals[j].uuid \in Uuids /\ look.heals[j].ver \in Bodies BY <2>1 DEF Heals
  <2> QED BY <1>1, <1>3, <1>5, <2>2 DEF HealsSnapped
<1>6. CASE look'.heals = look.heals BY <1>5, <1>6 DEF HealsSnapped
<1>7. CASE ListHeals
  <2>1. look'.heals = Tail(look.heals) /\ look.heals # <<>> BY <1>1, <1>7 DEF ListHeals, LibTyped, Listings
  <2>2. ASSUME NEW i \in DOMAIN look'.heals PROVE i + 1 \in DOMAIN look.heals /\ look'.heals[i] = look.heals[i + 1]
    BY <1>4, <2>1
  <2> QED BY <1>5, <2>2 DEF HealsSnapped
<1>8. CASE ListReads
  <2>1. PICK u \in Uuids : u = look.entry.uuid BY <1>1, <1>8 DEF ListReads, LibTyped
  <2>2. PICK c : c = [uuid |-> u, ver |-> body[u].ver] OBVIOUS
  <2>3. look'.heals = look.heals \/ look'.heals = Append(look.heals, c)
    BY <1>1, <1>8, <2>1, <2>2 DEF ListReads, LibTyped, Listings
  <2>4. CASE look'.heals = Append(look.heals, c)
    <3>1. c.ver \in Bodies /\ c.ver <= thread[u].snap BY <1>1, <2>2 DEF Snapped, LibTyped, Saves
    <3>2. c.ver <= thread'[c.uuid].snap BY <1>3, <2>2, <3>1
    <3>3. ASSUME NEW i \in DOMAIN look'.heals
          PROVE  look'.heals[i] = c \/ (i \in DOMAIN look.heals /\ look'.heals[i] = look.heals[i])
      BY <1>4, <2>4
    <3> QED BY <1>5, <3>2, <3>3 DEF HealsSnapped
  <2> QED BY <1>6, <2>3, <2>4
<1>9. CASE ListEnds \/ ListBegins
  <2>1. look'.heals = <<>>
    <3>1. CASE ListEnds BY <3>1 DEF ListEnds, Rest
    <3>2. CASE ListBegins
      <4>1. look'.heals = Rest.heals BY <3>2 DEF ListBegins, Rest
      <4> QED BY <4>1 DEF Rest
    <3> QED BY <1>9, <3>1, <3>2
  <2>2. DOMAIN look'.heals = {}
    <3>1. Len(look'.heals) = 0 BY <2>1
    <3> QED BY <1>4, <3>1
  <2> QED BY <2>2 DEF HealsSnapped
<1>10. CASE \E u \in Uuids : ListStats(u)
  <2>1. look'.heals = look.heals BY <1>1, <1>10 DEF ListStats, LibTyped, Listings
  <2> QED BY <1>6, <2>1
<1>11. look' = look \/ ListHeals \/ ListReads \/ ListEnds \/ ListBegins \/ \E u \in Uuids : ListStats(u)
  BY DEF LibNext, seVars, Stamp, Open, Change, BuildSnapshot, StopReread, SaveBody, SaveMeta, ThreadEnds,
         CloseTab, TranscriptGoes, WriteSidecar, ForceClose, DeleteFile, LockList, Hide
<1> QED BY <1>6, <1>7, <1>8, <1>9, <1>10, <1>11

-----------------------------------------------------------------------------
(* The dismissals: read and written under the lock.                          *)

LEMMA IdleIs == Idle.pc = "idle" /\ Idle.uuid = ""
BY DEF Idle

LEMMA JobAfter ==
  ASSUME LibTyped, NEW w \in Windows, NEW v \in Windows
  PROVE  /\ (Answered(w) => job'[v] = IF v = w THEN Idle ELSE job[v])
         /\ \A pc : SetJob(w, pc) => /\ job'[v].uuid = job[v].uuid /\ job'[v].read = job[v].read
                                     /\ job'[v].pc = IF v = w THEN pc ELSE job[v].pc
         /\ (DeleteFile(w) => job'[v].pc \notin {"listed", "blind"} \/ (v # w /\ job'[v] = job[v]))
<1>1. job \in [Windows -> Deletes] /\ job[w] \in Deletes /\ job[v] \in Deletes BY DEF LibTyped
<1>2. Answered(w) => job'[v] = IF v = w THEN Idle ELSE job[v] BY <1>1 DEF Answered
<1>3. ASSUME NEW pc, SetJob(w, pc)
      PROVE  /\ job'[v].uuid = job[v].uuid /\ job'[v].read = job[v].read
             /\ job'[v].pc = IF v = w THEN pc ELSE job[v].pc
  BY <1>1, <1>3 DEF SetJob, Deletes
<1>4. ASSUME DeleteFile(w) PROVE job'[v].pc \notin {"listed", "blind"} \/ (v # w /\ job'[v] = job[v])
  <2>1. Answered(w) \/ SetJob(w, "meta") \/ SetJob(w, "side") \/ SetJob(w, "hide") BY <1>4 DEF DeleteFile, Fails
  <2>2. CASE v = w
    <3>1. CASE Answered(w) BY <1>2, <2>2, <3>1, IdleIs
    <3>2. CASE ~Answered(w) BY <1>3, <2>1, <2>2, <3>2
    <3> QED BY <3>1, <3>2
  <2>3. CASE v # w
    <3>1. job'[v] = job[v] BY <1>1, <2>1, <2>3 DEF Answered, SetJob
    <3> QED BY <2>3, <3>1
  <2> QED BY <2>2, <2>3
<1> QED BY <1>2, <1>3, <1>4

LEMMA LockedStep == KeptInv /\ [LibNext]_seVars => Locked' /\ DismissalsKept'
<1> SUFFICES ASSUME KeptInv, [LibNext]_seVars PROVE Locked' /\ DismissalsKept'
  OBVIOUS
<1>0. LibTyped /\ Locked /\ DismissalsKept BY DEF KeptInv
<1>1. CASE UNCHANGED <<job, flock, hidden, gone>>
  BY <1>0, <1>1 DEF Locked, DismissalsKept
<1>2. ASSUME NEW u \in Uuids, Open(u) PROVE Locked' /\ DismissalsKept'
  <2>1. CASE UNCHANGED <<hidden, gone>> BY <1>1, <1>2, <2>1 DEF Open
  <2>2. CASE ~UNCHANGED <<hidden, gone>>
    <3>1. flock = {} /\ flock' = flock /\ job' = job /\ hidden' = Unhidden(hidden, u) /\ gone' = gone \ {u}
      BY <1>2, <2>2 DEF Open
    <3>2. hidden \in Seq(Uuids) BY <1>0 DEF LibTyped
    <3>3. Range(hidden') = Range(hidden) \ {u} BY <3>1, <3>2, WithoutFact DEF Unhidden
    <3>4. DismissalsKept' BY <1>0, <3>1, <3>3 DEF DismissalsKept
    <3>5. \A w \in Windows : job'[w].pc \notin {"listed", "blind"} BY <1>0, <3>1 DEF Locked
    <3> QED BY <3>4, <3>5 DEF Locked
  <2> QED BY <2>1, <2>2
<1>3. ASSUME NEW w \in Windows, NEW u \in Uuids, ForceClose(w, u) PROVE Locked' /\ DismissalsKept'
  <2>1. ASSUME NEW v \in Windows, job'[v].pc \in {"listed", "blind"} PROVE job'[v] = job[v]
    BY <1>0, <1>3, <2>1 DEF ForceClose, LibTyped
  <2> QED BY <1>0, <1>3, <2>1 DEF ForceClose, Locked, DismissalsKept
<1>4. ASSUME NEW w \in Windows, DeleteFile(w) PROVE Locked' /\ DismissalsKept'
  <2>1. ASSUME NEW v \in Windows, job'[v].pc \in {"listed", "blind"} PROVE job'[v] = job[v]
    BY <1>0, <1>4, <2>1, JobAfter
  <2> QED BY <1>0, <1>4, <2>1 DEF DeleteFile, Locked, DismissalsKept
<1>5. ASSUME NEW w \in Windows, LockList(w) PROVE Locked' /\ DismissalsKept'
  <2>1. hidden' = hidden /\ gone' = gone BY <1>5 DEF LockList
  <2>2. CASE Fails(w) /\ flock' = flock
    <3>1. ASSUME NEW v \in Windows, job'[v].pc \in {"listed", "blind"} PROVE job'[v] = job[v]
      BY <1>0, <2>2, <3>1, JobAfter, IdleIs DEF Fails
    <3> QED BY <1>0, <2>1, <2>2, <3>1 DEF Locked, DismissalsKept
  <2>3. CASE ~(Fails(w) /\ UNCHANGED flock)
    <3>1. flock = {} /\ flock' = {w} BY <1>0, <1>5, <2>3, ListTaken
    <3>2. ASSUME NEW v \in Windows, job'[v].pc \in {"listed", "blind"} PROVE v = w
      <4>1. v # w => job'[v] = job[v] BY <1>0, <1>5, <2>3, ListTaken
      <4> QED BY <1>0, <3>1, <3>2, <4>1 DEF Locked
    <3>3. job'[w].read = IF job'[w].pc = "listed" THEN hidden ELSE <<>> BY <1>0, <1>5, <2>3, ListTaken
    <3> QED BY <1>0, <2>1, <3>1, <3>2, <3>3 DEF Locked, DismissalsKept
  <2> QED BY <2>2, <2>3
<1>6. ASSUME NEW w \in Windows, Hide(w) PROVE Locked' /\ DismissalsKept'
  <2>1. job[w].pc \in {"listed", "blind"} /\ flock' = flock \ {w} /\ Answered(w) BY <1>6 DEF Hide
  <2>2. PICK list : /\ list = job[w].read /\ flock = {w}
                    /\ list = IF job[w].pc = "listed" THEN hidden ELSE <<>>
    BY <1>0, <2>1 DEF Locked
  <2>3. PICK u \in Uuids : u = job[w].uuid BY <1>0, <2>1 DEF LibTyped
  <2>4. ASSUME NEW v \in Windows PROVE job'[v].pc \notin {"listed", "blind"}
    <3>1. CASE v = w BY <1>0, <2>1, <3>1, JobAfter, IdleIs
    <3>2. CASE v # w
      <4>1. job'[v] = job[v] BY <1>0, <2>1, <3>2, JobAfter
      <4> QED BY <1>0, <2>2, <3>2, <4>1 DEF Locked
    <3> QED BY <3>1, <3>2
  <2>5. PICK alive : hidden' = Dismissed(list, u, alive) BY <1>6, <2>2, <2>3 DEF Hide
  <2>6. hidden \in Seq(Uuids) /\ <<>> \in Seq(Uuids) BY <1>0 DEF LibTyped
  <2>7. Range(hidden') \subseteq Range(list) \cup {u} BY <2>2, <2>5, <2>6, DismissedFact
  <2>8. PICK known : /\ known = IF job[w].pc = "blind" THEN {u} ELSE gone \cup {u}
                     /\ gone' = known \ ((Range(list) \cup {u}) \ Range(hidden'))
    BY <1>6, <2>2, <2>3 DEF Hide
  <2>9. known = Range(list) \cup {u}
    <3>1. CASE job[w].pc = "listed" BY <1>0, <2>2, <2>8, <3>1 DEF DismissalsKept
    <3>2. CASE job[w].pc = "blind"
      <4>1. Range(<<>>) = {} BY DEF Range
      <4> QED BY <2>2, <2>8, <3>2, <4>1
    <3> QED BY <2>1, <3>1, <3>2
  <2>10. gone' = Range(hidden') BY <2>7, <2>8, <2>9
  <2> QED BY <2>4, <2>10 DEF Locked, DismissalsKept
<1>7. \/ UNCHANGED <<job, flock, hidden, gone>> \/ \E u \in Uuids : Open(u)
      \/ \E w \in Windows : (\E u \in Uuids : ForceClose(w, u)) \/ DeleteFile(w) \/ LockList(w) \/ Hide(w)
  BY ZenonT(40) DEF LibNext, seVars, listVars, Stamp, Change, BuildSnapshot, StopReread, SaveBody, SaveMeta, ThreadEnds,
         CloseTab, TranscriptGoes, WriteSidecar, ListStats, ListBegins, ListReads, ListHeals, ListEnds
<1> QED BY <1>1, <1>2, <1>3, <1>4, <1>5, <1>6, <1>7

-----------------------------------------------------------------------------
(* A deleted session: one lemma for each conjunct of Doomed, and what the    *)
(* steps do to the jobs.                                                     *)

Doing == {"body", "meta", "side", "hide", "listed", "blind"}
DoomedAt(u) ==
  /\ thread[u].stop
  /\ u \in panels => Has(u, Doing)
  /\ u \notin late => /\ thread[u].pc \notin {"write", "meta"}
                      /\ body[u] # NoFile => Has(u, {"body"})
                      /\ meta[u] # NoFile => Has(u, {"body", "meta"})
                      /\ side[u] # {} => Has(u, {"body", "meta", "side"})

LEMMA HasKept ==
  ASSUME NEW u, NEW pcs, Has(u, pcs),
         \A w \in Windows : job[w].uuid = u /\ job[w].pc \in pcs => job'[w].uuid = u /\ job'[w].pc \in pcs
  PROVE  Has(u, pcs)'
BY DEF Has

LEMMA DoomedSessions ==
  ASSUME KeptInv, NEW x \in Uuids,
         Open(x) \/ Change(x) \/ BuildSnapshot(x) \/ StopReread(x) \/ SaveBody(x) \/ SaveMeta(x)
         \/ ThreadEnds(x) \/ CloseTab(x),
         NEW u \in deleted'
  PROVE  DoomedAt(u)'
<1>1. LibTyped /\ Doomed BY DEF KeptInv
<1>2. u \in deleted /\ u \in Uuids /\ (Open(x) => u # x)
  BY <1>1 DEF LibTyped, Open, Change, BuildSnapshot, StopReread, SaveBody, SaveMeta, ThreadEnds, CloseTab, listVars
<1>3. DoomedAt(u) BY <1>1, <1>2 DEF Doomed, DoomedAt, Doing
<1>4. job' = job /\ side' = side
  BY DEF Open, Change, BuildSnapshot, StopReread, SaveBody, SaveMeta, ThreadEnds, CloseTab, fileVars
<1>5. \A pcs : Has(u, pcs)' <=> Has(u, pcs) BY <1>4 DEF Has
<1>6. u \in panels' => u \in panels
  BY <1>2 DEF Open, Change, BuildSnapshot, StopReread, SaveBody, SaveMeta, ThreadEnds, CloseTab
<1>7. u \notin late' => u \notin late
  BY <1>2 DEF Open, Change, BuildSnapshot, StopReread, SaveBody, SaveMeta, ThreadEnds, CloseTab
<1>8. /\ thread'[u].stop
      /\ thread[u].pc \notin {"write", "meta"} => /\ thread'[u].pc \notin {"write", "meta"}
                                                  /\ body'[u] = body[u] /\ meta'[u] = meta[u]
  <2>1. CASE x # u
    <3>1. thread'[u] = thread[u] BY <1>1, <1>2, <2>1, SessionSteps DEF ThreadGoes, Others
    <3>2. body'[u] = body[u]
      <4>1. CASE SaveBody(x) BY <1>1, <1>2, <2>1, <4>1, SessionSteps DEF FileGoes, Others
      <4> QED BY <4>1 DEF Open, Change, BuildSnapshot, StopReread, SaveMeta, ThreadEnds, CloseTab, fileVars
    <3>3. meta'[u] = meta[u]
      <4>1. CASE SaveMeta(x) BY <1>1, <1>2, <2>1, <4>1, SessionSteps DEF FileGoes, Others
      <4> QED BY <4>1 DEF Open, Change, BuildSnapshot, StopReread, SaveBody, ThreadEnds, CloseTab, fileVars
    <3> QED BY <1>3, <3>1, <3>2, <3>3 DEF DoomedAt
  <2>2. CASE x = u
    <3>1. PICK t \in Threads : t = thread[u] BY <1>1, <1>2 DEF LibTyped
    <3>2. t.stop = TRUE BY <1>3, <3>1 DEF DoomedAt, Threads
    <3>3. CASE StopReread(u)
      <4>1. \E dirty, ver, snap : ThreadGoes(u, "tail", TRUE, dirty, ver, snap)
        BY <1>1, <1>2, <3>1, <3>2, <3>3, SessionSteps
      <4>2. thread'[u].stop /\ thread'[u].pc = "tail" BY <4>1 DEF ThreadGoes
      <4> QED BY <3>3, <4>2 DEF StopReread, fileVars
    <3>4. CASE SaveBody(u) \/ SaveMeta(u)
      <4>1. \E pc, dirty, ver, snap : ThreadGoes(u, pc, TRUE, dirty, ver, snap)
        <5>1. CASE SaveBody(u) BY <1>1, <1>2, <3>1, <3>2, <5>1, SessionSteps
        <5>2. CASE SaveMeta(u) BY <1>1, <1>2, <3>1, <3>2, <5>2, SessionSteps
        <5> QED BY <3>4, <5>1, <5>2
      <4>2. thread'[u].stop BY <4>1 DEF ThreadGoes
      <4>3. thread[u].pc \in {"write", "meta"} BY <3>4 DEF SaveBody, SaveMeta
      <4> QED BY <4>2, <4>3
    <3>5. CASE ThreadEnds(u)
      <4>1. \E dirty, ver, snap : ThreadGoes(u, "off", TRUE, dirty, ver, snap)
        BY <1>1, <1>2, <3>1, <3>2, <3>5, SessionSteps
      <4>2. thread'[u].stop /\ thread'[u].pc = "off" BY <4>1 DEF ThreadGoes
      <4> QED BY <3>5, <4>2 DEF ThreadEnds, fileVars
    <3>6. CASE CloseTab(u)
      <4>1. \E dirty, ver, snap : ThreadGoes(u, t.pc, TRUE, dirty, ver, snap)
        BY <1>1, <1>2, <3>1, <3>6, SessionSteps
      <4>2. thread'[u].stop /\ thread'[u].pc = t.pc BY <4>1 DEF ThreadGoes
      <4> QED BY <3>1, <3>6, <4>2 DEF CloseTab, fileVars
    <3>7. ~Change(u) /\ ~BuildSnapshot(u) /\ ~Open(u)
      BY <1>2, <2>2, <3>1, <3>2 DEF Change, BuildSnapshot
    <3> QED BY <2>2, <3>3, <3>4, <3>5, <3>6, <3>7
  <2> QED BY <2>1, <2>2
<1> QED BY <1>3, <1>4, <1>5, <1>6, <1>7, <1>8 DEF DoomedAt

LEMMA DoomedDelete ==
  ASSUME KeptInv, NEW w \in Windows, DeleteFile(w), NEW u \in deleted'
  PROVE  DoomedAt(u)'
<1>1. LibTyped /\ Doomed BY DEF KeptInv
<1>2. u \in deleted /\ u \in Uuids /\ (Fails(w) => u # job[w].uuid)
  BY <1>1 DEF LibTyped, DeleteFile, Fails
<1>3. DoomedAt(u) BY <1>1, <1>2 DEF Doomed, DoomedAt, Doing
<1>4. thread' = thread /\ late' = late BY DEF DeleteFile
<1>5. CASE Fails(w) /\ UNCHANGED fileVars
  <2>1. Answered(w) /\ u # job[w].uuid BY <1>2, <1>5 DEF Fails
  <2>2. \A v \in Windows : job[v].uuid = u => job'[v] = job[v] BY <1>1, <2>1, JobAfter
  <2>3. \A pcs : Has(u, pcs) => Has(u, pcs)' BY <2>2 DEF Has
  <2>4. u \in panels' => u \in panels BY <2>1 DEF Answered
  <2> QED BY <1>3, <1>4, <1>5, <2>3, <2>4 DEF DoomedAt, fileVars
<1>6. CASE ~(Fails(w) /\ UNCHANGED fileVars)
  <2>1. panels' = panels BY <1>6 DEF DeleteFile
  <2>2. ASSUME NEW from, NEW to, NEW pcs, job[w].pc = from, SetJob(w, to), from \in pcs => to \in pcs
        PROVE  Has(u, pcs) => Has(u, pcs)'
    <3>1. \A v \in Windows : job[v].uuid = u /\ job[v].pc \in pcs => job'[v].uuid = u /\ job'[v].pc \in pcs
      BY <1>1, <2>2, JobAfter
    <3> QED BY <3>1, HasKept
  <2>3. ASSUME NEW from, NEW to, NEW pcs, job[w].pc = from, SetJob(w, to), u # job[w].uuid
        PROVE  Has(u, pcs) => Has(u, pcs)'
    <3>1. \A v \in Windows : job[v].uuid = u /\ job[v].pc \in pcs => job'[v].uuid = u /\ job'[v].pc \in pcs
      BY <1>1, <2>3, JobAfter
    <3> QED BY <3>1, HasKept
  <2>4. CASE job[w].pc = "body" /\ SetJob(w, "meta") /\ body' = [body EXCEPT ![job[w].uuid] = NoFile]
             /\ UNCHANGED <<meta, side>>
    <3>1. /\ Has(u, Doing) => Has(u, Doing)'
          /\ Has(u, {"body", "meta"}) => Has(u, {"body", "meta"})'
          /\ Has(u, {"body", "meta", "side"}) => Has(u, {"body", "meta", "side"})'
      BY <2>2, <2>4 DEF Doing
    <3>2. body'[u] # NoFile => body[u] # NoFile /\ u # job[w].uuid BY <1>1, <1>2, <2>4 DEF LibTyped
    <3>3. u # job[w].uuid => (Has(u, {"body"}) => Has(u, {"body"})') BY <2>3, <2>4
    <3> QED BY <1>3, <1>4, <2>1, <2>4, <3>1, <3>2, <3>3 DEF DoomedAt
  <2>5. CASE job[w].pc = "meta" /\ SetJob(w, "side") /\ meta' = [meta EXCEPT ![job[w].uuid] = NoFile]
             /\ UNCHANGED <<body, side>>
    <3>1. /\ Has(u, Doing) => Has(u, Doing)'
          /\ Has(u, {"body"}) => Has(u, {"body"})'
          /\ Has(u, {"body", "meta", "side"}) => Has(u, {"body", "meta", "side"})'
      BY <2>2, <2>5 DEF Doing
    <3>2. meta'[u] # NoFile => meta[u] # NoFile /\ u # job[w].uuid BY <1>1, <1>2, <2>5 DEF LibTyped
    <3>3. u # job[w].uuid => (Has(u, {"body", "meta"}) => Has(u, {"body", "meta"})') BY <2>3, <2>5
    <3> QED BY <1>3, <1>4, <2>1, <2>5, <3>1, <3>2, <3>3 DEF DoomedAt
  <2>6. CASE job[w].pc = "side" /\ SetJob(w, "hide") /\ side' = [side EXCEPT ![job[w].uuid] = {}]
             /\ UNCHANGED <<body, meta>>
    <3>1. /\ Has(u, Doing) => Has(u, Doing)'
          /\ Has(u, {"body"}) => Has(u, {"body"})'
          /\ Has(u, {"body", "meta"}) => Has(u, {"body", "meta"})'
      BY <2>2, <2>6 DEF Doing
    <3>2. side'[u] # {} => side[u] # {} /\ u # job[w].uuid BY <1>1, <1>2, <2>6 DEF LibTyped
    <3>3. u # job[w].uuid => (Has(u, {"body", "meta", "side"}) => Has(u, {"body", "meta", "side"})') BY <2>3, <2>6
    <3> QED BY <1>3, <1>4, <2>1, <2>6, <3>1, <3>2, <3>3 DEF DoomedAt
  <2> QED BY <1>6, <2>4, <2>5, <2>6 DEF DeleteFile
<1> QED BY <1>5, <1>6

LEMMA DoomedJobs ==
  ASSUME KeptInv, NEW w \in Windows,
         (\E x \in Uuids : ForceClose(w, x)) \/ LockList(w) \/ Hide(w),
         NEW u \in deleted'
  PROVE  DoomedAt(u)'
<1>1. LibTyped /\ Doomed BY DEF KeptInv
<1>2. ASSUME NEW x \in Uuids, ForceClose(w, x) PROVE DoomedAt(u)'
  <2>1. /\ job[w].pc = "idle" /\ job' = [job EXCEPT ![w] = [pc |-> "body", uuid |-> x, read |-> <<>>]]
        /\ UNCHANGED <<body, meta, side, panels>> /\ u \in deleted \cup {x}
    BY <1>2 DEF ForceClose, fileVars
  <2>2. u \in Uuids /\ job \in [Windows -> Deletes] BY <1>1, <2>1 DEF LibTyped
  <2>3. ASSUME NEW pcs, "idle" \notin pcs PROVE Has(u, pcs) => Has(u, pcs)'
    BY <2>1, <2>2, <2>3 DEF Has
  <2>4. Has(u, Doing) => Has(u, Doing)' BY <2>3 DEF Doing
  <2>5. Has(u, {"body"}) => Has(u, {"body"})' BY <2>3
  <2>6. Has(u, {"body", "meta"}) => Has(u, {"body", "meta"})' BY <2>3
  <2>7. Has(u, {"body", "meta", "side"}) => Has(u, {"body", "meta", "side"})' BY <2>3
  <2>8. CASE u = x
    <3>1. \A pcs : "body" \in pcs => Has(u, pcs)' BY <2>1, <2>2, <2>8 DEF Has
    <3>2. Has(u, Doing)' /\ Has(u, {"body"})' /\ Has(u, {"body", "meta"})' /\ Has(u, {"body", "meta", "side"})'
      BY <3>1 DEF Doing
    <3>3. PICK t \in Threads : t = thread[u] BY <1>1, <2>2 DEF LibTyped
    <3>4. \E dirty, ver, snap : ThreadGoes(u, t.pc, TRUE, dirty, ver, snap)
      BY <1>1, <1>2, <2>2, <2>8, <3>3, SessionSteps
    <3>5. thread'[u].stop /\ thread'[u].pc = t.pc BY <3>4 DEF ThreadGoes
    <3>6. u \notin late' => t.pc \notin {"write", "meta"} BY <1>2, <2>8, <3>3 DEF ForceClose
    <3> QED BY <3>2, <3>5, <3>6 DEF DoomedAt
  <2>9. CASE u # x
    <3>1. DoomedAt(u) BY <1>1, <2>1, <2>9 DEF Doomed, DoomedAt, Doing
    <3>2. thread'[u] = thread[u] BY <1>1, <1>2, <2>2, <2>9 DEF ForceClose, LibTyped
    <3>3. u \notin late' => u \notin late BY <1>2 DEF ForceClose
    <3> QED BY <2>1, <2>4, <2>5, <2>6, <2>7, <3>1, <3>2, <3>3 DEF DoomedAt
  <2> QED BY <2>8, <2>9
<1>3. ASSUME LockList(w) \/ Hide(w) PROVE DoomedAt(u)'
  <2>1. UNCHANGED <<body, meta, side, thread, late>> /\ u \in deleted BY <1>3 DEF LockList, Hide, Fails, fileVars
  <2>2. u \in Uuids /\ job \in [Windows -> Deletes] BY <1>1, <2>1 DEF LibTyped
  <2>3. DoomedAt(u) BY <1>1, <2>1 DEF Doomed, DoomedAt, Doing
  <2>4. job[w].pc \in {"hide", "listed", "blind"} BY <1>3 DEF LockList, Hide
  <2>5. \A v \in Windows : v # w => job'[v] = job[v] BY <1>3, <2>2 DEF LockList, Hide, Fails, Answered
  <2>6. /\ Has(u, {"body"}) => Has(u, {"body"})'
        /\ Has(u, {"body", "meta"}) => Has(u, {"body", "meta"})'
        /\ Has(u, {"body", "meta", "side"}) => Has(u, {"body", "meta", "side"})'
    BY <2>4, <2>5 DEF Has
  <2>7. u \in panels' => Has(u, Doing)'
    <3>1. CASE Answered(w)
      <4>1. u \in panels' => u \in panels /\ u # job[w].uuid BY <3>1 DEF Answered
      <4> QED BY <2>3, <2>5, <4>1 DEF DoomedAt, Has
    <3>2. CASE ~Answered(w)
      <4>1. LockList(w) /\ ~(Fails(w) /\ UNCHANGED flock) BY <1>3, <3>2 DEF Hide, Fails
      <4>2. panels' = panels /\ job'[w].uuid = job[w].uuid /\ job'[w].pc \in {"listed", "blind"}
        BY <1>1, <4>1, ListTaken
      <4> SUFFICES ASSUME u \in panels' PROVE Has(u, Doing)'
        OBVIOUS
      <4>3. u \in panels BY <4>2
      <4>4. PICK v \in Windows : job[v].uuid = u /\ job[v].pc \in Doing BY ONLY <2>3, <4>3 DEF DoomedAt, Has
      <4>5. job'[v].uuid = u /\ job'[v].pc \in Doing
        <5>1. CASE v = w BY ONLY <4>2, <4>4, <5>1 DEF Doing
        <5>2. CASE v # w BY ONLY <2>5, <4>4, <5>2
        <5> QED BY <5>1, <5>2
      <4> QED BY ONLY <4>5 DEF Has
    <3> QED BY <3>1, <3>2
  <2> QED BY <2>1, <2>3, <2>6, <2>7 DEF DoomedAt
<1> QED BY <1>2, <1>3

LEMMA DoomedStep == KeptInv /\ [LibNext]_seVars => Doomed'
<1> SUFFICES ASSUME KeptInv, [LibNext]_seVars, NEW u \in deleted' PROVE DoomedAt(u)'
  BY DEF Doomed, DoomedAt, Doing
<1>1. LibTyped /\ Doomed BY DEF KeptInv
<1>2. ASSUME UNCHANGED <<thread, body, meta, job, panels, deleted>>, u \notin late' => u \notin late,
             side'[u] # {} => side[u] # {}
      PROVE  DoomedAt(u)'
  <2>1. DoomedAt(u) BY <1>1, <1>2 DEF Doomed, DoomedAt, Doing
  <2>2. \A pcs : Has(u, pcs)' <=> Has(u, pcs) BY <1>2 DEF Has
  <2> QED BY <1>2, <2>1, <2>2 DEF DoomedAt
<1>3. ASSUME NEW x \in Uuids, NEW f \in Sidecars, WriteSidecar(x, f) PROVE DoomedAt(u)'
  <2>1. u \in deleted /\ u \in Uuids BY <1>1, <1>3 DEF WriteSidecar, listVars, LibTyped
  <2>2. x \in panels /\ ~Has(x, Doing) BY <1>3 DEF WriteSidecar, Has
  <2>3. u # x BY <1>1, <2>1, <2>2 DEF Doomed, Doing
  <2>4. side'[u] = side[u] BY <1>1, <1>3, <2>1, <2>3 DEF WriteSidecar, Replaced, LibTyped
  <2> QED BY <1>2, <1>3, <2>4 DEF WriteSidecar, listVars
<1>4. ASSUME ListHeals PROVE DoomedAt(u)'
  <2>1. PICK h \in Heals : h = Head(look.heals)
    <3>1. look.heals \in Seq(Heals) /\ look.heals # <<>> BY <1>1, <1>4 DEF ListHeals, LibTyped, Listings
    <3>2. Head(look.heals) \in Heals BY <3>1
    <3> QED BY <3>2
  <2>2. u \in deleted /\ u \in Uuids BY <1>1, <1>4 DEF ListHeals, listVars, LibTyped
  <2>3. DoomedAt(u) BY <1>1, <2>2 DEF Doomed, DoomedAt, Doing
  <2>4. meta' = [meta EXCEPT ![h.uuid] = File(h.ver)] /\ UNCHANGED <<thread, body, side, job, panels>>
    BY <1>4, <2>1 DEF ListHeals
  <2>5. \A pcs : Has(u, pcs)' <=> Has(u, pcs) BY <2>4 DEF Has
  <2>6. late' = IF body[h.uuid] = NoFile THEN late \cup {h.uuid} ELSE late BY <1>4, <2>1 DEF ListHeals
  <2>7. CASE h.uuid # u
    <3>1. meta'[u] = meta[u] BY <1>1, <2>2, <2>4, <2>7 DEF LibTyped
    <3>2. u \notin late' => u \notin late BY <2>6
    <3> QED BY <2>3, <2>4, <2>5, <3>1, <3>2 DEF DoomedAt
  <2>8. CASE h.uuid = u
    <3>1. u \notin late' => u \notin late /\ body[u] # NoFile BY <2>6, <2>8
    <3>2. Has(u, {"body"}) => Has(u, {"body", "meta"}) BY DEF Has
    <3> QED BY <2>3, <2>4, <2>5, <3>1, <3>2 DEF DoomedAt
  <2> QED BY <2>7, <2>8
<1>5. CASE \/ Stamp \/ ListBegins \/ ListReads \/ ListEnds \/ UNCHANGED seVars
           \/ \E x \in Uuids : TranscriptGoes(x) \/ ListStats(x)
  <2>1. UNCHANGED <<thread, body, meta, side, job, panels, deleted, late>>
    BY <1>5 DEF Stamp, ListBegins, ListReads, ListEnds, TranscriptGoes, ListStats, seVars, fileVars, listVars
  <2> QED BY <1>2, <2>1
<1>6. CASE \E x \in Uuids : Open(x) \/ Change(x) \/ BuildSnapshot(x) \/ StopReread(x) \/ SaveBody(x)
                            \/ SaveMeta(x) \/ ThreadEnds(x) \/ CloseTab(x)
  BY <1>6, DoomedSessions
<1>7. CASE \E w \in Windows : (\E x \in Uuids : ForceClose(w, x)) \/ LockList(w) \/ Hide(w)
  BY <1>7, DoomedJobs
<1>8. CASE \E w \in Windows : DeleteFile(w) BY <1>8, DoomedDelete
<1> QED BY <1>3, <1>4, <1>5, <1>6, <1>7, <1>8 DEF LibNext

LEMMA KeptStep == KeptInv /\ [LibNext]_seVars => KeptInv'
<1>1. KeptInv /\ [LibNext]_seVars => LibTyped' BY TypedNext DEF KeptInv
<1> QED BY <1>1, SnappedStep, HealsStep, LockedStep, DoomedStep DEF KeptInv

-----------------------------------------------------------------------------
(* The listing: the entry it is at was a body, and the body that is there    *)
(* now is no older.                                                          *)

OfItsSize(file) == file # NoFile => file.len = SizeOf[file.ver]
Sized == \A u \in Uuids : OfItsSize(body[u]) /\ OfItsSize(meta[u])
EntryIs(u, seen) ==
  /\ seen # NoFile /\ OfItsSize(seen) /\ seen.ver <= thread[u].snap
  /\ body[u] # NoFile => seen.ver <= body[u].ver
AtEntry == look.pc = "entry" => EntryIs(look.entry.uuid, look.entry.seen)

(* What a row owes the body the listing met.                                 *)
Current(row) == row.ver >= row.seen \/ SizeOf[row.ver] = SizeOf[row.seen]

PickInv == KeptInv /\ Sized /\ AtEntry /\ ListIsCurrent

LEMMA SizedFile == ASSUME LibTyped, NEW v \in Bodies PROVE OfItsSize(File(v))
BY DEF OfItsSize, File

LEMMA SizedStep == KeptInv /\ Sized /\ [LibNext]_seVars => Sized'
<1> SUFFICES ASSUME KeptInv, Sized, [LibNext]_seVars, NEW u \in Uuids
             PROVE  OfItsSize(body'[u]) /\ OfItsSize(meta'[u])
  BY DEF Sized, OfItsSize
<1>1. LibTyped /\ Snapped /\ HealsSnapped BY DEF KeptInv
<1>2. OfItsSize(body[u]) /\ OfItsSize(meta[u]) BY DEF Sized
<1>3. OfItsSize(NoFile) BY DEF OfItsSize
<1>4. thread[u].snap \in Bodies BY <1>1 DEF LibTyped, Threads
<1>5. OfItsSize(body'[u]) BY <1>1, <1>2, <1>3, <1>4, SizedFile, FilesStep
<1>6. Filed(thread[u].snap, meta'[u]) => OfItsSize(meta'[u]) BY <1>1, SizedFile DEF Filed
<1>7. OfItsSize(meta'[u]) BY <1>1, <1>2, <1>3, <1>6, FilesStep
<1> QED BY <1>5, <1>7

LEMMA EntryStep == KeptInv /\ Sized /\ AtEntry /\ [LibNext]_seVars => AtEntry'
<1> SUFFICES ASSUME KeptInv, Sized, AtEntry, [LibNext]_seVars, look'.pc = "entry"
             PROVE  EntryIs(look.entry.uuid, look.entry.seen)'
  BY DEF AtEntry
<1>1. LibTyped /\ Snapped /\ HealsSnapped BY DEF KeptInv
<1>2. LibTyped' BY <1>1, TypedNext
<1>3. ASSUME NEW u \in Uuids, ListStats(u) PROVE EntryIs(look.entry.uuid, look.entry.seen)'
  <2>1. PICK e : e = [uuid |-> u, seen |-> body[u]] OBVIOUS
  <2>2. PICK pc : pc = IF body[u] = NoFile THEN "next" ELSE "entry" OBVIOUS
  <2>3. look' = [look EXCEPT !.left = @ \ {u}, !.entry = e, !.pc = pc] BY <1>3, <2>1, <2>2 DEF ListStats
  <2>4. look'.entry = e /\ look'.pc = pc BY <1>1, <2>3 DEF LibTyped, Listings
  <2>5. body[u] # NoFile BY <2>2, <2>4
  <2>6. thread' = thread /\ body' = body BY <1>3 DEF ListStats, fileVars
  <2>7. OfItsSize(body[u]) /\ body[u].ver <= thread[u].snap BY <1>1 DEF Sized, Snapped
  <2>8. body[u].ver <= body[u].ver
    <3>1. body[u].ver \in Nat BY <1>1, Numbers
    <3> QED BY <3>1
  <2>9. EntryIs(u, body[u]) BY <2>5, <2>7, <2>8 DEF EntryIs
  <2>10. look'.entry.uuid = u /\ look'.entry.seen = body[u] BY <2>1, <2>4
  <2> QED BY <2>6, <2>9, <2>10 DEF EntryIs, OfItsSize
<1>4. CASE look'.entry = look.entry /\ look.pc = "entry"
  <2>1. PICK u \in Uuids : u = look.entry.uuid BY <1>1, <1>4 DEF LibTyped
  <2>2. PICK seen \in Saves : seen = look.entry.seen BY <1>1 DEF LibTyped, Listings
  <2>3. EntryIs(u, seen) BY <1>4, <2>1, <2>2 DEF AtEntry
  <2>4. PICK v, s, sn \in Nat : v = seen.ver /\ s = thread[u].snap /\ sn = thread'[u].snap
    <3>1. seen.ver \in Nat BY SessionLibraryAssumption DEF Saves, Bodies
    <3>2. thread[u].snap \in Nat BY <1>1, Numbers
    <3>3. thread'[u].snap \in Nat BY <1>2, NumbersNext
    <3> QED BY <3>1, <3>2, <3>3
  <2>5. v <= s /\ s <= sn BY <1>1, <2>3, <2>4, FilesStep DEF EntryIs
  <2>6. v <= sn BY <2>5
  <2>7. body'[u] # NoFile => v <= body'[u].ver
    <3>1. CASE body'[u] = body[u] BY <2>3, <2>4, <3>1 DEF EntryIs
    <3>2. CASE body'[u] = File(thread[u].snap)
      <4>1. File(thread[u].snap).ver = thread[u].snap BY <1>1, FileIs DEF LibTyped, Threads
      <4> QED BY <2>4, <2>5, <3>2, <4>1
    <3> QED BY <1>1, <3>1, <3>2, FilesStep
  <2>8. look'.entry.uuid = u /\ look'.entry.seen = seen BY <1>4, <2>1, <2>2
  <2>9. seen # NoFile /\ OfItsSize(seen) BY <2>3 DEF EntryIs
  <2> QED BY <2>4, <2>6, <2>7, <2>8, <2>9 DEF EntryIs, OfItsSize
<1>5. CASE ListBegins
  <2>1. PICK r \in Listings : r = Rest BY RestIs
  <2>2. look' = [r EXCEPT !.pc = "next", !.left = Saved] BY <1>5, <2>1 DEF ListBegins
  <2>3. look'.pc = "next" BY <2>2 DEF Listings
  <2> QED BY <2>3
<1>6. CASE ListReads \/ ListHeals \/ ListEnds
  <2>1. look \in Listings BY <1>1 DEF LibTyped
  <2>2. ListReads => look'.pc = "next" BY <2>1 DEF ListReads, Listings
  <2>3. ListHeals => look'.pc = "next" BY <2>1 DEF ListHeals, Listings
  <2>4. ListEnds => look'.pc = "idle" BY RestIs DEF ListEnds
  <2> QED BY <1>6, <2>2, <2>3, <2>4
<1>7. look' = look \/ ListHeals \/ ListReads \/ ListEnds \/ ListBegins \/ \E u \in Uuids : ListStats(u)
  BY DEF LibNext, seVars, Stamp, Open, Change, BuildSnapshot, StopReread, SaveBody, SaveMeta, ThreadEnds,
         CloseTab, TranscriptGoes, WriteSidecar, ForceClose, DeleteFile, LockList, Hide
<1> QED BY <1>3, <1>4, <1>5, <1>6, <1>7

LEMMA RowsStep ==
  ASSUME KeptInv, Sized, AtEntry, ListIsCurrent, [LibNext]_seVars
  PROVE  ListIsCurrent'
<1>1. LibTyped BY DEF KeptInv
<1>2. look.rows \in Seq(Rows) BY <1>1 DEF LibTyped, Listings
<1>3. CASE look'.rows = look.rows BY <1>3 DEF ListIsCurrent
<1>4. CASE ListReads
  <2>1. PICK u \in Uuids : u = look.entry.uuid BY <1>1, <1>4 DEF ListReads, LibTyped
  <2>2. PICK seen \in Saves : seen = look.entry.seen BY <1>1 DEF LibTyped, Listings
  <2>3. EntryIs(u, seen) BY <1>4, <2>1, <2>2 DEF AtEntry, ListReads
  <2>4. PICK a : a = [uuid |-> u, ver |-> meta[u].ver, seen |-> seen.ver] OBVIOUS
  <2>5. PICK b : b = [uuid |-> u, ver |-> body[u].ver, seen |-> seen.ver] OBVIOUS
  <2>6. seen.ver \in Bodies /\ meta[u].ver \in Bodies /\ meta[u] \in Saves /\ body[u] \in Saves
    BY <1>1 DEF LibTyped, Saves
  <2>7. look'.rows = IF Fresh(meta[u], seen) THEN Append(look.rows, a)
                     ELSE IF body[u] = NoFile THEN look.rows ELSE Append(look.rows, b)
    <3>1. PICK l \in Listings : l = look BY <1>1 DEF LibTyped
    <3>2. PICK rows : rows = IF Fresh(meta[u], seen) THEN Append(look.rows, a)
                             ELSE IF body[u] = NoFile THEN look.rows ELSE Append(look.rows, b) OBVIOUS
    <3>3. \E heals : look' = [l EXCEPT !.pc = "next", !.rows = rows, !.heals = heals]
      BY <1>4, <2>1, <2>2, <2>4, <2>5, <3>1, <3>2 DEF ListReads
    <3>4. look'.rows = rows BY <3>3 DEF Listings
    <3> QED BY <3>2, <3>4
  <2>8. ASSUME Fresh(meta[u], seen) PROVE Current(a)
    <3>1. meta[u] # NoFile /\ meta[u].len = seen.len BY <2>8 DEF Fresh
    <3>2. meta[u].len = SizeOf[meta[u].ver] BY <3>1 DEF Sized, OfItsSize
    <3>3. seen.len = SizeOf[seen.ver] BY <2>3 DEF EntryIs, OfItsSize
    <3> QED BY <2>4, <3>1, <3>2, <3>3 DEF Current
  <2>9. ASSUME body[u] # NoFile PROVE Current(b)
    <3>1. PICK v, w \in Nat : v = seen.ver /\ w = body[u].ver
      <4>1. seen.ver \in Nat BY <2>6, SessionLibraryAssumption DEF Bodies
      <4>2. body[u].ver \in Nat BY <1>1, Numbers
      <4> QED BY <4>1, <4>2
    <3>2. v <= w BY <2>3, <2>9, <3>1 DEF EntryIs
    <3>3. b.ver >= b.seen BY <2>5, <3>1, <3>2
    <3> QED BY <3>3 DEF Current
  <2>10. ASSUME NEW r, Current(r), look'.rows = Append(look.rows, r) PROVE ListIsCurrent'
    <3>1. ASSUME NEW i \in DOMAIN look'.rows
          PROVE  look'.rows[i] = r \/ (i \in DOMAIN look.rows /\ look'.rows[i] = look.rows[i])
      BY <1>2, <2>10
    <3> QED BY <2>10, <3>1 DEF ListIsCurrent, Current
  <2> QED BY <1>3, <2>7, <2>8, <2>9, <2>10
<1>5. CASE ListHeals \/ \E u \in Uuids : ListStats(u)
  <2>1. look \in Listings BY <1>1 DEF LibTyped
  <2>2. ListHeals => look'.rows = look.rows BY <2>1 DEF ListHeals, Listings
  <2>3. (\E u \in Uuids : ListStats(u)) => look'.rows = look.rows BY <2>1 DEF ListStats, Listings
  <2> QED BY <1>3, <1>5, <2>2, <2>3
<1>6. CASE ListEnds \/ ListBegins
  <2>1. ListEnds => look'.rows = Rest.rows BY DEF ListEnds
  <2>2. ListBegins => look'.rows = Rest.rows BY DEF ListBegins, Rest
  <2>3. PICK q : q = Rest.rows OBVIOUS
  <2>4. q = <<>> BY <2>3 DEF Rest
  <2>5. q \in Seq(Rows) /\ Len(q) = 0 BY <2>4
  <2>6. DOMAIN look'.rows = {} BY <1>6, <2>1, <2>2, <2>3, <2>5
  <2> QED BY <2>6 DEF ListIsCurrent
<1>7. look' = look \/ ListHeals \/ ListReads \/ ListEnds \/ ListBegins \/ \E u \in Uuids : ListStats(u)
  BY DEF LibNext, seVars, Stamp, Open, Change, BuildSnapshot, StopReread, SaveBody, SaveMeta, ThreadEnds,
         CloseTab, TranscriptGoes, WriteSidecar, ForceClose, DeleteFile, LockList, Hide
<1> QED BY <1>3, <1>4, <1>5, <1>6, <1>7

LEMMA PickInit == LibInit => PickInv
<1> SUFFICES ASSUME LibInit PROVE PickInv
  OBVIOUS
<1>1. Sized
  <2>1. \A u \in Uuids : body[u] = NoFile /\ meta[u] = NoFile BY DEF LibInit
  <2> QED BY <2>1 DEF Sized, OfItsSize
<1>2. AtEntry
  <2>1. look.pc = "idle" BY DEF LibInit, Rest
  <2> QED BY <2>1 DEF AtEntry
<1>3. ListIsCurrent
  <2>1. PICK q : q = Rest.rows OBVIOUS
  <2>2. q = <<>> BY <2>1 DEF Rest
  <2>3. q \in Seq(Rows) /\ Len(q) = 0 BY <2>2
  <2>4. DOMAIN look.rows = {} BY <2>1, <2>3 DEF LibInit
  <2> QED BY <2>4 DEF ListIsCurrent
<1> QED BY <1>1, <1>2, <1>3, KeptInit DEF PickInv

LEMMA PickStep == PickInv /\ [LibNext]_seVars => PickInv'
BY KeptStep, SizedStep, EntryStep, RowsStep DEF PickInv

LEMMA KeptTypes == KeptInv => LibTypeOK
<1> SUFFICES ASSUME KeptInv PROVE LibTypeOK
  OBVIOUS
<1>1. LibTyped /\ Snapped BY DEF KeptInv
<1>2. ASSUME NEW u \in Uuids
      PROVE  body[u].ver <= thread[u].ver /\ meta[u].ver <= thread[u].ver /\ side[u] \subseteq Sidecars
  <2>1. PICK b, m, s, v \in Nat : /\ b = body[u].ver /\ m = meta[u].ver
                                  /\ s = thread[u].snap /\ v = thread[u].ver
    BY <1>1, Numbers
  <2>2. b <= s /\ m <= s /\ s <= v BY <1>1, <2>1 DEF Snapped
  <2>3. b <= v /\ m <= v BY <2>2
  <2>4. side[u] \subseteq Sidecars BY <1>1 DEF LibTyped
  <2> QED BY <2>1, <2>3, <2>4
<1>3. clock \in 0 .. MaxTrouble
  <2>1. MaxTrouble \in Nat /\ clock \in Nat /\ faults \in Nat /\ clock + faults <= MaxTrouble
    BY <1>1, SessionLibraryAssumption DEF LibTyped
  <2> QED BY <2>1
<1> QED BY <1>1, <1>2, <1>3 DEF LibTypeOK, LibTyped

LEMMA KeptAway == KeptInv => DeletedStaysAway
<1> SUFFICES ASSUME KeptInv, NEW u \in (gone \cap deleted) \ late, \A w \in Windows : job[w].uuid # u
             PROVE  /\ body[u] = NoFile /\ meta[u] = NoFile /\ side[u] = {}
                    /\ u \notin Saved \cup Listing.sessions
  BY DEF DeletedStaysAway
<1>1. \A pcs : ~Has(u, pcs) BY DEF Has
<1>2. body[u] = NoFile /\ meta[u] = NoFile /\ side[u] = {} BY <1>1 DEF KeptInv, Doomed
<1>3. u \in Range(hidden) BY DEF KeptInv, DismissalsKept
<1> QED BY <1>2, <1>3 DEF Saved, Listing

LEMMA TombstonesStep ==
  KeptInv /\ [LibNext]_seVars =>
    [\A u \in gone \ gone' :
       /\ u \in trans /\ opens' = opens /\ faults' = faults
       /\ \A w \in Windows : job[w].pc # "blind"
       => gone' \subseteq trans]_seVars
<1> SUFFICES ASSUME KeptInv, LibNext, NEW u \in gone \ gone', u \in trans, opens' = opens, faults' = faults,
                    \A w \in Windows : job[w].pc # "blind"
             PROVE  gone' \subseteq trans
  OBVIOUS
<1>1. LibTyped /\ Locked /\ DismissalsKept BY DEF KeptInv
<1>2. ASSUME NEW x \in Uuids, Open(x) PROVE FALSE
  BY <1>1, <1>2 DEF Open, LibTyped
<1>3. \E w \in Windows : Hide(w)
  BY <1>2 DEF LibNext, listVars, Stamp, Change, BuildSnapshot, StopReread, SaveBody, SaveMeta, ThreadEnds,
     CloseTab, TranscriptGoes, WriteSidecar, ListStats, ListBegins, ListReads, ListHeals, ListEnds,
     ForceClose, DeleteFile, LockList
<1>4. PICK w \in Windows : Hide(w) BY <1>3
<1>5. job[w].read = hidden
  <2>1. job[w].pc = "listed" BY <1>4 DEF Hide
  <2> QED BY <1>1, <2>1 DEF Locked
<1>6. PICK x \in Uuids : x = job[w].uuid BY <1>1, <1>4 DEF Hide, LibTyped
<1>7. ~Fault BY <1>1 DEF Fault, LibTyped
<1>8. hidden' = Dismissed(hidden, x, trans) BY <1>4, <1>5, <1>6, <1>7 DEF Hide, ExistingUuids
<1>9. hidden \in Seq(Uuids) BY <1>1 DEF LibTyped
<1>10. Range(hidden') \subseteq trans \/ Range(hidden') = Range(hidden) \cup {x} BY <1>8, <1>9, DismissedFact
<1>11. DismissalsKept' BY LockedStep
<1> QED BY <1>1, <1>10, <1>11 DEF DismissalsKept

(* No dismissal is lost but to an adoption, to the cap of the list,          *)
(* tombstones first, or to a delete that could not read the list and starts  *)
(* it anew; and of a session whose delete was answered and whose dismissal   *)
(* stands nothing is left and nothing is offered, unless a writer was past   *)
(* its last check when the delete began (save and delete of snapshot.rs,     *)
(* load and hide of hidden.rs).                                              *)
THEOREM DismissalsTheorem ==
  LibSpec => [](LibTypeOK /\ DeletedStaysAway /\ DismissalsKept) /\ TombstonesFirst
<1>1. KeptInv /\ [LibNext]_seVars =>
        [\A u \in gone \ gone' :
           /\ u \in trans /\ opens' = opens /\ faults' = faults
           /\ \A w \in Windows : job[w].pc # "blind"
           => gone' \subseteq trans]_seVars
  BY TombstonesStep
<1>2. KeptInv => LibTypeOK /\ DeletedStaysAway /\ DismissalsKept
  BY KeptTypes, KeptAway DEF KeptInv
<1> QED BY <1>1, <1>2, KeptInit, KeptStep, PTL DEF LibSpec, TombstonesFirst

(* And a row of the picker that is older than the body it was made from      *)
(* tells of a body of the same length: a meta file is taken for fresh by its *)
(* time and that length (list of snapshot.rs).                               *)
THEOREM LibraryIsCurrentTheorem == LibSpec => LibraryIsCurrent
<1>1. LibInit => PickInv BY PickInit
<1>2. PickInv /\ [LibNext]_seVars => PickInv' BY PickStep
<1>3. PickInv => ListIsCurrent BY DEF PickInv
<1>4. LibSpec => []ListIsCurrent BY <1>1, <1>2, <1>3, PTL DEF LibSpec
<1> QED BY <1>4, DismissalsTheorem, PTL DEF LibraryIsCurrent

-----------------------------------------------------------------------------
(* The graph of commits: a commit's parents are older, so ancestors and      *)
(* stories are what their definitions say.                                   *)

Commits == [tree : Nat, msg : Nat, parents : Seq(Nat)]
Parented(cs) ==
  /\ cs \in Seq(Commits)
  /\ \A c \in DOMAIN cs : \A n \in DOMAIN cs[c].parents : cs[c].parents[n] \in 1 .. c - 1

IsAncestors(a, cs, m) ==
  a = [c \in 1 .. m |-> {c} \cup UNION {a[p] : p \in Range(cs[c].parents)}]

LEMMA ParentsBelow ==
  ASSUME NEW cs, Parented(cs), NEW c \in DOMAIN cs
  PROVE  /\ DOMAIN cs = 1..Len(cs) /\ Len(cs) \in Nat /\ cs[c] \in Commits
         /\ \A p \in Range(cs[c].parents) : p \in 1 .. c - 1 /\ p \in DOMAIN cs
<1>1. DOMAIN cs = 1..Len(cs) /\ Len(cs) \in Nat /\ cs[c] \in Commits BY DEF Parented
<1>2. \A p \in Range(cs[c].parents) : p \in 1 .. c - 1 BY DEF Parented, Range
<1> QED BY <1>1, <1>2

LEMMA AncestorsExist ==
  ASSUME NEW cs, Parented(cs), NEW m \in Nat, m <= Len(cs)
  PROVE  \E a : IsAncestors(a, cs, m)
<1> DEFINE S == {n \in 0..m : \E a : IsAncestors(a, cs, n)}
<1>0. Len(cs) \in Nat /\ DOMAIN cs = 1..Len(cs) BY DEF Parented
<1>1. 0 \in S
  <2>1. IsAncestors([c \in 1..0 |-> {}], cs, 0) BY DEF IsAncestors
  <2> QED BY <2>1
<1>2. ASSUME NEW n \in 1..m, n - 1 \in S PROVE n \in S
  <2>1. PICK a : IsAncestors(a, cs, n - 1) BY <1>2
  <2> DEFINE new == {n} \cup UNION {a[p] : p \in Range(cs[n].parents)}
             g == [c \in 1..n |-> IF c = n THEN new ELSE a[c]]
  <2>2. ASSUME NEW c \in 1..n PROVE g[c] = {c} \cup UNION {g[p] : p \in Range(cs[c].parents)}
    <3>1. c \in DOMAIN cs BY <1>0
    <3>2. \A p \in Range(cs[c].parents) : p \in 1 .. c - 1 BY <3>1, ParentsBelow
    <3>3. \A p \in Range(cs[c].parents) : g[p] = a[p] BY <3>2
    <3>4. {g[p] : p \in Range(cs[c].parents)} = {a[p] : p \in Range(cs[c].parents)} BY <3>3
    <3>5. CASE c = n BY <3>4, <3>5
    <3>6. CASE c # n
      <4>1. c \in 1..(n - 1) /\ g[c] = a[c] BY <3>6
      <4>2. a[c] = {c} \cup UNION {a[p] : p \in Range(cs[c].parents)} BY <2>1, <4>1 DEF IsAncestors
      <4> QED BY <3>4, <4>1, <4>2
    <3> QED BY <3>5, <3>6
  <2>3. IsAncestors(g, cs, n)
    <3>1. g = [c \in 1..n |-> g[c]] OBVIOUS
    <3> HIDE DEF g
    <3> QED BY <2>2, <3>1 DEF IsAncestors
  <2> QED BY <2>3
<1> HIDE DEF S
<1>3. m \in S BY <1>1, <1>2, UpTo
<1> QED BY <1>3 DEF S

LEMMA AncestorsUnfold ==
  ASSUME NEW cs, Parented(cs), NEW c \in DOMAIN cs
  PROVE  Ancestors(cs)[c] = {c} \cup UNION {Ancestors(cs)[p] : p \in Range(cs[c].parents)}
<1>1. DOMAIN cs = 1..Len(cs) /\ Len(cs) \in Nat BY DEF Parented
<1>2. \E a : IsAncestors(a, cs, Len(cs)) BY <1>1, AncestorsExist
<1>3. Ancestors(cs) = CHOOSE a : IsAncestors(a, cs, Len(cs)) BY <1>1 DEF Ancestors, IsAncestors
<1>4. IsAncestors(Ancestors(cs), cs, Len(cs)) BY <1>2, <1>3
<1>5. PICK a : a = Ancestors(cs) OBVIOUS
<1>6. a = [d \in 1..Len(cs) |-> {d} \cup UNION {a[p] : p \in Range(cs[d].parents)}]
  <2>1. IsAncestors(a, cs, Len(cs)) BY <1>4, <1>5
  <2> QED BY ONLY <2>1 DEF IsAncestors
<1>7. a[c] = {c} \cup UNION {a[p] : p \in Range(cs[c].parents)} BY <1>1, <1>6
<1> QED BY <1>5, <1>7

LEMMA AncestorsBelow ==
  ASSUME NEW cs, Parented(cs), NEW c \in DOMAIN cs
  PROVE  c \in Ancestors(cs)[c] /\ Ancestors(cs)[c] \subseteq 1..c
<1> DEFINE S == {n \in 0..Len(cs) : \A d \in 1..n : Ancestors(cs)[d] \subseteq 1..d}
<1>0. DOMAIN cs = 1..Len(cs) /\ Len(cs) \in Nat BY DEF Parented
<1>1. 0 \in S BY <1>0
<1>2. ASSUME NEW n \in 1..Len(cs), n - 1 \in S PROVE n \in S
  <2>1. Ancestors(cs)[n] = {n} \cup UNION {Ancestors(cs)[p] : p \in Range(cs[n].parents)}
    BY <1>0, AncestorsUnfold
  <2>2. \A p \in Range(cs[n].parents) : p \in 1 .. n - 1 BY <1>0, ParentsBelow
  <2>3. \A p \in Range(cs[n].parents) : Ancestors(cs)[p] \subseteq 1..n
    <3>1. ASSUME NEW p \in Range(cs[n].parents) PROVE Ancestors(cs)[p] \subseteq 1..n
      <4>1. Ancestors(cs)[p] \subseteq 1..p BY <1>2, <2>2
      <4>2. 1..p \subseteq 1..n BY <2>2
      <4> QED BY <4>1, <4>2
    <3> QED BY <3>1
  <2>4. Ancestors(cs)[n] \subseteq 1..n BY <2>1, <2>3
  <2>5. \A d \in 1..n : d = n \/ d \in 1..(n - 1) OBVIOUS
  <2> QED BY <1>2, <2>4, <2>5
<1> HIDE DEF S
<1>3. Len(cs) \in S BY <1>0, <1>1, <1>2, UpTo
<1>4. Ancestors(cs)[c] \subseteq 1..c BY <1>0, <1>3 DEF S
<1> QED BY <1>4, AncestorsUnfold

LEMMA AncestorsOfOne ==
  ASSUME NEW cs, Parented(cs), NEW c \in DOMAIN cs, NEW p, cs[c].parents = <<p>>
  PROVE  p \in DOMAIN cs /\ p < c /\ Ancestors(cs)[c] = {c} \cup Ancestors(cs)[p]
<1>1. PICK ps : ps = cs[c].parents OBVIOUS
<1>2. Range(ps) = {p}
  <2>1. ps = <<p>> BY <1>1
  <2>2. DOMAIN ps = {1} /\ ps[1] = p BY <2>1
  <2> QED BY <2>2 DEF Range
<1>3. p \in 1 .. c - 1 /\ p \in DOMAIN cs BY <1>1, <1>2, ParentsBelow
<1>4. p < c BY <1>3, ParentsBelow
<1>5. Ancestors(cs)[c] = {c} \cup UNION {Ancestors(cs)[q] : q \in Range(ps)} BY <1>1, AncestorsUnfold
<1> QED BY <1>2, <1>3, <1>4, <1>5

(* Commits are only added.                                                   *)
Grows(cs, ds) == Parented(cs) /\ Parented(ds) /\ Len(cs) <= Len(ds) /\ \A c \in DOMAIN cs : ds[c] = cs[c]

LEMMA AncestorsKept ==
  ASSUME NEW cs, NEW ds, Grows(cs, ds), NEW c \in DOMAIN cs
  PROVE  c \in DOMAIN ds /\ Ancestors(ds)[c] = Ancestors(cs)[c]
<1> DEFINE S == {n \in 0..Len(cs) : \A d \in 1..n : Ancestors(ds)[d] = Ancestors(cs)[d]}
<1>0. /\ DOMAIN cs = 1..Len(cs) /\ Len(cs) \in Nat /\ Parented(cs)
      /\ DOMAIN ds = 1..Len(ds) /\ Len(ds) \in Nat /\ Parented(ds) /\ Len(cs) <= Len(ds)
  BY DEF Parented, Grows
<1>1. 0 \in S BY <1>0
<1>2. ASSUME NEW n \in 1..Len(cs), n - 1 \in S PROVE n \in S
  <2>1. n \in DOMAIN cs /\ n \in DOMAIN ds BY <1>0
  <2>2. Ancestors(cs)[n] = {n} \cup UNION {Ancestors(cs)[p] : p \in Range(cs[n].parents)}
    BY <1>0, <2>1, AncestorsUnfold
  <2>3. Ancestors(ds)[n] = {n} \cup UNION {Ancestors(ds)[p] : p \in Range(ds[n].parents)}
    BY <1>0, <2>1, AncestorsUnfold
  <2>4. ds[n] = cs[n] BY <2>1 DEF Grows
  <2>5. \A p \in Range(cs[n].parents) : p \in 1 .. n - 1 BY <1>0, <2>1, ParentsBelow
  <2>6. \A p \in Range(cs[n].parents) : Ancestors(ds)[p] = Ancestors(cs)[p] BY <1>2, <2>5
  <2>7. {Ancestors(ds)[p] : p \in Range(ds[n].parents)} = {Ancestors(cs)[p] : p \in Range(cs[n].parents)}
    BY <2>4, <2>6
  <2>8. Ancestors(ds)[n] = Ancestors(cs)[n] BY <2>2, <2>3, <2>7
  <2>9. \A d \in 1..n : d = n \/ d \in 1..(n - 1) OBVIOUS
  <2> QED BY <1>2, <2>8, <2>9
<1> HIDE DEF S
<1>3. Len(cs) \in S BY <1>0, <1>1, <1>2, UpTo
<1> QED BY <1>0, <1>3 DEF S

Line(c) == [tree |-> c.tree, msg |-> c.msg, merged |-> SubSeq(c.parents, 2, Len(c.parents))]
Lines == [tree : Nat, msg : Nat, merged : Seq(Nat)]
First(c) == IF c.parents = <<>> THEN 0 ELSE c.parents[1]
IsStories(s, cs, m) ==
  s = [c \in 0 .. m |-> IF c = 0 THEN <<>> ELSE Append(s[First(cs[c])], Line(cs[c]))]

LEMMA FirstBelow ==
  ASSUME NEW cs, Parented(cs), NEW c \in DOMAIN cs
  PROVE  First(cs[c]) \in 0 .. c - 1 /\ Line(cs[c]) \in Lines
<1>1. PICK ps \in Seq(Nat) : ps = cs[c].parents BY ParentsBelow DEF Commits
<1>2. c \in Nat /\ c > 0 BY ParentsBelow
<1>3. ASSUME ps = <<>> PROVE First(cs[c]) \in 0 .. c - 1
  <2>1. First(cs[c]) = 0 BY <1>1, <1>3 DEF First
  <2>2. 0 \in 0 .. c - 1 BY <1>2
  <2> QED BY <2>1, <2>2
<1>4. ASSUME ps # <<>> PROVE First(cs[c]) \in 0 .. c - 1
  <2>1. 1 \in DOMAIN ps BY <1>4
  <2>2. ps[1] \in 1 .. c - 1 BY <1>1, <2>1 DEF Parented
  <2>3. First(cs[c]) = ps[1] BY <1>1, <1>4 DEF First
  <2>4. \A x \in 1 .. c - 1 : x \in 0 .. c - 1 BY <1>2
  <2> QED BY <2>2, <2>3, <2>4
<1>5. SubSeq(ps, 2, Len(ps)) \in Seq(Nat)
  <2>1. \A k \in 2..Len(ps) : ps[k] \in Nat OBVIOUS
  <2> QED BY <2>1, SubSeqProperties
<1>6. cs[c] \in Commits BY ParentsBelow
<1>7. Line(cs[c]) \in Lines BY <1>1, <1>5, <1>6 DEF Line, Lines, Commits
<1>8. First(cs[c]) \in 0 .. c - 1 BY <1>3, <1>4
<1> QED BY <1>7, <1>8

LEMMA StoriesExist ==
  ASSUME NEW cs, Parented(cs), NEW m \in Nat, m <= Len(cs)
  PROVE  \E s : IsStories(s, cs, m)
<1> DEFINE S == {n \in 0..m : \E s : IsStories(s, cs, n)}
<1>0. Len(cs) \in Nat /\ DOMAIN cs = 1..Len(cs) BY DEF Parented
<1>1. 0 \in S
  <2>1. IsStories([c \in 0..0 |-> <<>>], cs, 0) BY DEF IsStories
  <2> QED BY <2>1
<1>2. ASSUME NEW n \in 1..m, n - 1 \in S PROVE n \in S
  <2>1. PICK s : IsStories(s, cs, n - 1) BY <1>2
  <2> DEFINE g == [c \in 0..n |-> IF c = n THEN Append(s[First(cs[n])], Line(cs[n])) ELSE s[c]]
  <2>2. ASSUME NEW c \in 0..n PROVE g[c] = IF c = 0 THEN <<>> ELSE Append(g[First(cs[c])], Line(cs[c]))
    <3>1. c # 0 => First(cs[c]) \in 0 .. c - 1 BY <1>0, FirstBelow
    <3>20. \A x \in 0 .. c - 1 : x \in 0..n /\ x # n OBVIOUS
    <3>2. c # 0 => g[First(cs[c])] = s[First(cs[c])] BY <3>1, <3>20
    <3>3. CASE c = n
      <4>1. c # 0 /\ g[c] = Append(s[First(cs[c])], Line(cs[c])) BY <3>3
      <4> QED BY <3>2, <4>1
    <3>4. CASE c # n
      <4>1. c \in 0..(n - 1) /\ g[c] = s[c] BY <3>4
      <4>2. s[c] = IF c = 0 THEN <<>> ELSE Append(s[First(cs[c])], Line(cs[c]))
        BY <2>1, <4>1 DEF IsStories
      <4> QED BY <3>2, <4>1, <4>2
    <3> QED BY <3>3, <3>4
  <2>3. IsStories(g, cs, n)
    <3>1. g = [c \in 0..n |-> g[c]] OBVIOUS
    <3> HIDE DEF g
    <3> QED BY <2>2, <3>1 DEF IsStories
  <2> QED BY <2>3
<1> HIDE DEF S
<1>3. m \in S BY <1>1, <1>2, UpTo
<1> QED BY <1>3 DEF S

LEMMA StoriesUnfold ==
  ASSUME NEW cs, Parented(cs), NEW c \in 0..Len(cs)
  PROVE  Stories(cs)[c] = IF c = 0 THEN <<>> ELSE Append(Stories(cs)[First(cs[c])], Line(cs[c]))
<1>1. Len(cs) \in Nat BY DEF Parented
<1>2. \E s : IsStories(s, cs, Len(cs)) BY <1>1, StoriesExist
<1>3. Stories(cs) = CHOOSE s : IsStories(s, cs, Len(cs)) BY DEF Stories, IsStories, First, Line
<1>4. IsStories(Stories(cs), cs, Len(cs)) BY <1>2, <1>3
<1>5. PICK s : s = Stories(cs) OBVIOUS
<1>6. s = [d \in 0..Len(cs) |-> IF d = 0 THEN <<>> ELSE Append(s[First(cs[d])], Line(cs[d]))]
  BY <1>4, <1>5 DEF IsStories
<1>7. s[c] = IF c = 0 THEN <<>> ELSE Append(s[First(cs[c])], Line(cs[c])) BY <1>6
<1> QED BY <1>5, <1>7

LEMMA StoriesType ==
  ASSUME NEW cs, Parented(cs), NEW c \in 0..Len(cs)
  PROVE  Stories(cs)[c] \in Seq(Lines)
<1> DEFINE S == {n \in 0..Len(cs) : \A d \in 0..n : Stories(cs)[d] \in Seq(Lines)}
<1>0. DOMAIN cs = 1..Len(cs) /\ Len(cs) \in Nat BY DEF Parented
<1>1. 0 \in S
  <2>1. Stories(cs)[0] = <<>> BY <1>0, StoriesUnfold
  <2>2. \A d \in 0..0 : d = 0 OBVIOUS
  <2>3. <<>> \in Seq(Lines) OBVIOUS
  <2>4. \A d \in 0..0 : Stories(cs)[d] \in Seq(Lines) BY <2>1, <2>2, <2>3
  <2> QED BY <1>0, <2>4
<1>2. ASSUME NEW n \in 1..Len(cs), n - 1 \in S PROVE n \in S
  <2>0. n \in DOMAIN cs /\ n \in 0..Len(cs) /\ n # 0 BY <1>0
  <2>1. First(cs[n]) \in 0 .. n - 1 /\ Line(cs[n]) \in Lines BY <2>0, FirstBelow
  <2>2. Stories(cs)[n] = Append(Stories(cs)[First(cs[n])], Line(cs[n])) BY <2>0, StoriesUnfold
  <2>3. Stories(cs)[First(cs[n])] \in Seq(Lines) BY <1>2, <2>1
  <2>4. Stories(cs)[n] \in Seq(Lines) BY <2>1, <2>2, <2>3, AppendProperties
  <2>5. \A d \in 0..n : d = n \/ d \in 0..(n - 1) OBVIOUS
  <2> QED BY <1>2, <2>4, <2>5
<1> HIDE DEF S
<1>3. Len(cs) \in S BY <1>0, <1>1, <1>2, UpTo
<1> QED BY <1>3 DEF S

LEMMA StoriesKept ==
  ASSUME NEW cs, NEW ds, Grows(cs, ds), NEW c \in 0..Len(cs)
  PROVE  Stories(ds)[c] = Stories(cs)[c]
<1> DEFINE S == {n \in 0..Len(cs) : \A d \in 0..n : Stories(ds)[d] = Stories(cs)[d]}
<1>0. /\ DOMAIN cs = 1..Len(cs) /\ Len(cs) \in Nat /\ Parented(cs)
      /\ DOMAIN ds = 1..Len(ds) /\ Len(ds) \in Nat /\ Parented(ds) /\ Len(cs) <= Len(ds)
  BY DEF Parented, Grows
<1>1. 0 \in S
  <2>1. Stories(cs)[0] = <<>> /\ Stories(ds)[0] = <<>> BY <1>0, StoriesUnfold
  <2>2. \A d \in 0..0 : d = 0 OBVIOUS
  <2> QED BY <1>0, <2>1, <2>2
<1>2. ASSUME NEW n \in 1..Len(cs), n - 1 \in S PROVE n \in S
  <2>1. n \in DOMAIN cs /\ n \in DOMAIN ds /\ n \in 0..Len(cs) /\ n \in 0..Len(ds) /\ n # 0 BY <1>0
  <2>2. Stories(cs)[n] = Append(Stories(cs)[First(cs[n])], Line(cs[n])) BY <1>0, <2>1, StoriesUnfold
  <2>3. Stories(ds)[n] = Append(Stories(ds)[First(ds[n])], Line(ds[n])) BY <1>0, <2>1, StoriesUnfold
  <2>4. ds[n] = cs[n] BY <2>1 DEF Grows
  <2>5. First(cs[n]) \in 0 .. n - 1 BY <1>0, <2>1, FirstBelow
  <2>6. Stories(ds)[First(cs[n])] = Stories(cs)[First(cs[n])] BY <1>2, <2>5
  <2>7. Stories(ds)[n] = Stories(cs)[n] BY <2>2, <2>3, <2>4, <2>6
  <2>8. \A d \in 0..n : d = n \/ d \in 0..(n - 1) OBVIOUS
  <2> QED BY <1>2, <2>7, <2>8
<1> HIDE DEF S
<1>3. Len(cs) \in S BY <1>0, <1>1, <1>2, UpTo
<1> QED BY <1>3 DEF S

LEMMA StoryOfOne ==
  ASSUME NEW cs, Parented(cs), NEW c \in DOMAIN cs, NEW p \in Nat, cs[c].parents = <<p>>
  PROVE  Stories(cs)[c] = Append(Stories(cs)[p], [tree |-> cs[c].tree, msg |-> cs[c].msg, merged |-> <<>>])
<1>0. DOMAIN cs = 1..Len(cs) /\ Len(cs) \in Nat BY DEF Parented
<1>1. PICK ps \in Seq(Nat) : ps = <<p>> /\ ps = cs[c].parents
  <2>1. <<p>> \in Seq(Nat) OBVIOUS
  <2> QED BY <2>1
<1>2. Len(ps) = 1 /\ ps[1] = p /\ ps # <<>> BY <1>1
<1>3. First(cs[c]) = p BY <1>1, <1>2 DEF First
<1>4. SubSeq(ps, 2, Len(ps)) = <<>>
  <2>1. PICK q : q = SubSeq(ps, 2, 1) OBVIOUS
  <2>2. \A k \in 2..1 : ps[k] \in Nat OBVIOUS
  <2>3. q \in Seq(Nat) /\ Len(q) = 0 BY <2>1, <2>2, SubSeqProperties
  <2>4. q = <<>> BY <2>3, EmptySeq
  <2> QED BY <1>2, <2>1, <2>4
<1>5. Line(cs[c]) = [tree |-> cs[c].tree, msg |-> cs[c].msg, merged |-> <<>>] BY <1>1, <1>4 DEF Line
<1>6. c \in 0..Len(cs) /\ c # 0 BY <1>0
<1> QED BY <1>3, <1>5, <1>6, StoriesUnfold

-----------------------------------------------------------------------------
(* rev-list --reverse: a set of commits in ascending order.                  *)

IsUp(f, s, n) ==
  f = [k \in 0 .. n |-> IF k = 0 THEN <<>> ELSE IF k \in s THEN Append(f[k - 1], k) ELSE f[k - 1]]

LEMMA UpExists ==
  ASSUME NEW s, NEW m \in Nat
  PROVE  \E f : IsUp(f, s, m)
<1> DEFINE S == {n \in 0..m : \E f : IsUp(f, s, n)}
<1>1. 0 \in S
  <2>1. IsUp([k \in 0..0 |-> <<>>], s, 0) BY DEF IsUp
  <2> QED BY <2>1
<1>2. ASSUME NEW n \in 1..m, n - 1 \in S PROVE n \in S
  <2>1. PICK f : IsUp(f, s, n - 1) BY <1>2
  <2> DEFINE new == IF n \in s THEN Append(f[n - 1], n) ELSE f[n - 1]
             g == [k \in 0..n |-> IF k = n THEN new ELSE f[k]]
  <2>2. ASSUME NEW k \in 0..n
        PROVE  g[k] = IF k = 0 THEN <<>> ELSE IF k \in s THEN Append(g[k - 1], k) ELSE g[k - 1]
    <3>1. k # 0 => k - 1 \in 0..n /\ k - 1 # n /\ g[k - 1] = f[k - 1] OBVIOUS
    <3>2. CASE k = n BY <3>1, <3>2
    <3>3. CASE k # n
      <4>1. k \in 0..(n - 1) /\ g[k] = f[k] BY <3>3
      <4>2. f[k] = IF k = 0 THEN <<>> ELSE IF k \in s THEN Append(f[k - 1], k) ELSE f[k - 1]
        BY <2>1, <4>1 DEF IsUp
      <4> QED BY <3>1, <4>1, <4>2
    <3> QED BY <3>2, <3>3
  <2>3. IsUp(g, s, n)
    <3>1. g = [k \in 0..n |-> g[k]] OBVIOUS
    <3> HIDE DEF g
    <3> QED BY <2>2, <3>1 DEF IsUp
  <2> QED BY <2>3
<1> HIDE DEF S
<1>3. m \in S BY <1>1, <1>2, UpTo
<1> QED BY <1>3 DEF S

(* The empty set has no list; a commit above all others comes last.          *)
LEMMA AscendingFact ==
  ASSUME NEW s, NEW m \in Nat
  PROVE  /\ (\A k \in s : k \notin 1..m) => Ascending(s, m) = <<>>
         /\ \A o \in 1..m : (\A k \in s : k \in 1 .. o - 1) =>
                              Ascending(s \cup {o}, m) = Append(Ascending(s, m), o)
<1>1. ASSUME NEW t PROVE \E f : IsUp(f, t, m) /\ Ascending(t, m) = f[m]
  <2>1. Ascending(t, m) = (CHOOSE f : IsUp(f, t, m))[m] BY DEF Ascending, IsUp
  <2> QED BY <2>1, UpExists
<1>2. ASSUME \A k \in s : k \notin 1..m PROVE Ascending(s, m) = <<>>
  <2>1. PICK f : IsUp(f, s, m) /\ Ascending(s, m) = f[m] BY <1>1
  <2> DEFINE S == {n \in 0..m : f[n] = <<>>}
  <2>2. 0 \in S BY <2>1 DEF IsUp
  <2>3. ASSUME NEW n \in 1..m, n - 1 \in S PROVE n \in S
    <3>1. n \notin s BY <1>2
    <3>2. f[n] = IF n = 0 THEN <<>> ELSE IF n \in s THEN Append(f[n - 1], n) ELSE f[n - 1]
      <4>1. n \in 0..m OBVIOUS
      <4> QED BY <2>1, <4>1 DEF IsUp
    <3>3. n # 0 OBVIOUS
    <3> QED BY <2>3, <3>1, <3>2, <3>3
  <2> HIDE DEF S
  <2>4. m \in S BY <2>2, <2>3, UpTo
  <2> QED BY <2>1, <2>4 DEF S
<1>3. ASSUME NEW o \in 1..m, \A k \in s : k \in 1 .. o - 1
      PROVE  Ascending(s \cup {o}, m) = Append(Ascending(s, m), o)
  <2>1. PICK f : IsUp(f, s, m) /\ Ascending(s, m) = f[m] BY <1>1
  <2>2. PICK g : IsUp(g, s \cup {o}, m) /\ Ascending(s \cup {o}, m) = g[m] BY <1>1
  <2> DEFINE S == {n \in 0..m : g[n] = IF n < o THEN f[n] ELSE Append(f[n], o)}
  <2>3. 0 \in S BY <2>1, <2>2 DEF IsUp
  <2>4. ASSUME NEW n \in 1..m, n - 1 \in S PROVE n \in S
    <3>1. f[n] = IF n \in s THEN Append(f[n - 1], n) ELSE f[n - 1]
      <4>1. n \in 0..m /\ n # 0 OBVIOUS
      <4> QED BY <2>1, <4>1 DEF IsUp
    <3>2. g[n] = IF n \in s \cup {o} THEN Append(g[n - 1], n) ELSE g[n - 1]
      <4>1. n \in 0..m /\ n # 0 OBVIOUS
      <4> QED BY <2>2, <4>1 DEF IsUp
    <3>3. g[n - 1] = IF n - 1 < o THEN f[n - 1] ELSE Append(f[n - 1], o) BY <2>4
    <3>4. CASE n < o
      <4>1. n - 1 < o /\ n # o BY <3>4
      <4> QED BY <3>1, <3>2, <3>3, <3>4, <4>1
    <3>5. CASE n = o
      <4>1. n \notin s /\ n - 1 < o /\ ~(n < o) /\ n \in s \cup {o} BY <1>3, <3>5
      <4>2. g[n] = Append(g[n - 1], n) /\ g[n - 1] = f[n - 1] /\ f[n] = f[n - 1] BY <3>1, <3>2, <3>3, <4>1
      <4>3. g[n] = Append(f[n], o) BY <3>5, <4>2
      <4> QED BY <4>1, <4>3
    <3>6. CASE n > o
      <4>1. n \notin s /\ n \notin s \cup {o} /\ ~(n - 1 < o) /\ ~(n < o) BY <1>3, <3>6
      <4> QED BY <3>1, <3>2, <3>3, <4>1
    <3> QED BY <3>4, <3>5, <3>6
  <2> HIDE DEF S
  <2>5. m \in S BY <2>3, <2>4, UpTo
  <2>6. g[m] = Append(f[m], o)
    <3>1. ~(m < o) OBVIOUS
    <3> QED BY <2>5, <3>1 DEF S
  <2> QED BY <2>1, <2>2, <2>6
<1> QED BY <1>2, <1>3

-----------------------------------------------------------------------------
(* A reworded story: one message of it is another.                           *)

Reworded(story, spot) == [story EXCEPT ![spot].msg = 0]

LEMMA RewordedFact ==
  ASSUME NEW q \in Seq(Lines), NEW spot \in 1..Len(q)
  PROVE  /\ Reworded(q, spot) \in Seq(Lines) /\ Len(Reworded(q, spot)) = Len(q)
         /\ \A k \in 1..Len(q) : Reworded(q, spot)[k] = IF k = spot THEN [q[k] EXCEPT !.msg = 0] ELSE q[k]
<1>1. PICK x : x = [q[spot] EXCEPT !.msg = 0] OBVIOUS
<1>2. q[spot] \in Lines OBVIOUS
<1>3. x \in Lines BY <1>1, <1>2 DEF Lines
<1>4. Reworded(q, spot) = [q EXCEPT ![spot] = x] BY <1>1 DEF Reworded
<1>5. [q EXCEPT ![spot] = x] \in Seq(Lines) /\ Len([q EXCEPT ![spot] = x]) = Len(q)
  BY <1>3, ExceptSeq
<1>6. \A k \in 1..Len(q) : [q EXCEPT ![spot] = x][k] = IF k = spot THEN x ELSE q[k] OBVIOUS
<1> QED BY <1>1, <1>4, <1>5, <1>6

LEMMA SameSeq ==
  ASSUME NEW V, NEW q \in Seq(V), NEW r \in Seq(V), Len(q) = Len(r), \A k \in 1..Len(q) : q[k] = r[k]
  PROVE  q = r
BY SeqEqual

LEMMA RewordedLast ==
  ASSUME NEW q \in Seq(Lines), NEW x \in Lines
  PROVE  Reworded(Append(q, x), Len(q) + 1) = Append(q, [x EXCEPT !.msg = 0])
<1>1. PICK y \in Lines : y = [x EXCEPT !.msg = 0] BY DEF Lines
<1>2. PICK s : s = Append(q, x) OBVIOUS
<1>3. s \in Seq(Lines) /\ Len(s) = Len(q) + 1 /\ s[Len(q) + 1] = x /\ \A k \in 1..Len(q) : s[k] = q[k]
  BY <1>2, AppendProperties
<1>4. PICK r : r = Append(q, y) OBVIOUS
<1>5. r \in Seq(Lines) /\ Len(r) = Len(q) + 1 /\ r[Len(q) + 1] = y /\ \A k \in 1..Len(q) : r[k] = q[k]
  BY <1>4, AppendProperties
<1>6. PICK spot \in 1..Len(s) : spot = Len(q) + 1 BY <1>3
<1>7. PICK w : w = Reworded(s, spot) OBVIOUS
<1>8. /\ w \in Seq(Lines) /\ Len(w) = Len(s)
      /\ \A k \in 1..Len(s) : w[k] = IF k = spot THEN [s[k] EXCEPT !.msg = 0] ELSE s[k]
  BY <1>3, <1>7, RewordedFact
<1>9. ASSUME NEW k \in 1..Len(w) PROVE w[k] = r[k]
  <2>1. CASE k = spot BY <1>1, <1>3, <1>5, <1>6, <1>8, <2>1
  <2>2. CASE k # spot
    <3>1. k \in 1..Len(q) BY <1>3, <1>6, <1>8, <2>2
    <3> QED BY <1>3, <1>5, <1>8, <2>2, <3>1
  <2> QED BY <2>1, <2>2
<1>10. w = r BY <1>3, <1>5, <1>8, <1>9, SameSeq
<1> QED BY <1>1, <1>2, <1>4, <1>6, <1>7, <1>10

LEMMA RewordedBefore ==
  ASSUME NEW q \in Seq(Lines), NEW x \in Lines, NEW spot \in 1..Len(q)
  PROVE  Reworded(Append(q, x), spot) = Append(Reworded(q, spot), x)
<1>2. PICK s : s = Append(q, x) OBVIOUS
<1>3. s \in Seq(Lines) /\ Len(s) = Len(q) + 1 /\ s[Len(q) + 1] = x /\ \A k \in 1..Len(q) : s[k] = q[k]
  BY <1>2, AppendProperties
<1>4. PICK p : p = Reworded(q, spot) OBVIOUS
<1>5. /\ p \in Seq(Lines) /\ Len(p) = Len(q)
      /\ \A k \in 1..Len(q) : p[k] = IF k = spot THEN [q[k] EXCEPT !.msg = 0] ELSE q[k]
  BY <1>4, RewordedFact
<1>6. PICK r : r = Append(p, x) OBVIOUS
<1>7. r \in Seq(Lines) /\ Len(r) = Len(p) + 1 /\ r[Len(p) + 1] = x /\ \A k \in 1..Len(p) : r[k] = p[k]
  <2>1. p \in Seq(Lines) BY <1>5
  <2> QED BY ONLY x \in Lines, <1>6, <2>1, AppendProperties
<1>8. PICK w : w = Reworded(s, spot) OBVIOUS
<1>0. spot \in 1..Len(s) BY <1>3
<1>9. /\ w \in Seq(Lines) /\ Len(w) = Len(s)
      /\ \A k \in 1..Len(s) : w[k] = IF k = spot THEN [s[k] EXCEPT !.msg = 0] ELSE s[k]
  BY <1>0, <1>3, <1>8, RewordedFact
<1>10. ASSUME NEW k \in 1..Len(w) PROVE w[k] = r[k]
  <2>1. CASE k = Len(q) + 1
    <3>1. k # spot BY <2>1
    <3> QED BY <1>3, <1>5, <1>7, <1>9, <2>1, <3>1
  <2>2. CASE k # Len(q) + 1
    <3>1. k \in 1..Len(q) /\ k \in 1..Len(p) BY <1>3, <1>5, <1>9, <2>2
    <3>2. w[k] = IF k = spot THEN [s[k] EXCEPT !.msg = 0] ELSE s[k] BY ONLY <1>9, <1>10
    <3>3. s[k] = q[k] BY ONLY <1>3, <3>1
    <3>4. p[k] = IF k = spot THEN [q[k] EXCEPT !.msg = 0] ELSE q[k] BY ONLY <1>5, <3>1
    <3>5. r[k] = p[k] BY ONLY <1>7, <3>1
    <3> QED BY ONLY <3>2, <3>3, <3>4, <3>5
  <2> QED BY <2>1, <2>2
<1>11. w = r BY <1>3, <1>5, <1>7, <1>9, <1>10, SameSeq
<1> QED BY <1>2, <1>4, <1>6, <1>8, <1>11

-----------------------------------------------------------------------------
(* What a reword builds: the reworded commit and copies of those above it.   *)

Gap(cs, t, o) == Ancestors(cs)[o] \ Ancestors(cs)[t]
Linear(cs, t, o) == t \in Ancestors(cs)[o] /\ \A c \in Gap(cs, t, o) : Len(cs[c].parents) = 1
Copies(cs, a) == [n \in DOMAIN a |-> Commit(cs[a[n]].tree, cs[a[n]].msg, <<Len(cs) + n>>)]
New(cs, t, a) == Append(cs, Commit(cs[t].tree, 0, cs[t].parents)) \o Copies(cs, a)

LEMMA NewFact ==
  ASSUME NEW cs, Parented(cs), NEW t \in DOMAIN cs, NEW a \in Seq(DOMAIN cs)
  PROVE  /\ Len(cs) \in Nat /\ Grows(cs, New(cs, t, a)) /\ Len(New(cs, t, a)) = Len(cs) + 1 + Len(a)
         /\ New(cs, t, a)[Len(cs) + 1] = Commit(cs[t].tree, 0, cs[t].parents)
         /\ \A n \in 1..Len(a) : New(cs, t, a)[Len(cs) + 1 + n]
                                   = Commit(cs[a[n]].tree, cs[a[n]].msg, <<Len(cs) + n>>)
<1>0. DOMAIN cs = 1..Len(cs) /\ Len(cs) \in Nat /\ cs \in Seq(Commits) BY DEF Parented
<1>1. PICK l \in Nat : l = Len(cs) BY <1>0
<1>2. PICK x : x = Commit(cs[t].tree, 0, cs[t].parents) OBVIOUS
<1>3. x \in Commits /\ x.parents = cs[t].parents
  <2>1. cs[t] \in Commits BY ParentsBelow
  <2> QED BY <1>2, <2>1 DEF Commits, Commit
<1>4. PICK b : b = Append(cs, x) OBVIOUS
<1>5. b \in Seq(Commits) /\ Len(b) = l + 1 /\ b[l + 1] = x /\ \A k \in 1..l : b[k] = cs[k]
  BY <1>0, <1>1, <1>3, <1>4, AppendProperties
<1>6. PICK c : c = Copies(cs, a) OBVIOUS
<1>7. ASSUME NEW n \in 1..Len(a)
      PROVE  /\ Commit(cs[a[n]].tree, cs[a[n]].msg, <<l + n>>) \in Commits
             /\ Commit(cs[a[n]].tree, cs[a[n]].msg, <<l + n>>).parents = <<l + n>>
  <2>1. a[n] \in DOMAIN cs OBVIOUS
  <2>2. cs[a[n]] \in Commits BY <2>1, ParentsBelow
  <2>3. l + n \in Nat OBVIOUS
  <2>4. <<l + n>> \in Seq(Nat) BY <2>3
  <2> QED BY <2>2, <2>4 DEF Commits, Commit
<1>8. DOMAIN a = 1..Len(a) /\ Len(a) \in Nat OBVIOUS
<1>9. c = [n \in 1..Len(a) |-> Commit(cs[a[n]].tree, cs[a[n]].msg, <<l + n>>)] BY <1>1, <1>6, <1>8 DEF Copies
<1>10. c \in Seq(Commits) /\ Len(c) = Len(a)
       /\ \A n \in 1..Len(a) : c[n] = Commit(cs[a[n]].tree, cs[a[n]].msg, <<l + n>>)
  <2>1. c \in [1..Len(a) -> Commits] BY <1>7, <1>9
  <2>2. c \in Seq(Commits) BY <1>8, <2>1, SeqDef
  <2>3. DOMAIN c = 1..Len(a) BY <1>9
  <2>4. Len(c) = Len(a) BY <1>8, <2>2, <2>3
  <2> QED BY <1>9, <2>2, <2>4
<1>11. PICK d : d = b \o c OBVIOUS
<1>12. /\ d \in Seq(Commits) /\ Len(d) = l + 1 + Len(a)
       /\ \A k \in 1 .. l + 1 : d[k] = b[k]
       /\ \A n \in 1..Len(a) : d[l + 1 + n] = c[n]
  <2>1. d \in Seq(Commits) /\ Len(d) = Len(b) + Len(c) BY <1>5, <1>10, <1>11, ConcatProperties
  <2>2. \A k \in 1 .. Len(b) + Len(c) : d[k] = IF k <= Len(b) THEN b[k] ELSE c[k - Len(b)]
    BY <1>5, <1>10, <1>11, ConcatProperties
  <2>3. \A k \in 1 .. l + 1 : d[k] = b[k] BY <1>5, <1>8, <1>10, <2>2
  <2>4. ASSUME NEW n \in 1..Len(a) PROVE d[l + 1 + n] = c[n]
    <3>1. PICK k \in Nat : k = l + 1 + n OBVIOUS
    <3>2. k \in 1 .. Len(b) + Len(c) /\ ~(k <= Len(b)) /\ k - Len(b) = n BY <1>5, <1>8, <1>10, <3>1
    <3> QED BY <2>2, <3>1, <3>2
  <2>5. Len(d) = l + 1 + Len(a) BY <1>5, <1>8, <1>10, <2>1
  <2> QED BY <2>1, <2>3, <2>4, <2>5
<1>13. d = New(cs, t, a) BY <1>2, <1>4, <1>6, <1>11 DEF New
<1>14. \A k \in 1..l : d[k] = cs[k] BY <1>5, <1>12, SMTT(30)
<1>15. d[l + 1] = x BY <1>5, <1>12
<1>16. \A n \in 1..Len(a) : d[l + 1 + n] = Commit(cs[a[n]].tree, cs[a[n]].msg, <<l + n>>) BY <1>10, <1>12
<1>17. ASSUME NEW k \in DOMAIN d, NEW m \in DOMAIN d[k].parents PROVE d[k].parents[m] \in 1 .. k - 1
  <2>0. DOMAIN d = 1 .. l + 1 + Len(a) BY <1>8, <1>12
  <2>1. CASE k \in 1..l
    <3>1. d[k] = cs[k] /\ k \in DOMAIN cs BY <1>0, <1>1, <1>14, <2>1
    <3> QED BY <1>17, <3>1 DEF Parented
  <2>2. CASE k = l + 1
    <3>1. m \in DOMAIN cs[t].parents /\ d[k].parents[m] = cs[t].parents[m] BY <1>3, <1>15, <1>17, <2>2
    <3>2. cs[t].parents[m] \in 1 .. t - 1 BY <3>1 DEF Parented
    <3>3. \A y \in 1 .. t - 1 : y \in 1 .. k - 1 BY <1>0, <1>1, <2>2
    <3> QED BY <3>1, <3>2, <3>3
  <2>3. CASE k > l + 1
    <3>1. PICK n \in 1..Len(a) : k = l + 1 + n
      <4>1. k - (l + 1) \in 1..Len(a) /\ k = l + 1 + (k - (l + 1)) BY <1>8, <2>0, <2>3
      <4> QED BY <4>1
    <3>2. d[k].parents = <<l + n>> BY <1>7, <1>16, <3>1
    <3>3. PICK ps : ps = <<l + n>> OBVIOUS
    <3>4. DOMAIN ps = {1} /\ ps[1] = l + n BY <3>3
    <3>5. d[k].parents[m] = l + n BY <1>17, <3>2, <3>3, <3>4
    <3> QED BY <3>1, <3>5
  <2> QED BY <2>0, <2>1, <2>2, <2>3
<1>18. Parented(d) BY <1>12, <1>17 DEF Parented
<1>19. Grows(cs, d) BY <1>0, <1>1, <1>8, <1>12, <1>14, <1>18 DEF Grows
<1> QED BY <1>1, <1>2, <1>12, <1>13, <1>15, <1>16, <1>19

LEMMA NoGap ==
  ASSUME NEW cs, Parented(cs), NEW t \in DOMAIN cs
  PROVE  Gap(cs, t, t) = {} /\ Ascending(Gap(cs, t, t), Len(cs)) = <<>>
<1>1. Gap(cs, t, t) = {} BY DEF Gap
<1>2. Len(cs) \in Nat BY DEF Parented
<1> QED BY <1>1, <1>2, AscendingFact

(* Above a commit other than the one that is reworded, the way down begins   *)
(* with its only parent.                                                     *)
LEMMA GapFact ==
  ASSUME NEW cs, Parented(cs), NEW t \in DOMAIN cs, NEW o \in DOMAIN cs, Linear(cs, t, o), o # t
  PROVE  \E p \in DOMAIN cs :
           /\ p < o /\ cs[o].parents = <<p>> /\ Linear(cs, t, p)
           /\ Gap(cs, t, o) = Gap(cs, t, p) \cup {o} /\ \A c \in Gap(cs, t, p) : c \in 1 .. o - 1
<1>0. DOMAIN cs = 1..Len(cs) /\ Len(cs) \in Nat /\ cs[o] \in Commits BY ParentsBelow
<1>1. t \in Ancestors(cs)[o] /\ t \in 1..o /\ t < o
  <2>1. t \in Ancestors(cs)[o] BY DEF Linear
  <2>2. t \in 1..o BY <2>1, AncestorsBelow
  <2> QED BY <1>0, <2>1, <2>2
<1>2. o \notin Ancestors(cs)[t]
  <2>1. Ancestors(cs)[t] \subseteq 1..t BY AncestorsBelow
  <2> QED BY <1>0, <1>1, <2>1
<1>3. o \in Gap(cs, t, o) BY <1>2, AncestorsBelow DEF Gap
<1>4. Len(cs[o].parents) = 1 BY <1>3 DEF Linear
<1>5. PICK ps \in Seq(Nat) : ps = cs[o].parents BY <1>0 DEF Commits
<1>6. PICK p : p = ps[1] OBVIOUS
<1>7. ps = <<p>>
  <2>1. Len(ps) = 1 /\ p \in Nat BY <1>4, <1>5, <1>6
  <2>2. <<p>> \in Seq(Nat) /\ Len(<<p>>) = 1 /\ <<p>>[1] = p BY <2>1
  <2>3. \A k \in 1..Len(ps) : ps[k] = <<p>>[k] BY <1>6, <2>1, <2>2
  <2> QED BY <2>1, <2>2, <2>3, SameSeq
<1>70. cs[o].parents = <<p>> BY <1>5, <1>7
<1>8. p \in DOMAIN cs /\ p < o /\ Ancestors(cs)[o] = {o} \cup Ancestors(cs)[p] BY <1>70, AncestorsOfOne
<1>9. Gap(cs, t, o) = Gap(cs, t, p) \cup {o} BY <1>2, <1>8 DEF Gap
<1>10. Linear(cs, t, p)
  <2>1. t \in Ancestors(cs)[p] BY <1>1, <1>8
  <2> QED BY <1>9, <2>1 DEF Linear
<1>11. ASSUME NEW c \in Gap(cs, t, p) PROVE c \in 1 .. o - 1
  <2>1. c \in 1..p BY <1>8, <1>11, AncestorsBelow DEF Gap
  <2> QED BY <1>0, <1>8, <2>1
<1> QED BY <1>5, <1>7, <1>8, <1>9, <1>10, <1>11

(* The branch that a reword builds tells what the old one told, but for the  *)
(* message of the commit that is reworded.                                   *)
Retold(cs, t, o) ==
  LET a  == Ascending(Gap(cs, t, o), Len(cs))
      ds == New(cs, t, a)
      spot == Len(Stories(cs)[t])
  IN  /\ a \in Seq(DOMAIN cs)
      /\ spot \in 1..Len(Stories(cs)[o])
      /\ Stories(ds)[Len(ds)] = Reworded(Stories(cs)[o], spot)

LEMMA RetoldHere ==
  ASSUME NEW cs, Parented(cs), NEW t \in DOMAIN cs
  PROVE  Retold(cs, t, t)
<1>0. DOMAIN cs = 1..Len(cs) /\ Len(cs) \in Nat BY DEF Parented
<1>1. PICK a : a = Ascending(Gap(cs, t, t), Len(cs)) OBVIOUS
<1>2. a = <<>> BY <1>1, NoGap
<1>3. a \in Seq(DOMAIN cs) /\ Len(a) = 0 BY <1>2
<1>4. PICK ds : ds = New(cs, t, a) OBVIOUS
<1>5. Grows(cs, ds) /\ Len(ds) = Len(cs) + 1 /\ ds[Len(cs) + 1] = Commit(cs[t].tree, 0, cs[t].parents)
  <2>1. /\ Grows(cs, ds) /\ Len(ds) = Len(cs) + 1 + Len(a)
        /\ ds[Len(cs) + 1] = Commit(cs[t].tree, 0, cs[t].parents)
    BY <1>3, <1>4, NewFact
  <2> QED BY <1>0, <1>3, <2>1
<1>6. PICK n \in Nat : n = Len(cs) + 1 BY <1>0
<1>7. Parented(ds) /\ n \in 0..Len(ds) /\ n # 0 BY <1>0, <1>5, <1>6 DEF Grows
<1>8. Stories(ds)[n] = Append(Stories(ds)[First(ds[n])], Line(ds[n])) BY <1>7, StoriesUnfold
<1>9. ds[n].tree = cs[t].tree /\ ds[n].msg = 0 /\ ds[n].parents = cs[t].parents BY <1>5, <1>6 DEF Commit
<1>10. First(ds[n]) = First(cs[t]) BY <1>9 DEF First
<1>11. First(cs[t]) \in 0..Len(cs) /\ Line(cs[t]) \in Lines
  <2>1. First(cs[t]) \in 0 .. t - 1 /\ Line(cs[t]) \in Lines BY FirstBelow
  <2> QED BY <1>0, <2>1
<1>12. PICK q \in Seq(Lines) : q = Stories(cs)[First(cs[t])] BY <1>11, StoriesType
<1>13. Stories(ds)[First(ds[n])] = q BY <1>5, <1>10, <1>11, <1>12, StoriesKept
<1>14. PICK x \in Lines : x = Line(cs[t]) BY <1>11
<1>15. Line(ds[n]) = [x EXCEPT !.msg = 0]
  <2>1. PICK tree, msg, merged : /\ tree = cs[t].tree /\ msg = cs[t].msg
                                 /\ merged = SubSeq(cs[t].parents, 2, Len(cs[t].parents)) OBVIOUS
  <2>2. x = [tree |-> tree, msg |-> msg, merged |-> merged] BY <1>14, <2>1 DEF Line
  <2>3. Line(ds[n]) = [tree |-> tree, msg |-> 0, merged |-> merged] BY <1>9, <2>1 DEF Line
  <2> QED BY <2>2, <2>3
<1>16. Stories(cs)[t] = Append(q, x)
  <2>1. t \in 0..Len(cs) /\ t # 0 BY <1>0
  <2> QED BY <1>12, <1>14, <2>1, StoriesUnfold
<1>17. Len(Stories(cs)[t]) = Len(q) + 1 BY <1>16
<1>18. Stories(ds)[n] = Reworded(Stories(cs)[t], Len(q) + 1) BY <1>8, <1>13, <1>15, <1>16, RewordedLast
<1>19. Len(q) + 1 \in 1 .. Len(q) + 1 OBVIOUS
<1>20. Len(Stories(cs)[t]) \in 1..Len(Stories(cs)[t]) BY <1>17, <1>19
<1>21. Stories(ds)[Len(ds)] = Reworded(Stories(cs)[t], Len(Stories(cs)[t])) BY <1>5, <1>6, <1>17, <1>18
<1> QED BY <1>1, <1>3, <1>4, <1>20, <1>21 DEF Retold

LEMMA RetoldAbove ==
  ASSUME NEW cs, Parented(cs), NEW t \in DOMAIN cs, NEW o \in DOMAIN cs, NEW p \in DOMAIN cs,
         p < o, cs[o].parents = <<p>>, Gap(cs, t, o) = Gap(cs, t, p) \cup {o},
         \A c \in Gap(cs, t, p) : c \in 1 .. o - 1, Retold(cs, t, p)
  PROVE  Retold(cs, t, o)
<1>0. DOMAIN cs = 1..Len(cs) /\ Len(cs) \in Nat BY DEF Parented
<1>1. PICK a \in Seq(DOMAIN cs) : a = Ascending(Gap(cs, t, p), Len(cs)) BY DEF Retold
<1>2. PICK b : b = Append(a, o) OBVIOUS
<1>3. b = Ascending(Gap(cs, t, o), Len(cs)) BY <1>0, <1>1, <1>2, AscendingFact, ZenonT(40)
<1>4. /\ b \in Seq(DOMAIN cs) /\ Len(b) = Len(a) + 1 /\ b[Len(a) + 1] = o
      /\ \A k \in 1..Len(a) : b[k] = a[k]
  BY <1>2, AppendProperties
<1>5. PICK l \in Nat : l = Len(cs) BY <1>0
<1>6. PICK m \in Nat : m = Len(a) OBVIOUS
<1>7. PICK ds : ds = New(cs, t, a) OBVIOUS
<1>8. PICK es : es = New(cs, t, b) OBVIOUS
<1>9. /\ Grows(cs, ds) /\ Len(ds) = l + 1 + m
      /\ ds[l + 1] = Commit(cs[t].tree, 0, cs[t].parents)
      /\ \A n \in 1..m : ds[l + 1 + n] = Commit(cs[a[n]].tree, cs[a[n]].msg, <<l + n>>)
  BY <1>5, <1>6, <1>7, NewFact
<1>10. /\ Grows(cs, es) /\ Len(es) = l + 1 + (m + 1)
       /\ es[l + 1] = Commit(cs[t].tree, 0, cs[t].parents)
       /\ \A n \in 1 .. m + 1 : es[l + 1 + n] = Commit(cs[b[n]].tree, cs[b[n]].msg, <<l + n>>)
  <2>1. b \in Seq(DOMAIN cs) /\ Len(b) = m + 1 BY <1>4, <1>6
  <2>2. /\ Grows(cs, es) /\ Len(es) = Len(cs) + 1 + Len(b)
        /\ es[Len(cs) + 1] = Commit(cs[t].tree, 0, cs[t].parents)
        /\ \A n \in 1..Len(b) : es[Len(cs) + 1 + n] = Commit(cs[b[n]].tree, cs[b[n]].msg, <<Len(cs) + n>>)
    BY <1>8, <2>1, NewFact
  <2> QED BY ONLY <1>5, <2>1, <2>2
<1>11. ASSUME NEW k \in DOMAIN ds PROVE es[k] = ds[k]
  <2>1. DOMAIN ds = 1 .. l + 1 + m BY <1>9 DEF Grows, Parented
  <2>2. CASE k <= l
    <3>1. k \in DOMAIN cs BY <1>0, <1>5, <2>1, <2>2
    <3> QED BY <1>9, <1>10, <3>1 DEF Grows
  <2>3. CASE k = l + 1 BY <1>9, <1>10, <2>3
  <2>4. CASE k > l + 1
    <3>1. PICK n \in 1..m : k = l + 1 + n
      <4>1. k - (l + 1) \in 1..m /\ k = l + 1 + (k - (l + 1)) BY <2>1, <2>4
      <4> QED BY <4>1
    <3>2. n \in 1 .. m + 1 /\ b[n] = a[n] BY <1>4, <1>6
    <3> QED BY <1>9, <1>10, <3>1, <3>2
  <2> QED BY <2>1, <2>2, <2>3, <2>4
<1>12. Grows(ds, es)
  <2>1. Len(ds) <= Len(es) BY <1>9, <1>10
  <2> QED BY <1>9, <1>10, <1>11, <2>1 DEF Grows
<1>13. PICK k \in Nat : k = l + 1 + m OBVIOUS
<1>14. Stories(es)[k] = Stories(ds)[k]
  <2>1. k \in 0..Len(ds) BY <1>9, <1>13
  <2> QED BY <1>12, <2>1, StoriesKept
<1>15. es[k + 1] = Commit(cs[o].tree, cs[o].msg, <<k>>)
  <2>1. k + 1 = l + 1 + (m + 1) /\ k = l + (m + 1) /\ m + 1 \in 1 .. m + 1 BY <1>13
  <2>2. b[m + 1] = o BY <1>4, <1>6
  <2> QED BY <1>10, <2>1, <2>2
<1>16. Stories(es)[k + 1] = Append(Stories(es)[k], [tree |-> cs[o].tree, msg |-> cs[o].msg, merged |-> <<>>])
  <2>1. Parented(es) /\ k + 1 \in DOMAIN es /\ k + 1 \in 1..Len(es)
    <3>1. Parented(es) /\ DOMAIN es = 1..Len(es) BY <1>10 DEF Grows, Parented
    <3>2. k + 1 \in 1..Len(es) BY <1>10, <1>13
    <3> QED BY <3>1, <3>2
  <2>2. es[k + 1].parents = <<k>> /\ es[k + 1].tree = cs[o].tree /\ es[k + 1].msg = cs[o].msg BY <1>15 DEF Commit
  <2>3. Stories(es)[k + 1]
          = Append(Stories(es)[k], [tree |-> es[k + 1].tree, msg |-> es[k + 1].msg, merged |-> <<>>])
    BY <2>1, <2>2, StoryOfOne
  <2> QED BY <2>2, <2>3
<1>17. PICK x : x = [tree |-> cs[o].tree, msg |-> cs[o].msg, merged |-> <<>>] OBVIOUS
<1>18. x \in Lines
  <2>1. cs[o] \in Commits BY ParentsBelow
  <2>2. <<>> \in Seq(Nat) OBVIOUS
  <2> QED BY <1>17, <2>1, <2>2 DEF Commits, Lines
<1>19. p \in Nat /\ p \in 0..Len(cs) BY <1>0
<1>20. Stories(cs)[o] = Append(Stories(cs)[p], x) BY <1>17, <1>19, StoryOfOne
<1>21. PICK q \in Seq(Lines) : q = Stories(cs)[p] BY <1>19, StoriesType
<1>22. PICK spot \in 1..Len(q) : spot = Len(Stories(cs)[t]) BY <1>21 DEF Retold
<1>23. Stories(ds)[k] = Reworded(q, spot)
  <2>1. Stories(ds)[Len(ds)] = Reworded(q, spot) BY <1>1, <1>7, <1>21, <1>22 DEF Retold
  <2> QED BY <1>9, <1>13, <2>1
<1>24. Stories(es)[k + 1] = Reworded(Append(q, x), spot)
  BY <1>14, <1>16, <1>17, <1>18, <1>22, <1>23, RewordedBefore
<1>25. spot \in 1..Len(Stories(cs)[o])
  <2>1. Len(Append(q, x)) = Len(q) + 1 OBVIOUS
  <2> QED BY <1>20, <1>21, <2>1
<1>26. Len(es) = k + 1 BY <1>10, <1>13
<1>27. Stories(es)[Len(es)] = Reworded(Stories(cs)[o], spot) BY <1>20, <1>21, <1>24, <1>26
<1> QED BY <1>3, <1>4, <1>8, <1>22, <1>25, <1>27 DEF Retold

LEMMA RetoldFact ==
  ASSUME NEW cs, Parented(cs), NEW t \in DOMAIN cs, NEW o \in DOMAIN cs, Linear(cs, t, o)
  PROVE  Retold(cs, t, o)
<1> DEFINE S == {n \in 0..Len(cs) : \A d \in 1..n : Linear(cs, t, d) => Retold(cs, t, d)}
<1>0. DOMAIN cs = 1..Len(cs) /\ Len(cs) \in Nat BY DEF Parented
<1>1. 0 \in S BY <1>0
<1>2. ASSUME NEW n \in 1..Len(cs), n - 1 \in S PROVE n \in S
  <2>1. ASSUME Linear(cs, t, n) PROVE Retold(cs, t, n)
    <3>0. n \in DOMAIN cs BY <1>0
    <3>1. CASE n = t BY <3>1, RetoldHere
    <3>2. CASE n # t
      <4>1. PICK p \in DOMAIN cs :
              /\ p < n /\ cs[n].parents = <<p>> /\ Linear(cs, t, p)
              /\ Gap(cs, t, n) = Gap(cs, t, p) \cup {n} /\ \A c \in Gap(cs, t, p) : c \in 1 .. n - 1
        BY <2>1, <3>0, <3>2, GapFact
      <4>2. p \in 1 .. n - 1 BY <1>0, <4>1
      <4>3. Retold(cs, t, p) BY <1>2, <4>1, <4>2
      <4> QED BY <3>0, <4>1, <4>3, RetoldAbove
    <3> QED BY <3>1, <3>2
  <2>2. \A d \in 1..n : d = n \/ d \in 1..(n - 1) OBVIOUS
  <2> QED BY <1>2, <2>1, <2>2
<1> HIDE DEF S
<1>3. Len(cs) \in S BY <1>0, <1>1, <1>2, UpTo
<1> QED BY <1>0, <1>3 DEF S

-----------------------------------------------------------------------------
(* Of any backups, at most k have less than k newer ones.                    *)

Backup == [n : Nat, at : Nat]
Newer(rest, b) == {c \in rest : c.n > b.n \/ (c.n = b.n /\ c.at > b.at)}
Newest(rest, k) == {b \in rest : Cardinality(Newer(rest, b)) < k}

LEMMA NewerFact ==
  ASSUME NEW rest \in SUBSET Backup, IsFiniteSet(rest), NEW b \in rest
  PROVE  /\ IsFiniteSet(Newer(rest, b)) /\ Cardinality(Newer(rest, b)) \in Nat
         /\ \A c \in Newer(rest, b) : Cardinality(Newer(rest, c)) < Cardinality(Newer(rest, b))
<1>1. ASSUME NEW d \in rest PROVE IsFiniteSet(Newer(rest, d)) /\ Cardinality(Newer(rest, d)) \in Nat
  <2>1. Newer(rest, d) \in SUBSET rest BY DEF Newer
  <2>2. IsFiniteSet(Newer(rest, d)) BY <2>1, FS_Subset
  <2> QED BY <2>2, FS_CardinalityType
<1>2. ASSUME NEW c \in Newer(rest, b) PROVE Cardinality(Newer(rest, c)) < Cardinality(Newer(rest, b))
  <2>1. c \in rest /\ c \in Backup /\ b \in Backup BY <1>2 DEF Newer
  <2>2. PICK cn, ca, bn, ba \in Nat : cn = c.n /\ ca = c.at /\ bn = b.n /\ ba = b.at BY <2>1 DEF Backup
  <2>3. cn > bn \/ (cn = bn /\ ca > ba) BY <1>2, <2>2 DEF Newer
  <2>4. ASSUME NEW d \in Newer(rest, c) PROVE d \in Newer(rest, b)
    <3>1. d \in rest /\ d \in Backup BY <2>4 DEF Newer
    <3>2. PICK dn, da \in Nat : dn = d.n /\ da = d.at BY <3>1 DEF Backup
    <3>3. dn > cn \/ (dn = cn /\ da > ca) BY <2>2, <2>4, <3>2 DEF Newer
    <3>4. dn > bn \/ (dn = bn /\ da > ba) BY <2>2, <2>3, <3>2, <3>3
    <3> QED BY <2>2, <3>1, <3>2, <3>4 DEF Newer
  <2>5. c \notin Newer(rest, c)
    <3>1. ~(cn > cn) /\ ~(ca > ca) BY <2>2
    <3> QED BY <2>2, <3>1 DEF Newer
  <2>6. PICK s : s = Newer(rest, c) OBVIOUS
  <2>7. PICK big : big = Newer(rest, b) OBVIOUS
  <2>8. IsFiniteSet(s) /\ Cardinality(s) \in Nat /\ IsFiniteSet(big) /\ Cardinality(big) \in Nat
    BY <1>1, <2>1, <2>6, <2>7
  <2>9. s \cup {c} \in SUBSET big /\ c \notin s BY <1>2, <2>4, <2>5, <2>6, <2>7
  <2>10. Cardinality(s \cup {c}) = Cardinality(s) + 1 BY <2>8, <2>9, FS_AddElement
  <2>11. Cardinality(s \cup {c}) <= Cardinality(big) BY <2>8, <2>9, FS_Subset
  <2>12. PICK x, y \in Nat : x = Cardinality(s) /\ y = Cardinality(big) BY <2>8
  <2>13. x < y BY <2>10, <2>11, <2>12
  <2> QED BY <2>6, <2>7, <2>12, <2>13
<1> QED BY <1>1, <1>2

LEMMA NewestAreFew ==
  ASSUME NEW rest \in SUBSET Backup, IsFiniteSet(rest), NEW m \in Nat
  PROVE  IsFiniteSet(Newest(rest, m)) /\ Cardinality(Newest(rest, m)) <= m
<1>0. ASSUME NEW k \in Nat PROVE IsFiniteSet(Newest(rest, k)) /\ Cardinality(Newest(rest, k)) \in Nat
  <2>1. Newest(rest, k) \in SUBSET rest BY DEF Newest
  <2>2. IsFiniteSet(Newest(rest, k)) BY <2>1, FS_Subset
  <2> QED BY <2>2, FS_CardinalityType
<1> DEFINE S == {k \in 0..m : Cardinality(Newest(rest, k)) <= k}
<1>1. 0 \in S
  <2>1. Newest(rest, 0) = {}
    <3>1. \A b \in rest : ~(Cardinality(Newer(rest, b)) < 0) BY NewerFact
    <3> QED BY <3>1 DEF Newest
  <2>2. Cardinality(Newest(rest, 0)) = 0 BY <2>1, FS_EmptySet
  <2> QED BY <2>2
<1>2. ASSUME NEW k \in 1..m, k - 1 \in S PROVE k \in S
  <2>1. PICK j \in Nat : j = k - 1 OBVIOUS
  <2>2. PICK top : top = Newest(rest, j) OBVIOUS
  <2>3. IsFiniteSet(top) /\ Cardinality(top) \in Nat /\ Cardinality(top) <= j BY <1>0, <1>2, <2>1, <2>2
  <2>4. \A b \in Newest(rest, k) : b \in top \/ Cardinality(Newer(rest, b)) = j
    <3>1. ASSUME NEW b \in Newest(rest, k) PROVE b \in top \/ Cardinality(Newer(rest, b)) = j
      <4>1. b \in rest /\ Cardinality(Newer(rest, b)) < k BY DEF Newest
      <4>2. PICK x \in Nat : x = Cardinality(Newer(rest, b)) BY <4>1, NewerFact
      <4>3. x < j \/ x = j BY <2>1, <4>1, <4>2
      <4> QED BY <2>2, <4>1, <4>2, <4>3 DEF Newest
    <3> QED BY <3>1
  <2>5. ASSUME NEW b \in rest, NEW c \in rest, Cardinality(Newer(rest, b)) = j, Cardinality(Newer(rest, c)) = j
        PROVE  b = c
    <3>1. PICK cn, ca, bn, ba \in Nat : cn = c.n /\ ca = c.at /\ bn = b.n /\ ba = b.at BY DEF Backup
    <3>2. c \notin Newer(rest, b) /\ b \notin Newer(rest, c)
      <4>1. ~(j < j) OBVIOUS
      <4> QED BY <2>5, <4>1, NewerFact
    <3>3. ~(cn > bn \/ (cn = bn /\ ca > ba)) /\ ~(bn > cn \/ (bn = cn /\ ba > ca)) BY <3>1, <3>2 DEF Newer
    <3>4. cn = bn /\ ca = ba BY <3>3
    <3>5. b = [n |-> b.n, at |-> b.at] /\ c = [n |-> c.n, at |-> c.at] BY DEF Backup
    <3> QED BY <3>1, <3>4, <3>5
  <2>6. \E x : Newest(rest, k) \subseteq top \cup {x}
    <3>1. CASE \E x \in Newest(rest, k) : Cardinality(Newer(rest, x)) = j
      <4>1. PICK x \in Newest(rest, k) : Cardinality(Newer(rest, x)) = j BY <3>1
      <4>2. Newest(rest, k) \subseteq rest BY DEF Newest
      <4>3. Newest(rest, k) \subseteq top \cup {x} BY <2>4, <2>5, <4>1, <4>2
      <4> QED BY <4>3
    <3>2. CASE ~\E x \in Newest(rest, k) : Cardinality(Newer(rest, x)) = j
      BY <2>4, <3>2
    <3> QED BY <3>1, <3>2
  <2>7. PICK x : Newest(rest, k) \subseteq top \cup {x} BY <2>6
  <2>8. IsFiniteSet(top \cup {x}) /\ Cardinality(top \cup {x}) \in Nat /\ Cardinality(top \cup {x}) <= j + 1
    <3>1. IsFiniteSet(top \cup {x}) BY <2>3, FS_AddElement
    <3>2. Cardinality(top \cup {x}) = IF x \in top THEN Cardinality(top) ELSE Cardinality(top) + 1
      BY <2>3, FS_AddElement
    <3>3. PICK y \in Nat : y = Cardinality(top) BY <2>3
    <3>4. y <= j + 1 /\ y + 1 <= j + 1 BY <2>3, <3>3
    <3> QED BY <3>1, <3>2, <3>3, <3>4
  <2>9. Cardinality(Newest(rest, k)) <= Cardinality(top \cup {x}) BY <2>7, <2>8, FS_Subset
  <2>10. PICK y, z \in Nat : y = Cardinality(Newest(rest, k)) /\ z = Cardinality(top \cup {x}) BY <1>0, <2>8
  <2>11. y <= k BY <2>1, <2>8, <2>9, <2>10
  <2> QED BY <2>10, <2>11
<1> HIDE DEF S
<1>3. m \in S BY <1>1, <1>2, UpTo
<1> QED BY <1>0, <1>3 DEF S

LEMMA PrunedFact ==
  ASSUME NEW bs \in SUBSET Backup, IsFiniteSet(bs), NEW mine \in bs
  PROVE  /\ Pruned(bs, mine) \subseteq bs /\ mine \in Pruned(bs, mine)
         /\ IsFiniteSet(Pruned(bs, mine)) /\ Cardinality(Pruned(bs, mine)) <= BackupKeep
<1>1. PICK rest : rest = bs \ {mine} OBVIOUS
<1>2. rest \in SUBSET Backup /\ IsFiniteSet(rest) BY <1>1, FS_RemoveElement
<1>3. PICK k \in Nat : k = BackupKeep - 1 BY GitAssumption
<1>4. PICK top : top = Newest(rest, k) OBVIOUS
<1>5. IsFiniteSet(top) /\ Cardinality(top) <= k BY <1>2, <1>4, NewestAreFew
<1>6. Pruned(bs, mine) = top \cup {mine} BY <1>1, <1>3, <1>4 DEF Pruned, Newest, Newer
<1>7. IsFiniteSet(top \cup {mine}) BY <1>5, FS_AddElement
<1>8. Cardinality(top \cup {mine}) = IF mine \in top THEN Cardinality(top) ELSE Cardinality(top) + 1
  BY <1>5, FS_AddElement
<1>9. PICK y \in Nat : y = Cardinality(top) BY <1>5, FS_CardinalityType
<1>10. BackupKeep = k + 1 /\ y <= k /\ y <= k + 1 /\ y + 1 <= k + 1 BY <1>3, <1>5, <1>9, GitAssumption
<1>11. top \subseteq rest BY <1>4 DEF Newest
<1> QED BY <1>1, <1>6, <1>7, <1>8, <1>9, <1>10, <1>11

-----------------------------------------------------------------------------
(* The repository and the command that rewrites it.                          *)

Heads == Branches \cup {Detached}
Held == [index : Nat, work : Nat]
Repo ==
  /\ Parented(commits) /\ refs \in [Heads -> DOMAIN commits] /\ head \in Heads
  /\ index \in Nat /\ work \in Nat /\ stash \in Seq(Held)

Kept ==
  /\ backups \in SUBSET Backup /\ IsFiniteSet(backups)
  /\ Cardinality(backups) <= BackupKeep + others
  /\ nanos \in Nat /\ others \in Nat

Whats == {"edit", "stage", "move", "switch", "clock", "blind"}
Kinds == {"none", "reword", "uncommit", "soft", "mixed", "hard", "past"}
Pcs == {"idle", "check", "guards", "amend", "soft", "backup", "status", "stash", "reset",
        "build", "cas"}
Jobs == [pc : Pcs, kind : Kinds, target : Nat, branch : Heads, orig : Nat, new : Nat,
         raced : SUBSET Whats]

Job ==
  /\ cmd \in Jobs
  /\ cmd.pc = "idle" => cmd = NoJob
  /\ cmd.pc # "idle" => cmd.target \in DOMAIN commits /\ cmd.kind # "none"
  /\ cmd.pc = "amend" => cmd.kind = "reword"
  /\ cmd.pc = "soft" => cmd.kind = "uncommit"
  /\ cmd.pc = "backup" => cmd.kind \in Reset \cup {"past"}
  /\ cmd.pc \in {"status", "stash"} => cmd.kind = "hard"
  /\ cmd.pc = "reset" => cmd.kind \in Reset
  /\ cmd.pc \in {"build", "cas"} => cmd.kind = "past"

(* A reword of a past commit has a line of commits without a merge, and      *)
(* then the branch that tells the same.                                      *)
Past ==
  /\ cmd.kind = "past" /\ cmd.pc \in {"guards", "backup", "build", "cas"} =>
       cmd.orig \in DOMAIN commits
  /\ cmd.kind = "past" /\ cmd.pc \in {"backup", "build", "cas"} =>
       Linear(commits, cmd.target, cmd.orig)
  /\ cmd.pc = "cas" =>
       /\ cmd.new \in DOMAIN commits
       /\ Stories(commits)[cmd.new]
            = Reworded(Stories(commits)[cmd.orig], Len(Stories(commits)[cmd.target]))

(* While nobody switches, its branch is HEAD and only goes up.               *)
Steady ==
  /\ cmd.kind = "past" /\ cmd.pc \in {"guards", "backup", "build", "cas"} /\ "switch" \notin cmd.raced
  => head = cmd.branch /\ cmd.orig <= refs[cmd.branch]

BackedPast ==
  /\ cmd.pc \in {"build", "cas"} /\ "switch" \notin cmd.raced
  => \E b \in backups : cmd.orig <= b.at /\ b.at <= refs[cmd.branch]

BackedReset ==
  /\ cmd.pc \in {"status", "stash", "reset"} /\ "switch" \notin cmd.raced /\ "move" \notin cmd.raced
  => \E b \in backups : b.at = Tip

Cleaned == cmd.pc = "reset" /\ cmd.kind = "hard" /\ cmd.raced = {} => work = Tree(Tip)

GitInv ==
  /\ Repo /\ Kept /\ Job
  /\ Past /\ Steady /\ BackedPast /\ BackedReset /\ Cleaned

-----------------------------------------------------------------------------

LEMMA TipFact ==
  ASSUME Repo
  PROVE  /\ Tip \in DOMAIN commits /\ Tree(Tip) \in Nat /\ commits[Tip] \in Commits
         /\ DOMAIN commits = 1..Len(commits) /\ Len(commits) \in Nat /\ DOMAIN refs = Heads
         /\ Grows(commits, commits)
<1>1. Parented(commits) BY DEF Repo
<1>2. Tip \in DOMAIN commits BY DEF Repo, Tip
<1>3. commits[Tip] \in Commits /\ DOMAIN commits = 1..Len(commits) /\ Len(commits) \in Nat
  BY <1>1, <1>2, ParentsBelow
<1>4. Tree(Tip) \in Nat BY <1>3 DEF Tree, Commits
<1>5. Grows(commits, commits) BY <1>1, <1>3 DEF Grows
<1>6. DOMAIN refs = Heads BY DEF Repo
<1> QED BY <1>2, <1>3, <1>4, <1>5, <1>6

LEMMA Appended ==
  ASSUME NEW cs, Parented(cs), NEW tree \in Nat, NEW msg \in Nat, NEW ps \in Seq(Nat),
         \A n \in DOMAIN ps : ps[n] \in 1..Len(cs)
  PROVE  /\ Grows(cs, Append(cs, Commit(tree, msg, ps)))
         /\ Len(Append(cs, Commit(tree, msg, ps))) = Len(cs) + 1
<1>0. DOMAIN cs = 1..Len(cs) /\ Len(cs) \in Nat /\ cs \in Seq(Commits) BY DEF Parented
<1>1. PICK x : x = Commit(tree, msg, ps) OBVIOUS
<1>2. x \in Commits /\ x.parents = ps BY <1>1 DEF Commit, Commits
<1>3. PICK d : d = Append(cs, x) OBVIOUS
<1>4. d \in Seq(Commits) /\ Len(d) = Len(cs) + 1 /\ d[Len(cs) + 1] = x /\ \A k \in 1..Len(cs) : d[k] = cs[k]
  BY <1>0, <1>2, <1>3, AppendProperties
<1>5. ASSUME NEW c \in DOMAIN d, NEW n \in DOMAIN d[c].parents PROVE d[c].parents[n] \in 1 .. c - 1
  <2>1. CASE c \in DOMAIN cs
    <3>1. d[c] = cs[c] BY <1>0, <1>4, <2>1
    <3> QED BY <1>5, <2>1, <3>1 DEF Parented
  <2>2. CASE c \notin DOMAIN cs
    <3>1. c = Len(cs) + 1 BY <1>0, <1>4, <2>2
    <3>2. d[c].parents = ps BY <1>2, <1>4, <3>1
    <3>3. c - 1 = Len(cs) BY <1>0, <3>1
    <3> QED BY <1>5, <3>2, <3>3
  <2> QED BY <2>1, <2>2
<1>6. Parented(d) BY <1>4, <1>5 DEF Parented
<1>7. Grows(cs, d) BY <1>0, <1>4, <1>6 DEF Grows
<1> QED BY <1>1, <1>3, <1>4, <1>7

LEMMA LinearKept ==
  ASSUME NEW cs, NEW ds, Grows(cs, ds), NEW t \in DOMAIN cs, NEW o \in DOMAIN cs
  PROVE  Linear(cs, t, o) => Linear(ds, t, o)
<1>1. Ancestors(ds)[o] = Ancestors(cs)[o] /\ Ancestors(ds)[t] = Ancestors(cs)[t] BY AncestorsKept
<1>2. Gap(ds, t, o) = Gap(cs, t, o) BY <1>1 DEF Gap
<1>3. Parented(cs) BY DEF Grows
<1>4. DOMAIN cs = 1..Len(cs) /\ Len(cs) \in Nat BY <1>3, ParentsBelow
<1>5. Ancestors(cs)[o] \subseteq 1..o BY <1>3, AncestorsBelow
<1>6. ASSUME NEW c \in Gap(cs, t, o) PROVE ds[c] = cs[c]
  <2>1. c \in 1..o BY <1>5 DEF Gap
  <2>2. c \in DOMAIN cs BY <1>4, <2>1
  <2> QED BY <2>2 DEF Grows
<1> QED BY <1>1, <1>2, <1>6 DEF Linear

(* What the branches are at after a step.                                    *)
LEMMA RefsNext ==
  ASSUME Repo, Grows(commits, commits'), NEW b, NEW c \in DOMAIN commits',
         refs' = refs \/ refs' = [refs EXCEPT ![b] = c]
  PROVE  refs' \in [Heads -> DOMAIN commits'] /\ Parented(commits)'
<1>1. DOMAIN commits = 1..Len(commits) /\ Len(commits) \in Nat BY TipFact
<1>2. Parented(commits') /\ Len(commits) <= Len(commits') BY DEF Grows
<1>3. DOMAIN commits' = 1..Len(commits') /\ Len(commits') \in Nat BY <1>2 DEF Parented
<1>4. DOMAIN commits \subseteq DOMAIN commits' BY <1>1, <1>2, <1>3
<1>5. refs \in [Heads -> DOMAIN commits] BY DEF Repo
<1>6. refs \in [Heads -> DOMAIN commits'] BY <1>4, <1>5
<1> QED BY <1>2, <1>6

-----------------------------------------------------------------------------
(* What others do.                                                           *)

OthersStep ==
  \/ Edit \/ StageAll \/ CommitAll \/ StashSave \/ StashPop \/ Revert \/ RevertAbort
  \/ ClockStepsBack \/ \E b \in DOMAIN refs : Checkout(b)

Elsewhere(what) ==
  /\ Repo' /\ Grows(commits, commits') /\ nanos' \in Nat /\ UNCHANGED backups
  /\ what # "switch" => head' = head
  /\ what # "move" => refs' = refs
  /\ \A b \in Heads : refs[b] <= refs'[b]
  /\ ByOthers(what)

LEMMA SameRefs ==
  ASSUME Repo, UNCHANGED <<commits, refs>>
  PROVE  /\ Grows(commits, commits') /\ Parented(commits)' /\ refs' \in [Heads -> DOMAIN commits']
         /\ \A b \in Heads : refs[b] <= refs'[b]
<1>1. Grows(commits, commits) /\ DOMAIN commits = 1..Len(commits) BY TipFact
<1>2. \A b \in Heads : refs[b] \in DOMAIN commits BY DEF Repo
<1>3. \A b \in Heads : refs[b] <= refs[b] BY <1>1, <1>2
<1> QED BY <1>1, <1>3 DEF Repo

(* The branch of HEAD goes up to a commit that is appended.                  *)
LEMMA MovesUp ==
  ASSUME Repo, NEW tree \in Nat, NEW msg \in Nat, NEW ps \in Seq(Nat),
         \A n \in DOMAIN ps : ps[n] \in 1..Len(commits),
         commits' = Append(commits, Commit(tree, msg, ps)),
         refs' = [refs EXCEPT ![head] = Len(commits')]
  PROVE  /\ Grows(commits, commits') /\ Parented(commits)' /\ refs' \in [Heads -> DOMAIN commits']
         /\ \A b \in Heads : refs[b] <= refs'[b]
<1>0. DOMAIN commits = 1..Len(commits) /\ Len(commits) \in Nat BY TipFact
<1>1. Parented(commits) BY DEF Repo
<1>2. Grows(commits, commits') /\ Len(commits') = Len(commits) + 1 BY <1>1, Appended
<1>3. Parented(commits') BY <1>2 DEF Grows
<1>4. DOMAIN commits' = 1..Len(commits') BY <1>3 DEF Parented
<1>5. Len(commits') \in DOMAIN commits' BY <1>0, <1>2, <1>4
<1>6. refs' \in [Heads -> DOMAIN commits'] BY <1>2, <1>5, RefsNext
<1>7. ASSUME NEW b \in Heads PROVE refs[b] <= refs'[b]
  <2>1. refs[b] \in 1..Len(commits) BY <1>0 DEF Repo
  <2>2. refs'[b] = refs[b] \/ refs'[b] = Len(commits) + 1 BY <1>2 DEF Repo
  <2> QED BY <1>0, <2>1, <2>2
<1> QED BY <1>2, <1>3, <1>6, <1>7

LEMMA EditElsewhere ==
  ASSUME Repo, Kept, Edit
  PROVE  Elsewhere("edit")
<1>1. UNCHANGED <<commits, refs, head, index, stash, op, backups, nanos>> /\ work' = NewTree /\ ByOthers("edit")
  BY DEF Edit
<1>2. work' \in Nat BY <1>1 DEF Kept, NewTree
<1>3. Repo' BY <1>1, <1>2, SameRefs DEF Repo
<1> QED BY <1>1, <1>3, SameRefs DEF Elsewhere, Kept

LEMMA StageElsewhere ==
  ASSUME Repo, Kept, StageAll
  PROVE  Elsewhere("stage")
<1>1. UNCHANGED <<commits, refs, head, work, stash, op, backups, nanos>> /\ index' = work /\ ByOthers("stage")
  BY DEF StageAll
<1>3. Repo' BY <1>1, SameRefs DEF Repo
<1> QED BY <1>1, <1>3, SameRefs DEF Elsewhere, Kept

LEMMA CommitElsewhere ==
  ASSUME Repo, Kept, CommitAll
  PROVE  Elsewhere("move")
<1>1. /\ UNCHANGED <<head, index, work, stash, backups, nanos>> /\ ByOthers("move")
      /\ commits' = Append(commits, Commit(index, Len(commits) + 1, <<Tip>>))
      /\ refs' = [refs EXCEPT ![head] = Len(commits')]
  BY DEF CommitAll
<1>2. PICK ps : ps = <<Tip>> OBVIOUS
<1>3. Tip \in 1..Len(commits) /\ Len(commits) + 1 \in Nat BY TipFact
<1>4. ps \in Seq(Nat) /\ \A n \in DOMAIN ps : ps[n] \in 1..Len(commits) BY <1>2, <1>3
<1>5. index \in Nat BY DEF Repo
<1>6. /\ Grows(commits, commits') /\ Parented(commits)' /\ refs' \in [Heads -> DOMAIN commits']
      /\ \A b \in Heads : refs[b] <= refs'[b]
  BY <1>1, <1>2, <1>3, <1>4, <1>5, MovesUp
<1>7. Repo' BY <1>1, <1>6 DEF Repo
<1> QED BY <1>1, <1>6, <1>7 DEF Elsewhere, Kept

LEMMA CheckoutElsewhere ==
  ASSUME Repo, Kept, NEW b \in DOMAIN refs, Checkout(b)
  PROVE  Elsewhere("switch")
<1>1. /\ UNCHANGED <<commits, refs, stash, op, backups, nanos>> /\ ByOthers("switch")
      /\ head' = b /\ index' = Tree(refs[b]) /\ work' = Tree(refs[b])
  BY DEF Checkout
<1>2. refs[b] \in DOMAIN commits /\ b \in Heads BY DEF Repo
<1>3. Tree(refs[b]) \in Nat
  <2>1. commits[refs[b]] \in Commits BY <1>2, ParentsBelow DEF Repo
  <2> QED BY <2>1 DEF Tree, Commits
<1>4. Repo' BY <1>1, <1>2, <1>3, SameRefs DEF Repo
<1> QED BY <1>1, <1>4, SameRefs DEF Elsewhere, Kept

LEMMA StashSaveElsewhere ==
  ASSUME Repo, Kept, StashSave
  PROVE  Elsewhere("edit")
<1>1. /\ UNCHANGED <<commits, refs, head, op, backups, nanos>> /\ ByOthers("edit")
      /\ stash' = Append(stash, [index |-> index, work |-> work])
      /\ index' = Tree(Tip) /\ work' = Tree(Tip)
  BY DEF StashSave
<1>2. [index |-> index, work |-> work] \in Held BY DEF Repo, Held
<1>3. stash' \in Seq(Held) BY <1>1, <1>2, AppendProperties DEF Repo
<1>4. Repo' BY <1>1, <1>3, SameRefs, TipFact DEF Repo
<1> QED BY <1>1, <1>4, SameRefs DEF Elsewhere, Kept

LEMMA StashPopElsewhere ==
  ASSUME Repo, Kept, StashPop
  PROVE  Elsewhere("edit")
<1>1. /\ UNCHANGED <<commits, refs, head, index, op, backups, nanos>> /\ ByOthers("edit")
      /\ stash # <<>> /\ work' = stash[Len(stash)].work
      /\ stash' = SubSeq(stash, 1, Len(stash) - 1)
  BY DEF StashPop
<1>2. stash \in Seq(Held) BY DEF Repo
<1>3. Len(stash) \in 1..Len(stash)
  <2>1. Len(stash) \in Nat /\ (Len(stash) = 0 => stash = <<>>) BY <1>2, EmptySeq
  <2> QED BY <1>1, <2>1
<1>4. stash[Len(stash)] \in Held BY <1>2, <1>3
<1>5. work' \in Nat BY <1>1, <1>4 DEF Held
<1>6. stash' \in Seq(Held)
  <2>1. PICK m : m = Len(stash) - 1 OBVIOUS
  <2>2. m \in Int /\ \A k \in 1..m : stash[k] \in Held BY <1>2, <1>3, <2>1
  <2>3. SubSeq(stash, 1, m) \in Seq(Held) BY <1>2, <1>3, <2>1, <2>2, SubSeqProperties
  <2> QED BY <1>1, <2>1, <2>3
<1>7. Repo' BY <1>1, <1>5, <1>6, SameRefs DEF Repo
<1> QED BY <1>1, <1>7, SameRefs DEF Elsewhere, Kept

LEMMA RevertElsewhere ==
  ASSUME Repo, Kept, Revert
  PROVE  Elsewhere("move")
<1>1. UNCHANGED <<head, stash, backups, nanos>> /\ ByOthers("move") BY DEF Revert
<1>2. NewTree \in Nat BY DEF Kept, NewTree
<1>3. CASE /\ commits' = Append(commits, Commit(NewTree, Len(commits) + 1, <<Tip>>))
           /\ refs' = [refs EXCEPT ![head] = Len(commits')]
           /\ index' = NewTree /\ work' = NewTree
  <2>2. PICK ps : ps = <<Tip>> OBVIOUS
  <2>3. Tip \in 1..Len(commits) /\ Len(commits) + 1 \in Nat BY TipFact
  <2>4. ps \in Seq(Nat) /\ \A n \in DOMAIN ps : ps[n] \in 1..Len(commits) BY <2>2, <2>3
  <2>6. /\ Grows(commits, commits') /\ Parented(commits)' /\ refs' \in [Heads -> DOMAIN commits']
        /\ \A b \in Heads : refs[b] <= refs'[b]
    BY <1>2, <1>3, <2>2, <2>3, <2>4, MovesUp
  <2>7. Repo' BY <1>1, <1>2, <1>3, <2>6 DEF Repo
  <2> QED BY <1>1, <2>6, <2>7 DEF Elsewhere, Kept
<1>4. CASE op' = TRUE /\ work' = NewTree /\ index' = Unmerged /\ UNCHANGED <<commits, refs>>
  <2>1. Repo' BY <1>1, <1>2, <1>4, SameRefs DEF Repo, Unmerged
  <2> QED BY <1>1, <1>4, <2>1, SameRefs DEF Elsewhere, Kept
<1> QED BY <1>3, <1>4 DEF Revert

LEMMA AbortElsewhere ==
  ASSUME Repo, Kept, RevertAbort
  PROVE  Elsewhere("edit")
<1>1. /\ UNCHANGED <<commits, refs, head, stash, backups, nanos>> /\ ByOthers("edit")
      /\ index' = Tree(Tip) /\ work' = Tree(Tip)
  BY DEF RevertAbort
<1>2. Repo' BY <1>1, SameRefs, TipFact DEF Repo
<1> QED BY <1>1, <1>2, SameRefs DEF Elsewhere, Kept

LEMMA ClockElsewhere ==
  ASSUME Repo, Kept, ClockStepsBack
  PROVE  Elsewhere("clock")
<1>1. /\ UNCHANGED <<commits, refs, head, index, work, stash, op, backups>> /\ ByOthers("clock")
      /\ nanos' \in 0 .. nanos - 1
  BY DEF ClockStepsBack, repoVars
<1>2. Repo' BY <1>1, SameRefs DEF Repo
<1>3. nanos' \in Nat BY <1>1 DEF Kept
<1> QED BY <1>1, <1>2, <1>3, SameRefs DEF Elsewhere, Kept

LEMMA OthersFact ==
  ASSUME Repo, Kept, OthersStep
  PROVE  \E what \in Whats : Elsewhere(what)
<1>1. CASE Edit BY <1>1, EditElsewhere DEF Whats
<1>2. CASE StageAll BY <1>2, StageElsewhere DEF Whats
<1>3. CASE CommitAll BY <1>3, CommitElsewhere DEF Whats
<1>4. CASE StashSave BY <1>4, StashSaveElsewhere DEF Whats
<1>5. CASE StashPop BY <1>5, StashPopElsewhere DEF Whats
<1>6. CASE Revert BY <1>6, RevertElsewhere DEF Whats
<1>7. CASE RevertAbort BY <1>7, AbortElsewhere DEF Whats
<1>8. CASE ClockStepsBack BY <1>8, ClockElsewhere DEF Whats
<1>9. CASE \E b \in DOMAIN refs : Checkout(b) BY <1>9, CheckoutElsewhere DEF Whats
<1> QED BY <1>1, <1>2, <1>3, <1>4, <1>5, <1>6, <1>7, <1>8, <1>9 DEF OthersStep

LEMMA RepoGrows ==
  ASSUME NEW cs, NEW ds, Grows(cs, ds)
  PROVE  /\ DOMAIN cs = 1..Len(cs) /\ Len(cs) \in Nat /\ DOMAIN ds = 1..Len(ds) /\ Len(ds) \in Nat
         /\ \A c \in DOMAIN cs : c \in DOMAIN ds
<1>1. Parented(cs) /\ Parented(ds) /\ Len(cs) <= Len(ds) BY DEF Grows
<1>2. DOMAIN cs = 1..Len(cs) /\ Len(cs) \in Nat /\ DOMAIN ds = 1..Len(ds) /\ Len(ds) \in Nat
  BY <1>1 DEF Parented
<1> QED BY <1>1, <1>2

(* While commits are only added, a command keeps what it knows of them.      *)
LEMMA PastKept ==
  ASSUME Grows(commits, commits'), Job, Past,
         cmd'.kind = cmd.kind, cmd'.pc = cmd.pc, cmd'.target = cmd.target, cmd'.orig = cmd.orig,
         cmd'.new = cmd.new
  PROVE  Past'
<1>1. \A c \in DOMAIN commits : c \in DOMAIN commits' /\ c \in 0..Len(commits) BY RepoGrows
<1>2. ASSUME cmd.kind = "past", cmd.pc \in {"guards", "backup", "build", "cas"}
      PROVE  cmd.orig \in DOMAIN commits /\ cmd.target \in DOMAIN commits
  BY <1>2 DEF Past, Job
<1>3. ASSUME cmd.kind = "past", cmd.pc \in {"backup", "build", "cas"}
      PROVE  Linear(commits', cmd.target, cmd.orig)
  <2>1. Linear(commits, cmd.target, cmd.orig) BY <1>3 DEF Past
  <2>2. cmd.orig \in DOMAIN commits /\ cmd.target \in DOMAIN commits BY <1>2, <1>3
  <2> QED BY <2>1, <2>2, LinearKept
<1>4. ASSUME cmd.pc = "cas"
      PROVE  /\ cmd.new \in DOMAIN commits'
             /\ Stories(commits')[cmd.new]
                  = Reworded(Stories(commits')[cmd.orig], Len(Stories(commits')[cmd.target]))
  <2>1. cmd.kind = "past" BY <1>4 DEF Job
  <2>2. cmd.orig \in DOMAIN commits /\ cmd.target \in DOMAIN commits BY <1>2, <1>4, <2>1
  <2>3. /\ cmd.new \in DOMAIN commits
        /\ Stories(commits)[cmd.new]
             = Reworded(Stories(commits)[cmd.orig], Len(Stories(commits)[cmd.target]))
    BY <1>4 DEF Past
  <2>4. /\ Stories(commits')[cmd.new] = Stories(commits)[cmd.new]
        /\ Stories(commits')[cmd.orig] = Stories(commits)[cmd.orig]
        /\ Stories(commits')[cmd.target] = Stories(commits)[cmd.target]
    BY <1>1, <2>2, <2>3, StoriesKept
  <2> QED BY <1>1, <2>3, <2>4
<1> QED BY <1>1, <1>2, <1>3, <1>4 DEF Past

(* Nobody but the command runs, or what runs is written into `raced`.        *)
LEMMA InvByOthers ==
  ASSUME GitInv, NEW what \in Whats, Elsewhere(what)
  PROVE  GitInv'
<1>0. Repo /\ Kept /\ Job /\ Past /\ Steady /\ BackedPast /\ BackedReset /\ Cleaned BY DEF GitInv
<1>1. /\ Repo' /\ Grows(commits, commits') /\ nanos' \in Nat /\ UNCHANGED backups
      /\ (what # "switch" => head' = head) /\ (what # "move" => refs' = refs)
      /\ \A b \in Heads : refs[b] <= refs'[b]
      /\ others' = others + 1
      /\ cmd' = IF cmd.pc = "idle" THEN cmd ELSE [cmd EXCEPT !.raced = @ \cup {what}]
  BY DEF Elsewhere, ByOthers
<1>2. Kept'
  <2>1. PICK k : k = Cardinality(backups) OBVIOUS
  <2>2. k \in Nat BY <1>0, <2>1, FS_CardinalityType DEF Kept
  <2>3. k <= BackupKeep + others' BY <1>0, <1>1, <2>1, <2>2, GitAssumption DEF Kept
  <2> QED BY <1>0, <1>1, <2>1, <2>3 DEF Kept
<1>3. CASE cmd.pc = "idle"
  <2>1. cmd' = NoJob BY <1>0, <1>1, <1>3 DEF Job
  <2>2. NoJob.pc = "idle" /\ NoJob.kind = "none" BY DEF NoJob
  <2>3. Job' BY <1>0, <1>1, <1>3, <2>1, <2>2 DEF Job
  <2> QED BY <1>1, <1>2, <2>1, <2>2, <2>3 DEF GitInv, Past, Steady, BackedPast, BackedReset, Cleaned
<1>4. CASE cmd.pc # "idle"
  <2>1. cmd \in Jobs BY <1>0 DEF Job
  <2>2. /\ cmd' \in Jobs /\ cmd'.pc = cmd.pc /\ cmd'.kind = cmd.kind /\ cmd'.target = cmd.target
        /\ cmd'.branch = cmd.branch /\ cmd'.orig = cmd.orig /\ cmd'.new = cmd.new
        /\ cmd'.raced = cmd.raced \cup {what}
    BY <1>1, <1>4, <2>1 DEF Jobs
  <2>3. Job'
    <3>1. \A c \in DOMAIN commits : c \in DOMAIN commits' BY <1>1, RepoGrows
    <3> QED BY <1>0, <1>4, <2>2, <3>1 DEF Job
  <2>4. Past' BY <1>0, <1>1, <2>2, PastKept
  <2>5. cmd.branch \in Heads BY <2>1 DEF Jobs
  <2>6. PICK r \in Nat, s \in Nat : r = refs[cmd.branch] /\ s = refs'[cmd.branch] /\ r <= s
    <3>1. refs[cmd.branch] \in Nat BY <1>0, <2>5, TipFact DEF Repo
    <3>2. refs'[cmd.branch] \in DOMAIN commits' BY <1>1, <2>5 DEF Repo
    <3>3. refs'[cmd.branch] \in Nat BY <1>1, <3>2, RepoGrows
    <3> QED BY <1>1, <2>5, <3>1, <3>3
  <2>7. cmd.orig \in Nat BY <2>1 DEF Jobs
  <2>8. Steady'
    <3>1. SUFFICES ASSUME cmd.kind = "past", cmd.pc \in {"guards", "backup", "build", "cas"},
                          "switch" \notin cmd'.raced
                   PROVE  head' = cmd.branch /\ cmd.orig <= refs'[cmd.branch]
      BY <2>2 DEF Steady
    <3>2. "switch" \notin cmd.raced /\ what # "switch" BY <2>2, <3>1
    <3>3. head = cmd.branch /\ cmd.orig <= refs[cmd.branch] BY <1>0, <3>1, <3>2 DEF Steady
    <3>4. cmd.orig <= s BY <2>6, <2>7, <3>3
    <3> QED BY <1>1, <2>6, <3>2, <3>3, <3>4
  <2>9. BackedPast'
    <3>1. SUFFICES ASSUME cmd.pc \in {"build", "cas"}, "switch" \notin cmd'.raced
                   PROVE  \E b \in backups : cmd.orig <= b.at /\ b.at <= refs'[cmd.branch]
      BY <1>1, <2>2 DEF BackedPast
    <3>2. "switch" \notin cmd.raced BY <2>2, <3>1
    <3>3. PICK b \in backups : cmd.orig <= b.at /\ b.at <= refs[cmd.branch]
      BY <1>0, <3>1, <3>2 DEF BackedPast
    <3>4. b.at \in Nat BY <1>0 DEF Kept, Backup
    <3>5. b.at <= s BY <2>6, <3>3, <3>4
    <3> QED BY <2>6, <3>3, <3>5
  <2>10. BackedReset'
    <3>1. SUFFICES ASSUME cmd.pc \in {"status", "stash", "reset"}, "switch" \notin cmd'.raced,
                          "move" \notin cmd'.raced
                   PROVE  \E b \in backups : b.at = Tip'
      BY <1>1, <2>2 DEF BackedReset
    <3>2. "switch" \notin cmd.raced /\ "move" \notin cmd.raced /\ what # "switch" /\ what # "move"
      BY <2>2, <3>1
    <3>3. Tip' = Tip BY <1>1, <3>2 DEF Tip
    <3> QED BY <1>0, <3>1, <3>2, <3>3 DEF BackedReset
  <2>11. Cleaned'
    <3>1. cmd'.raced # {} BY <2>2
    <3> QED BY <3>1 DEF Cleaned
  <2> QED BY <1>1, <1>2, <2>3, <2>4, <2>8, <2>9, <2>10, <2>11 DEF GitInv
<1> QED BY <1>3, <1>4

-----------------------------------------------------------------------------
(* The steps of a command.                                                   *)

LEMMA KeptNext ==
  ASSUME Kept, UNCHANGED <<backups, nanos>>, others' = others \/ others' = others + 1
  PROVE  Kept'
<1>1. PICK k : k = Cardinality(backups) OBVIOUS
<1>2. k \in Nat BY <1>1, FS_CardinalityType DEF Kept
<1>3. k <= BackupKeep + others' BY <1>1, <1>2, GitAssumption DEF Kept
<1> QED BY <1>1, <1>3 DEF Kept

LEMMA InvEnds ==
  ASSUME cmd' = NoJob, Repo', Kept'
  PROVE  GitInv'
<1>1. NoJob \in Jobs BY DEF NoJob, Jobs, Pcs, Kinds, Heads
<1>2. NoJob.pc = "idle" /\ NoJob.kind = "none" BY DEF NoJob
<1>3. Job' BY <1>1, <1>2 DEF Job
<1> QED BY <1>2, <1>3 DEF GitInv, Past, Steady, BackedPast, BackedReset, Cleaned

LEMMA SameRepo ==
  ASSUME Repo, UNCHANGED repoVars
  PROVE  Repo' /\ UNCHANGED <<commits, refs, head, index, work, stash, backups>>
BY DEF Repo, repoVars

LEMMA SomeNames ==
  /\ "check" \in Pcs /\ "guards" \in Pcs /\ "amend" \in Pcs /\ "soft" \in Pcs /\ "backup" \in Pcs
  /\ "status" \in Pcs /\ "stash" \in Pcs /\ "reset" \in Pcs /\ "build" \in Pcs /\ "cas" \in Pcs
  /\ "blind" \in Whats
BY DEF Pcs, Whats

(* A step to another line of the command that changes nothing else of it.    *)
LEMMA GoesFact ==
  ASSUME cmd \in Jobs, NEW pc \in Pcs, Goes(pc)
  PROVE  /\ cmd' \in Jobs /\ cmd'.pc = pc /\ cmd'.kind = cmd.kind /\ cmd'.target = cmd.target
         /\ cmd'.branch = cmd.branch /\ cmd'.orig = cmd.orig /\ cmd'.new = cmd.new
         /\ cmd'.raced = cmd.raced
BY DEF Goes, Jobs

LEMMA InvBegins ==
  ASSUME GitInv, Begins
  PROVE  GitInv'
<1>0. Repo /\ Kept /\ Job BY DEF GitInv
<1>1. UNCHANGED <<repoVars, nanos, others>> BY DEF Begins
<1>2. Repo' /\ UNCHANGED <<commits, refs, head, index, work, stash, backups>> BY <1>0, <1>1, SameRepo
<1>3. Kept' BY <1>0, <1>1, <1>2, KeptNext
<1>4. PICK kind \in {"reword", "uncommit", "soft", "mixed", "hard", "past"}, c \in DOMAIN commits :
        cmd' = [NoJob EXCEPT !.pc = "check", !.kind = kind, !.target = c]
  BY DEF Begins
<1>5. c \in Nat /\ c \in DOMAIN commits' BY <1>0, <1>2, TipFact
<1>6. cmd' \in Jobs /\ cmd'.pc = "check" /\ cmd'.kind = kind /\ cmd'.target = c
  BY <1>4, <1>5 DEF NoJob, Jobs, Pcs, Kinds, Heads
<1>7. Job' BY <1>5, <1>6 DEF Job
<1> QED BY <1>2, <1>3, <1>6, <1>7 DEF GitInv, Past, Steady, BackedPast, BackedReset, Cleaned

LEMMA InvFails ==
  ASSUME GitInv, GitFails
  PROVE  GitInv'
<1>0. Repo /\ Kept BY DEF GitInv
<1>1. UNCHANGED <<repoVars, nanos>> /\ others' = others + 1 /\ cmd' = NoJob BY DEF GitFails, Ends
<1>2. Repo' /\ UNCHANGED backups BY <1>0, <1>1, SameRepo
<1>3. Kept' BY <1>0, <1>1, <1>2, KeptNext
<1> QED BY <1>0, <1>1, <1>2, <1>3, InvEnds

LEMMA InvCheck ==
  ASSUME GitInv, Check
  PROVE  GitInv'
<1>0. Repo /\ Kept /\ Job BY DEF GitInv
<1>1. UNCHANGED <<repoVars, nanos, others>> /\ cmd.pc = "check" BY DEF Check
<1>2. Repo' /\ UNCHANGED <<commits, refs, head, index, work, stash, backups>> BY <1>0, <1>1, SameRepo
<1>3. Kept' BY <1>0, <1>1, <1>2, KeptNext
<1>4. CASE Ends BY <1>0, <1>2, <1>3, <1>4, InvEnds DEF Ends
<1>5. cmd \in Jobs /\ cmd.target \in DOMAIN commits /\ cmd.kind # "none" BY <1>0, <1>1 DEF Job
<1>6. CASE cmd.kind \in {"reword", "uncommit"} /\ Goes("guards")
  <2>1. cmd' \in Jobs /\ cmd'.pc = "guards" /\ cmd'.kind = cmd.kind /\ cmd'.target = cmd.target
    BY <1>5, <1>6, SomeNames, GoesFact
  <2>2. Job' BY <1>2, <1>5, <2>1 DEF Job
  <2> QED BY <1>2, <1>3, <1>6, <2>1, <2>2 DEF GitInv, Past, Steady, BackedPast, BackedReset, Cleaned
<1>7. CASE cmd.kind \in Reset /\ Goes("backup")
  <2>1. cmd' \in Jobs /\ cmd'.pc = "backup" /\ cmd'.kind = cmd.kind /\ cmd'.target = cmd.target
    BY <1>5, <1>7, SomeNames, GoesFact
  <2>2. Job' BY <1>2, <1>5, <1>7, <2>1 DEF Job
  <2>3. cmd'.kind # "past" BY <1>7, <2>1 DEF Reset
  <2> QED BY <1>2, <1>3, <2>1, <2>2, <2>3 DEF GitInv, Past, Steady, BackedPast, BackedReset, Cleaned
<1>8. CASE cmd.kind = "past" /\ cmd' = [cmd EXCEPT !.pc = "guards", !.branch = head, !.orig = Tip]
  <2>0. Tip \in DOMAIN commits /\ Tip \in Nat /\ head \in Heads BY <1>0, TipFact DEF Repo
  <2>1. /\ cmd' \in Jobs /\ cmd'.pc = "guards" /\ cmd'.kind = "past" /\ cmd'.target = cmd.target
        /\ cmd'.branch = head /\ cmd'.orig = Tip
    BY <1>5, <1>8, <2>0, SomeNames DEF Jobs
  <2>2. Job' BY <1>2, <1>5, <2>1 DEF Job
  <2>3. Past' BY <1>2, <2>0, <2>1 DEF Past
  <2>4. Tip <= refs'[head] BY <1>2, <2>0 DEF Tip
  <2>5. Steady' BY <1>2, <2>1, <2>4 DEF Steady
  <2> QED BY <1>2, <1>3, <2>1, <2>2, <2>3, <2>5 DEF GitInv, BackedPast, BackedReset, Cleaned
<1> QED BY <1>4, <1>6, <1>7, <1>8 DEF Check, If

LEMMA InvGuards ==
  ASSUME GitInv, Guards
  PROVE  GitInv'
<1>0. Repo /\ Kept /\ Job /\ Past /\ Steady BY DEF GitInv
<1>1. UNCHANGED <<repoVars, nanos, others>> /\ cmd.pc = "guards" BY DEF Guards
<1>2. Repo' /\ UNCHANGED <<commits, refs, head, index, work, stash, backups>> BY <1>0, <1>1, SameRepo
<1>3. Kept' BY <1>0, <1>1, <1>2, KeptNext
<1>4. CASE Ends BY <1>0, <1>2, <1>3, <1>4, InvEnds DEF Ends
<1>5. cmd \in Jobs /\ cmd.target \in DOMAIN commits /\ cmd.kind # "none" BY <1>0, <1>1 DEF Job
<1>6. CASE cmd.kind = "reword" /\ Goes("amend")
  <2>1. cmd' \in Jobs /\ cmd'.pc = "amend" /\ cmd'.kind = cmd.kind /\ cmd'.target = cmd.target
    BY <1>5, <1>6, SomeNames, GoesFact
  <2>2. Job' BY <1>2, <1>5, <1>6, <2>1 DEF Job
  <2> QED BY <1>2, <1>3, <1>6, <2>1, <2>2 DEF GitInv, Past, Steady, BackedPast, BackedReset, Cleaned
<1>7. CASE cmd.kind = "uncommit" /\ Goes("soft")
  <2>1. cmd' \in Jobs /\ cmd'.pc = "soft" /\ cmd'.kind = cmd.kind /\ cmd'.target = cmd.target
    BY <1>5, <1>7, SomeNames, GoesFact
  <2>2. Job' BY <1>2, <1>5, <1>7, <2>1 DEF Job
  <2> QED BY <1>2, <1>3, <1>7, <2>1, <2>2 DEF GitInv, Past, Steady, BackedPast, BackedReset, Cleaned
<1>8. CASE cmd.kind = "past" /\ IsAncestor /\ MergeFree /\ Goes("backup")
  <2>1. /\ cmd' \in Jobs /\ cmd'.pc = "backup" /\ cmd'.kind = cmd.kind /\ cmd'.target = cmd.target
        /\ cmd'.branch = cmd.branch /\ cmd'.orig = cmd.orig /\ cmd'.raced = cmd.raced
    BY <1>5, <1>8, SomeNames, GoesFact
  <2>2. Job' BY <1>2, <1>5, <1>8, <2>1 DEF Job
  <2>3. Linear(commits, cmd.target, cmd.orig) BY <1>8 DEF IsAncestor, MergeFree, Between, Gap, Linear
  <2>4. cmd.orig \in DOMAIN commits BY <1>0, <1>1, <1>8 DEF Past
  <2>5. Past' BY <1>2, <2>1, <2>3, <2>4 DEF Past
  <2>6. "switch" \notin cmd.raced => head = cmd.branch /\ cmd.orig <= refs[cmd.branch]
    BY <1>0, <1>1, <1>8 DEF Steady
  <2>7. Steady' BY <1>2, <2>1, <2>6 DEF Steady
  <2> QED BY <1>2, <1>3, <2>1, <2>2, <2>5, <2>7 DEF GitInv, BackedPast, BackedReset, Cleaned
<1> QED BY <1>4, <1>6, <1>7, <1>8 DEF Guards, If

LEMMA InvAmend ==
  ASSUME GitInv, Amend
  PROVE  GitInv'
<1>0. Repo /\ Kept BY DEF GitInv
<1>1. /\ cmd' = NoJob /\ UNCHANGED <<head, index, work, stash, backups, nanos, others, jobs>>
      /\ \/ UNCHANGED <<commits, refs, op>>
         \/ /\ commits' = Append(commits, Commit(index, 0, commits[Tip].parents))
            /\ refs' = [refs EXCEPT ![head] = Len(commits')] /\ op' = FALSE
  BY DEF Amend, Ends
<1>2. PICK ps : ps = commits[Tip].parents OBVIOUS
<1>3. Tip \in 1..Len(commits) /\ commits[Tip] \in Commits /\ Len(commits) \in Nat /\ DOMAIN commits = 1..Len(commits)
  BY <1>0, TipFact
<1>4. ps \in Seq(Nat) BY <1>2, <1>3 DEF Commits
<1>5. \A n \in DOMAIN ps : ps[n] \in 1 .. Tip - 1 BY <1>0, <1>2, <1>3 DEF Repo, Parented
<1>6. \A n \in DOMAIN ps : ps[n] \in 1..Len(commits) BY <1>3, <1>5
<1>7. index \in Nat BY <1>0 DEF Repo
<1>8. ASSUME UNCHANGED <<commits, refs, op>> PROVE Repo'
  <2>1. Parented(commits)' /\ refs' \in [Heads -> DOMAIN commits'] BY <1>0, <1>8, SameRefs
  <2> QED BY <1>0, <1>1, <2>1 DEF Repo
<1>9. ASSUME commits' = Append(commits, Commit(index, 0, commits[Tip].parents)),
             refs' = [refs EXCEPT ![head] = Len(commits')]
      PROVE  Repo'
  <2>0. 0 \in Nat OBVIOUS
  <2>1. Parented(commits)' /\ refs' \in [Heads -> DOMAIN commits']
    BY <1>0, <1>2, <1>4, <1>6, <1>7, <1>9, <2>0, MovesUp
  <2> QED BY <1>0, <1>1, <1>9, <2>1 DEF Repo
<1>10. Repo' BY <1>1, <1>8, <1>9
<1>11. Kept' BY <1>0, <1>1, KeptNext
<1> QED BY <1>0, <1>1, <1>10, <1>11, InvEnds

LEMMA InvUncommit ==
  ASSUME GitInv, Uncommit
  PROVE  GitInv'
<1>0. Repo /\ Kept BY DEF GitInv
<1>1. /\ cmd' = NoJob /\ UNCHANGED <<commits, head, index, work, stash, op, backups, nanos, others, jobs>>
      /\ IF commits[Tip].parents = <<>> \/ index = Unmerged THEN UNCHANGED refs
         ELSE refs' = [refs EXCEPT ![head] = commits[Tip].parents[1]]
  BY DEF Uncommit, Ends
<1>2. Repo'
  <2>1. CASE UNCHANGED refs BY <1>0, <1>1, <2>1 DEF Repo
  <2>2. CASE commits[Tip].parents # <<>> /\ refs' = [refs EXCEPT ![head] = commits[Tip].parents[1]]
    <3>1. Tip \in DOMAIN commits /\ commits[Tip] \in Commits /\ Grows(commits, commits) BY <1>0, TipFact
    <3>2. PICK ps : ps = commits[Tip].parents OBVIOUS
    <3>3. ps \in Seq(Nat) /\ ps # <<>> BY <2>2, <3>1, <3>2 DEF Commits
    <3>4. 1 \in DOMAIN ps
      <4>1. Len(ps) \in Nat /\ (Len(ps) = 0 => ps = <<>>) BY <3>3, EmptySeq
      <4> QED BY <3>3, <4>1
    <3>5. ps[1] \in Range(ps) BY <3>4 DEF Range
    <3>6. ps[1] \in DOMAIN commits BY <1>0, <3>1, <3>2, <3>5, ParentsBelow DEF Repo
    <3>7. refs' \in [Heads -> DOMAIN commits'] BY <1>0, <1>1, <2>2, <3>2, <3>6 DEF Repo
    <3> QED BY <1>0, <1>1, <3>7 DEF Repo
  <2> QED BY <1>1, <2>1, <2>2
<1>3. Kept' BY <1>0, <1>1, KeptNext
<1> QED BY <1>0, <1>1, <1>2, <1>3, InvEnds

LEMMA InvReset ==
  ASSUME GitInv, ResetTo
  PROVE  GitInv'
<1>0. Repo /\ Kept /\ Job BY DEF GitInv
<1>1. /\ cmd.pc = "reset" /\ cmd' = NoJob
      /\ refs' = refs \/ refs' = [refs EXCEPT ![head] = cmd.target]
      /\ index' \in {index, Tree(cmd.target)} /\ work' \in {work, Tree(cmd.target)}
      /\ UNCHANGED <<commits, head, stash, backups, nanos, others, jobs>>
  BY DEF ResetTo, Ends
<1>2. cmd.target \in DOMAIN commits BY <1>0, <1>1 DEF Job
<1>3. Tree(cmd.target) \in Nat
  <2>1. commits[cmd.target] \in Commits BY <1>0, <1>2, ParentsBelow DEF Repo
  <2> QED BY <2>1 DEF Tree, Commits
<1>4. refs' \in [Heads -> DOMAIN commits'] BY <1>0, <1>1, <1>2 DEF Repo
<1>5. Repo' BY <1>0, <1>1, <1>3, <1>4 DEF Repo
<1>6. Kept' BY <1>0, <1>1, KeptNext
<1> QED BY <1>0, <1>1, <1>5, <1>6, InvEnds

LEMMA InvSwap ==
  ASSUME GitInv, CompareAndSwap
  PROVE  GitInv'
<1>0. Repo /\ Kept /\ Job /\ Past BY DEF GitInv
<1>1. /\ cmd.pc = "cas" /\ cmd' = NoJob
      /\ refs' = refs \/ refs' = [refs EXCEPT ![cmd.branch] = cmd.new]
      /\ UNCHANGED <<commits, head, index, work, stash, op, backups, nanos, others, jobs>>
  BY DEF CompareAndSwap, Ends
<1>2. cmd.new \in DOMAIN commits BY <1>0, <1>1 DEF Past
<1>4. refs' \in [Heads -> DOMAIN commits'] BY <1>0, <1>1, <1>2 DEF Repo
<1>5. Repo' BY <1>0, <1>1, <1>4 DEF Repo
<1>6. Kept' BY <1>0, <1>1, KeptNext
<1> QED BY <1>0, <1>1, <1>5, <1>6, InvEnds

LEMMA BackupKept ==
  ASSUME Repo, Kept, NEW mine, mine = [n |-> nanos, at |-> Tip], nanos' = nanos + 1,
         \/ backups' = Pruned(backups \cup {mine}, mine) /\ others' = others
         \/ backups' = backups \cup {mine} /\ others' = others + 1
  PROVE  Kept' /\ mine \in backups' /\ mine.at = Tip
<1>1. Tip \in Nat BY TipFact
<1>2. mine \in Backup /\ mine.at = Tip BY <1>1 DEF Kept, Backup
<1>3. PICK all : all = backups \cup {mine} OBVIOUS
<1>4. backups \in SUBSET Backup /\ IsFiniteSet(backups) /\ nanos \in Nat /\ others \in Nat
      /\ Cardinality(backups) <= BackupKeep + others
  BY DEF Kept
<1>5. all \in SUBSET Backup /\ mine \in all BY <1>2, <1>3, <1>4
<1>6. PICK k \in Nat : k = Cardinality(backups) BY <1>4, FS_CardinalityType
<1>7. /\ IsFiniteSet(all)
      /\ Cardinality(all) = IF mine \in backups THEN Cardinality(backups) ELSE Cardinality(backups) + 1
  BY <1>3, <1>4, FS_AddElement
<1>8. BackupKeep \in Nat BY GitAssumption
<1>9. CASE backups' = Pruned(all, mine) /\ others' = others
  <2>1. /\ Pruned(all, mine) \subseteq all /\ mine \in Pruned(all, mine)
        /\ IsFiniteSet(Pruned(all, mine)) /\ Cardinality(Pruned(all, mine)) <= BackupKeep
    BY <1>5, <1>7, PrunedFact
  <2>2. PICK j : j = Cardinality(backups') OBVIOUS
  <2>3. j \in Nat /\ j <= BackupKeep BY <1>9, <2>1, <2>2, FS_CardinalityType
  <2>4. j <= BackupKeep + others' BY <1>4, <1>8, <1>9, <2>3
  <2> QED BY <1>2, <1>4, <1>5, <1>9, <2>1, <2>2, <2>4 DEF Kept
<1>10. CASE backups' = all /\ others' = others + 1
  <2>1. PICK j : j = Cardinality(all) OBVIOUS
  <2>2. j = k \/ j = k + 1 BY <1>6, <1>7, <2>1
  <2>3. j <= BackupKeep + others' BY <1>4, <1>6, <1>8, <1>10, <2>2
  <2> QED BY <1>2, <1>4, <1>5, <1>7, <1>10, <2>1, <2>3 DEF Kept
<1> QED BY <1>3, <1>9, <1>10

LEMMA InvBackup ==
  ASSUME GitInv, BackupRef
  PROVE  GitInv'
<1>0. Repo /\ Kept /\ Job /\ Past /\ Steady BY DEF GitInv
<1>1. UNCHANGED <<commits, refs, head, index, work, stash, op, jobs>> /\ cmd.pc = "backup"
  BY DEF BackupRef
<1>2. Repo' BY <1>0, <1>1 DEF Repo
<1>3. CASE Ends /\ UNCHANGED <<backups, nanos, others>>
  <2>1. Kept' BY <1>0, <1>3, KeptNext
  <2> QED BY <1>2, <1>3, <2>1, InvEnds DEF Ends
<1>4. PICK pc : pc = IF cmd.kind = "past" THEN "build" ELSE IF cmd.kind = "hard" THEN "status" ELSE "reset"
  OBVIOUS
<1>5. pc \in {"build", "status", "reset"} /\ pc \in Pcs BY <1>4, SomeNames
<1>6. PICK mine : mine = [n |-> nanos, at |-> Tip] OBVIOUS
<1>7. CASE /\ Goes(pc) /\ nanos' = nanos + 1
           /\ \/ backups' = Pruned(backups \cup {mine}, mine) /\ UNCHANGED others
              \/ backups' = backups \cup {mine} /\ others' = others + 1
  <2>1. Kept' /\ mine \in backups' /\ mine.at = Tip BY <1>0, <1>6, <1>7, BackupKept
  <2>2. cmd \in Jobs /\ cmd.target \in DOMAIN commits /\ cmd.kind \in Reset \cup {"past"} BY <1>0, <1>1 DEF Job
  <2>3. /\ cmd' \in Jobs /\ cmd'.pc = pc /\ cmd'.kind = cmd.kind /\ cmd'.target = cmd.target
        /\ cmd'.branch = cmd.branch /\ cmd'.orig = cmd.orig /\ cmd'.raced = cmd.raced
    BY <1>5, <1>7, <2>2, GoesFact
  <2>4. CASE cmd.kind = "past"
    <3>1. cmd'.pc = "build" /\ cmd'.kind = "past" BY <1>4, <2>3, <2>4
    <3>2. Job' BY <1>1, <2>2, <2>3, <3>1 DEF Job
    <3>3. cmd.orig \in DOMAIN commits /\ Linear(commits, cmd.target, cmd.orig)
      BY <1>0, <1>1, <2>4 DEF Past
    <3>4. Past' BY <1>1, <2>3, <3>1, <3>3 DEF Past
    <3>5. "switch" \notin cmd.raced => head = cmd.branch /\ cmd.orig <= refs[cmd.branch]
      BY <1>0, <1>1, <2>4 DEF Steady
    <3>6. Steady' BY <1>1, <2>3, <3>5 DEF Steady
    <3>7. "switch" \notin cmd.raced => cmd.orig <= mine.at /\ mine.at <= refs[cmd.branch]
      <4>1. Tip \in Nat /\ Tip <= Tip BY <1>0, TipFact
      <4> QED BY <2>1, <3>5, <4>1 DEF Tip
    <3>8. BackedPast' BY <1>1, <2>1, <2>3, <3>7 DEF BackedPast
    <3> QED BY <1>2, <2>1, <3>1, <3>2, <3>4, <3>6, <3>8 DEF GitInv, BackedReset, Cleaned
  <2>5. CASE cmd.kind # "past"
    <3>1. cmd'.pc \in {"status", "reset"} /\ cmd'.kind \in Reset /\ cmd'.kind # "past" /\ cmd'.kind # "none"
          /\ (cmd'.pc = "status" <=> cmd'.kind = "hard")
      BY <1>4, <2>2, <2>3, <2>5 DEF Reset
    <3>2. Job' BY <1>1, <2>2, <2>3, <3>1 DEF Job
    <3>3. Tip' = Tip BY <1>1 DEF Tip
    <3>4. BackedReset' BY <2>1, <3>3 DEF BackedReset
    <3> QED BY <1>2, <2>1, <3>1, <3>2, <3>4 DEF GitInv, Past, Steady, BackedPast, Cleaned
  <2> QED BY <2>4, <2>5
<1> QED BY <1>3, <1>4, <1>6, <1>7 DEF BackupRef

LEMMA InvStatus ==
  ASSUME GitInv, Status
  PROVE  GitInv'
<1>0. Repo /\ Kept /\ Job /\ BackedReset BY DEF GitInv
<1>1. UNCHANGED <<repoVars, nanos, jobs>> /\ cmd.pc = "status" /\ (others' = others \/ others' = others + 1)
  BY DEF Status
<1>2. Repo' /\ UNCHANGED <<commits, refs, head, index, work, stash, backups>> BY <1>0, <1>1, SameRepo
<1>3. Kept' BY <1>0, <1>1, <1>2, KeptNext
<1>4. cmd \in Jobs /\ cmd.target \in DOMAIN commits /\ cmd.kind = "hard" BY <1>0, <1>1 DEF Job
<1>5. cmd' = [cmd EXCEPT !.pc = IF Clean THEN "reset" ELSE "stash"]
      \/ cmd' = [cmd EXCEPT !.pc = "reset", !.raced = @ \cup {"blind"}]
  BY DEF Status, Goes
<1>6. /\ cmd' \in Jobs /\ cmd'.pc \in {"stash", "reset"} /\ cmd'.kind = "hard" /\ cmd'.target = cmd.target
      /\ cmd.raced \subseteq cmd'.raced
  BY <1>4, <1>5, SomeNames DEF Jobs
<1>7. cmd'.pc = "reset" /\ cmd'.raced = {} => work = Tree(Tip)
  <2>1. CASE cmd' = [cmd EXCEPT !.pc = IF Clean THEN "reset" ELSE "stash"]
    BY <1>4, <2>1 DEF Clean, Jobs
  <2>2. CASE cmd' = [cmd EXCEPT !.pc = "reset", !.raced = @ \cup {"blind"}]
    BY <1>4, <2>2 DEF Jobs
  <2> QED BY <1>5, <2>1, <2>2
<1>8. Tip' = Tip /\ Tree(Tip)' = Tree(Tip) BY <1>2 DEF Tip, Tree
<1>9. Job' BY <1>2, <1>4, <1>6 DEF Job, Reset
<1>10. BackedReset'
  <2>1. "switch" \notin cmd'.raced /\ "move" \notin cmd'.raced => "switch" \notin cmd.raced /\ "move" \notin cmd.raced
    BY <1>6
  <2>2. "switch" \notin cmd.raced /\ "move" \notin cmd.raced => \E b \in backups : b.at = Tip
    BY <1>0, <1>1 DEF BackedReset
  <2> QED BY <1>2, <1>8, <2>1, <2>2 DEF BackedReset
<1>11. Cleaned' BY <1>2, <1>7, <1>8 DEF Cleaned
<1> QED BY <1>2, <1>3, <1>6, <1>9, <1>10, <1>11 DEF GitInv, Past, Steady, BackedPast

LEMMA InvStash ==
  ASSUME GitInv, StashPush
  PROVE  GitInv'
<1>0. Repo /\ Kept /\ Job /\ BackedReset BY DEF GitInv
<1>1. /\ UNCHANGED <<commits, refs, head, op, backups, nanos, others, jobs>> /\ cmd.pc = "stash"
      /\ If(index # Unmerged, "reset")
      /\ IF Clean \/ index = Unmerged THEN UNCHANGED <<stash, index, work>>
         ELSE /\ stash' = Append(stash, [index |-> index, work |-> work])
              /\ index' = Tree(Tip) /\ work' = Tree(Tip)
  BY DEF StashPush
<1>a. CASE index = Unmerged
  <2>1. cmd' = NoJob /\ UNCHANGED <<stash, index, work>> BY <1>1, <1>a DEF If, Ends
  <2>2. Repo' BY <1>0, <1>1, <2>1 DEF Repo
  <2>3. Kept' BY <1>0, <1>1, KeptNext
  <2> QED BY <1>0, <1>1, <2>1, <2>2, <2>3, InvEnds
<1>b. SUFFICES ASSUME index # Unmerged PROVE GitInv' BY <1>a
<1>c. Goes("reset") BY <1>1, <1>b DEF If
<1>2. Repo' /\ work' = Tree(Tip)
  <2>1. CASE Clean /\ UNCHANGED <<stash, index, work>> BY <1>0, <1>1, <2>1 DEF Repo, Clean
  <2>2. CASE /\ stash' = Append(stash, [index |-> index, work |-> work])
             /\ index' = Tree(Tip) /\ work' = Tree(Tip)
    <3>1. [index |-> index, work |-> work] \in Held BY <1>0 DEF Repo, Held
    <3>2. stash' \in Seq(Held) BY <1>0, <2>2, <3>1, AppendProperties DEF Repo
    <3> QED BY <1>0, <1>1, <2>2, <3>2, TipFact DEF Repo
  <2> QED BY <1>1, <1>b, <2>1, <2>2
<1>3. Kept' BY <1>0, <1>1, KeptNext
<1>4. cmd \in Jobs /\ cmd.target \in DOMAIN commits /\ cmd.kind = "hard" BY <1>0, <1>1 DEF Job
<1>5. /\ cmd' \in Jobs /\ cmd'.pc = "reset" /\ cmd'.kind = "hard" /\ cmd'.target = cmd.target
      /\ cmd'.raced = cmd.raced
  BY <1>1, <1>c, <1>4, SomeNames, GoesFact
<1>6. Tip' = Tip /\ Tree(Tip)' = Tree(Tip) BY <1>1 DEF Tip, Tree
<1>7. Job' BY <1>1, <1>4, <1>5 DEF Job, Reset
<1>8. BackedReset' BY <1>0, <1>1, <1>5, <1>6 DEF BackedReset
<1>9. Cleaned' BY <1>2, <1>6 DEF Cleaned
<1> QED BY <1>2, <1>3, <1>5, <1>7, <1>8, <1>9 DEF GitInv, Past, Steady, BackedPast

LEMMA InvBuild ==
  ASSUME GitInv, Build
  PROVE  GitInv'
<1>0. Repo /\ Kept /\ Job /\ Past /\ Steady /\ BackedPast BY DEF GitInv
<1>1. /\ cmd.pc = "build" /\ commits' = Rebuilt /\ cmd' = [cmd EXCEPT !.pc = "cas", !.new = Len(Rebuilt)]
      /\ UNCHANGED <<refs, head, index, work, stash, op, backups, nanos, others, jobs>>
  BY DEF Build
<1>2. cmd \in Jobs /\ cmd.kind = "past" /\ cmd.target \in DOMAIN commits BY <1>0, <1>1 DEF Job
<1>3. cmd.orig \in DOMAIN commits /\ Linear(commits, cmd.target, cmd.orig) BY <1>0, <1>1, <1>2 DEF Past
<1>4. PICK a : a = Ascending(Gap(commits, cmd.target, cmd.orig), Len(commits)) OBVIOUS
<1>5. Parented(commits) BY <1>0 DEF Repo
<1>6. Retold(commits, cmd.target, cmd.orig) BY <1>2, <1>3, <1>5, RetoldFact
<1>7. commits' = New(commits, cmd.target, a)
  BY <1>1, <1>4 DEF Rebuilt, Between, Gap, New, Copies, Tree
<1>8. /\ a \in Seq(DOMAIN commits)
      /\ Stories(commits')[Len(commits')] = Reworded(Stories(commits)[cmd.orig], Len(Stories(commits)[cmd.target]))
  BY <1>4, <1>6, <1>7 DEF Retold
<1>9. /\ Grows(commits, commits') /\ Len(commits) \in Nat /\ Len(a) \in Nat
      /\ Len(commits') = Len(commits) + 1 + Len(a)
  BY <1>2, <1>5, <1>7, <1>8, NewFact
<1>10. /\ DOMAIN commits = 1..Len(commits) /\ DOMAIN commits' = 1..Len(commits') /\ Len(commits') \in Nat
       /\ \A c \in DOMAIN commits : c \in DOMAIN commits' /\ c \in 0..Len(commits)
  BY <1>9, RepoGrows
<1>11. Len(commits') \in DOMAIN commits' BY <1>9, <1>10
<1>12. Repo'
  <2>1. refs' \in [Heads -> DOMAIN commits'] /\ Parented(commits)' BY <1>0, <1>1, <1>9, <1>11, RefsNext
  <2> QED BY <1>0, <1>1, <2>1 DEF Repo
<1>13. Kept' BY <1>0, <1>1, KeptNext
<1>14. /\ cmd' \in Jobs /\ cmd'.pc = "cas" /\ cmd'.kind = "past" /\ cmd'.target = cmd.target
       /\ cmd'.branch = cmd.branch /\ cmd'.orig = cmd.orig /\ cmd'.new = Len(commits')
       /\ cmd'.raced = cmd.raced
  BY <1>1, <1>2, <1>10, SomeNames DEF Jobs
<1>15. Job' BY <1>2, <1>10, <1>14 DEF Job
<1>16. Past'
  <2>1. Linear(commits', cmd.target, cmd.orig) BY <1>2, <1>3, <1>9, LinearKept
  <2>2. /\ Stories(commits')[cmd.orig] = Stories(commits)[cmd.orig]
        /\ Stories(commits')[cmd.target] = Stories(commits)[cmd.target]
    BY <1>2, <1>3, <1>9, <1>10, StoriesKept
  <2> QED BY <1>3, <1>8, <1>10, <1>11, <1>14, <2>1, <2>2 DEF Past
<1>17. "switch" \notin cmd.raced => head = cmd.branch /\ cmd.orig <= refs[cmd.branch]
  BY <1>0, <1>1, <1>2 DEF Steady
<1>18. Steady' BY <1>1, <1>14, <1>17 DEF Steady
<1>19. BackedPast' BY <1>0, <1>1, <1>14 DEF BackedPast
<1> QED BY <1>12, <1>13, <1>14, <1>15, <1>16, <1>18, <1>19 DEF GitInv, BackedReset, Cleaned

LEMMA InvInit ==
  ASSUME GitInit
  PROVE  GitInv
<1>1. /\ head = CHOOSE b \in Branches : TRUE
      /\ refs = [b \in Heads |-> IF b = head THEN 3 ELSE 2]
      /\ index = 3 /\ work = 3 /\ stash = <<>> /\ backups = {} /\ nanos = 1 /\ cmd = NoJob /\ others = 0
  BY DEF GitInit, Heads
<1>2. PICK last \in {<<2>>, <<2, 1>>} :
        commits = <<Commit(1, 1, <<>>), Commit(2, 2, <<1>>), Commit(3, 3, last)>>
  BY DEF GitInit
<1>3. /\ DOMAIN commits = {1, 2, 3} /\ Len(commits) = 3 /\ commits[1] = Commit(1, 1, <<>>)
      /\ commits[2] = Commit(2, 2, <<1>>) /\ commits[3] = Commit(3, 3, last)
  BY <1>2
<1>4. /\ last \in Seq(Nat) /\ \A n \in DOMAIN last : last[n] \in 1..2
  <2>1. CASE last = <<2>> BY <2>1
  <2>2. CASE last = <<2, 1>> BY <2>2
  <2> QED BY <2>1, <2>2
<1>5. Commit(1, 1, <<>>) \in Commits /\ Commit(2, 2, <<1>>) \in Commits /\ Commit(3, 3, last) \in Commits
  <2>1. <<>> \in Seq(Nat) OBVIOUS
  <2>2. <<1>> \in Seq(Nat) OBVIOUS
  <2> QED BY <1>4, <2>1, <2>2 DEF Commit, Commits
<1>6. commits \in Seq(Commits) BY <1>2, <1>5
<1>7. ASSUME NEW c \in DOMAIN commits, NEW n \in DOMAIN commits[c].parents
      PROVE  commits[c].parents[n] \in 1 .. c - 1
  <2>1. CASE c = 1
    <3>1. commits[c].parents = <<>> BY <1>3, <2>1 DEF Commit
    <3> QED BY <1>7, <3>1
  <2>2. CASE c = 2
    <3>1. commits[c].parents = <<1>> BY <1>3, <2>2 DEF Commit
    <3>2. PICK ps : ps = <<1>> OBVIOUS
    <3>3. DOMAIN ps = {1} /\ ps[1] = 1 BY <3>2
    <3> QED BY <1>7, <2>2, <3>1, <3>2, <3>3
  <2>3. CASE c = 3
    <3>1. commits[c].parents = last BY <1>3, <2>3 DEF Commit
    <3> QED BY <1>4, <1>7, <2>3, <3>1
  <2> QED BY <1>3, <2>1, <2>2, <2>3
<1>8. Parented(commits) BY <1>6, <1>7 DEF Parented
<1>9. head \in Heads BY <1>1, GitAssumption DEF Heads
<1>10. refs \in [Heads -> DOMAIN commits] BY <1>1, <1>3
<1>11. Repo
  <2>1. <<>> \in Seq(Held) OBVIOUS
  <2> QED BY <1>1, <1>8, <1>9, <1>10, <2>1 DEF Repo
<1>12. Kept
  <2>1. IsFiniteSet({}) /\ Cardinality({}) = 0 BY FS_EmptySet
  <2> QED BY <1>1, <2>1, GitAssumption DEF Kept
<1>13. NoJob \in Jobs BY DEF NoJob, Jobs, Pcs, Kinds, Heads
<1>14. NoJob.pc = "idle" /\ NoJob.kind = "none" BY DEF NoJob
<1>15. Job BY <1>1, <1>13, <1>14 DEF Job
<1> QED BY <1>1, <1>11, <1>12, <1>14, <1>15 DEF GitInv, Past, Steady, BackedPast, BackedReset, Cleaned

LEMMA GitInvNext ==
  ASSUME GitInv, [GitNext]_gitVars
  PROVE  GitInv'
<1>0. Repo /\ Kept BY DEF GitInv
<1>1. CASE OthersStep BY <1>0, <1>1, OthersFact, InvByOthers
<1>2. CASE UNCHANGED gitVars
  <2>1. UNCHANGED <<commits, refs, head, index, work, stash, backups, nanos, others, cmd>>
    BY <1>2 DEF gitVars, repoVars
  <2>2. Repo' /\ Kept' /\ Job' BY <2>1 DEF GitInv, Repo, Kept, Job
  <2>3. Past' /\ Steady' BY <2>1 DEF GitInv, Past, Steady
  <2>4. BackedPast' /\ BackedReset' /\ Cleaned' BY <2>1 DEF GitInv, BackedPast, BackedReset, Cleaned, Tip, Tree
  <2> QED BY <2>2, <2>3, <2>4 DEF GitInv
<1>3. CASE Begins BY <1>3, InvBegins
<1>4. CASE GitFails BY <1>4, InvFails
<1>5. CASE Check BY <1>5, InvCheck
<1>6. CASE Guards BY <1>6, InvGuards
<1>7. CASE Amend BY <1>7, InvAmend
<1>8. CASE Uncommit BY <1>8, InvUncommit
<1>9. CASE BackupRef BY <1>9, InvBackup
<1>10. CASE Status BY <1>10, InvStatus
<1>11. CASE StashPush BY <1>11, InvStash
<1>12. CASE ResetTo BY <1>12, InvReset
<1>13. CASE Build BY <1>13, InvBuild
<1>14. CASE CompareAndSwap BY <1>14, InvSwap
<1> QED
  BY <1>1, <1>2, <1>3, <1>4, <1>5, <1>6, <1>7, <1>8, <1>9, <1>10, <1>11, <1>12, <1>13, <1>14
  DEF GitNext, OthersStep

LEMMA GitTypes ==
  ASSUME GitInv
  PROVE  GitTypeOK
<1>0. Repo /\ Kept /\ Job BY DEF GitInv
<1>1. \A c \in DOMAIN commits : \A n \in DOMAIN commits[c].parents : commits[c].parents[n] < c
  <2>1. SUFFICES ASSUME NEW c \in DOMAIN commits, NEW n \in DOMAIN commits[c].parents
                 PROVE  commits[c].parents[n] < c
    OBVIOUS
  <2>2. commits[c].parents[n] \in 1 .. c - 1 BY <1>0 DEF Repo, Parented
  <2>3. c \in Nat BY <1>0, TipFact
  <2> QED BY <2>2, <2>3
<1>2. cmd.pc \in Pcs BY <1>0 DEF Job, Jobs
<1> QED BY <1>0, <1>1, <1>2 DEF GitTypeOK, Repo, Kept, Heads, Pcs

(* Only a few steps end a command, and fewer of them move a branch.          *)
LEMMA WhoEnds ==
  ASSUME GitInv, [GitNext]_gitVars, cmd' = NoJob, cmd.kind # "none"
  PROVE  \/ refs' = refs /\ work' = work
         \/ (Amend \/ Uncommit) /\ work' = work /\ cmd.kind \in {"reword", "uncommit"}
         \/ ResetTo
         \/ CompareAndSwap /\ work' = work
<1>0. Repo /\ Kept /\ Job BY DEF GitInv
<1>1. cmd.pc # "idle" BY <1>0 DEF Job, NoJob
<1>2. NoJob.pc = "idle" /\ cmd \in Jobs BY <1>0 DEF NoJob, Job
<1>3. CASE OthersStep
  <2>1. PICK what \in Whats : Elsewhere(what) BY <1>0, <1>3, OthersFact
  <2>2. cmd' = [cmd EXCEPT !.raced = @ \cup {what}] BY <1>1, <2>1 DEF Elsewhere, ByOthers
  <2>3. cmd'.pc = cmd.pc BY <1>2, <2>2 DEF Jobs
  <2> QED BY <1>1, <1>2, <2>3
<1>4. CASE Amend BY <1>0, <1>4 DEF Amend, Job
<1>5. CASE Uncommit BY <1>0, <1>5 DEF Uncommit, Job
<1>6. CASE CompareAndSwap BY <1>6 DEF CompareAndSwap
<1>7. CASE ResetTo BY <1>7
<1>8. CASE Begins BY <1>1, <1>8 DEF Begins
<1>9. CASE UNCHANGED gitVars \/ GitFails \/ Check \/ Guards
  BY <1>9 DEF gitVars, GitFails, Check, Guards, repoVars
<1>10. CASE BackupRef BY <1>10 DEF BackupRef
<1>11. CASE Status BY <1>11 DEF Status, repoVars
<1>12. CASE StashPush
  <2>1. CASE index = Unmerged BY <1>12, <2>1 DEF StashPush
  <2>2. CASE index # Unmerged
    <3>1. Goes("reset") BY <1>12, <2>2 DEF StashPush, If
    <3>2. cmd'.pc = "reset" BY <1>2, <3>1, SomeNames, GoesFact
    <3> QED BY <1>2, <3>2
  <2> QED BY <2>1, <2>2
<1>13. CASE Build
  <2>1. cmd'.pc = "cas" BY <1>2, <1>13 DEF Build, Jobs
  <2> QED BY <1>2, <2>1
<1> QED
  BY <1>3, <1>4, <1>5, <1>6, <1>7, <1>8, <1>9, <1>10, <1>11, <1>12, <1>13 DEF GitNext, OthersStep

LEMMA StoryStep ==
  ASSUME GitInv, [GitNext]_gitVars
  PROVE  StoryIsKept
<1>1. SUFFICES ASSUME cmd.pc = "cas", cmd' = NoJob, refs' # refs
               PROVE  Stories(commits')[refs'[cmd.branch]]
                        = [Stories(commits)[refs[cmd.branch]] EXCEPT ![Len(Stories(commits)[cmd.target])].msg = 0]
  BY DEF StoryIsKept
<1>2. Repo /\ Job /\ Past BY DEF GitInv
<1>3. cmd.kind = "past" /\ cmd.branch \in Heads BY <1>1, <1>2 DEF Job, Jobs
<1>4. CompareAndSwap
  <2>1. cmd.kind \notin {"reword", "uncommit"} /\ cmd.kind # "none" BY <1>3
  <2>2. ~ResetTo BY <1>1 DEF ResetTo
  <2> QED BY <1>1, <2>1, <2>2, WhoEnds
<1>5. /\ refs[cmd.branch] = cmd.orig /\ refs' = [refs EXCEPT ![cmd.branch] = cmd.new] /\ commits' = commits
  BY <1>1, <1>4 DEF CompareAndSwap
<1>6. refs'[cmd.branch] = cmd.new BY <1>2, <1>3, <1>5 DEF Repo
<1>7. Stories(commits)[cmd.new] = Reworded(Stories(commits)[cmd.orig], Len(Stories(commits)[cmd.target]))
  BY <1>1, <1>2 DEF Past
<1> QED BY <1>5, <1>6, <1>7 DEF Reworded

LEMMA BackedStep ==
  ASSUME GitInv, [GitNext]_gitVars
  PROVE  TipIsBackedUp
<1>1. SUFFICES ASSUME cmd.kind \in Reset \cup {"past"}, cmd' = NoJob, refs' # refs,
                      "switch" \notin cmd.raced, cmd.kind = "past" \/ "move" \notin cmd.raced,
                      NEW c \in Range(refs)
               PROVE  c \in Reachable(commits', refs', backups')
  BY DEF TipIsBackedUp
<1>2. Repo /\ Kept /\ Job /\ Past /\ Steady /\ BackedPast /\ BackedReset BY DEF GitInv
<1>3. cmd.kind # "none" /\ cmd.kind \notin {"reword", "uncommit"} BY <1>1 DEF Reset
<1>4. ResetTo \/ CompareAndSwap BY <1>1, <1>3, WhoEnds
<1>5. commits' = commits /\ backups' = backups BY <1>4 DEF ResetTo, CompareAndSwap
<1>6. PICK b \in Heads : c = refs[b] BY <1>2 DEF Range, Repo
<1>7. c \in DOMAIN commits /\ c \in Nat BY <1>2, <1>6, TipFact DEF Repo
<1>8. c \in Ancestors(commits)[c] BY <1>2, <1>7, AncestorsBelow DEF Repo
<1>9. SUFFICES c \in Range(refs') \cup {k.at : k \in backups} BY <1>5, <1>8 DEF Reachable
<1>10. CASE ResetTo
  <2>1. cmd.pc = "reset" /\ refs' = [refs EXCEPT ![head] = cmd.target] BY <1>1, <1>10 DEF ResetTo
  <2>2. CASE b = head
    <3>1. cmd.kind # "past" BY <1>2, <2>1 DEF Job, Reset
    <3>2. PICK k \in backups : k.at = Tip BY <1>1, <1>2, <2>1, <3>1 DEF BackedReset
    <3> QED BY <1>6, <2>2, <3>2 DEF Tip
  <2>3. CASE b # head
    <3>1. refs'[b] = c /\ b \in DOMAIN refs' BY <1>2, <1>6, <2>1, <2>3 DEF Repo
    <3> QED BY <3>1 DEF Range
  <2> QED BY <2>2, <2>3
<1>11. CASE CompareAndSwap
  <2>1. cmd.pc = "cas" /\ refs[cmd.branch] = cmd.orig /\ refs' = [refs EXCEPT ![cmd.branch] = cmd.new]
    BY <1>1, <1>11 DEF CompareAndSwap
  <2>2. CASE b = cmd.branch
    <3>1. PICK k \in backups : cmd.orig <= k.at /\ k.at <= refs[cmd.branch]
      BY <1>1, <1>2, <2>1 DEF BackedPast
    <3>2. k.at \in Nat BY <1>2 DEF Kept, Backup
    <3>3. c <= k.at /\ k.at <= c BY <1>6, <2>1, <2>2, <3>1
    <3>4. k.at = c BY <1>7, <3>2, <3>3
    <3> QED BY <3>4
  <2>3. CASE b # cmd.branch
    <3>1. refs'[b] = c /\ b \in DOMAIN refs' BY <1>2, <1>6, <2>1, <2>3 DEF Repo
    <3> QED BY <3>1 DEF Range
  <2> QED BY <2>2, <2>3
<1> QED BY <1>4, <1>10, <1>11

LEMMA WorkStep ==
  ASSUME GitInv, [GitNext]_gitVars
  PROVE  WorkIsKept
<1>1. SUFFICES ASSUME cmd.kind # "none", cmd' = NoJob, work' # work, cmd.raced = {}
               PROVE  \E c \in DOMAIN commits' : commits'[c].tree = work
  BY DEF WorkIsKept
<1>2. Repo /\ Cleaned BY DEF GitInv
<1>3. ResetTo BY <1>1, WhoEnds
<1>4. cmd.pc = "reset" /\ cmd.kind = "hard" /\ commits' = commits BY <1>1, <1>3 DEF ResetTo
<1>5. work = commits[Tip].tree BY <1>1, <1>2, <1>4 DEF Cleaned, Tree
<1>6. Tip \in DOMAIN commits BY <1>2, TipFact
<1> QED BY <1>4, <1>5, <1>6

(* A rewrite loses no history and no work: the reworded branch tells what it *)
(* told before, what a branch is taken away from stays within reach, and a   *)
(* hard reset throws away nothing that is nowhere else                       *)
(* (core/src/git/rewrite.rs reword_past, reset_to, backup_ref).              *)
THEOREM HistoryIsKeptTheorem == GitSpec => HistoryIsKept
<1>1. GitInit => GitInv BY InvInit
<1>2. GitInv /\ [GitNext]_gitVars => GitInv' BY GitInvNext
<1>3. GitInv => GitTypeOK BY GitTypes
<1>4. GitInv /\ [GitNext]_gitVars => StoryIsKept /\ TipIsBackedUp /\ WorkIsKept
  BY StoryStep, BackedStep, WorkStep
<1> QED BY <1>1, <1>2, <1>3, <1>4, PTL DEF GitSpec, HistoryIsKept
=============================================================================
