--------------------------- MODULE SessionAdoption ---------------------------
(***************************************************************************)
(* Taking over a Claude session that was started in a terminal             *)
(* (claude_open_or_attach with adopt, recheck_adoptable, core external.rs) *)
(* and the verdict on whether something else still runs it (core live.rs). *)
(*                                                                         *)
(* All the sessions are of one directory. Two processes that append to one *)
(* transcript destroy it, and the app can see the others only through      *)
(* /proc: their command lines, their directories, when they started, and   *)
(* when a transcript was last written.                                     *)
(*                                                                         *)
(* Time is `tick`, in seconds since boot; the wall clock is tick + shift,  *)
(* and shift grows when the clock is set forward. A start read from /proc  *)
(* is turned into wall-clock time with the shift of the moment of reading, *)
(* and is off by at most a second either way (Error).                      *)
(***************************************************************************)
EXTENDS Integers, FiniteSets

CONSTANTS
    Transcripts,    \* the sessions of the directory
    Procs,          \* processes other than the application, each started once
    Epsilon,        \* START_EPSILON_SECS, in ticks
    MaxTick,        \* bound: seconds
    MaxShift        \* bound: by how much the clock is set forward in all

ASSUME AdoptionAssumption ==
    /\ Transcripts # {} /\ Epsilon \in Nat \ {0} /\ MaxTick \in Nat /\ MaxShift \in Nat /\ MaxShift < Epsilon

VARIABLES
    tick, shift,
    mtime,      \* of each transcript, wall clock
    proc,       \* what each process is, on which session, and whether it wrote there
    own,        \* sessions of the application: they run in it or have a snapshot
    take        \* the take-over in flight, under the runtime lock

lvVars == <<tick, shift, mtime, proc, own, take>>

(* How a process looks in /proc: a claude that names its session on its    *)
(* command line; one that does not, found in the directory, with a         *)
(* readable start or not; one whose directory cannot be read; a process    *)
(* whose command line cannot be read.                                      *)
Looks == {"pinned", "here", "nostart", "nowhere", "opaque"}

\* A session of the directory that is none of the Transcripts.
Other == "other"

NoProc == [st |-> "none", looks |-> "opaque", on |-> Other, start |-> 0, wrote |-> FALSE]

NoTake == [pc |-> "idle", on |-> CHOOSE s \in Transcripts : TRUE, mtime |-> 0,
           before |-> {}]

Running == {p \in Procs : proc[p].st = "alive"}
Writers(s) == {p \in Running : proc[p].on = s /\ proc[p].wrote}

LvInit ==
    /\ tick = 0 /\ shift = 0
    /\ mtime = [s \in Transcripts |-> 0]
    /\ proc = [p \in Procs |-> NoProc]
    /\ own = {} /\ take = NoTake

----------------------------------------------------------------------------
(* The verdict.                                                            *)

Error == {-1, 0, 1}

(* The start of a process on the wall clock, as it is computed from the    *)
(* ticks since boot.                                                       *)
Started(p, err) == proc[p].start + shift + err

(* What the command line of a process says: it is pinned to the session.   *)
PinnedTo(s) == {p \in Running : proc[p].looks = "pinned" /\ proc[p].on = s}

(* The open file descriptors show a process on the transcript only when    *)
(* there is one, and then rarely: it opens, appends and closes.            *)
MayShow(s) == IF \E p \in Running : proc[p].on = s THEN BOOLEAN ELSE {FALSE}

\* An unpinned claude in the directory.
Here == {p \in Running : proc[p].looks = "here"}

(* A process that could be on any session: it cannot be placed, or the     *)
(* time it started cannot be read.                                         *)
Anywhere == {p \in Running : proc[p].looks \in {"opaque", "nowhere", "nostart"}}

\* A wrong variant: no margin for what the conversion of the clocks leaves out.
ThresholdWrongTight(err) ==
    LET starts == {Started(p, err) : p \in Here} IN CHOOSE t \in starts : \A u \in starts : t <= u

(* The earliest start of the unpinned processes here, less the margin.     *)
Threshold(err) ==
    LET starts == {Started(p, err) : p \in Here}
    IN (CHOOSE t \in starts : \A u \in starts : t <= u) - Epsilon

(* classify: the fd holder and the pin are proof; a process that could be  *)
(* anywhere blocks everything; an unpinned one here blocks what was        *)
(* written since it can have started.                                      *)
Verdict(s, m, err, held) ==
    IF held \/ PinnedTo(s) # {} THEN "live"
    ELSE IF Anywhere # {} THEN "undecidable"
    ELSE IF Here = {} \/ m < Threshold(err) THEN "free" ELSE "written"

----------------------------------------------------------------------------
(* The world.                                                              *)

Tick == tick < MaxTick /\ tick' = tick + 1 /\ UNCHANGED <<shift, mtime, proc, own, take>>

ClockSteps == shift < MaxShift /\ shift' = shift + 1 /\ UNCHANGED <<tick, mtime, proc, own, take>>

Starts(p) ==
    /\ proc[p].st = "none"
    /\ \E looks \in Looks, s \in Transcripts \cup {Other} :
         proc' = [proc EXCEPT ![p] = [st |-> "alive", looks |-> looks, on |-> s,
                                      start |-> tick, wrote |-> FALSE]]
    /\ UNCHANGED <<tick, shift, mtime, own, take>>

Writes(p) ==
    /\ p \in Running /\ proc[p].on # Other
    /\ proc' = [proc EXCEPT ![p].wrote = TRUE]
    /\ mtime' = [mtime EXCEPT ![proc[p].on] = tick + shift]
    /\ UNCHANGED <<tick, shift, own, take>>

Exits(p) == p \in Running /\ proc' = [proc EXCEPT ![p].st = "gone"]
            /\ UNCHANGED <<tick, shift, mtime, own, take>>

----------------------------------------------------------------------------
(* The application.                                                        *)

(* A session that runs here is attached to, and one with a snapshot is not *)
(* external; any other is looked up among the candidates, with the time it *)
(* was last written.                                                       *)
TakeOver(s) ==
    /\ take.pc = "idle" /\ s \notin own
    /\ take' = [NoTake EXCEPT !.pc = "scan", !.on = s, !.mtime = mtime[s], !.before = Writers(s)]
    /\ UNCHANGED <<tick, shift, mtime, proc, own>>

(* Then the process table is read, and the file descriptors, which may or  *)
(* may not show a writer; the session is started only if it is free.       *)
Recheck ==
    /\ take.pc = "scan"
    /\ \E err \in Error, held \in MayShow(take.on) :
         take' = IF Verdict(take.on, take.mtime, err, held) = "free"
                 THEN [take EXCEPT !.pc = "spawn"] ELSE NoTake
    /\ UNCHANGED <<tick, shift, mtime, proc, own>>

\* The process table cannot be read at all.
RecheckFails == take.pc = "scan" /\ take' = NoTake /\ UNCHANGED <<tick, shift, mtime, proc, own>>

Spawn ==
    /\ take.pc = "spawn" /\ own' = own \cup {take.on} /\ take' = NoTake
    /\ UNCHANGED <<tick, shift, mtime, proc>>

\* A session of the application is closed and deleted: it is external again.
Forgets(s) == s \in own /\ own' = own \ {s} /\ UNCHANGED <<tick, shift, mtime, proc, take>>

LvNext ==
    \/ Tick \/ ClockSteps
    \/ \E p \in Procs : Starts(p) \/ Writes(p) \/ Exits(p)
    \/ \E s \in Transcripts : TakeOver(s) \/ Forgets(s)
    \/ Recheck \/ RecheckFails \/ Spawn

LvSpec == LvInit /\ [][LvNext]_lvVars

----------------------------------------------------------------------------
(* The types of the state.                                                 *)
LvTypeOK ==
    /\ tick \in 0 .. MaxTick /\ shift \in 0 .. MaxShift
    /\ mtime \in [Transcripts -> 0 .. MaxTick + MaxShift]
    /\ proc \in [Procs -> [st : {"none", "alive", "gone"}, looks : Looks, on : Transcripts \cup {Other},
                           start : 0 .. MaxTick, wrote : BOOLEAN]]
    /\ own \subseteq Transcripts /\ take.on \in Transcripts
    /\ take.pc \in {"idle", "scan", "spawn"} /\ take.before \subseteq Procs
    /\ take.pc # "idle" => take.on \notin own

(* A session that is about to be taken over is not held by a process that  *)
(* had written to it when its transcript was looked at: every such process *)
(* has exited, however the clock was set since and whatever /proc did not  *)
(* show (live.rs 50-68, classify).                                         *)
TakenFromNobody == take.pc = "spawn" => take.before \cap Running = {}

(* The narrowing works: a session last written, by more than the margin    *)
(* and the error of the clocks, before every unpinned process of its       *)
(* directory started can be taken over, whatever the others are pinned to  *)
(* (live.rs 38-48: four projects could adopt nothing).                     *)
OlderIsFree ==
    \A s \in Transcripts :
        (/\ \A p \in Running : /\ proc[p].looks \in {"pinned", "here"}
                               /\ proc[p].looks = "pinned" => proc[p].on # s
                               /\ proc[p].looks = "here" =>
                                    mtime[s] < proc[p].start + shift - 1 - Epsilon)
        => \A err \in Error : Verdict(s, mtime[s], err, FALSE) = "free"

(* Sessions are taken from nobody, and the others can be taken.            *)
AdoptsRightly == LvTypeOK /\ TakenFromNobody /\ OlderIsFree
=============================================================================
