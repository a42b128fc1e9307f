---------------------------- MODULE TimelinePoll ----------------------------
(***************************************************************************)
(* The polling thread of one Claude session (run_timeline_poll): it tails  *)
(* the session's transcript and one file per subagent, emits the timeline  *)
(* when its fingerprint changed, drops the tail of a subagent whose file   *)
(* has been quiet (its items are kept as "done"), reopens it when the file *)
(* changed, and saves a snapshot with a debounce.                          *)
(* A record is an id and the version of the file that held it; an item is  *)
(* the record that last set it and its revision. Times are counted in      *)
(* ticks. The files are written by the CLI: appended to and, rarely,       *)
(* rewritten, which a tick may see half done (an empty file).              *)
(***************************************************************************)
EXTENDS Naturals, Sequences, FiniteSets

CONSTANTS
  Agents,      \* subagent ids, each with its own transcript
  DoneStreak,  \* DONE_STREAK
  SaveTicks,   \* SAVE_DEBOUNCE, in ticks
  MaxMain,     \* bound: records of the session's transcript
  MaxRecs,     \* bound: records of a subagent's transcript
  MaxGen,      \* bound: versions of a subagent's transcript
  Rewritten,   \* bound: the subagents whose transcript is rewritten
  MaxFaults    \* bound: failing reads and saves

ASSUME TimelinePollAssumption ==
  /\ IsFiniteSet(Agents) /\ "main" \notin Agents
  /\ DoneStreak \in Nat \ {0} /\ SaveTicks \in Nat /\ Rewritten \subseteq Agents
  /\ MaxMain \in Nat /\ MaxRecs \in Nat /\ MaxGen \in Nat /\ MaxFaults \in Nat

VARIABLES
  main,    \* complete records in the transcript; 0: the CLI has not made it yet
  file,    \* agent -> [gen, n] of its transcript; gen 0: not there
  pc,      \* the thread: "sleep", "flush", "poll", "ended"; "off" before it starts
  stop,    \* the stop flag
  items,   \* records of the main tail
  tail,    \* agent -> its SessionTail, or NoTail
  done,    \* agent -> sub_done, or NotDone
  stable,  \* agent -> sub_stable
  order,   \* sub_order
  subGen, fp,   \* sub_gen, last_fp
  memo,    \* mention_memo: (agent, source, id) -> (revision, answer)
  dirty, age, stored,   \* snap_dirty, last_save, the snapshot on disk
  shown,   \* the last claude-timeline payload
  torn,    \* a done subagent was reopened on an empty file
  faults
tlVars == <<main, file, pc, stop, items, tail, done, stable, order, subGen, fp, memo,
            dirty, age, stored, shown, torn, faults>>

NoTail  == [off |-> 0, items |-> <<>>, on |-> FALSE]
NotDone == [sig |-> [gen |-> 0, n |-> 0], items |-> <<>>]
NoSig   == [gen |-> 0, n |-> 0]
None    == "none"
Blank   == [main |-> 0, frames |-> <<>>, parents |-> <<>>]

TLTypeOK ==
  /\ main \in 0 .. MaxMain /\ items \in 0 .. main /\ stored \in 0 .. items
  /\ pc \in {"off", "sleep", "flush", "poll", "ended"}
  /\ \A a \in Agents : /\ Len(tail[a].items) <= MaxRecs
                       /\ tail[a].on => tail[a].off \in 0 .. MaxRecs
                       /\ stable[a].n \in 0 .. DoneStreak
                       /\ ~(tail[a].on /\ tail[a].items # <<>> /\ done[a].items # <<>>)
  /\ age \in 0 .. SaveTicks /\ faults \in 0 .. MaxFaults

TLInit ==
  /\ main = 0 /\ file = [a \in Agents |-> NoSig] /\ pc = "off" /\ stop = FALSE
  /\ items = 0 /\ tail = [a \in Agents |-> NoTail] /\ done = [a \in Agents |-> NotDone]
  /\ stable = [a \in Agents |-> [sig |-> NoSig, n |-> 0]]
  /\ order = <<>> /\ subGen = 0 /\ fp = <<0, 0, 0, 0>> /\ memo = {}
  /\ dirty = FALSE /\ age = SaveTicks /\ stored = 0 /\ shown = Blank /\ torn = FALSE
  /\ faults = 0

-----------------------------------------------------------------------------
(* The CLI, and who stops the thread: a close, or the end of the PTY.      *)

transcripts  == <<main, file>>
poll  == <<items, tail, done, stable, order, subGen, fp, memo, shown, torn>>
snap  == <<dirty, age, stored>>

StartPoll == pc = "off" /\ pc' = "sleep" /\ UNCHANGED <<transcripts, stop, poll, snap, faults>>

AppendMain ==
  /\ pc # "off" /\ main < MaxMain /\ main' = main + 1
  /\ UNCHANGED <<file, pc, stop, poll, snap, faults>>

AppendAgent(a) ==
  /\ main > 0 /\ file[a].n < MaxRecs
  /\ file' = [file EXCEPT ![a] = [gen |-> IF @.gen = 0 THEN 1 ELSE @.gen, n |-> @.n + 1]]
  /\ UNCHANGED <<main, pc, stop, poll, snap, faults>>

\* Rewritten in one go, or truncated first, its records to follow.
Rewrite(a) ==
  /\ file[a].gen \in 1 .. MaxGen - 1
  /\ \E n \in {0, file[a].n} : file' = [file EXCEPT ![a] = [gen |-> @.gen + 1, n |-> n]]
  /\ UNCHANGED <<main, pc, stop, poll, snap, faults>>

StopPoll ==
  /\ pc # "off" /\ ~stop /\ stop' = TRUE
  /\ UNCHANGED <<transcripts, pc, poll, snap, faults>>

-----------------------------------------------------------------------------
(* One tick: sleep, flush the snapshot, poll and emit.                     *)

\* The first check after the sleep, and the wait for the file.
Wake ==
  /\ pc = "sleep"
  /\ pc' = IF stop THEN "ended" ELSE IF main > 0 THEN "flush" ELSE "sleep"
  /\ age' = IF age < SaveTicks THEN age + 1 ELSE age
  /\ UNCHANGED <<transcripts, stop, poll, dirty, stored, faults>>

\* A wrong variant: a failed save clears the mark too.
FlushSnapshotWrongForgets ==
  /\ pc = "flush" /\ pc' = "poll"
  /\ IF dirty /\ ~stop /\ age = SaveTicks
     THEN /\ age' = 0 /\ dirty' = FALSE
          /\ \/ stored' = items /\ UNCHANGED faults
             \/ faults < MaxFaults /\ faults' = faults + 1 /\ UNCHANGED stored
     ELSE UNCHANGED <<snap, faults>>
  /\ UNCHANGED <<transcripts, stop, poll>>

\* last_save moves whatever the save's result, snap_dirty goes down only if it worked.
FlushSnapshot ==
  /\ pc = "flush" /\ pc' = "poll"
  /\ IF dirty /\ ~stop /\ age = SaveTicks
     THEN \/ age' = 0 /\ dirty' = FALSE /\ stored' = items /\ UNCHANGED faults
          \/ faults < MaxFaults /\ faults' = faults + 1 /\ age' = 0 /\ UNCHANGED <<dirty, stored>>
     ELSE UNCHANGED <<snap, faults>>
  /\ UNCHANGED <<transcripts, stop, poll>>

PollFails ==
  /\ pc = "poll" /\ faults < MaxFaults /\ faults' = faults + 1 /\ pc' = "sleep"
  /\ UNCHANGED <<transcripts, stop, poll, snap>>

\* JsonlTail::poll_path and the mapper: a file shorter than the offset is read again from
\* its start, into the same timeline; a record merges into its item and bumps its revision.
Polled(t, f) ==
  LET from == IF f.n < t.off THEN 0 ELSE t.off
      had  == Len(t.items)
  IN [on |-> TRUE, off |-> f.n,
      items |-> [k \in 1 .. IF f.n > had THEN f.n ELSE had |->
                   IF k \notin from + 1 .. f.n THEN t.items[k]
                   ELSE [gen |-> f.gen, rev |-> IF k <= had THEN t.items[k].rev + 1 ELSE 0]]]

\* A done subagent is reopened only when its file's signature changed, and polled at once.
Reopens(a) == ~tail[a].on /\ done[a].items # <<>> /\ file[a] # done[a].sig
Scanned(a) ==
  IF file[a].gen = 0 \/ (~tail[a].on /\ done[a].items # <<>> /\ ~Reopens(a)) THEN tail[a]
  ELSE Polled(tail[a], file[a])

\* A wrong variant: the done entry outlives its tail.
StillDoneWrongKept(a, t) == done[a]
\* What the done entry keeps until the reopened tail has items (the scan, then the sweep).
StillDone(a, t) == IF t.on /\ t.items # <<>> THEN NotDone ELSE done[a]

\* advance_stability, its count capped where it is compared.
Streak(a, t) ==
  IF ~t.on THEN [sig |-> NoSig, n |-> 0]
  ELSE [sig |-> file[a], n |-> IF stable[a].sig # file[a] THEN 0
                              ELSE IF stable[a].n < DoneStreak THEN stable[a].n + 1 ELSE DoneStreak]
Finished(t, s) == s.n >= DoneStreak /\ t.items # <<>>

Total(seq) ==
  LET upTo[k \in 0 .. Len(seq)] == IF k = 0 THEN 0 ELSE upTo[k - 1] + seq[k]
  IN upTo[Len(seq)]
Revisions(seq) == Total([k \in DOMAIN seq |-> seq[k].rev])

\* ordered_frames: active items first, what is kept of a done subagent otherwise.
FrameOf(ts, ds, a) == IF ts[a].items # <<>> THEN ts[a].items ELSE ds[a].items
FramesOf(ts, ds, ord) ==
  LET upTo[k \in 0 .. Len(ord)] ==
        IF k = 0 THEN <<>>
        ELSE IF FrameOf(ts, ds, ord[k]) = <<>> THEN upTo[k - 1]
        ELSE Append(upTo[k - 1], [id |-> ord[k], items |-> FrameOf(ts, ds, ord[k])])
  IN upTo[Len(ord)]

\* Whether an item's text names the subagent: the transcript's second record names all, a
\* subagent's record names the others in its odd versions.
Names(a, source, item) == IF source = "main" THEN item.k = 2 ELSE source # a /\ item.gen % 2 = 1

\* The items subagent_parent looks through: the transcript's, then the other frames'.
Candidate(source, k, item) == [source |-> source, k |-> k, gen |-> item.gen, rev |-> item.rev]
MainItem == [gen |-> 1, rev |-> 1]
Candidates(n, frames, a) ==
  LET upTo[i \in 0 .. Len(frames)] ==
        IF i = 0 THEN [k \in 1 .. n |-> Candidate("main", k, MainItem)]
        ELSE IF frames[i].id = a THEN upTo[i - 1]
        ELSE upTo[i - 1] \o [k \in DOMAIN frames[i].items |->
                                Candidate(frames[i].id, k, frames[i].items[k])]
  IN upTo[Len(frames)]
FirstOf(cs, found) ==
  IF found = {} THEN Len(cs) + 1 ELSE CHOOSE i \in found : \A j \in found : i <= j
ParentAt(cs, i) == IF i > Len(cs) THEN None ELSE <<cs[i].source, cs[i].k>>
Parent(n, frames, a) ==
  LET cs == Candidates(n, frames, a)
  IN ParentAt(cs, FirstOf(cs, {i \in DOMAIN cs : Names(a, cs[i].source, cs[i])}))

\* The same by way of the memo, whose entry answers for an item of the same revision.
Asked(m, a, c) == {e \in m : e.a = a /\ e.source = c.source /\ e.k = c.k}
MemoAnswer(m, a, c) ==
  IF \E e \in Asked(m, a, c) : e.rev = c.rev
  THEN (CHOOSE e \in Asked(m, a, c) : TRUE).yes ELSE Names(a, c.source, c)
ParentMemo(m, n, frames, a) ==
  LET cs == Candidates(n, frames, a)
      at == FirstOf(cs, {i \in DOMAIN cs : MemoAnswer(m, a, cs[i])})
      seen == {cs[i] : i \in 1 .. IF at > Len(cs) THEN Len(cs) ELSE at}
  IN [parent |-> ParentAt(cs, at),
      memo |-> {e \in m : e.a = a /\ ~\E c \in seen : e \in Asked(m, a, c)}
               \cup {[a |-> a, source |-> c.source, k |-> c.k, rev |-> c.rev,
                      yes |-> MemoAnswer(m, a, c)] : c \in seen}]

\* A wrong variant: the memo survives a rebuilt tail.
PurgedWrongKept(m) == m

\* purge_mention_memo: a reopened tail counts its revisions from 1 again.
Purged(m) ==
  {e \in m : ~(e.source \in Agents /\ Reopens(e.source)
               /\ e.k \in DOMAIN done[e.source].items)}

\* What one poll makes of the tails: scan, sweep, transitions to done, fingerprint, payload.
Tails ==
  LET t1 == [a \in Agents |-> Scanned(a)]
      st == [a \in Agents |-> Streak(a, t1[a])]
      fin == {a \in Agents : t1[a].on /\ Finished(t1[a], st[a])}
  IN [tail |-> [a \in Agents |-> IF a \in fin THEN NoTail ELSE t1[a]],
      done |-> [a \in Agents |-> IF a \in fin THEN [sig |-> st[a].sig, items |-> t1[a].items]
                                 ELSE StillDone(a, t1[a])],
      stable |-> [a \in Agents |-> IF a \in fin THEN [sig |-> NoSig, n |-> 0] ELSE st[a]],
      new |-> {a \in Agents : t1[a].on /\ ~tail[a].on /\ done[a].items = <<>>},
      replaced |-> {a \in Agents : StillDone(a, t1[a]) # done[a]},
      emptied |-> {a \in Agents : Reopens(a) /\ t1[a].items = <<>>}]
\* One generation per tail that replaces its done entry at once, one for all that do so late.
Generation(t) ==
  subGen + Cardinality({a \in t.replaced : ~tail[a].on})
         + (IF \E a \in t.replaced : tail[a].on THEN 1 ELSE 0)
\* The sums over the tails and the done entries; each has its place in sub_order.
RevisionsOf(ts, ds, a) == Revisions(ts[a].items) + Revisions(ds[a].items)
CountOf(ts, ds, a) == Len(ts[a].items) + Len(ds[a].items)
Fingerprint(t, ord) ==
  <<main, Total([n \in DOMAIN ord |-> RevisionsOf(t.tail, t.done, ord[n])]),
    Total([n \in DOMAIN ord |-> CountOf(t.tail, t.done, ord[n])]), Generation(t)>>

\* The orders in which a directory may list its entries.
Listings(agents) ==
  {seq \in [1 .. Cardinality(agents) -> agents] : \A a \in agents : \E n \in DOMAIN seq : seq[n] = a}

Emit(frames) ==
  \E found \in {[i \in DOMAIN frames |-> ParentMemo(Purged(memo), main, frames, frames[i].id)]} :
    /\ memo' = {e \in Purged(memo) : \A i \in DOMAIN frames : frames[i].id # e.a}
               \cup UNION {found[i].memo : i \in DOMAIN frames}
    /\ shown' = [main |-> main, frames |-> frames,
                 parents |-> [i \in DOMAIN frames |-> found[i].parent]]
    /\ dirty' = TRUE
    /\ pc' = IF stop THEN "ended" ELSE "sleep"

Poll ==
  /\ pc = "poll" /\ UNCHANGED <<transcripts, stop, age, stored, faults>>
  /\ \E t \in {Tails} : \E listed \in Listings(t.new) :
       /\ items' = main /\ tail' = t.tail /\ done' = t.done /\ stable' = t.stable
       /\ order' = order \o listed
       /\ subGen' = Generation(t) /\ fp' = Fingerprint(t, order')
       /\ torn' = (torn \/ t.emptied # {})
       /\ IF fp' = fp
          THEN memo' = Purged(memo) /\ pc' = "sleep" /\ UNCHANGED <<shown, dirty>>
          ELSE \E frames \in {FramesOf(t.tail, t.done, order')} : Emit(frames)

TLNext ==
  \/ StartPoll \/ AppendMain \/ StopPoll \/ Wake \/ FlushSnapshot \/ PollFails \/ Poll
  \/ \E a \in Agents : AppendAgent(a) \/ (a \in Rewritten /\ Rewrite(a))

\* Each step of the thread but the wait for the file moves its pc, and nothing else does.
ThreadGoesOn ==
  /\ pc \in {"flush", "poll"} \/ (pc = "sleep" /\ (stop \/ main > 0))
  /\ pc' \in {"sleep", "flush", "poll", "ended"} \ {pc}

\* The thread goes on by itself; nothing makes the CLI write, or anybody stop it.
TLFairness == WF_pc(ThreadGoesOn)

TLSpec == TLInit /\ [][TLNext]_tlVars /\ TLFairness

-----------------------------------------------------------------------------
\* What the window shows is what the thread has read: no change is lost to two states that
\* have the same fingerprint, in particular after a rebuilt tail whose revisions start over.
ShownIsPolled == shown.main = items /\ shown.frames = FramesOf(tail, done, order)

\* The memo never changes an answer: each shown parent is the one the plain search finds. It
\* may, once a done subagent was reopened on an empty file: its old items, shown meanwhile,
\* enter the memo after the purge, with revisions that the new ones repeat.
MemoIsNaive ==
  torn \/ \A i \in DOMAIN shown.frames :
            shown.parents[i] = Parent(shown.main, shown.frames, shown.frames[i].id)

\* A subagent that was shown stays in every later payload, with items: no step between its
\* two tails leaves a gap.
FramesStay ==
  [][\A i \in DOMAIN shown.frames :
       \E j \in DOMAIN shown'.frames : shown'.frames[j].id = shown.frames[i].id]_tlVars

\* The trailing edge of the debounce: what has been read is on disk some time later, even if
\* nothing changes any more, unless the session is stopped.
SnapshotCatchesUp == items # stored ~> items = stored \/ stop

\* What the window shows is what the thread has read, and so are the parents it shows.
FramesAreTrue == ShownIsPolled /\ MemoIsNaive

\* No frame is lost from one payload to the next, nor in the end a change from the snapshot.
TimelineKeepsUp == FramesStay /\ SnapshotCatchesUp
=============================================================================
