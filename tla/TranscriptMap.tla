---------------------------- MODULE TranscriptMap ---------------------------
(***************************************************************************)
(* From a transcript to a timeline: JsonlTail hands over the complete      *)
(* lines of a file that is being appended to, JsonlMapper applies each     *)
(* record: a user's text opens a turn, an interrupt marker cancels what    *)
(* runs, and the blocks of any other record open items, complete them, or  *)
(* add to the turn's answer.                                               *)
(* A record is its role and its blocks, a block its type, the id it is     *)
(* about and, for a result, how it went. Titles, diffs, dates and text are *)
(* left out; a half-written record is half a line.                         *)
(***************************************************************************)
EXTENDS Naturals, Sequences, FiniteSets

CONSTANTS
  CallIds,    \* tool call ids
  MaxLog    \* bound: records of the transcript

ASSUME TranscriptMapAssumption == MaxLog \in Nat

VARIABLES
  log,       \* the records of the transcript, the last one perhaps half written
  wrote,     \* halves written
  offset,    \* JsonlTail::offset, in halves
  applied,   \* records handed to the mapper
  mapper     \* JsonlMapper
tmVars == <<log, wrote, offset, applied, mapper>>

ItemStatus == {"pending", "running", "completed", "failed", "canceled"}
IsOpen(it) == it.status \in {"pending", "running"}
NoItem == [seq |-> 0, turn |-> 0, status |-> "pending", rev |-> 0]

\* ContentBlock, and the records made of them.
Block(t, i, how) == [type |-> t, id |-> i, how |-> how]
Text  == Block("text", "", "")
Outcomes == {"ok", "error", "rejected"}
ToolBlocks == {Block("use", i, "") : i \in CallIds}
              \cup (UNION {{Block("result", i, h) : h \in Outcomes} : i \in CallIds})
Records ==
  {[role |-> "user", text |-> t, blocks |-> <<>>] : t \in {"prompt", "interrupt"}}
  \cup {[role |-> "user", text |-> "", blocks |-> <<b>>] : b \in ToolBlocks}
  \cup {[role |-> "assistant", text |-> "", blocks |-> <<Text, Block("use", i, "")>>] : i \in CallIds}
  \cup {[role |-> "assistant", text |-> "", blocks |-> <<Block("think", i, "")>>] : i \in CallIds}
  \cup {[role |-> "user", text |-> "prompt", blocks |-> <<Block("result", i, "ok")>>] : i \in CallIds}
  \cup {[role |-> "junk", text |-> "", blocks |-> <<>>]}

EmptyMapper ==
  [items |-> [i \in CallIds |-> NoItem], next |-> 1, turn |-> 0,
   answers |-> [t \in 0 .. MaxLog |-> 0], tokens |-> [t \in 0 .. MaxLog |-> 0], usage |-> 0]

TMTypeOK ==
  /\ log \in Seq(Records) /\ Len(log) <= MaxLog
  /\ wrote \in {2 * Len(log), 2 * Len(log) - 1}
  /\ offset \in 0 .. wrote /\ applied \in 0 .. Len(log)
  /\ \A i \in CallIds : /\ mapper.items[i].status \in ItemStatus
                        /\ mapper.items[i].seq < mapper.next
                        /\ mapper.items[i].turn <= mapper.turn
  /\ \A i, j \in CallIds : i # j /\ mapper.items[i].seq # 0
                           => mapper.items[i].seq # mapper.items[j].seq

TMInit ==
  log = <<>> /\ wrote = 0 /\ offset = 0 /\ applied = 0 /\ mapper = EmptyMapper

-----------------------------------------------------------------------------
(* The mapper.                                                             *)

Known(m, i) == m.items[i].seq # 0

\* A wrong variant: the sequence number is not taken.
EntryWrongSameSeq(m, i) ==
  IF Known(m, i) THEN m ELSE [m EXCEPT !.items[i] = [NoItem EXCEPT !.seq = m.next, !.turn = m.turn]]

\* Timeline::entry: an id's item is found, or made with the turn of its first sighting.
Entry(m, i) ==
  IF Known(m, i) THEN m
  ELSE [m EXCEPT !.items[i] = [NoItem EXCEPT !.seq = m.next, !.turn = m.turn], !.next = @ + 1]

\* open_tool_use: only an item that was just made starts to run.
OpenToolUse(m, i) ==
  [Entry(m, i) EXCEPT !.items[i].status = IF @ = "pending" THEN "running" ELSE @,
                      !.items[i].rev = IF Known(m, i) THEN @ + 1 ELSE @]

OpenThinking(m, i) ==
  [Entry(m, i) EXCEPT !.items[i].status = "completed",
                      !.items[i].rev = IF Known(m, i) THEN @ + 1 ELSE @]

CompleteToolResult(m, i, how) ==
  [Entry(m, i) EXCEPT !.items[i].status = CASE how = "rejected" -> "canceled"
                                            [] how = "error" -> "failed"
                                            [] how = "ok" -> "completed",
                      !.items[i].rev = @ + 1]

ApplyBlock(role, m, b) ==
  CASE b.type = "use"    -> OpenToolUse(m, b.id)
    [] b.type = "result" -> CompleteToolResult(m, b.id, b.how)
    [] b.type = "think"  -> IF role = "assistant" THEN OpenThinking(m, b.id) ELSE m
    [] b.type = "text"   -> IF role = "assistant" THEN [m EXCEPT !.answers[m.turn] = @ + 1] ELSE m

\* apply_blocks: one after the other.
ApplyBlocks(role, m, bs) ==
  LET upTo[n \in 0 .. Len(bs)] == IF n = 0 THEN m ELSE ApplyBlock(role, upTo[n - 1], bs[n])
  IN upTo[Len(bs)]

\* Timeline::cancel_open
CancelOpen(m) ==
  [m EXCEPT !.items = [i \in CallIds |->
     IF Known(m, i) /\ IsOpen(m.items[i]) THEN [m.items[i] EXCEPT !.status = "canceled", !.rev = @ + 1]
     ELSE m.items[i]]]

\* apply_line. An assistant record also carries the usage of its message; a user's text ends
\* the record, blocks that come with it included.
Counted(m, r) ==
  IF r.role = "assistant" THEN [m EXCEPT !.tokens[m.turn] = @ + 1, !.usage = m.turn] ELSE m
ApplyLine(m, r) ==
  CASE r.text = "interrupt" -> CancelOpen(m)
    [] r.text = "prompt"    -> [m EXCEPT !.turn = @ + 1]
    [] r.text = ""          -> ApplyBlocks(r.role, Counted(m, r), r.blocks)

ApplyLines(m, s) ==
  LET upTo[n \in 0 .. Len(s)] == IF n = 0 THEN m ELSE ApplyLine(upTo[n - 1], s[n])
  IN upTo[Len(s)]

-----------------------------------------------------------------------------
(* The file and its tail.                                                  *)

BeginLine ==
  /\ wrote = 2 * Len(log) /\ Len(log) < MaxLog
  /\ \E r \in Records : log' = Append(log, r)
  /\ wrote' = wrote + 1 /\ UNCHANGED <<offset, applied, mapper>>

EndLine ==
  /\ wrote < 2 * Len(log) /\ wrote' = wrote + 1
  /\ UNCHANGED <<log, offset, applied, mapper>>

\* A wrong variant: a half-written line counts.
CompleteLinesWrongPartial(halves) == (halves + 1) \div 2

\* push_bytes: what follows the last newline stays in the buffer.
CompleteLines(halves) == halves \div 2

\* SessionTail::poll
PollTail ==
  /\ offset < wrote /\ offset' = wrote
  /\ applied' = CompleteLines(wrote)
  /\ mapper' = ApplyLines(mapper, SubSeq(log, applied + 1, CompleteLines(wrote)))
  /\ UNCHANGED <<log, wrote>>

TMNext == BeginLine \/ EndLine \/ PollTail

TMSpec == TMInit /\ [][TMNext]_tmVars

-----------------------------------------------------------------------------
\* However the writes and the polls fall, the timeline is the one that mapping the complete
\* lines in one go gives: no record is split, lost or applied twice.
ChunkingIsInvisible ==
  mapper = ApplyLines(EmptyMapper, SubSeq(log, 1, offset \div 2))

\* Every change of an item bumps its revision (what the poll's fingerprint and its memo of
\* mentions rely on), and an item keeps its place and the turn it was first seen in.
ChangesCount ==
  [][\A i \in CallIds : LET it == mapper.items[i] new == mapper'.items[i] IN
       Known(mapper, i) => /\ new # it => new.rev > it.rev
                           /\ new.seq = it.seq /\ new.turn = it.turn]_tmVars

\* A closed item is never open again, whatever the order in which use and result arrive.
NeverReopened ==
  [][\A i \in CallIds : Known(mapper, i) /\ IsOpen(mapper'.items[i]) => IsOpen(mapper.items[i])]_tmVars

Mentions(r, i) ==
  r.text = "" /\ \E k \in DOMAIN r.blocks : r.blocks[k].type # "text" /\ r.blocks[k].id = i

\* What runs was started after the last interrupt: an interrupted call is not shown as running.
InterruptIsFinal ==
  \A i \in CallIds, k \in 1 .. applied :
    Known(mapper, i) /\ IsOpen(mapper.items[i]) /\ log[k].text = "interrupt"
      => \A j \in 1 .. k : ~Mentions(log[j], i)

\* Each message's usage is counted in exactly one turn.
UsageIsTotal ==
  LET upTo[t \in 0 .. MaxLog] == mapper.tokens[t] + (IF t = 0 THEN 0 ELSE upTo[t - 1])
  IN upTo[MaxLog] = Cardinality({k \in 1 .. applied : log[k].role = "assistant"})

\* The timeline is the one that the records tell.
TimelineIsTheLog ==
  /\ [](ChunkingIsInvisible /\ InterruptIsFinal /\ UsageIsTotal)
  /\ ChangesCount /\ NeverReopened
=============================================================================
