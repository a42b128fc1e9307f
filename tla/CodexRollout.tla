---------------------------- MODULE CodexRollout ----------------------------
(***************************************************************************)
(* From a codex transcript to a timeline. A tool call leaves records of    *)
(* two layers: the call and its output (response_item), and the event that *)
(* ends it (event_msg), which knows more. RolloutMapper opens an item at   *)
(* the first and completes it at each of the others, whatever their order; *)
(* parse_rollout reads the whole file at each parse, a last line that is   *)
(* half written included. Titles, bodies and diffs are named by where they *)
(* come from: "" is none.                                                  *)
(***************************************************************************)
EXTENDS Naturals, Sequences, FiniteSets

CONSTANTS
  Calls,       \* call_ids
  MaxRollout   \* bound: records of the transcript

ASSUME CodexRolloutAssumption == MaxRollout \in Nat /\ "" \notin Calls

VARIABLES
  rollout,     \* the records of the transcript
  torn,        \* the last record is half written
  parse        \* what the latest parse made of it
rolloutVars == <<rollout, torn, parse>>

CallStatus == {"none", "inProgress", "completed", "failed", "canceled"}
NoCall == [status |-> "none", turn |-> 0, rev |-> 0, kind |-> "other", title |-> "", body |-> "", cwd |-> ""]

\* The records: [t, id, tool or kind, failed, body]; those without a call come first.
Line(t, i, w, f, b) == [t |-> t, id |-> i, what |-> w, failed |-> f, body |-> b]
Plain(t) == Line(t, "", "", FALSE, "")
CallRecords(i) ==
  {Line("function_call", i, w, FALSE, "") : w \in {"execute", "plan", "tool"}}
  \cup {Line("custom_tool_call", i, w, FALSE, "") : w \in {"edit", "execute"}}
  \cup {Line("output", i, "", FALSE, b) : b \in {"", "output"}}
  \cup (UNION {{Line("exec_command_end", i, w, f, "stdout") : w \in {"", "read"}} : f \in BOOLEAN})
  \cup (UNION {{Line("patch_apply_end", i, w, f, "") : w \in {"", "paths"}} : f \in BOOLEAN})
  \cup {Line("web_search_end", i, "fetch", FALSE, "")}
  \cup {Line("mcp_tool_call_end", i, "tool", f, "result") : f \in BOOLEAN}
PlainRecords == {Plain(t) : t \in {"user_message", "agent_message", "token_count", "reasoning",
                                   "turn_aborted", "known", "unknown", "bad"}}
RolloutRecords == PlainRecords \cup (UNION {CallRecords(i) : i \in Calls})

EmptyParse ==
  [items |-> [i \in Calls |-> NoCall], turn |-> 0, answers |-> [t \in 0 .. MaxRollout |-> 0],
   tokens |-> [t \in 0 .. MaxRollout |-> 0], thoughts |-> 0, lines |-> 0, bad |-> 0, skipped |-> 0]

RolloutTypeOK ==
  /\ rollout \in Seq(RolloutRecords) /\ Len(rollout) <= MaxRollout
  /\ torn => rollout # <<>>
  /\ parse.lines <= Len(rollout) /\ parse.bad + parse.skipped <= parse.lines
  /\ \A i \in Calls : /\ parse.items[i].status \in CallStatus
                      /\ parse.items[i].turn <= parse.turn
                      /\ parse.items[i].status = "none" => parse.items[i] = NoCall

RolloutInit == rollout = <<>> /\ torn = FALSE /\ parse = EmptyParse

-----------------------------------------------------------------------------
(* The primitives of the mapper.                                           *)

Seen(p, i) == p.items[i].status # "none"
Filled(old, new) == IF old = "" THEN new ELSE old

\* open: the first sighting starts the item, a later one fills what is blank.
OpenCall(p, i, kind, title) ==
  LET it == p.items[i]
  IN [p EXCEPT !.items[i] =
       [it EXCEPT !.status = IF Seen(p, i) THEN @ ELSE "inProgress",
                  !.turn = IF Seen(p, i) THEN @ ELSE p.turn,
                  !.rev = IF Seen(p, i) THEN @ + 1 ELSE @,
                  !.title = Filled(@, title), !.kind = IF @ = "other" THEN kind ELSE @]]

\* A wrong variant: the last body wins.
CompleteCallWrongBody(p, i, body, status) ==
  LET it == p.items[i]
  IN [p EXCEPT !.items[i] = [it EXCEPT !.status = status, !.rev = @ + 1, !.body = Filled(body, @),
                                       !.turn = IF Seen(p, i) THEN @ ELSE p.turn]]

\* complete: a body that is there is kept, the status is not.
CompleteCall(p, i, body, status) ==
  LET it == p.items[i]
  IN [p EXCEPT !.items[i] = [it EXCEPT !.status = status, !.rev = @ + 1, !.body = Filled(@, body),
                                       !.turn = IF Seen(p, i) THEN @ ELSE p.turn]]

\* Timeline::cancel_open, at turn_aborted.
AbortOpen(p) ==
  [p EXCEPT !.items = [i \in Calls |->
     IF p.items[i].status = "inProgress"
       THEN [p.items[i] EXCEPT !.status = "canceled", !.rev = @ + 1] ELSE p.items[i]]]

-----------------------------------------------------------------------------
(* The records.                                                            *)

Outcome(r) == IF r.failed THEN "failed" ELSE "completed"

ApplyFunctionCall(p, r) ==
  OpenCall(p, r.id, IF r.what = "tool" THEN "other" ELSE r.what, r.what)

ApplyCustomCall(p, r) == OpenCall(p, r.id, r.what, IF r.what = "edit" THEN "patch" ELSE r.what)

\* function_call_output, custom_tool_call_output and tool_search_output say no status.
ApplyOutput(p, r) == CompleteCall(p, r.id, r.body, "completed")

\* apply_exec_end: what codex made of the command decides the kind.
ApplyExecEnd(p, r) ==
  [CompleteCall(p, r.id, r.body, Outcome(r)) EXCEPT
     !.items[r.id].kind = Filled(r.what, @), !.items[r.id].cwd = Filled(@, "cwd")]

ApplyPatchEnd(p, r) ==
  [CompleteCall(p, r.id, r.body, Outcome(r)) EXCEPT
     !.items[r.id].kind = "edit", !.items[r.id].title = IF r.what = "paths" THEN "paths" ELSE @]

ApplyWebSearch(p, r) == CompleteCall(OpenCall(p, r.id, "fetch", "query"), r.id, "", "completed")

ApplyMcpEnd(p, r) == CompleteCall(OpenCall(p, r.id, "other", "server.tool"), r.id, r.body, Outcome(r))

ApplyTokens(p) == [p EXCEPT !.tokens[p.turn] = @ + 1]

ApplyResponseItem(p, r) ==
  CASE r.t = "function_call"    -> ApplyFunctionCall(p, r)
    [] r.t = "custom_tool_call" -> ApplyCustomCall(p, r)
    [] r.t = "output"           -> ApplyOutput(p, r)
    [] r.t = "reasoning"        -> [p EXCEPT !.thoughts = @ + 1]

ApplyEvent(p, r) ==
  CASE r.t = "user_message"      -> [p EXCEPT !.turn = @ + 1]
    [] r.t = "agent_message"     -> [p EXCEPT !.answers[p.turn] = @ + 1]
    [] r.t = "token_count"       -> ApplyTokens(p)
    [] r.t = "turn_aborted"      -> AbortOpen(p)
    [] r.t = "exec_command_end"  -> ApplyExecEnd(p, r)
    [] r.t = "patch_apply_end"   -> ApplyPatchEnd(p, r)
    [] r.t = "web_search_end"    -> ApplyWebSearch(p, r)
    [] r.t = "mcp_tool_call_end" -> ApplyMcpEnd(p, r)

ResponseItems == {"function_call", "custom_tool_call", "output", "reasoning"}

\* apply_line: every line is counted, those that cannot be read and those of a kind not known too.
ApplyRecord(p, r) ==
  LET q == [p EXCEPT !.lines = @ + 1]
  IN CASE r.t = "bad"     -> [q EXCEPT !.bad = @ + 1]
       [] r.t = "unknown" -> [q EXCEPT !.skipped = @ + 1]
       [] r.t = "known"   -> q
       [] OTHER -> IF r.t \in ResponseItems THEN ApplyResponseItem(q, r) ELSE ApplyEvent(q, r)

\* parse_rollout: a parse of its own, line by line.
Parsed(s) ==
  LET upTo[n \in 0 .. Len(s)] == IF n = 0 THEN EmptyParse ELSE ApplyRecord(upTo[n - 1], s[n])
  IN upTo[Len(s)]

-----------------------------------------------------------------------------
(* The file: codex appends a record, perhaps in two writes; a parse reads  *)
(* it whole.                                                               *)

AppendRecord ==
  /\ ~torn /\ Len(rollout) < MaxRollout
  /\ \E r \in RolloutRecords, half \in BOOLEAN : rollout' = Append(rollout, r) /\ torn' = half
  /\ UNCHANGED parse

CompleteRecord == torn /\ torn' = FALSE /\ UNCHANGED <<rollout, parse>>

\* What a reader finds: half a record is a line that is not JSON.
Readable == IF torn THEN [rollout EXCEPT ![Len(rollout)] = Plain("bad")] ELSE rollout

ParseRollout ==
  /\ parse' = Parsed(Readable)
  /\ UNCHANGED <<rollout, torn>>

RolloutNext == AppendRecord \/ CompleteRecord \/ ParseRollout

RolloutSpec == RolloutInit /\ [][RolloutNext]_rolloutVars

-----------------------------------------------------------------------------
About(i, k) == rollout[k].id = i
Whole == parse = Parsed(rollout)
EndLines == {"exec_command_end", "patch_apply_end"}
CallLines == {"function_call", "custom_tool_call"}

\* A call and the event that ends it give the same item in either order (codex_rollout.rs says a
\* transcript may have them reversed), but for how often it was revised.
OrderIsInvisible ==
  \A k \in 1 .. Len(rollout) - 1 :
    LET a == rollout[k] b == rollout[k + 1]
        Shown(s) == [i \in Calls |-> [Parsed(s).items[i] EXCEPT !.rev = 0]]
    IN a.id = b.id /\ a.t \in CallLines /\ b.t \in EndLines /\ (\A j \in 1 .. k - 1 : ~About(a.id, j))
       => Shown(rollout) = Shown([rollout EXCEPT ![k] = b, ![k + 1] = a])

\* After an aborted turn nothing of it is shown as running, and a call that was canceled is so
\* because an abort came while it was open.
AbortIsFinal ==
  Whole => \A i \in Calls :
    /\ parse.items[i].status = "inProgress"
         => \A k \in DOMAIN rollout : rollout[k].t = "turn_aborted"
              => \A j \in 1 .. k : ~About(i, j)
    /\ parse.items[i].status = "canceled"
         => \E k \in DOMAIN rollout : /\ rollout[k].t = "turn_aborted"
                                      /\ \E j \in 1 .. k : About(i, j)
                                      /\ \A j \in DOMAIN rollout : About(i, j) => rollout[j].t \in CallLines

\* A body is that of the first record that brought one: the output of a call, a JSON envelope,
\* does not replace the text of the event that ended it.
FirstBodyStays ==
  Whole => \A i \in Calls :
    LET with == {k \in DOMAIN rollout : About(i, k) /\ rollout[k].body # ""}
    IN IF with = {} THEN parse.items[i].body = ""
       ELSE \E k \in with : (\A j \in with : k <= j) /\ parse.items[i].body = rollout[k].body

\* Nothing disappears silently: each line is shown, counted as unreadable or as not known, or is
\* of a kind that has nothing to show; and each token count is in exactly one turn.
NothingIsDropped ==
  Whole => /\ parse.lines = Len(rollout)
           /\ LET upTo[t \in 0 .. MaxRollout] == parse.tokens[t] + (IF t = 0 THEN 0 ELSE upTo[t - 1])
              IN upTo[MaxRollout] = Cardinality({k \in DOMAIN rollout : rollout[k].t = "token_count"})
           /\ \A k \in DOMAIN rollout, i \in Calls : About(i, k) => Seen(parse, i)

\* The items are what the records of their calls say, in whatever order they came.
RolloutIsMapped == OrderIsInvisible /\ AbortIsFinal /\ FirstBodyStays /\ NothingIsDropped
=============================================================================
