--------------------------- MODULE RemoteTerminals ---------------------------
(* The hosts a workbench is attached to and the terminals it opens onto      *)
(* their sessions: the registry (core/src/remote.rs), the commands over it   *)
(* and the store of why terminals ended (src-tauri/src/commands/remote.rs).  *)
(* Commands run on the app's main thread, one at a time; each terminal has   *)
(* two relay threads that report its end.  A host's daemon keeps one session *)
(* per incarnation, always under the same key, so that an address without    *)
(* its epoch would name the next incarnation's session.                      *)
EXTENDS Integers, Sequences, FiniteSets, SequencesExt

CONSTANTS
  Hosts,
  MaxTerms,    \* bound: terminals opened in a run
  MaxGens,     \* bound: attachments, of all hosts
  MaxEpochs,   \* bound: incarnations of a daemon
  MaxLives,    \* bound: attachments and incarnations of a daemon together
  EndedCap     \* ENDED_CAP

ASSUME RemoteTerminalsAssumption ==
  /\ Hosts # {} /\ MaxTerms \in Nat /\ MaxGens \in Nat /\ MaxLives \in Nat
  /\ MaxEpochs \in Nat \ {0} /\ EndedCap \in Nat \ {0}

VARIABLES
  link,     \* host -> [gen, epoch]: the attachment (0 for none) and the epoch its
            \* Hello gave (0 before it)
  gens, nextTerm,   \* Link::start, SessionManager.next_id
  daemon,   \* host -> the epoch of the daemon now
  term,     \* local id -> the terminal
  noted,    \* Registry.terminals
  ended,    \* EndedTerminals: reasons and lost, oldest first
  mainThread,     \* the main thread: idle, closing terminals, or in a remote command
  hits      \* <<session shown, session reached>> of every command about a row

rtVars == <<link, gens, nextTerm, daemon, term, noted, ended, mainThread, hits>>

TermId == 1..MaxTerms
Idle == [at |-> "idle"]
Unlinked == [gen |-> 0, epoch |-> 0]

(* ssh: the exec's connection; pend: what its relays have still to do;       *)
(* cause: what ended it; told: whether its panel has got an answer.          *)
NoTerm == [ssh |-> "none", host |-> CHOOSE h \in Hosts : TRUE, gen |-> 0, epoch |-> 0,
           pend |-> {}, cause |-> "none", told |-> FALSE]

Relays == {"exec", "status"}

(* EndedTerminals: the reasons, oldest first, each with whether it was read, *)
(* and the terminals whose reason was dropped unread.                        *)
NoEnds == [reasons |-> <<>>, lost |-> <<>>]

RTTypeOK ==
  /\ link \in [Hosts -> [gen : 0..MaxGens, epoch : 0..MaxEpochs]]
  /\ gens \in 0..MaxGens /\ nextTerm \in 1..MaxTerms + 1
  /\ daemon \in [Hosts -> 1..MaxEpochs]
  /\ term \in [TermId -> [ssh : {"none", "connecting", "up", "over"}, host : Hosts,
                          gen : 0..MaxGens, epoch : 0..MaxEpochs, pend : SUBSET Relays,
                          cause : {"none", "exec", "status", "tab", "detached"},
                          told : BOOLEAN]]
  /\ \A h \in Hosts : noted[h] \in Seq(TermId) /\ IsInjective(noted[h])
  /\ Len(ended.reasons) <= EndedCap /\ Len(ended.lost) <= EndedCap
  /\ mainThread.at \in {"idle", "closing", "calling"}

RTInit ==
  /\ link = [h \in Hosts |-> Unlinked] /\ gens = 0 /\ nextTerm = 1
  /\ daemon = [h \in Hosts |-> 1]
  /\ term = [i \in TermId |-> NoTerm] /\ noted = [h \in Hosts |-> <<>>]
  /\ ended = NoEnds /\ mainThread = Idle /\ hits = {}

-----------------------------------------------------------------------------
(* retain: what is left of a list, in its order, without the members of      *)
(* `gone`.                                                                   *)
Retained(q, gone) ==
  LET upTo[n \in 0..Len(q)] ==
        IF n = 0 THEN <<>>
        ELSE IF q[n] \in gone THEN upTo[n - 1] ELSE Append(upTo[n - 1], q[n])
  IN upTo[Len(q)]
About(q, i) == {r \in ToSet(q) : r.id = i}

(* EndedTerminals.                                                           *)

Filed(q, i) == \E n \in DOMAIN q : q[n].id = i

(* evict_one: a reason somebody has read goes first, the oldest unread one   *)
(* leaves its id behind.                                                     *)
Victim(q) == IF \E n \in DOMAIN q : q[n].read
             THEN CHOOSE n \in DOMAIN q : q[n].read /\ \A k \in 1..n - 1 : ~q[k].read
             ELSE 1
LastN(s) == IF Len(s) > EndedCap THEN Tail(s) ELSE s
Evicted(e) ==
  LET v == Victim(e.reasons) gone == e.reasons[v]
  IN [reasons |-> RemoveAt(e.reasons, v),
      lost |-> IF gone.read THEN e.lost ELSE LastN(Append(e.lost, gone.id))]

(* A wrong variant: the last reason counts.                                  *)
RecordedWrongLast(e, i, why) ==
  LET full == [e EXCEPT !.reasons = Append(Retained(@, About(@, i)),
                                           [id |-> i, why |-> why, read |-> FALSE])]
  IN IF Len(full.reasons) > EndedCap THEN Evicted(full) ELSE full

(* record: the first reason is the true one.                                 *)
Recorded(e, i, why) ==
  LET full == [e EXCEPT !.reasons = Append(@, [id |-> i, why |-> why, read |-> FALSE])]
  IN IF Filed(e.reasons, i) THEN e
     ELSE IF Len(full.reasons) > EndedCap THEN Evicted(full) ELSE full

(* A number handed to a new terminal: what the store says of it is not its.  *)
Opened(e, i) == [reasons |-> Retained(e.reasons, About(e.reasons, i)),
                 lost |-> Retained(e.lost, {i})]

(* get: a reason, the fact that it was dropped, or None ("still running").   *)
Answered(e, i) == Filed(e.reasons, i) \/ i \in ToSet(e.lost)
Read(e, i) == [e EXCEPT !.reasons = [n \in DOMAIN @ |->
                 IF @[n].id = i THEN [@[n] EXCEPT !.read = TRUE] ELSE @[n]]]

-----------------------------------------------------------------------------
(* The world outside.                                                        *)

(* The link's Hello and its snapshot; RemoteLink has the detail.             *)
Hello(h) ==
  /\ link[h].gen # 0 /\ link[h].epoch # daemon[h]
  /\ link' = [link EXCEPT ![h].epoch = daemon[h]]
  /\ UNCHANGED <<gens, nextTerm, daemon, term, noted, ended, mainThread, hits>>

DaemonRestarts(h) ==
  /\ link[h].epoch = daemon[h] /\ daemon[h] < MaxEpochs /\ gens + daemon[h] < MaxLives
  /\ daemon' = [daemon EXCEPT ![h] = @ + 1]
  /\ UNCHANGED <<link, gens, nextTerm, term, noted, ended, mainThread, hits>>

(* What a terminal's SSH thread says at its end.  Before the exec there is   *)
(* no exec event, and a cancelled one has none either.                       *)
Reports(ssh, cause) ==
  IF ssh = "up" /\ cause \in {"exec", "status"} THEN Relays ELSE {"status"}
Over(i, cause) ==
  [term[i] EXCEPT !.ssh = "over", !.cause = cause, !.pend = Reports(term[i].ssh, cause)]

(* cwcd attach: the daemon refuses an address of another incarnation.        *)
Connects(i) ==
  LET h == term[i].host IN
  /\ term[i].ssh = "connecting"
  /\ IF term[i].epoch = daemon[h]
     THEN /\ term' = [term EXCEPT ![i].ssh = "up"]
          /\ hits' = hits \cup {<<term[i].epoch, daemon[h]>>}
     ELSE /\ term' = [term EXCEPT ![i] = [Over(i, "exec") EXCEPT
                                            !.pend = Relays]]
          /\ UNCHANGED hits
  /\ UNCHANGED <<link, gens, nextTerm, daemon, noted, ended, mainThread>>

EndsAlone(i) ==
  /\ term[i].ssh \in {"connecting", "up"}
  /\ term' = [term EXCEPT ![i] = Over(i, IF @.ssh = "up" THEN "exec" ELSE "status")]
  /\ UNCHANGED <<link, gens, nextTerm, daemon, noted, ended, mainThread, hits>>

-----------------------------------------------------------------------------
(* A wrong variant: the terminal is forgotten, nothing is recorded.          *)
RelayReportsWrongSilent(i, r) ==
  /\ r \in term[i].pend
  /\ noted' = [h \in Hosts |-> Retained(noted[h], {i})]
  /\ term' = [term EXCEPT ![i].pend = @ \ {r}]
  /\ UNCHANGED <<link, gens, nextTerm, daemon, ended, mainThread, hits>>

(* A relay thread: record_terminal_ended forgets the terminal, then records. *)
RelayReports(i, r) ==
  /\ r \in term[i].pend
  /\ noted' = [h \in Hosts |-> Retained(noted[h], {i})]
  /\ ended' = Recorded(ended, i, r)
  /\ term' = [term EXCEPT ![i].pend = @ \ {r}]
  /\ UNCHANGED <<link, gens, nextTerm, daemon, mainThread, hits>>

-----------------------------------------------------------------------------
(* The commands.                                                             *)

CloseAll(h) == IF noted[h] = <<>> THEN Idle
               ELSE [at |-> "closing", host |-> h, ids |-> noted[h]]

(* remote_connect: the new link is in the map before the old one's terminals *)
(* are closed.                                                               *)
RemoteConnect(h) ==
  /\ mainThread = Idle /\ gens < MaxGens /\ gens + daemon[h] < MaxLives /\ gens' = gens + 1
  /\ link' = [link EXCEPT ![h] = [Unlinked EXCEPT !.gen = gens + 1]]
  /\ IF link[h].gen = 0 THEN UNCHANGED <<mainThread, noted>>
     ELSE mainThread' = CloseAll(h) /\ noted' = [noted EXCEPT ![h] = <<>>]
  /\ UNCHANGED <<nextTerm, daemon, term, ended, hits>>

RemoteDisconnect(h) ==
  /\ mainThread = Idle /\ link[h].gen # 0
  /\ link' = [link EXCEPT ![h] = Unlinked]
  /\ mainThread' = CloseAll(h) /\ noted' = [noted EXCEPT ![h] = <<>>]
  /\ UNCHANGED <<gens, nextTerm, daemon, term, ended, hits>>

(* mgr.remove: cancel and join; an unknown number is an error and no more.   *)
Removed(i, cause) == IF term[i].ssh \in {"connecting", "up"}
                     THEN [term EXCEPT ![i] = Over(i, cause)] ELSE term

(* The installed closer: the reason first, then the removal.                 *)
CloseNext ==
  /\ mainThread.at = "closing"
  /\ ended' = Recorded(ended, Head(mainThread.ids), "detached")
  /\ term' = Removed(Head(mainThread.ids), "detached")
  /\ mainThread' = IF Len(mainThread.ids) = 1 THEN Idle ELSE [mainThread EXCEPT !.ids = Tail(@)]
  /\ UNCHANGED <<link, gens, nextTerm, daemon, noted, hits>>

(* addr_of: a row of the current attachment, with the epoch of its stream.   *)
Addressable(h) == link[h].epoch # 0

(* attach_config: the exec `cwcd attach` with the address as it is now.      *)
AttachConfig(h) ==
  [NoTerm EXCEPT !.ssh = "connecting", !.host = h, !.gen = link[h].gen, !.epoch = link[h].epoch]

RemoteAttach(h) ==
  /\ mainThread = Idle /\ Addressable(h) /\ nextTerm <= MaxTerms
  /\ nextTerm' = nextTerm + 1
  /\ term' = [term EXCEPT ![nextTerm] = AttachConfig(h)]
  /\ ended' = Opened(ended, nextTerm)
  /\ noted' = [noted EXCEPT ![h] = Append(@, nextTerm)]
  /\ UNCHANGED <<link, gens, daemon, mainThread, hits>>

(* Registry::call: an SSH exec of its own whose round trip blocks the thread.*)
Call(h, epoch) == [at |-> "calling", host |-> h, epoch |-> epoch]

(* A short command about the row the user sees.                              *)
Addressed(h) ==
  /\ mainThread = Idle /\ Addressable(h)
  /\ mainThread' = Call(h, link[h].epoch)
  /\ UNCHANGED <<link, gens, nextTerm, daemon, term, noted, ended, hits>>

RemoteKill(h) == Addressed(h)
RemoteResize(h) == Addressed(h)
RemoteTimeline(h) == Addressed(h)

(* remote_spawn names a host and no session.                                 *)
RemoteSpawn(h) ==
  /\ mainThread = Idle /\ link[h].gen # 0
  /\ mainThread' = Call(h, 0)
  /\ UNCHANGED <<link, gens, nextTerm, daemon, term, noted, ended, hits>>

(* The daemon acts on what the address names, and refuses another epoch's.   *)
Named(h, epoch) == IF epoch = daemon[h] THEN {<<epoch, daemon[h]>>} ELSE {}

(* exec_capture's two ways out: the exec is over and its output is a reply,  *)
(* an error or a truncated one that is refused; or the time-out, whatever    *)
(* the daemon has done or is about to do.                                    *)
CommandEnds(reached) ==
  /\ mainThread.at = "calling" /\ mainThread' = Idle
  /\ hits' = hits \cup reached
  /\ UNCHANGED <<link, gens, nextTerm, daemon, term, noted, ended>>
Reached == IF mainThread.at = "calling" THEN Named(mainThread.host, mainThread.epoch) ELSE {}
CommandAnswers == CommandEnds(Reached)
CommandTimesOut == \E reached \in SUBSET Reached : CommandEnds(reached)

(* The tab's close: terminal_close.                                          *)
TerminalClose(i) ==
  /\ mainThread = Idle /\ term[i].ssh \in {"connecting", "up"} /\ term' = Removed(i, "tab")
  /\ UNCHANGED <<link, gens, nextTerm, daemon, noted, ended, mainThread, hits>>

(* The panel polls remote_terminal_end until it has an answer.               *)
RemoteTerminalEnd(i) ==
  /\ mainThread = Idle /\ ~term[i].told /\ Answered(ended, i)
  /\ ended' = Read(ended, i) /\ term' = [term EXCEPT ![i].told = TRUE]
  /\ UNCHANGED <<link, gens, nextTerm, daemon, noted, mainThread, hits>>

RTNext ==
  \/ \E h \in Hosts : \/ Hello(h) \/ DaemonRestarts(h) \/ RemoteConnect(h)
                      \/ RemoteDisconnect(h) \/ RemoteAttach(h) \/ RemoteKill(h)
                      \/ RemoteResize(h) \/ RemoteTimeline(h) \/ RemoteSpawn(h)
  \/ \E i \in TermId : Connects(i) \/ EndsAlone(i) \/ TerminalClose(i) \/ RemoteTerminalEnd(i)
  \/ \E i \in TermId, r \in Relays : RelayReports(i, r)
  \/ CloseNext \/ CommandAnswers \/ CommandTimesOut

RTFairness ==
  /\ WF_rtVars(CloseNext \/ CommandAnswers \/ CommandTimesOut)
  /\ \A i \in TermId :
       /\ WF_rtVars(\E r \in Relays : RelayReports(i, r))
       /\ SF_rtVars(RemoteTerminalEnd(i))

RTSpec == RTInit /\ [][RTNext]_rtVars /\ RTFairness

-----------------------------------------------------------------------------
Alive(i) == term[i].ssh \in {"connecting", "up"}

(* A terminal that still carries keystrokes belongs to the attachment it was *)
(* opened through, and the registry knows it: a detach or a re-attach leaves *)
(* none behind (core/src/remote.rs attach, detach, close_terminals_of).      *)
LiveBelongs ==
  \A i \in TermId : Alive(i) =>
    \/ i \in ToSet(noted[term[i].host]) /\ link[term[i].host].gen = term[i].gen
    \/ mainThread.at = "closing" /\ i \in ToSet(mainThread.ids)

(* Whatever the relays say of it later, a terminal that was closed with its  *)
(* host says so (EndedTerminals::record, "the first reason is the true one").*)
FirstReasonIsKept ==
  \A n \in DOMAIN ended.reasons :
    term[ended.reasons[n].id].cause = "detached" => ended.reasons[n].why = "detached"

(* So it is as long as no reason has been evicted: a terminal whose reason   *)
(* is gone is recorded anew when its relay speaks.                           *)
OverIds == {i \in TermId : term[i].ssh = "over"}
SaysDetached == Cardinality(OverIds) <= EndedCap => FirstReasonIsKept

(* A terminal that is over and whose panel has not been told is not taken    *)
(* for a running one, until more than one over the cap have ended (evict_one,*)
(* get).  Not twice the cap: what was evicted may be reported, and evicted,  *)
(* again, and pushes another marker out.                                     *)
EndIsAnswered ==
  \A i \in TermId :
    term[i].ssh = "over" /\ term[i].pend = {} /\ ~term[i].told =>
      \/ Answered(ended, i)
      \/ Cardinality(OverIds) > EndedCap + 1

(* A command or a terminal reaches the session the panel showed, or nothing:    *)
(* never the one that has its key after the daemon's restart (addr_of).      *)
ReachesWhatIsShown == \A p \in hits : p[1] = p[2]

(* The terminals' ends are told to their panels (remote_attach's relays, R2a)*)
(* as long as no more end than the two stores are sure to hold (EndedCap).   *)
AllTold == \A i \in TermId : term[i].ssh = "over" => term[i].told
EndIsTold == ~AllTold /\ MaxTerms <= EndedCap + 1 ~> AllTold

(* What a host's terminals are and what is said of their ends is true.       *)
TerminalsAreTrue == LiveBelongs /\ SaysDetached /\ EndIsAnswered /\ ReachesWhatIsShown
=============================================================================
