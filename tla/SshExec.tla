------------------------------- MODULE SshExec -------------------------------
(* One SSH session (core/src/ssh.rs): host key, authentication, channel, and *)
(* then either a remote command without a terminal (run_exec: a reader and a *)
(* writer under one join!) or the interactive shell (run: one select! loop). *)
(* The connection loop of the SSH library delivers the channel's messages    *)
(* into a bounded queue and the window adjustments to the send window, in    *)
(* the order they arrive.  Input is counted in bytes, a chunk is ChunkBytes long. *)
EXTENDS Integers, Sequences

CONSTANTS
  Modes,       \* of "shell", "eof" (ExecStdin::Eof) and "stream" (ExecStdin::Stream)
  MaxIn,       \* bound: bytes the caller gets accepted
  ChunkBytes,  \* bytes of one write
  InputQueue,  \* INPUT_QUEUE, in bytes
  SendWindow,  \* the window the server grants at first
  RecvQueue,   \* the library's channel_buffer_size
  EventQueue,  \* EXEC_EVENT_QUEUE
  MaxWrites    \* bound: messages of output

ASSUME SshAssumption ==
  /\ Modes \subseteq {"shell", "eof", "stream"}
  /\ MaxIn \in Nat /\ ChunkBytes \in Nat \ {0} /\ InputQueue \in Nat /\ SendWindow \in Nat
  /\ RecvQueue \in Nat \ {0} /\ EventQueue \in Nat \ {0} /\ MaxWrites \in Nat

VARIABLES
  stage, mode, known, cancelled,               \* the session thread, known_hosts
  gate, caller, queued, open, accepted,        \* SshHandle::send_input, the input queue
  writer, left, window, wire, lost,            \* the writer, bytes sent and undelivered
  reader, started, finished, asked,            \* the reader, its signals; the exec is sent
  server, outs, got, net, recvq,               \* the remote end and what is on its way
  execEvents, consumer, verdicts               \* exec_tx, exec_rx, terminal events sent

connVars == <<stage, mode, known, cancelled>>
inVars == <<gate, caller, queued, open, accepted>>
writeVars == <<writer, left, window, wire, lost>>
readVars == <<reader, started, finished, asked>>
netVars == <<server, outs, got, net, recvq>>
eventVars == <<execEvents, consumer, verdicts>>
sshVars == <<connVars, inVars, writeVars, readVars, netVars, eventVars>>

SshTypeOK ==
  /\ stage \in {"none", "connecting", "asking", "prompted", "auth", "opening", "running", "reporting", "over"}
  /\ mode \in {"shell", "eof", "stream"}
  /\ known \in {"none", "same", "other"} /\ cancelled \in BOOLEAN
  /\ gate \in {"open", "never", "ended"} /\ caller \in {"idle", "checked"}
  /\ queued \in 0..InputQueue /\ open \in BOOLEAN /\ accepted \in Nat
  /\ writer \in {"off", "start", "recv", "backlog", "sending", "done"}
  /\ left \in 0..ChunkBytes /\ window \in Nat /\ wire \in Nat /\ lost \in Nat
  /\ reader \in {"off", "wait", "event", "done"}
  /\ started \in BOOLEAN /\ finished \in BOOLEAN /\ asked \in BOOLEAN
  /\ server \in {"none", "asked", "runs", "gone"} /\ outs \in Nat /\ got \in 0..wire
  /\ Len(recvq) <= RecvQueue /\ Len(execEvents) <= EventQueue
  /\ consumer \in {"reads", "dropped"} /\ verdicts \in Nat

SshInit ==
  /\ stage = "none" /\ mode = "shell" /\ known = "none" /\ cancelled = FALSE
  /\ gate = "open" /\ caller = "idle" /\ queued = 0 /\ open = TRUE /\ accepted = 0
  /\ writer = "off" /\ left = 0 /\ window = SendWindow /\ wire = 0 /\ lost = 0
  /\ reader = "off" /\ started = FALSE /\ finished = FALSE /\ asked = FALSE
  /\ server = "none" /\ outs = 0 /\ got = 0 /\ net = <<>> /\ recvq = <<>>
  /\ execEvents = <<>> /\ consumer = "reads" /\ verdicts = 0

-----------------------------------------------------------------------------
(* Connect, trust, authenticate.                                             *)

SpawnSsh(m) ==
  /\ stage = "none" /\ stage' = "connecting"
  /\ mode' = m /\ known' \in {"none", "same", "other"}
  /\ gate' = IF m = "eof" THEN "never" ELSE "open"
  /\ UNCHANGED <<cancelled, caller, queued, open, accepted, writeVars, readVars, netVars, eventVars>>

(* The user's own sessions are shells, a command runs on a remote host.      *)
SshCreate == "shell" \in Modes /\ SpawnSsh("shell")
RemoteExec == \E m \in Modes \ {"shell"} : SpawnSsh(m)

(* The end of the thread, with Failed or not: AliveGuard marks the session   *)
(* dead and says Closed; the dropped receiver refuses all later input.       *)
Ends ==
  /\ stage' = "over" /\ open' = FALSE
  /\ UNCHANGED <<mode, gate, caller, queued, accepted, writeVars, readVars, netVars>>

Fails ==
  /\ stage \in {"connecting", "auth", "opening"} /\ Ends
  /\ UNCHANGED <<known, cancelled, eventVars>>

(* check_server_key: a changed key is rejected, an unknown one is put to the *)
(* user, and accepted only if it could be written down.                      *)
CheckServerKey ==
  /\ stage = "connecting"
  /\ \/ known = "same" /\ stage' = "auth" /\ UNCHANGED <<mode, known, cancelled, inVars>>
     \/ known = "none" /\ stage' = "asking" /\ UNCHANGED <<mode, known, cancelled, inVars>>
     \/ known = "other" /\ stage' = "over" /\ open' = FALSE
        /\ UNCHANGED <<mode, known, cancelled, gate, caller, queued, accepted>>
  /\ UNCHANGED <<writeVars, readVars, netVars, eventVars>>

(* The challenge reaches its relay: a shell's stashes the reply and asks the *)
(* user, that of a command, which nobody watches, refuses.                   *)
PromptRelay ==
  /\ stage = "asking"
  /\ IF mode = "shell" THEN stage' = "prompted" /\ UNCHANGED open
                        ELSE stage' = "over" /\ open' = FALSE
  /\ UNCHANGED <<mode, known, cancelled, gate, caller, queued, accepted, writeVars, readVars,
                 netVars, eventVars>>

HostKeyDecision ==
  /\ stage = "prompted"
  /\ \/ known' = "same" /\ stage' = "auth" /\ UNCHANGED open
     \/ UNCHANGED known /\ stage' = "over" /\ open' = FALSE
  /\ UNCHANGED <<mode, cancelled, gate, caller, queued, accepted, writeVars, readVars, netVars,
                 eventVars>>

Authenticate ==
  /\ stage = "auth" /\ stage' = "opening"
  /\ UNCHANGED <<mode, known, cancelled, inVars, writeVars, readVars, netVars, eventVars>>

(* The shell is Ready at once; an exec has sent its request, and an exec     *)
(* without stdin has dropped the receiver of the input.                      *)
ChannelOpens ==
  /\ stage = "opening" /\ stage' = "running"
  /\ server' = "asked"
  /\ writer' = IF mode = "shell" THEN "recv" ELSE "start"
  /\ reader' = "wait" /\ asked' = (mode # "shell")
  /\ open' = (open /\ mode # "eof")
  /\ UNCHANGED <<mode, known, cancelled, gate, caller, queued, accepted, left, window, wire, lost,
                 started, finished, outs, got, net, recvq, eventVars>>

(* write.exec() itself fails: the queue is closed and counted.               *)
ExecNotSent ==
  /\ stage = "opening" /\ mode # "shell" /\ stage' = "reporting"
  /\ gate' = IF mode = "stream" THEN "ended" ELSE gate
  /\ open' = FALSE /\ lost' = lost + queued /\ queued' = 0
  /\ asked' = TRUE /\ finished' = TRUE /\ reader' = "done" /\ writer' = "done"
  /\ UNCHANGED <<mode, known, cancelled, caller, accepted, left, window, wire, started, netVars,
                 eventVars>>

-----------------------------------------------------------------------------
(* The caller: send_input looks at the gate, then offers to the queue.       *)

CheckGate ==
  /\ stage \notin {"none", "over"} /\ caller = "idle" /\ gate = "open" /\ accepted < MaxIn
  /\ caller' = "checked"
  /\ UNCHANGED <<connVars, gate, queued, open, accepted, writeVars, readVars, netVars, eventVars>>

TrySend ==
  /\ caller = "checked" /\ caller' = "idle"
  /\ IF open /\ queued + ChunkBytes <= InputQueue
     THEN queued' = queued + ChunkBytes /\ accepted' = accepted + ChunkBytes
     ELSE UNCHANGED <<queued, accepted>>
  /\ UNCHANGED <<connVars, gate, open, writeVars, readVars, netVars, eventVars>>

-----------------------------------------------------------------------------
(* The remote end and the connection loop.                                   *)

Says(msgs) == net' = net \o msgs
ServerStep == UNCHANGED <<connVars, inVars, writeVars, readVars, recvq, eventVars>>

ServerAnswers ==
  /\ server = "asked" /\ ServerStep /\ UNCHANGED <<outs, got>>
  /\ \/ server' = "runs" /\ Says(<<"success">>)
     \/ server' = "gone" /\ Says(<<"failure">>)

ServerWrites ==
  /\ server = "runs" /\ outs < MaxWrites /\ outs' = outs + 1
  /\ \E kind \in {"data", "stderr"} : Says(<<kind>>)
  /\ UNCHANGED <<server, got>> /\ ServerStep

(* The command reads a byte of its input: the window is given back.          *)
ServerReads ==
  /\ server = "runs" /\ got < wire /\ got' = got + 1 /\ Says(<<"adjust">>)
  /\ UNCHANGED <<server, outs>> /\ ServerStep

(* The exit status may come before the Eof, after it, or not at all.         *)
ServerEnds ==
  /\ server = "runs" /\ server' = "gone"
  /\ \E msgs \in {<<"exit", "eof", "close">>, <<"eof", "exit", "close">>, <<"close">>} : Says(msgs)
  /\ UNCHANGED <<outs, got>> /\ ServerStep

ConnectionLoop ==
  /\ stage \in {"running", "reporting"} /\ net # <<>>
  /\ net' = Tail(net)
  /\ IF Head(net) = "adjust"
     THEN window' = window + 1 /\ UNCHANGED recvq
     ELSE Len(recvq) < RecvQueue /\ recvq' = Append(recvq, Head(net)) /\ UNCHANGED window
  /\ UNCHANGED <<connVars, inVars, writer, left, wire, lost, readVars,
                 server, outs, got, eventVars>>

-----------------------------------------------------------------------------
(* run_exec's reader.                                                        *)

Exec == stage = "running" /\ mode # "shell"
Message == recvq # <<>> /\ recvq' = Tail(recvq)

(* The channel has ended: the gate first, then the writer's release.         *)
ReaderStops ==
  /\ reader' = "done" /\ finished' = TRUE
  /\ gate' = IF mode = "stream" THEN "ended" ELSE gate

(* A wrong variant: one loop for both directions.                            *)
ReaderWrongOneLoop ==
  /\ Exec /\ reader = "wait" /\ writer # "sending" /\ Message
  /\ LET m == Head(recvq) IN
     \/ m \in {"data", "eof", "exit"} /\ UNCHANGED <<reader, started, finished, gate>>
     \/ m = "stderr" /\ reader' = "event" /\ UNCHANGED <<started, finished, gate>>
     \/ m = "success" /\ started' = TRUE /\ UNCHANGED <<reader, finished, gate>>
     \/ m \in {"failure", "close"} /\ ReaderStops /\ UNCHANGED started
  /\ UNCHANGED <<connVars, caller, queued, open, accepted, writeVars, asked, server, outs, got, net,
                 eventVars>>

Reader ==
  /\ Exec /\ reader = "wait" /\ Message
  /\ LET m == Head(recvq) IN
     \/ m \in {"data", "eof", "exit"} /\ UNCHANGED <<reader, started, finished, gate>>
     \/ m = "stderr" /\ reader' = "event" /\ UNCHANGED <<started, finished, gate>>
     \/ m = "success" /\ started' = TRUE /\ UNCHANGED <<reader, finished, gate>>
     \/ m \in {"failure", "close"} /\ ReaderStops /\ UNCHANGED started
  /\ UNCHANGED <<connVars, caller, queued, open, accepted, writeVars, asked, server, outs, got, net,
                 eventVars>>

(* exec_tx.send waits for room, and gives up only on a dropped receiver.     *)
Sent(e) == \/ consumer = "dropped" /\ UNCHANGED execEvents
           \/ consumer = "reads" /\ Len(execEvents) < EventQueue /\ execEvents' = Append(execEvents, e)

ReaderSends ==
  /\ Exec /\ reader = "event" /\ Sent("stderr") /\ reader' = "wait"
  /\ UNCHANGED <<connVars, inVars, writeVars, started, finished, asked, netVars, consumer, verdicts>>

(* exec_rx's owner: drains it, or has dropped it.                            *)
Consume ==
  /\ execEvents # <<>> /\ execEvents' = Tail(execEvents)
  /\ UNCHANGED <<connVars, inVars, writeVars, readVars, netVars, consumer, verdicts>>

DropConsumer ==
  /\ stage # "none" /\ consumer = "reads" /\ consumer' = "dropped" /\ execEvents' = <<>>
  /\ UNCHANGED <<connVars, inVars, writeVars, readVars, netVars, verdicts>>

-----------------------------------------------------------------------------
(* run_exec's writer.                                                        *)

(* A wrong variant: the queue is closed, what is left there is not counted.  *)
DrainWrongQueue(extra) ==
  /\ writer' = "done" /\ left' = 0 /\ open' = FALSE
  /\ lost' = lost + extra /\ queued' = 0

(* Every way out of it closes the queue and counts what is left there.       *)
Drain(extra) ==
  /\ writer' = "done" /\ left' = 0 /\ open' = FALSE
  /\ lost' = lost + extra + queued /\ queued' = 0

WriterStarts ==
  /\ Exec /\ writer = "start" /\ (started \/ finished)
  /\ \/ finished /\ Drain(0)
     \/ started /\ mode = "eof" /\ Drain(0)
     \/ started /\ mode = "stream" /\ writer' = "recv" /\ UNCHANGED <<left, open, lost, queued>>
  /\ UNCHANGED <<connVars, gate, caller, accepted, window, wire, readVars, netVars, eventVars>>

WriterReceives ==
  /\ Exec /\ writer = "recv"
  /\ \/ queued > 0 /\ writer' = "sending" /\ left' = ChunkBytes /\ queued' = queued - ChunkBytes
        /\ UNCHANGED <<open, lost>>
     \/ finished /\ Drain(0)
  /\ UNCHANGED <<connVars, gate, caller, accepted, window, wire, readVars, netVars, eventVars>>

(* write.data: one byte per step, parked while the window is shut.           *)
WriterSends ==
  /\ stage = "running" /\ writer = "sending" /\ window > 0
  /\ window' = window - 1 /\ wire' = wire + 1 /\ left' = left - 1
  /\ writer' = IF left = 1 THEN "recv" ELSE "sending"
  /\ UNCHANGED <<connVars, inVars, lost, readVars, netVars, eventVars>>

(* Released by the reader, or refused by the connection, in the middle: the  *)
(* chunk counts as undelivered in full.                                      *)
WriterStops ==
  /\ Exec /\ writer = "sending" /\ (finished \/ server = "gone") /\ Drain(ChunkBytes)
  /\ UNCHANGED <<connVars, gate, caller, accepted, window, wire, readVars, netVars, eventVars>>

HalvesDone == Exec /\ reader = "done" /\ writer = "done"

(* join!: both halves are through.                                           *)
JoinHalves ==
  /\ HalvesDone /\ stage' = "reporting"
  /\ UNCHANGED <<mode, known, cancelled, inVars, writeVars, readVars, netVars, eventVars>>

(* The one terminal event, Exit or Error, with the bytes that were lost.     *)
Report ==
  /\ stage = "reporting" /\ Sent("verdict") /\ verdicts' = verdicts + 1
  /\ Ends /\ UNCHANGED <<known, cancelled, consumer>>

-----------------------------------------------------------------------------
(* The shell's loop: select! over the channel, the input and the backlog.    *)
(* The flush is a write inside a branch: nothing else is polled meanwhile.   *)

Shell == stage = "running" /\ mode = "shell"

ShellReads ==
  /\ Shell /\ writer # "sending" /\ Message
  /\ IF Head(recvq) \in {"failure", "eof", "close"} THEN stage' = "over" /\ open' = FALSE
     ELSE UNCHANGED <<stage, open>>
  /\ UNCHANGED <<mode, known, cancelled, gate, caller, queued, accepted, writeVars, readVars,
                 server, outs, got, net, eventVars>>

ShellTakes ==
  /\ Shell /\ writer = "recv" /\ queued > 0
  /\ writer' = "backlog" /\ left' = ChunkBytes /\ queued' = queued - ChunkBytes
  /\ UNCHANGED <<connVars, gate, caller, open, accepted, window, wire, lost, readVars, netVars,
                 eventVars>>

ShellFlushes ==
  /\ Shell /\ writer = "backlog" /\ writer' = "sending"
  /\ UNCHANGED <<connVars, inVars, left, window, wire, lost, readVars, netVars, eventVars>>

(* cancel: every await of the thread is dropped.                             *)
Cancel ==
  /\ stage \notin {"none", "over"} /\ cancelled' = TRUE /\ Ends
  /\ UNCHANGED <<known, eventVars>>

SshNext ==
  \/ SshCreate \/ RemoteExec \/ Fails \/ CheckServerKey \/ PromptRelay \/ HostKeyDecision
  \/ Authenticate \/ ChannelOpens
  \/ ExecNotSent \/ CheckGate \/ TrySend \/ ServerAnswers \/ ServerWrites \/ ServerReads
  \/ ServerEnds \/ ConnectionLoop \/ Reader \/ ReaderSends \/ Consume \/ DropConsumer
  \/ WriterStarts \/ WriterReceives \/ WriterSends \/ WriterStops \/ JoinHalves \/ Report
  \/ ShellReads \/ ShellTakes \/ ShellFlushes \/ Cancel

SshFairness ==
  /\ WF_sshVars(ServerAnswers) /\ WF_sshVars(ServerReads) /\ WF_sshVars(ConnectionLoop)
  /\ WF_sshVars(Reader \/ ReaderSends) /\ WF_sshVars(Consume)
  /\ WF_sshVars(WriterStarts \/ WriterReceives \/ WriterSends \/ WriterStops)
  /\ WF_sshVars(JoinHalves \/ Report)
  /\ WF_sshVars(ShellReads \/ ShellTakes \/ ShellFlushes)

SshSpec == SshInit /\ [][SshNext]_sshVars /\ SshFairness

-----------------------------------------------------------------------------
(* Input is never discarded in silence: once the terminal event of a duplex  *)
(* exec is out, every byte that was accepted went onto the wire or is in the *)
(* event's count (send_input, run_exec, undelivered_bytes).                  *)
NoSilentLoss == verdicts > 0 => accepted <= wire + lost

(* No terminal event before the exec request was sent, never two, and one    *)
(* when it is over, unless the session was cancelled (run_exec, review F4).  *)
OneVerdict ==
  /\ verdicts <= 1 /\ (verdicts = 1 => asked /\ stage = "over")
  /\ stage = "over" /\ asked /\ ~cancelled => verdicts = 1

(* A duplex exec whose consumer drains or drops its events never stalls: what*)
(* was accepted reaches the wire or the session ends (the split under join!).*)
InputFlows ==
  mode = "stream" /\ started /\ accepted > wire ~> accepted = wire \/ stage = "over"

(* Once the remote command is gone the session comes to an end by itself.    *)
ExecEnds == mode # "shell" /\ server = "gone" ~> stage = "over"

(* The books of an exec are true: the bytes it accepted as input, and the one*)
(* verdict.                                                                  *)
ExecIsHonest == NoSilentLoss /\ OneVerdict

(* And it goes on until then.                                                *)
ExecGoesOn == InputFlows /\ ExecEnds
=============================================================================
