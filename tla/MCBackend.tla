------------------------------- MODULE MCBackend -------------------------------
(* The parts of the desktop backend that stream: a terminal's output and its    *)
(* scrollback, the terminals of remote hosts, the exec sessions of SSH and the  *)
(* timeline poller. They share no state, so one behaviour takes the steps of    *)
(* one of them, chosen at the start (`focus`); the others stay where they       *)
(* began, where none of their fair actions is enabled.                          *)
EXTENDS PtyStream, TerminalStore, RemoteTerminals, SshExec, TimelinePoll

VARIABLE focus

backendVars == <<ptyVars, storeVars, rtVars, sshVars, tlVars, focus>>

BackendInit ==
  /\ focus \in {"stream", "store", "remote", "exec", "timeline"}
  /\ PtyInit /\ StoreInit /\ RTInit /\ SshInit /\ TLInit

(* bound: each run of the app may create one session less than the run before *)
FewerEachRun == nextId' + runs' <= MaxIds + 2

BackendNext ==
  \/ focus = "stream" /\ PtyNext
     /\ UNCHANGED <<storeVars, rtVars, sshVars, tlVars, focus>>
  \/ focus = "store" /\ StoreNext /\ FewerEachRun
     /\ UNCHANGED <<ptyVars, rtVars, sshVars, tlVars, focus>>
  \/ focus = "remote" /\ RTNext
     /\ UNCHANGED <<ptyVars, storeVars, sshVars, tlVars, focus>>
  \/ focus = "exec" /\ SshNext
     /\ UNCHANGED <<ptyVars, storeVars, rtVars, tlVars, focus>>
  \/ focus = "timeline" /\ TLNext
     /\ UNCHANGED <<ptyVars, storeVars, rtVars, sshVars, focus>>

BackendSpec ==
  /\ BackendInit /\ [][BackendNext]_backendVars
  /\ PtyFairness /\ StoreFairness /\ RTFairness /\ SshFairness /\ TLFairness

(* Every component's state has its type, and so has what it hands to the next. *)
TypeOK == PtyTypeOK /\ StoreTypeOK /\ RTTypeOK /\ SshTypeOK /\ TLTypeOK
=============================================================================
