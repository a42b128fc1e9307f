------------------------------- MODULE MCTranscripts -------------------------------
(* What the desktop backend reads from transcripts: the archive, the Codex      *)
(* tabs, the transcript mapper and the Codex rollout parser. They share no      *)
(* state, so one behaviour takes the steps of one of them, chosen at the start  *)
(* (`focus`).                                                                   *)
EXTENDS ArchiveRun, CodexTabs, TranscriptMap, CodexRollout, CivilTime, TLC

VARIABLE focus

transcriptsVars ==
  <<arVars, cxVars, tmVars, rolloutVars, focus>>

OneDir == [t \in Tabs |-> "d"]

(* Tabs and Calls are the same two model values, so that one permutation        *)
(* renames both.                                                                *)
Symmetry == Permutations(Tabs)

(* Only the component that moves starts in each of its initial states.          *)
TranscriptsInit ==
  /\ focus \in {"archive", "codex", "map", "rollout"}
  /\ focus = "archive" \/ kind = "prompt"
  /\ ArInit /\ CxInit /\ TMInit /\ RolloutInit

TranscriptsNext ==
  \/ focus = "archive" /\ ArNext
     /\ UNCHANGED <<cxVars, tmVars, rolloutVars, focus>>
  \/ focus = "codex" /\ CxNext
     /\ UNCHANGED <<arVars, tmVars, rolloutVars, focus>>
  \/ focus = "map" /\ TMNext
     /\ UNCHANGED <<arVars, cxVars, rolloutVars, focus>>
  \/ focus = "rollout" /\ RolloutNext
     /\ UNCHANGED <<arVars, cxVars, tmVars, focus>>

TranscriptsSpec == TranscriptsInit /\ [][TranscriptsNext]_transcriptsVars

(* Every component's state has its type.                                        *)
TypeOK == ArTypeOK /\ CxTypeOK /\ TMTypeOK /\ RolloutTypeOK
=============================================================================
