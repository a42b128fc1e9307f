------------------------------- MODULE MCLibrary -------------------------------
(* What the desktop backend keeps and takes in: the library of saved sessions,  *)
(* the adoption of live transcripts, the bounded reading of transcript heads    *)
(* and the history of a Git repository. They share no state, so one behaviour   *)
(* takes the steps of one of them, chosen at the start (`focus`).               *)
EXTENDS SessionLibrary, SessionAdoption, HeadScan, GitHistory, TLC

VARIABLE focus

libraryVars ==
  <<seVars, lvVars, hsVars, gitVars, focus>>

(* The length of a body; the last two are of the same length.                   *)
Sizes == 0 :> 0 @@ 1 :> 5 @@ 2 :> 7 @@ 3 :> 7

(* Windows and Procs are the same two model values, so that one permutation     *)
(* renames both.                                                                *)
Symmetry == Permutations(Windows)

(* Only the component that moves starts in each of its initial states.          *)
LibraryInit ==
  /\ focus \in {"library", "rows", "adoption", "scan", "git"}
  /\ LibInit /\ LvInit /\ HsInit /\ GitInit
  /\ focus = "library" \/ trans = {}
  /\ focus = "scan" \/ (lines = <<>> /\ ended = FALSE)
  /\ focus = "git" \/ commits[3].parents = <<2>>

(* bound: where all sessions and windows move, a session changes less often ... *)
FewerChanges == \A u \in Uuids : thread'[u].ver < MaxChanges
(* ... than where only the busy one moves, which no window deletes.             *)
BusyAlone == job' = job /\ side' = side /\ \A u \in Uuids \ Busy : thread'[u] = thread[u]

LibraryNext ==
  \/ focus = "library" /\ LibNext /\ FewerChanges
     /\ UNCHANGED <<lvVars, hsVars, gitVars, focus>>
  \/ focus = "rows" /\ LibNext /\ BusyAlone
     /\ UNCHANGED <<lvVars, hsVars, gitVars, focus>>
  \/ focus = "adoption" /\ LvNext
     /\ UNCHANGED <<seVars, hsVars, gitVars, focus>>
  \/ focus = "scan" /\ HsNext
     /\ UNCHANGED <<seVars, lvVars, gitVars, focus>>
  \/ focus = "git" /\ GitNext
     /\ UNCHANGED <<seVars, lvVars, hsVars, focus>>

LibrarySpec == LibraryInit /\ [][LibraryNext]_libraryVars
=============================================================================
