-------------------------- MODULE MCClaudeSessions --------------------------
(* Small instances of ClaudeSessions.                                        *)
EXTENDS ClaudeSessions

CONSTANTS main, popout, p1, p2

(* bound: acts and faults of one behaviour together, where each may still    *)
(* reach its own bound alone                                                 *)
MaxTogether == 5

BoundedSpec == Init /\ [][Next /\ acts' + faults' <= MaxTogether]_vars
=============================================================================
