---------------------------- MODULE MCRemoteLink ----------------------------
(* Small instances of RemoteLink.                                            *)
EXTENDS RemoteLink, TLC

CONSTANTS k1, k2

KeySymmetry == Permutations(Keys)
=============================================================================
