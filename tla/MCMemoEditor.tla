---------------------------- MODULE MCMemoEditor ----------------------------
(* MemoEditor for TLC: windows are interchangeable.                          *)
EXTENDS MemoEditor, TLC

CONSTANTS w1, w2

OneWindow == {w1}
TwoWindows == {w1, w2}
Symmetry == Permutations(Windows)
=============================================================================
