--------------------------- MODULE TerminalScreen ---------------------------
(* What a terminal panel promises (core/src/session.rs, "Output contract"):  *)
(* what it shows is a run of the output without a hole, a repetition or a    *)
(* change of order.  It grows at its end, a repaint may cut its beginning,   *)
(* and a panel that is mounted anew begins with nothing.  Nothing is         *)
(* promised about a session that was removed under its panel.                *)
EXTENDS Integers, Sequences, SequencesExt

CONSTANT MaxChunks

VARIABLES shown, over

Run(from, to) == [i \in 1..to - from + 1 |-> from + i - 1]

ScreenInit == shown = <<>> /\ over = FALSE

Newest == IF shown = <<>> THEN 0 ELSE Last(shown)

Grow == shown' = Append(shown, Newest + 1)

Repaint ==
  \E to \in Newest..MaxChunks, from \in 1..MaxChunks + 1 : shown' = Run(from, to)

Blank == shown' = <<>>

ScreenNext ==
  \/ ~over /\ (Grow \/ Repaint \/ Blank) /\ UNCHANGED over
  \/ ~over /\ over' = TRUE /\ UNCHANGED shown
  \/ over /\ shown' \in Seq(1..MaxChunks) /\ UNCHANGED over

ScreenSpec == ScreenInit /\ [][ScreenNext]_<<shown, over>>
=============================================================================
