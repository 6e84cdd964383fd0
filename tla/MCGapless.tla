------------------------------ MODULE MCGapless ------------------------------
(* Gapless with symmetric tracks. *)
EXTENDS Gapless, TLC

Symmetry == Permutations(Tracks)
=============================================================================
