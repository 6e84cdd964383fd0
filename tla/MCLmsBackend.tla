---------------------------- MODULE MCLmsBackend ----------------------------
(***************************************************************************)
(* An instance of LmsBackend: three tracks, which nothing tells apart.     *)
(***************************************************************************)
EXTENDS LmsBackend, TLC

CONSTANTS a, b, c

MCTracks == {a, b, c}
Symmetry == Permutations(MCTracks)
=============================================================================
