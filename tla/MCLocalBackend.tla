--------------------------- MODULE MCLocalBackend ---------------------------
(***************************************************************************)
(* An instance of LocalBackend: a long track and a short one in one format *)
(* and a third in another.                                                 *)
(***************************************************************************)
EXTENDS LocalBackend

CONSTANTS long, short, other

MCTracks == {long, short, other}
MCLength == [t \in MCTracks |-> IF t = long THEN 4 ELSE 2]
MCFormat == [t \in MCTracks |-> IF t = other THEN 96 ELSE 44]
MCFrame == {<<t, p>> \in MCTracks \X (0 .. 3) : p < MCLength[t]}
MCBatch == UNION {[1 .. n -> MCFrame] : n \in 0 .. 2}

\* What was in a slot before it was last read or cleared, and how many tracks
\* ended, decides nothing.
View ==
    <<[ring EXCEPT !.slots = Contents], feedVars, next, state, stream, feeder, taken, cmd, arm, last,
      playerVars, used>>
=============================================================================
