---------------------------- MODULE MCWsManager ----------------------------
(***************************************************************************)
(* Model checking WsManager: what the renderer may claim, report and join. *)
(***************************************************************************)
EXTENDS WsManager

\* Ownership generations are only compared with the current one: two states that
\* agree on those comparisons have the same future.
GenerationView ==
  <<phase, conn, shouldRun, closing, flags, activationRequest, tokens, lockHeld, heard,
    consumed, used,
    [i \in SendIds |-> [sends[i] EXCEPT !.gen = (@ = ownershipGeneration)]]>>
=============================================================================
