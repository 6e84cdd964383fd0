----------------------------- MODULE MCSession -----------------------------
(***************************************************************************)
(* Model checking Session: one session id, no send waiting for the lock    *)
(* (MCWsManager covers those), commands without payload.                   *)
(***************************************************************************)
EXTENDS Session

\* Generations and tenures are only compared with the current ones.
ComparisonsView ==
  <<phase, conn, shouldRun, closing, flags, activationRequest, tokens, heard, consumed, used,
    handlerActive, deactivation = generation, nextInfo, owedStop,
    [k \in DOMAIN inbox |->
       <<inbox[k].msg, inbox[k].gen = generation, inbox[k].gen = deactivation,
         inbox[k].tag = tenure>>]>>
=============================================================================
