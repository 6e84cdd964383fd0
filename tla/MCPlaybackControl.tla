------------------------- MODULE MCPlaybackControl -------------------------
(***************************************************************************)
(* Model checking PlaybackControl.                                         *)
(***************************************************************************)
EXTENDS PlaybackControl

\* Numbers are only compared with the current ones.
Fresh(j) == [j EXCEPT !.gen = (@ = cmdGen)]
ComparisonsView ==
  <<handlerActive, deactivation = generation, nextInfo,
    [k \in DOMAIN inbox |->
       <<inbox[k].msg, inbox[k].gen = generation, inbox[k].gen = deactivation>>],
    player, Fresh(job), [k \in DOMAIN waiting |-> Fresh(waiting[k])],
    Fresh(ended), audio, used, history>>
=============================================================================
