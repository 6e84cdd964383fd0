------------------------------ MODULE Session ------------------------------
(***************************************************************************)
(* The WebSocket manager together with the command handler it drives       *)
(* (speaker.py, _setup_websocket): on_connected and on_disconnected run    *)
(* inside the manager's own steps, server messages are dispatched from its *)
(* receive loop, and the tasks they create run later, possibly on another  *)
(* connection, in another tenure of ownership or after a takeover.         *)
(***************************************************************************)
EXTENDS WsManager, CommandHandler

CONSTANT MaxInbox  \* bound: message tasks created and not yet started

VARIABLES
  tenure,    \* history: how often ownership of playback ended
  owedStop   \* history: a deactivation was received and no stop was asked for yet

sessionVars == <<vars, handlerVars, tenure, owedStop>>

SessionInit ==
  /\ Init /\ HandlerInit
  /\ tenure = 0 /\ owedStop = FALSE

EndsTenure == IF IsRendererActive /\ ~IsRendererActive' THEN tenure + 1 ELSE tenure

\* The manager calls on_disconnected whenever it gives a connection up or another
\* source takes over, and on_connected when the join is out.
CallsBack == \/ ownershipGeneration' # ownershipGeneration
             \/ ~isConnected /\ isConnected'

TransportStep ==
  /\ Transport
  /\ IF CallsBack THEN NoteDisconnected ELSE UNCHANGED handlerVars
  /\ tenure' = EndsTenure
  /\ UNCHANGED owedStop

\* _handle_payload: SET_ACTIVE updates the manager, then its handler is called.
ReceiveOwnership(on) ==
  /\ Len(inbox) < MaxInbox
  /\ ReceiveSetActive(on)
  /\ IF Listens THEN Dispatch([kind |-> "active", on |-> on], tenure)
                ELSE UNCHANGED handlerVars
  /\ owedStop' = IF Listens THEN ~on ELSE owedStop
  /\ tenure' = EndsTenure

\* _handle_payload: any other command only passes through.
ReceiveCommand ==
  /\ phase = "running" /\ Listens
  /\ used.messages < MaxMessages /\ Len(inbox) < MaxInbox
  /\ used' = [used EXCEPT !.messages = @ + 1]
  /\ \E msg \in StateMessages \cup QualityMessages : Dispatch(msg, tenure)
  /\ UNCHANGED <<phase, conn, shouldRun, closing, flags, ownershipGeneration,
                 activationRequest, tokens, sends, lockHeld, heard, consumed, tenure,
                 owedStop>>

\* A task created earlier runs.
RunCommand ==
  /\ RunTask
  /\ owedStop' = (owedStop /\ PlayerCall(Head(inbox)) # "stop")
  /\ UNCHANGED <<vars, tenure>>

SessionNext ==
  \/ TransportStep
  \/ \E on \in BOOLEAN : ReceiveOwnership(on)
  \/ ReceiveCommand
  \/ RunCommand

SessionSpec == SessionInit /\ [][SessionNext]_sessionVars

-----------------------------------------------------------------------------
(* Properties *)

\* The handler accepts commands exactly while the manager holds confirmed ownership
\* on this connection: the two keep their flags separately, one from the wire, one
\* from callbacks.
OwnershipAgrees == handlerActive <=> IsRendererActive

\* A playback command that reaches the player was received in the tenure that still
\* lasts: tasks of an earlier connection, an earlier activation or of the time
\* before a takeover never do (handle_message, "stale playback commands always
\* remain invalid").
StaleCommandsDie ==
  inbox # <<>> /\ PlayerCall(Head(inbox)) = "apply"
    => IsRendererActive /\ Head(inbox).tag = tenure

\* A received deactivation asks the player to stop even if the socket closes before
\* its task runs (handle_message); only a later activation takes it back.
DeactivationIsKept ==
  owedStop => \E k \in 1..Len(inbox) : PlayerCall(inbox[k]) = "stop"
=============================================================================
