--------------------------- MODULE CommandHandler ---------------------------
(***************************************************************************)
(* The playback command handler (playback/command_handler.py): the state   *)
(* it keeps and what each call does to it.  It decides which messages of   *)
(* the server reach the player.  Session composes it with the WebSocket    *)
(* manager, PlaybackControl with the player.                               *)
(*                                                                         *)
(* dispatch_message records ownership in wire order and creates one task   *)
(* per message; the event loop starts these tasks in order, and none of    *)
(* them suspends before it calls the player: the queue methods on the way  *)
(* hold their lock only for the duration of a step.                        *)
(***************************************************************************)
EXTENDS Integers, Sequences

CONSTANTS
  Tracks,    \* queue items the server can name
  NoTrack,   \* an absent (or sentinel) queue item
  Wants      \* playing states a SET_STATE asks for, "none" if it has no such field

ASSUME TrackAssumption == NoTrack \notin Tracks
ASSUME WantAssumption == Wants \subseteq {"stopped", "playing", "paused", "none"}

VARIABLES
  handlerActive,  \* _active
  generation,     \* _generation
  deactivation,   \* _deactivation_generation, -1 for None
  nextInfo,       \* _next_track_info
  inbox           \* message tasks created and not yet started, oldest first

handlerVars == <<handlerActive, generation, deactivation, nextInfo, inbox>>

StateMessages == [kind : {"state"}, track : Tracks \cup {NoTrack},
                  next : Tracks \cup {NoTrack}, want : Wants]
OwnershipMessages == [kind : {"active"}, on : BOOLEAN]
QualityMessages == [kind : {"quality"}]
Messages == StateMessages \cup OwnershipMessages \cup QualityMessages

HandlerInit ==
  /\ handlerActive = FALSE
  /\ generation = 0 /\ deactivation = -1
  /\ nextInfo = NoTrack
  /\ inbox = <<>>

-----------------------------------------------------------------------------
NoteDisconnectedPassively ==                         \* mutant: stays active
  /\ generation' = generation + 1
  /\ UNCHANGED <<handlerActive, deactivation, nextInfo, inbox>>

\* note_disconnected, and note_connected, which calls it: the commands of the old
\* connection are stale.
NoteDisconnected ==
  /\ handlerActive' = FALSE
  /\ generation' = generation + 1
  /\ UNCHANGED <<deactivation, nextInfo, inbox>>

\* _note_active: a change of owner starts a new generation.
NoteActive(on) ==
  /\ handlerActive' = on
  /\ generation' = IF on # handlerActive THEN generation + 1 ELSE generation
  /\ deactivation' = IF on THEN -1 ELSE generation'
  /\ nextInfo' = IF on THEN nextInfo ELSE NoTrack

\* dispatch_message.
Dispatch(msg, tag) ==
  /\ IF msg.kind = "active" THEN NoteActive(msg.on)
     ELSE UNCHANGED <<handlerActive, generation, deactivation, nextInfo>>
  /\ inbox' = Append(inbox, [msg |-> msg, gen |-> generation', tag |-> tag])

\* handle_message: the task of a stale message does nothing, unless it carries
\* the last deactivation and nobody has activated the renderer since.
IsCurrentStrictly(entry) == entry.gen = generation   \* mutant: the stop is lost
IsCurrentLoosely(entry) == TRUE                      \* mutant: no check at all
IsCurrent(entry) ==
  \/ entry.gen = generation
  \/ /\ entry.msg.kind = "active" /\ ~entry.msg.on
     /\ ~handlerActive /\ entry.gen = deactivation

PlayerCallAnyway(entry) ==                     \* mutant: obeys an inactive renderer
  IF ~IsCurrent(entry) THEN "none"
  ELSE CASE entry.msg.kind = "state"   -> "apply"
         [] entry.msg.kind = "active"  -> IF entry.msg.on THEN "volume" ELSE "stop"
         [] entry.msg.kind = "quality" -> "reload"

\* The call the task of a message makes to the player.
PlayerCall(entry) ==
  IF ~IsCurrent(entry) THEN "none"
  ELSE CASE entry.msg.kind = "state"   -> IF handlerActive THEN "apply" ELSE "none"
         [] entry.msg.kind = "active"  -> IF entry.msg.on THEN "volume" ELSE "stop"
         [] entry.msg.kind = "quality" -> "reload"

\* The oldest task runs up to its call of the player: _handle_set_active notes the
\* ownership again, _apply_set_state stores the next item.
RunTask ==
  LET entry == Head(inbox) IN
  /\ inbox # <<>>
  /\ inbox' = Tail(inbox)
  /\ IF IsCurrent(entry) /\ entry.msg.kind = "active"
     THEN NoteActive(entry.msg.on)
     ELSE /\ nextInfo' = IF PlayerCall(entry) = "apply" THEN entry.msg.next ELSE nextInfo
          /\ UNCHANGED <<handlerActive, generation, deactivation>>
=============================================================================
