-------------------------- MODULE PlaybackControl --------------------------
(***************************************************************************)
(* Playback commands from the wire to the speaker: the command handler     *)
(* (CommandHandler) and the command path of playback/player.py.            *)
(*                                                                         *)
(* Every command takes a number from _command_generation before it waits   *)
(* for _playback_lock; the holder of the lock is `job', suspended at the   *)
(* await named by job.pc, and `waiting' are the coroutines queued on the   *)
(* lock.  A command that finds a newer number gives up.  Disconnects, the  *)
(* end of a track and errors of the backend arrive at any await.           *)
(*                                                                         *)
(* A track stands for one QueueTrack object.  The queue is empty: a        *)
(* renderer is told its current and next item and nothing else.  Trailing  *)
(* reports are one await.  Gapless arming is not part of this module.  A   *)
(* backend may fail to play or to resume; a pause or a stop takes effect.  *)
(***************************************************************************)
EXTENDS CommandHandler, FiniteSets

CONSTANTS
  MaxSkips,     \* _MAX_UNAVAILABLE_SKIPS
  MaxMessages,  \* bound: messages received
  MaxInbox,     \* bound: message tasks not yet started
  MaxDrops,     \* bound: connections lost or re-established
  MaxEnds,      \* bound: tracks that play to their end
  MaxErrors     \* bound: failures of the backend or of the Qobuz API

ASSUME LimitAssumption ==
  /\ MaxSkips \in Nat /\ MaxMessages \in Nat /\ MaxInbox \in Nat
  /\ MaxDrops \in Nat /\ MaxEnds \in Nat /\ MaxErrors \in Nat

VARIABLES
  player,      \* _state, _current_track, its streaming_url, the pending skip
  cmdGen,      \* _command_generation
  job,         \* the command that holds _playback_lock
  waiting,     \* commands queued on _playback_lock, first come first served
  ended,       \* a _handle_track_ended task
  audio,       \* what the speaker does
  used,        \* how much of each bound has been used
  goal,        \* history: the SET_STATE nothing has interfered with since
  owner,       \* history: the server's last SET_ACTIVE
  spared,      \* history: something else than an activation came after it
  given        \* history: a track's end or a load given up, a track's end amid commands,
               \* and whether the last play or resume brought no sound

history == <<goal, owner, spared, given>>
playerVars == <<player, cmdGen, job, waiting, ended, audio>>
vars == <<handlerVars, playerVars, used, history>>

Playbacks == {"STOPPED", "LOADING", "PLAYING", "PAUSED", "ERROR"}
Live == {"PLAYING", "PAUSED"}

NoJob == [kind |-> "none", gen |-> 0, track |-> NoTrack, want |-> "none", pc |-> "none"]
NoGoal == [want |-> "none", track |-> NoTrack]
NoEnd == [pc |-> "none", track |-> NoTrack, gen |-> 0, ahead |-> [task |-> 0, job |-> 0]]

Command(kind, track, want) ==
  [kind |-> kind, gen |-> cmdGen + 1, track |-> track, want |-> want, pc |-> "waiting"]

Free  == job = NoJob /\ waiting = <<>>
Quiet == Free /\ inbox = <<>> /\ ended = NoEnd

Init ==
  /\ HandlerInit
  /\ player = [state |-> "STOPPED", track |-> NoTrack, loaded |-> FALSE,
               skip |-> NoTrack, skips |-> 0]
  /\ cmdGen = 0
  /\ job = NoJob /\ waiting = <<>> /\ ended = NoEnd
  /\ audio = "silent"
  /\ used = [messages |-> 0, drops |-> 0, ends |-> 0, errors |-> 0]
  /\ goal = NoGoal /\ owner = "none" /\ spared = FALSE
  /\ given = [end |-> FALSE, race |-> FALSE, loading |-> FALSE, failed |-> FALSE]

Fails == used.errors < MaxErrors /\ used' = [used EXCEPT !.errors = @ + 1]

-----------------------------------------------------------------------------
(* What a command does between two awaits.  j is the command, p the player    *)
(* as it leaves it; the operators set job' and player'.                       *)

Go(j, p, pc) == job' = [j EXCEPT !.pc = pc] /\ player' = p
Done(p) == job' = NoJob /\ player' = p

\* _clear_skip_pending, which also cancels the timer.
NoSkip(p) == [p EXCEPT !.skip = NoTrack]

\* _stop_playback_locked, up to backend.stop.
BeginStop(j, p) == Go(j, [p EXCEPT !.skip = NoTrack, !.skips = 0], "stopping")

\* _load_track_locked: the player is LOADING if playback starts right after.
ForPlayback(j) == j.kind = "advance" \/ j.want = "playing"
Replaced(j, p) ==
  [p EXCEPT !.track = j.track, !.loaded = FALSE,
            !.state = IF ForPlayback(j) THEN "LOADING" ELSE "STOPPED"]
BeginLoad(j, p) ==
  IF p.state \in Live THEN Go(j, NoSkip(p), "unloading")
                      ELSE Go(j, Replaced(j, NoSkip(p)), "loading")

\* _start_playback, up to the LOADING report.
BeginStart(j, p) ==
  IF p.track = NoTrack THEN Done(p)
  ELSE Go(j, [p EXCEPT !.state = "LOADING"], "announcing")

BeginSkipWaitLate(j, p) ==                     \* mutant: counts one item too many
  IF p.track = NoTrack THEN Done(p)
  ELSE IF p.skips > MaxSkips THEN BeginStop(j, p)
  ELSE Go(j, [p EXCEPT !.skips = @ + 1, !.skip = p.track, !.state = "LOADING"], "skipping")

\* _begin_skip_wait_locked: report the unplayable item, then ask for the next one.
BeginSkipWait(j, p) ==
  IF p.track = NoTrack THEN Done(p)
  ELSE IF p.skips + 1 > MaxSkips THEN BeginStop(j, p)
  ELSE Go(j, [p EXCEPT !.skips = @ + 1, !.skip = p.track, !.state = "LOADING"], "skipping")

\* The end of apply_remote_state: _play_locked, _pause_locked, _stop_playback_locked.
Finish(j, p) ==
  CASE j.want = "playing" /\ p.state = "PAUSED"       -> Go(j, p, "resuming")
    [] j.want = "playing" /\ p.state \notin Live      -> BeginStart(j, p)
    [] j.want = "paused" /\ p.state = "PLAYING"       -> Go(j, p, "pausing")
    [] j.want = "stopped"                             -> BeginStop(j, p)
    [] OTHER                                          -> Done(p)

\* Seek first, if the message has a position and the backend has the track.
BeginFinish(j, p) ==
  \/ Finish(j, p)
  \/ p.track # NoTrack /\ p.state \notin {"STOPPED", "LOADING"} /\ Go(j, p, "seeking")

\* The command has the lock; commands that carry a number checked it.
Begin(j, p) ==
  CASE j.kind = "stop"    -> BeginStop(j, p)
    [] j.kind = "apply"   -> Go(j, p, "permission")
    [] j.kind = "advance" -> BeginLoad(j, NoSkip(p))
    [] j.kind = "reload"  ->
         IF p.track = NoTrack THEN Done(p)
         ELSE IF p.state \notin Live THEN Done([p EXCEPT !.loaded = FALSE])
         ELSE Go([j EXCEPT !.want = IF p.state = "PLAYING" THEN "playing" ELSE "paused"],
                 p, "reloading")
    [] j.kind = "restart" ->
         IF p.track = j.track /\ p.state = "PLAYING"
         THEN BeginStart(j, [p EXCEPT !.loaded = FALSE]) ELSE Done(p)
    [] j.kind = "skip"    ->
         IF j.gen = cmdGen /\ p.track = j.track /\ ~p.loaded
         THEN BeginSkipWait(j, p) ELSE Done(p)

\* A coroutine reaches `async with self._playback_lock'.
Enter(j, p) ==
  IF Free THEN Begin(j, p) /\ UNCHANGED waiting
  ELSE waiting' = Append(waiting, j) /\ player' = p /\ UNCHANGED job

\* _next_generation, then the lock.
Register(kind, track, want) ==
  /\ cmdGen' = cmdGen + 1
  /\ Enter(Command(kind, track, want), player)

-----------------------------------------------------------------------------
(* The server and the transport *)

\* The handler calls invalidate_pending_commands with each new generation.
Invalidation ==
  IF generation' # generation
  THEN cmdGen' = cmdGen + 1 /\ player' = NoSkip(player)
  ELSE UNCHANGED <<cmdGen, player>>

\* ... and forgets an unplayable item the player still reports as LOADING.
SkipForgotten ==
  given' = [given EXCEPT !.loading = @ \/ (player.skip # NoTrack /\ player'.skip = NoTrack)]

Receive(msg) ==
  /\ used.messages < MaxMessages /\ Len(inbox) < MaxInbox
  /\ used' = [used EXCEPT !.messages = @ + 1]
  /\ Dispatch(msg, 0)
  /\ Invalidation
  /\ owner' = IF msg.kind # "active" THEN owner ELSE IF msg.on THEN "on" ELSE "off"
  /\ spared' = (spared /\ msg.kind # "active")
  /\ goal' = IF generation' # generation THEN NoGoal ELSE goal
  /\ SkipForgotten
  /\ UNCHANGED <<job, waiting, ended, audio>>

\* The WebSocket is lost, or a new one is established.
Drop ==
  /\ used.drops < MaxDrops
  /\ used' = [used EXCEPT !.drops = @ + 1]
  /\ NoteDisconnected
  /\ Invalidation
  /\ goal' = NoGoal
  /\ spared' = TRUE
  /\ SkipForgotten
  /\ UNCHANGED <<job, waiting, ended, audio, owner>>

\* Another source took the speaker: release_external_playback of the speaker, the
\* manager and the player.
ReleaseExternalPlayback ==
  /\ used.drops < MaxDrops
  /\ used' = [used EXCEPT !.drops = @ + 1]
  /\ handlerActive' = FALSE /\ generation' = generation + 1 /\ nextInfo' = NoTrack
  /\ cmdGen' = cmdGen + 2
  /\ player' = [NoSkip(player) EXCEPT !.state = "STOPPED"]
  /\ audio' = "silent"
  /\ goal' = NoGoal /\ spared' = TRUE
  /\ UNCHANGED <<deactivation, inbox, job, waiting, ended, owner, given>>

\* A replay of the failed current item is not a new playback intent.
Echoes(msg) ==
  /\ player.skip # NoTrack /\ msg.want \notin {"paused", "stopped"}
  /\ msg.track \in {NoTrack, player.skip}

\* The task of a track's end runs after the tasks that were ready before it: the
\* message tasks of that moment and one step of the holder of the lock.
AheadOfEnd(what) ==
  IF ended.pc = "created"
  THEN ended.ahead[what] > 0 /\ ended' = [ended EXCEPT !.ahead[what] = @ - 1]
  ELSE UNCHANGED ended

\* A message task starts: it calls the player, or finds that it is stale.  (Noting
\* the ownership a second time changes nothing in the handler.)
RunCommand ==
  LET call == PlayerCall(Head(inbox))
      msg  == Head(inbox).msg
  IN
  /\ RunTask
  /\ \/ /\ call = "apply" /\ ~Echoes(msg)
        /\ Register("apply", msg.track, msg.want)
        /\ goal' = [want |-> msg.want, track |-> msg.track]
        /\ UNCHANGED spared
     \/ /\ call = "stop"
        /\ Register("stop", NoTrack, "stopped")
        /\ goal' = NoGoal
        /\ UNCHANGED spared
     \/ /\ call = "reload"
        /\ Register("reload", NoTrack, "none")
        /\ goal' = NoGoal
        /\ spared' = TRUE
     \/ /\ \/ call \in {"none", "volume", "reload"}   \* reload: the quality is unchanged
           \/ call = "apply" /\ Echoes(msg)
        /\ UNCHANGED <<player, cmdGen, job, waiting, goal, spared>>
  /\ AheadOfEnd("task")
  /\ UNCHANGED <<audio, used, owner, given>>

-----------------------------------------------------------------------------
(* The holder of the lock: one action for each await *)

\* A step of the command that holds the lock touches nothing else.
Within == UNCHANGED <<handlerVars, cmdGen, waiting, owner, spared>>
\* ... and leaves the newest command as its goal.
Smooth == UNCHANGED <<used, goal>>
\* ... or fails to reach it.
Trouble == Fails /\ goal' = NoGoal

Superseded == job.gen # cmdGen

\* The lock was released: the first waiter wakes up and compares numbers.
TakeLock ==
  LET j == Head(waiting) IN
  /\ job = NoJob /\ waiting # <<>>
  /\ waiting' = Tail(waiting)
  /\ IF j.kind \in {"apply", "stop", "reload", "advance"} /\ j.gen # cmdGen
     THEN /\ Done(player)
          /\ given' = [given EXCEPT !.end = @ \/ j.kind = "advance"]
     ELSE /\ Begin(j, player)
          /\ UNCHANGED given
  /\ AheadOfEnd("job")
  /\ UNCHANGED <<handlerVars, cmdGen, audio, used, goal, owner, spared>>

\* apply_remote_state under the lock, from the permission check to the load.
\* `stale' is _is_stale_pause_snapshot_locked, which depends on positions.
BeginApply(stale) ==
  LET p == player
      same == job.track = p.track
  IN
  IF p.skip # NoTrack /\ job.want \in {"paused", "stopped"}
     /\ (job.want = "stopped" \/ job.track \in {NoTrack, p.skip})
  THEN Go(job, [p EXCEPT !.skip = NoTrack, !.skips = 0], "halting")
  ELSE IF p.skip # NoTrack /\ (job.track = NoTrack \/ (same /\ p.track = p.skip))
  THEN Done(p)
  ELSE IF job.track # NoTrack /\ (~same \/ (job.want = "playing" /\ ~p.loaded))
  THEN BeginLoad(job, p)
  ELSE IF stale THEN Done(p) ELSE BeginFinish(job, p)

Permitted ==
  /\ job.pc = "permission"
  /\ \/ /\ ~Superseded
        /\ \E stale \in BOOLEAN :
             /\ stale => /\ job.want = "paused" /\ player.state = "PLAYING"
                         /\ job.track \in {NoTrack, player.track}
             /\ BeginApply(stale)
             /\ goal' = IF stale THEN NoGoal ELSE goal
     \/ Superseded /\ Done(player) /\ UNCHANGED goal
     \/ Done(player) /\ goal' = NoGoal         \* the transport plays something else
  /\ Within /\ UNCHANGED <<audio, used>>

Unloaded ==
  /\ job.pc = "unloading"
  /\ Go(job, Replaced(job, player), "loading")
  /\ audio' = "silent"
  /\ Within /\ Smooth

\* The URL and the metadata are there.
Loaded ==
  LET p == [player EXCEPT !.loaded = TRUE] IN
  /\ job.pc = "loading"
  /\ \/ /\ ~Superseded
        /\ IF job.kind = "advance" THEN BeginStart(job, p) ELSE BeginFinish(job, p)
        /\ UNCHANGED given
     \/ /\ Superseded
        /\ Done(IF job.kind = "apply" /\ p.state = "LOADING"
                THEN [p EXCEPT !.state = "STOPPED"] ELSE p)
        /\ given' = [given EXCEPT !.loading = @ \/ job.kind = "advance"]
  /\ Within /\ Smooth /\ UNCHANGED audio

\* The item cannot be fetched.  A SET_STATE that should play it skips it at once; an
\* automatic advance gives the lock back and asks for it again.
LoadFails ==
  LET p == [player EXCEPT !.state = "STOPPED"]
      skip == [job EXCEPT !.kind = "skip", !.pc = "waiting"]
  IN
  /\ job.pc = "loading"
  /\ Trouble
  /\ \/ /\ job.kind = "apply"
        /\ IF job.want = "playing" /\ ~Superseded THEN BeginSkipWait(job, p) ELSE Done(p)
        /\ UNCHANGED waiting
     \/ /\ job.kind = "advance" /\ waiting = <<>>
        /\ Begin(skip, p)
        /\ UNCHANGED waiting
     \/ /\ job.kind = "advance" /\ waiting # <<>>
        /\ waiting' = Append(waiting, skip)
        /\ Done(p)
  /\ UNCHANGED <<handlerVars, cmdGen, audio, owner, spared>>

Sought ==
  /\ job.pc = "seeking"
  /\ IF Superseded THEN Done(player) ELSE Finish(job, player)
  /\ Within /\ Smooth /\ UNCHANGED audio

\* The LOADING report is out; a URL that was cleared or is too old is fetched again.
Announced ==
  /\ job.pc = "announcing"
  /\ \/ Go(job, [player EXCEPT !.loaded = TRUE], "starting") /\ Smooth
     \/ Go(job, [player EXCEPT !.state = "ERROR"], "reporting") /\ Trouble
  /\ Within /\ UNCHANGED audio

Sound(failed) == given' = [given EXCEPT !.failed = failed]

\* backend.play plays and returns.  Or it cannot load or start the track: it notifies the
\* error and returns as well, so that ERROR is overwritten at once, over what the speaker
\* did before or over silence.  Or it raises, as a renderer that is not connected does.
Played ==
  /\ job.pc = "starting"
  /\ \/ /\ Go(job, [player EXCEPT !.state = "PLAYING", !.skips = 0], "reporting")
        /\ audio' = "playing" /\ Sound(FALSE) /\ Smooth
     \/ /\ Go(job, [player EXCEPT !.state = "PLAYING", !.skips = 0], "reporting")
        /\ audio' \in {audio, "silent"} /\ Sound(TRUE) /\ Trouble
     \/ /\ Go(job, [player EXCEPT !.state = "ERROR"], "reporting")
        /\ Trouble /\ UNCHANGED <<audio, given>>
  /\ Within

\* backend.resume succeeds or is rejected.  A backend that has a track but nothing left to
\* play may also say that it resumes.
Resumed ==
  /\ job.pc = "resuming"
  /\ \/ /\ Go(job, [player EXCEPT !.state = "PLAYING"], "reporting")
        /\ audio' = "playing" /\ Sound(FALSE) /\ Smooth
     \/ /\ audio = "silent"
        /\ Go(job, [player EXCEPT !.state = "PLAYING"], "reporting")
        /\ goal' = NoGoal /\ Sound(TRUE) /\ UNCHANGED <<audio, used>>
     \/ Go(job, player, "reporting") /\ Trouble /\ UNCHANGED <<audio, given>>
  /\ Within

Paused ==
  /\ job.pc = "pausing"
  /\ Go(job, [player EXCEPT !.state = "PAUSED"], "reporting")
  /\ audio' = IF audio = "playing" THEN "paused" ELSE audio
  /\ Within /\ Smooth

Stopped ==
  /\ job.pc = "stopping"
  /\ Go(job, [player EXCEPT !.state = "STOPPED"], "reporting")
  /\ audio' = "silent"
  /\ Within /\ Smooth

\* A pause or stop that ended a pending skip.
Halted ==
  /\ job.pc = "halting"
  /\ Go(job, [player EXCEPT !.state = IF job.want = "stopped" THEN "STOPPED" ELSE "PAUSED"],
        "reporting")
  /\ audio' = "silent"
  /\ Within /\ Smooth

\* _reload_current_track_locked after backend.stop.
Reloading ==
  LET p == [player EXCEPT !.loaded = FALSE] IN
  /\ job.pc = "reloading"
  /\ IF job.want = "playing" THEN BeginStart(job, p)
     ELSE Go(job, [p EXCEPT !.state = "STOPPED"], "reporting")
  /\ audio' = "silent"
  /\ Within /\ Smooth

\* The last reports are out: release the lock.
Reported ==
  /\ job.pc \in {"reporting", "skipping"}
  /\ Done(player)
  /\ Within /\ Smooth /\ UNCHANGED audio

JobStep ==
  /\ AheadOfEnd("job")
  /\ \/ Loaded \/ Played \/ Resumed
     \/ /\ \/ Permitted \/ Unloaded \/ LoadFails \/ Sought \/ Announced
           \/ Paused \/ Stopped \/ Halted \/ Reloading \/ Reported
        /\ UNCHANGED given

-----------------------------------------------------------------------------
(* The backend *)

\* The track plays to its end: _on_track_ended notes which one and creates a task.
TrackEnds ==
  /\ audio = "playing" /\ ended = NoEnd /\ used.ends < MaxEnds
  /\ used' = [used EXCEPT !.ends = @ + 1]
  /\ audio' = "silent"
  /\ ended' = [NoEnd EXCEPT !.pc = "created", !.track = player.track,
                            !.ahead = [task |-> Len(inbox), job |-> 1]]
  /\ goal' = NoGoal
  /\ given' = [given EXCEPT !.race = @ \/ ~Free \/ inbox # <<>>]
  /\ UNCHANGED <<handlerVars, player, cmdGen, job, waiting, owner, spared>>

\* _handle_track_ended notes the command number and reports the finished play ...
EndedStarts ==
  /\ ended.pc = "created" /\ ended.ahead.task = 0
  /\ ended' = [NoEnd EXCEPT !.pc = "reporting", !.track = ended.track, !.gen = cmdGen]
  /\ UNCHANGED <<handlerVars, player, cmdGen, job, waiting, audio, used, history>>

EndedUnchecked == FALSE                        \* mutant: ignores newer commands
EndedIsStale == ended.gen # cmdGen \/ ended.track # player.track

\* ... then repeats the track, plays the next item or stops.
EndedContinues ==
  /\ ended.pc = "reporting"
  /\ ended' = NoEnd
  /\ \/ /\ EndedIsStale
        /\ given' = [given EXCEPT !.end = TRUE]
        /\ UNCHANGED <<player, cmdGen, job, waiting, nextInfo>>
     \/ /\ ~EndedIsStale                       \* repeat one
        /\ Enter([NoJob EXCEPT !.kind = "restart", !.gen = cmdGen, !.track = ended.track],
                 player)
        /\ UNCHANGED <<cmdGen, nextInfo, given>>
     \/ /\ ~EndedIsStale /\ nextInfo # NoTrack
        /\ nextInfo' = NoTrack
        /\ Register("advance", nextInfo, "playing")
        /\ UNCHANGED given
     \/ /\ ~EndedIsStale /\ nextInfo = NoTrack
        /\ player' = [player EXCEPT !.state = "STOPPED", !.track = NoTrack, !.loaded = FALSE]
        /\ UNCHANGED <<cmdGen, job, waiting, nextInfo, given>>
  /\ goal' = IF given.race THEN NoGoal ELSE goal
  /\ UNCHANGED <<handlerActive, generation, deactivation, inbox, audio, used, owner, spared>>

\* _skip_wait_timeout: the server never named the successor of the failed item.
SkipTimeoutForgetful ==                        \* mutant: keeps the pending skip
  /\ player.skip # NoTrack /\ job = NoJob
  /\ Go([NoJob EXCEPT !.kind = "timeout"],
        [player EXCEPT !.state = "STOPPED", !.track = NoTrack, !.loaded = FALSE],
        "reporting")
  /\ goal' = NoGoal
  /\ UNCHANGED <<handlerVars, cmdGen, waiting, ended, audio, used, owner, spared, given>>

SkipTimeout ==
  /\ player.skip # NoTrack /\ job = NoJob
  /\ Go([NoJob EXCEPT !.kind = "timeout"],
        [NoSkip(player) EXCEPT !.state = "STOPPED", !.track = NoTrack, !.loaded = FALSE],
        "reporting")
  /\ goal' = NoGoal
  /\ UNCHANGED <<handlerVars, cmdGen, waiting, ended, audio, used, owner, spared, given>>

\* _on_playback_error.
PlaybackError ==
  /\ audio # "silent" /\ Fails
  /\ audio' = "silent"
  /\ player' = [player EXCEPT !.state = "ERROR"]
  /\ goal' = NoGoal
  /\ UNCHANGED <<handlerVars, cmdGen, job, waiting, ended, owner, spared, given>>

Next ==
  \/ \E msg \in Messages : Receive(msg)
  \/ Drop \/ ReleaseExternalPlayback
  \/ RunCommand \/ TakeLock \/ JobStep
  \/ TrackEnds \/ EndedStarts \/ EndedContinues
  \/ SkipTimeout \/ PlaybackError

\* The event loop keeps running tasks, and what they await comes to an end.
Tasks == RunCommand \/ TakeLock \/ JobStep \/ EndedStarts \/ EndedContinues

Spec == Init /\ [][Next]_vars /\ WF_vars(Tasks) /\ WF_vars(SkipTimeout)

-----------------------------------------------------------------------------
(* Properties *)

TypeOK ==
  /\ handlerActive \in BOOLEAN /\ generation \in Nat /\ deactivation \in Nat \cup {-1}
  /\ nextInfo \in Tracks \cup {NoTrack}
  /\ player \in [state : Playbacks, track : Tracks \cup {NoTrack}, loaded : BOOLEAN,
                 skip : Tracks \cup {NoTrack}, skips : 0..MaxSkips]
  /\ cmdGen \in Nat
  /\ audio \in {"silent", "playing", "paused"}
  /\ owner \in {"none", "on", "off"}
  /\ spared \in BOOLEAN
  /\ given \in [end : BOOLEAN, race : BOOLEAN, loading : BOOLEAN, failed : BOOLEAN]

\* The newest SET_STATE wins as a unit, whatever older command or end of a track it
\* found half done: once everything has run, the speaker does what it asked for.  (A
\* PLAY of a track whose end was dropped for it, or whose play failed before, stays
\* silent: the player takes it to be playing.  After an end amid commands a pause is
\* ignored by a player left STOPPED, or ends the skip of an item that is no longer
\* current; and a stop may leave the item of a skip in place.)
NewestCommandWins ==
  Quiet /\ goal # NoGoal =>
    /\ goal.want = "stopped" => audio = "silent" /\ player.state = "STOPPED"
    /\ /\ goal.track # NoTrack /\ goal.want # "stopped"
       /\ goal.want = "paused" => ~given.race
       => player.track = goal.track
    /\ goal.want = "playing" /\ player.track # NoTrack /\ ~given.end /\ ~given.failed
       => audio = "playing"
    /\ goal.want = "paused" /\ ~given.race => audio # "playing"

\* What the player reports is what the speaker does once the commands have run,
\* unless the end of a track was dropped or came while a command was under way, or
\* an automatic advance gave its load up for a command that had nothing to play.  And
\* the player says PLAYING over silence if the last play or resume failed without an
\* exception; but whatever sounds, also then, is reported.
StateIsAudible ==
  Quiet =>
    /\ ~given.end /\ ~given.race =>
         /\ audio = "playing" => player.state = "PLAYING"
         /\ player.state = "PLAYING" => audio = "playing" \/ given.failed
    /\ player.state = "LOADING" /\ ~given.loading => player.skip # NoTrack

\* A deactivation silences this renderer, whatever it was doing, unless a lost
\* connection or a quality change came after it.
DeactivationSilences ==
  Quiet /\ owner = "off" /\ ~spared => audio = "silent"

\* The same without exception, as the comment in handle_message has it: only a
\* later activation can revoke a received deactivation.
DeactivationAlwaysSilences ==
  Quiet /\ owner = "off" => audio = "silent"

\* LOADING leads to PLAYING or ERROR (docstring of QobuzPlayer), or waits for the
\* server to name the item after an unavailable one.
LoadingIsTransient ==
  Quiet /\ player.state = "LOADING" => player.skip # NoTrack

\* A lost connection revokes commands without touching what is audible: a player
\* that says PLAYING plays.
PlayingIsAudible ==
  Quiet /\ player.state = "PLAYING" => audio = "playing"

\* An unavailable item never blocks the player: the wait for its successor ends.
SkipEnds == player.skip # NoTrack ~> player.skip = NoTrack
=============================================================================
