------------------------------- MODULE Gapless -------------------------------
(***************************************************************************)
(* The tasks of playback/player.py that run beside the commands: gapless   *)
(* arming, the handling of a transition and of the end of a track, and the *)
(* monitor loop, together with the play reporter (play_reporter.py) and    *)
(* the state reports (state_reporter.py).                                  *)
(*                                                                         *)
(* Each task is a record whose pc names the await it is suspended at.  The *)
(* command path is PlaybackControl's, reduced to what these tasks see: no  *)
(* load fails here, and nothing but SET_STATE, the end of a track and a    *)
(* takeover of the speaker revokes a command.  _command_generation and     *)
(* _transition_generation appear as the staleness of those who read them.  *)
(* The backend is the gapless contract of backends/base.py: it plays one   *)
(* track and holds at most one next.  A track is a queue item.             *)
(***************************************************************************)
EXTENDS Naturals, Sequences

CONSTANTS
  Tracks, None,
  PlayConfirmations,  \* _PAUSED_PLAY_CONFIRMATIONS
  StopConfirmations,  \* _PAUSED_STOP_CONFIRMATIONS
  MaxMessages,        \* bound: SET_STATE messages
  MaxEnds,            \* bound: tracks that play to their end
  MaxDevice,          \* bound: operations at the device itself, and takeovers
  MaxBadReads         \* bound: failed reads of the device and refused tracks

ASSUME GaplessAssumption ==
  /\ None \notin Tracks
  /\ PlayConfirmations \in Nat \ {0} /\ StopConfirmations \in Nat \ {0}
  /\ MaxMessages \in Nat /\ MaxEnds \in Nat /\ MaxDevice \in Nat /\ MaxBadReads \in Nat

VARIABLES
  player,      \* _state, _current_track
  arming,      \* _gapless_armed, _pending_next_track; is the holder's generation current
  next,        \* the handler's _next_track_info
  job,         \* the command that holds _playback_lock
  waiting,     \* commands that wait for _playback_lock
  holder,      \* the task that holds _gapless_arm_lock
  queued,      \* tasks that wait for _gapless_arm_lock
  transition,  \* a _handle_gapless_transition task
  ended,       \* a _handle_track_ended task
  monitor,     \* _playback_monitor_loop and its two counters
  active,      \* the play reporter's _active
  backend,     \* the device
  used,        \* how much of each bound has been used
  told,        \* history: the last state report
  given        \* history: transitions and plays that slipped through

vars == <<player, arming, next, job, waiting, holder, queued, transition, ended,
          monitor, active, backend, used, told, given>>

NoJob  == [pc |-> "none", want |-> "none", track |-> None, stale |-> FALSE, changed |-> FALSE]
NoHold == [pc |-> "free", kind |-> "none", track |-> None]
NoEnd  == [pc |-> "none", track |-> None, stale |-> FALSE]
NoMove == [pc |-> "none", track |-> None]
NoPlay == [track |-> None, runs |-> FALSE]
Silent == [track |-> None, next |-> None, mode |-> "stopped"]

Live == {"PLAYING", "PAUSED"}

\* to_proto_dict and wire_playing_state: what the app is told.
Wire(p) ==
  [state |-> CASE p.state = "LOADING" -> "PLAYING"
               [] p.state = "ERROR" -> "STOPPED"
               [] OTHER -> p.state,
   track |-> p.track]
Untold == [state |-> "untold", track |-> None]

\* report_now: nothing in a report waits, so it shows one moment.
Report(p) == told' = Wire(p)

Init ==
  /\ player = [state |-> "STOPPED", track |-> None]
  /\ arming = [armed |-> FALSE, pending |-> None, fresh |-> FALSE]
  /\ next = None
  /\ job = NoJob /\ waiting = <<>>
  /\ holder = NoHold /\ queued = <<>>
  /\ transition = NoMove /\ ended = NoEnd
  /\ monitor = [pc |-> "sleep", track |-> None, stops |-> 0, plays |-> 0]
  /\ active = NoPlay
  /\ backend = Silent
  /\ used = [messages |-> 0, ends |-> 0, device |-> 0, bad |-> 0]
  /\ told = Untold
  /\ given = [missed |-> FALSE, dropped |-> FALSE, late |-> FALSE, crossed |-> FALSE,
              carried |-> FALSE, misled |-> FALSE]

Uses(what, max) == used[what] < max /\ used' = [used EXCEPT ![what] = @ + 1]

\* mutant: forgets that a track is armed, not which one.
ClearedHalf == [arming EXCEPT !.armed = FALSE, !.fresh = FALSE]

\* _clear_gapless_state.
Cleared == [armed |-> FALSE, pending |-> None, fresh |-> FALSE]

-----------------------------------------------------------------------------
(* The play reporter.  Ending a play waits for the API.                        *)

\* note_playing of track t, up to the await: another play is ended first.
MustEnd(t) == active # NoPlay /\ active.track # t /\ t # None
Noted(t) ==
  CASE t = None -> active
    [] MustEnd(t) -> NoPlay
    [] OTHER -> [track |-> t, runs |-> TRUE]

NotePausedNot == UNCHANGED active            \* mutant: the clock runs on

\* note_paused.
NotePaused == active' = IF active = NoPlay THEN NoPlay ELSE [active EXCEPT !.runs = FALSE]

\* A note comes late when the player is past that state, or what ends the play is past
\* the end report.
Late(state) == \/ player.state # state \/ job.pc = "unreporting"
               \/ state = "PLAYING" /\ ended # NoEnd
Notes(state) == given' = [given EXCEPT !.late = @ \/ Late(state)]

\* note_playing after the await: the play that began is stored over what is there.
Store(t) ==
  /\ active' = [track |-> t, runs |-> TRUE]
  /\ given' = [given EXCEPT !.late = @ \/ Late("PLAYING") \/ player.track # t]

-----------------------------------------------------------------------------
(* Arming.  on_next_track_info_changed and _prepare_next_track_for_gapless     *)
(* share _gapless_arm_lock, first come first served.                           *)

\* _prepare_next_track_locked, up to the first await.
Prepare(kind, arm, p) ==
  /\ arming' = IF ~arm.armed /\ p.state = "PLAYING" /\ next # None
               THEN [arm EXCEPT !.fresh = TRUE] ELSE arm
  /\ holder' = IF ~arm.armed /\ p.state = "PLAYING" /\ next # None
               THEN [pc |-> "resolving", kind |-> kind, track |-> next] ELSE NoHold

\* What a task does once it has the lock.
Enter(kind) ==
  IF kind = "changed"
  THEN arming' = Cleared /\ holder' = [pc |-> "clearing", kind |-> kind, track |-> None]
  ELSE Prepare(kind, arming, player)

\* async with _gapless_arm_lock: immediately, if nobody has it or waits for it.
AskArmLock(kind) ==
  IF holder = NoHold /\ queued = <<>>
  THEN Enter(kind) /\ UNCHANGED queued
  ELSE queued' = Append(queued, kind) /\ UNCHANGED <<arming, holder>>

TakeArmLock ==
  /\ holder = NoHold /\ queued # <<>>
  /\ Enter(Head(queued)) /\ queued' = Tail(queued)
  /\ UNCHANGED <<player, next, job, waiting, transition, ended, monitor, active,
                 backend, used, told, given>>

\* _prepare_next_track_for_gapless, for the monitor and after a transition.
PrepareNext(kind) ==
  IF arming.armed THEN UNCHANGED <<arming, holder, queued>> ELSE AskArmLock(kind)

\* mutant: any arming is kept when the next item changes.
InfoChangedKept ==
  IF arming.armed THEN UNCHANGED <<arming, holder, queued>> ELSE AskArmLock("changed")

\* on_next_track_info_changed, up to the lock.
InfoChanged ==
  IF arming.armed /\ next # None /\ arming.pending = next
  THEN UNCHANGED <<arming, holder, queued>> ELSE AskArmLock("changed")

\* The steps of the task that has the lock leave the rest alone.
OnlyArming == UNCHANGED <<player, next, job, waiting, queued, transition, ended, monitor,
                          active, told, given>>

\* The URL and metadata are there, or not; then set_next_track is called.
Resolved ==
  /\ holder.pc = "resolving"
  /\ \/ holder' = [holder EXCEPT !.pc = "setting"] /\ UNCHANGED used
     \/ Uses("bad", MaxBadReads) /\ holder' = NoHold
  /\ UNCHANGED <<arming, backend>> /\ OnlyArming

\* External: set_next_track is accepted by a device that has a track.
BackendSetsNext ==
  /\ holder.pc = "setting"
  /\ \/ /\ backend.track # None /\ UNCHANGED used
        /\ backend' = [backend EXCEPT !.next = holder.track]
        /\ holder' = [holder EXCEPT !.pc = "set"]
     \/ /\ backend.track = None /\ UNCHANGED <<backend, used>>
        /\ holder' = [holder EXCEPT !.pc = "refused"]
     \/ /\ Uses("bad", MaxBadReads) /\ UNCHANGED backend
        /\ holder' = [holder EXCEPT !.pc = "refused"]
  /\ UNCHANGED arming /\ OnlyArming

\* mutant: a stale arm is not marked, but not undone either.
SetNextReturnedKept ==
  /\ holder.pc \in {"set", "refused"}
  /\ arming' = IF holder.pc = "set" /\ arming.fresh
               THEN [arming EXCEPT !.armed = TRUE, !.pending = holder.track] ELSE arming
  /\ holder' = NoHold
  /\ UNCHANGED <<backend, used>> /\ OnlyArming

\* set_next_track returned: a stale arm is undone instead of marked.
SetNextReturned ==
  /\ holder.pc \in {"set", "refused"}
  /\ IF holder.pc = "set"
     THEN IF arming.fresh
          THEN /\ arming' = [arming EXCEPT !.armed = TRUE, !.pending = holder.track]
               /\ holder' = NoHold
          ELSE holder' = [holder EXCEPT !.pc = "undoing"] /\ UNCHANGED arming
     ELSE holder' = NoHold /\ UNCHANGED arming
  /\ UNCHANGED <<backend, used>> /\ OnlyArming

\* External: clear_next_track.
BackendClearsNext ==
  /\ holder.pc \in {"clearing", "undoing"}
  /\ backend' = [backend EXCEPT !.next = None]
  /\ holder' = IF holder.pc = "undoing" THEN NoHold ELSE [holder EXCEPT !.pc = "cleared"]
  /\ UNCHANGED <<arming, used>> /\ OnlyArming

\* on_next_track_info_changed goes on: re-arm if playing.
ClearReturned ==
  /\ holder.pc = "cleared"
  /\ Prepare(holder.kind, arming, player)
  /\ UNCHANGED <<backend, used>> /\ OnlyArming

-----------------------------------------------------------------------------
(* The handling of an end compares the track that ended with the current one,  *)
(* as objects: every load and every transition makes another one current.      *)

Outdated == ended' = IF ended = NoEnd THEN NoEnd ELSE [ended EXCEPT !.stale = TRUE]
Superseded == ended.stale \/ ended.track # player.track

-----------------------------------------------------------------------------
(* Commands: apply_remote_state, and play_track when a track has ended.        *)

\* _next_generation makes those who read _command_generation before stale.
Revoked(j) == [j EXCEPT !.stale = TRUE]
NextGeneration(j) ==
  /\ job' = IF job = NoJob THEN NoJob ELSE Revoked(job)
  /\ waiting' = Append([i \in DOMAIN waiting |-> Revoked(waiting[i])], j)

\* _apply_set_state: the next item is stored before the command is queued.
ReceiveSetState(want, t, n) ==
  /\ Uses("messages", MaxMessages)
  /\ next' = n
  /\ NextGeneration([pc |-> "begin", want |-> want, track |-> t, stale |-> FALSE,
                     changed |-> n # next])
  /\ Outdated
  /\ UNCHANGED <<player, arming, holder, queued, transition, monitor, active, backend,
                 told, given>>

TakePlaybackLock ==
  /\ job = NoJob /\ waiting # <<>>
  /\ job' = Head(waiting) /\ waiting' = Tail(waiting)
  /\ UNCHANGED <<player, arming, next, holder, queued, transition, ended, monitor, active,
                 backend, used, told, given>>

Go(pc) == job' = [job EXCEPT !.pc = pc]
OnlyLoad == UNCHANGED <<next, waiting, holder, queued, transition, monitor, used>>
OnlyJob == OnlyLoad /\ UNCHANGED ended

\* _load_track_locked, after the old track: nothing is said of a load without playback.
Replace ==
  /\ player' = [state |-> IF job.want \in {"playing", "advance"} THEN "LOADING" ELSE "STOPPED",
                track |-> job.track]
  /\ Outdated /\ Go("loading")

\* The end of apply_remote_state: _play_locked, _pause_locked, _stop_playback_locked.
\* _start_playback keeps the track it was asked for.
Starts ==
  /\ player.track # None
  /\ \/ job.want = "advance"
     \/ job.want = "playing" /\ player.state \notin Live
Finish ==
  /\ player' = IF Starts THEN [player EXCEPT !.state = "LOADING"] ELSE player
  /\ arming' = IF job.want = "stopped" THEN Cleared ELSE arming
  /\ job' = [job EXCEPT
               !.pc = CASE Starts -> "starting"
                        [] job.want = "playing" /\ player.state = "PAUSED" -> "resuming"
                        [] job.want = "paused" /\ player.state = "PLAYING" -> "pausing"
                        [] job.want = "stopped" -> "stopping"
                        [] OTHER -> "finished",
               !.track = IF Starts THEN player.track ELSE @]

\* Does the command replace the current track?  play_track always does.
Loads == job.want = "advance" \/ job.track \notin {None, player.track}

\* The command has the lock.
Begin ==
  /\ job.pc = "begin"
  /\ IF job.stale THEN Go("finished") /\ UNCHANGED <<player, arming, ended, told>>
     ELSE IF Loads
     THEN /\ arming' = Cleared /\ UNCHANGED told
          /\ IF player.state \in Live
             THEN Go("unloading") /\ UNCHANGED <<player, ended>> ELSE Replace
     ELSE /\ Finish /\ UNCHANGED ended
          /\ IF Starts THEN Report(player') ELSE UNCHANGED told
  /\ given' = [given EXCEPT !.dropped = @ \/ (job.stale /\ job.want = "advance")]
  /\ UNCHANGED <<active, backend>> /\ OnlyLoad

\* backend.stop, then the outgoing play is ended.
Unloaded ==
  /\ job.pc = "unloading"
  /\ backend' = Silent /\ active' = NoPlay
  /\ IF active = NoPlay THEN Replace ELSE Go("unreporting") /\ UNCHANGED <<player, ended>>
  /\ UNCHANGED <<arming, told, given>> /\ OnlyLoad

Unreported ==
  /\ job.pc = "unreporting"
  /\ Replace
  /\ UNCHANGED <<arming, active, backend, told, given>> /\ OnlyLoad

\* URL and metadata are loaded.  A superseded command leaves nothing LOADING, an
\* advance excepted.  Nobody reports a load that playback does not follow.
Loaded ==
  /\ job.pc = "loading"
  /\ IF job.stale
     THEN /\ player' = [player EXCEPT !.state = IF job.want = "advance" THEN @ ELSE "STOPPED"]
          /\ Go("finished") /\ UNCHANGED arming
     ELSE Finish
  /\ told' = IF ~job.stale /\ Starts THEN Wire(player') ELSE Untold
  /\ UNCHANGED <<active, backend, given>> /\ OnlyJob

\* backend.play and the report.  Meanwhile the current track may have ended, or moved on, on
\* a device that still played (given.crossed).
Started ==
  /\ job.pc = "starting"
  /\ backend' = [track |-> job.track, next |-> None, mode |-> "playing"]
  /\ player' = [player EXCEPT !.state = "PLAYING"] /\ Report(player') /\ Go("notePlaying")
  /\ given' = [given EXCEPT !.crossed = @ \/ player.track # job.track
                                         \/ (ended # NoEnd /\ ~Superseded)]
  /\ UNCHANGED <<arming, active>> /\ OnlyJob

\* backend.resume, which succeeds if the device has a track, and the report.
Resumed ==
  /\ job.pc = "resuming"
  /\ IF backend.track = None
     THEN Report(player) /\ Go("finished") /\ UNCHANGED <<player, backend>>
     ELSE /\ backend' = [backend EXCEPT !.mode = "playing"]
          /\ player' = [player EXCEPT !.state = "PLAYING"] /\ Report(player')
          /\ Go("notePlaying")
  /\ UNCHANGED <<arming, active, given>> /\ OnlyJob

\* _report_playing: note_playing of the current track.
PlayNoted ==
  /\ job.pc = "notePlaying"
  /\ active' = Noted(player.track) /\ Notes("PLAYING")
  /\ job' = [job EXCEPT !.pc = IF MustEnd(player.track) THEN "swapping" ELSE "finished",
                        !.track = player.track]
  /\ UNCHANGED <<player, arming, backend, told>> /\ OnlyJob

JobSwaps ==
  /\ job.pc = "swapping"
  /\ Store(job.track) /\ Go("finished")
  /\ UNCHANGED <<player, arming, backend, told>> /\ OnlyJob

\* backend.pause and the report, then note_paused.  The monitor's count of an earlier pause
\* is still there if it has not woken in between (given.carried).
Paused ==
  /\ job.pc = "pausing"
  /\ backend' = [backend EXCEPT !.mode = IF @ = "playing" THEN "paused" ELSE @]
  /\ player' = [player EXCEPT !.state = "PAUSED"] /\ Report(player')
  /\ Go("notePaused")
  /\ given' = [given EXCEPT !.carried = @ \/ monitor.stops > 0]
  /\ UNCHANGED <<arming, active>> /\ OnlyJob

PauseNoted ==
  /\ job.pc = "notePaused"
  /\ NotePaused /\ Notes("PAUSED") /\ Go("finished")
  /\ UNCHANGED <<player, arming, backend, told>> /\ OnlyJob

\* backend.stop and the report, then note_stopped.
Stopped ==
  /\ job.pc = "stopping"
  /\ backend' = Silent
  /\ player' = [player EXCEPT !.state = "STOPPED"] /\ Report(player')
  /\ Go("noteStopped")
  /\ UNCHANGED <<arming, active, given>> /\ OnlyJob

StopNoted ==
  /\ job.pc = "noteStopped"
  /\ active' = NoPlay /\ Notes("STOPPED") /\ Go("finished")
  /\ UNCHANGED <<player, arming, backend, told>> /\ OnlyJob

\* The lock is released; _apply_set_state tells the player of a new next item.
JobEnds ==
  /\ job.pc = "finished"
  /\ job' = NoJob
  /\ IF job.changed THEN InfoChanged ELSE UNCHANGED <<arming, holder, queued>>
  /\ UNCHANGED <<player, next, waiting, transition, ended, monitor, active, backend, used,
                 told, given>>

-----------------------------------------------------------------------------
(* The device, its events and the tasks they start.                            *)

\* mutant: the player stays at the track that is over.
TransitionRunsInPlace ==
  IF ~arming.armed
  THEN /\ given' = [given EXCEPT !.missed = TRUE]
       /\ UNCHANGED <<player, arming, next, transition, ended>>
  ELSE /\ arming' = [arming EXCEPT !.armed = FALSE, !.pending = None]
       /\ next' = None
       /\ transition' = [pc |-> "quality", track |-> None] /\ UNCHANGED <<player, ended, given>>

\* _handle_gapless_transition, up to the quality report.
TransitionRuns ==
  IF ~arming.armed
  THEN /\ given' = [given EXCEPT !.missed = TRUE]
       /\ UNCHANGED <<player, arming, next, transition, ended>>
  ELSE /\ player' = [player EXCEPT !.track = arming.pending]
       /\ arming' = [arming EXCEPT !.armed = FALSE, !.pending = None]
       /\ next' = None
       /\ transition' = [pc |-> "quality", track |-> None]
       /\ Outdated /\ UNCHANGED given

\* A track outlasts the handling of its start.
Settled == transition = NoMove /\ job.pc \notin {"notePlaying", "swapping"}

\* External: the next track starts by itself and _on_next_track_started creates the
\* task that handles it.
BackendAdvances ==
  /\ backend.mode = "playing" /\ backend.next # None /\ Settled
  /\ Uses("ends", MaxEnds)
  /\ backend' = [backend EXCEPT !.track = backend.next, !.next = None]
  /\ TransitionRuns
  /\ UNCHANGED <<job, waiting, holder, queued, monitor, active, told>>

\* mutant: the play of the track that ended stays open.
EndedRunsOpen ==
  /\ ended' = [pc |-> "reporting", track |-> player.track, stale |-> FALSE]
  /\ arming' = Cleared /\ UNCHANGED active

\* _handle_track_ended, up to the end report: the arming is forgotten.
EndedRuns ==
  /\ ended' = [pc |-> "reporting", track |-> player.track, stale |-> FALSE]
  /\ arming' = Cleared /\ active' = NoPlay

\* External: the last track ends; _on_track_ended passes on what was current.
BackendEnds ==
  /\ backend.mode = "playing" /\ backend.next = None /\ ended = NoEnd /\ Settled
  /\ Uses("ends", MaxEnds)
  /\ backend' = Silent
  /\ EndedRuns
  /\ UNCHANGED <<player, next, job, waiting, holder, queued, transition, monitor, told, given>>

\* External: somebody pauses, resumes or stops the device.
DeviceOperated(mode) ==
  /\ backend.track # None /\ mode # backend.mode
  /\ Uses("device", MaxDevice)
  /\ backend' = IF mode = "stopped" THEN Silent ELSE [backend EXCEPT !.mode = mode]
  /\ UNCHANGED <<player, arming, next, job, waiting, holder, queued, transition, ended, monitor,
                 active, told, given>>

\* Speaker._on_external_playback, release_external_playback: another source plays.
ReleaseExternalPlayback ==
  /\ Uses("device", MaxDevice)
  /\ backend' = Silent /\ next' = None /\ arming' = Cleared
  /\ job' = IF job = NoJob THEN NoJob ELSE [job EXCEPT !.stale = TRUE, !.changed = FALSE]
  /\ waiting' = [i \in DOMAIN waiting |-> [waiting[i] EXCEPT !.stale = TRUE, !.changed = FALSE]]
  /\ Outdated
  /\ player' = [player EXCEPT !.state = "STOPPED"]
  /\ active' = NoPlay /\ told' = Untold
  /\ UNCHANGED <<holder, queued, transition, monitor, given>>

\* _report_playing of whatever is current now, up to the await.
TransitionReports ==
  /\ transition.pc = "quality"
  /\ active' = Noted(player.track) /\ Notes("PLAYING")
  /\ transition' = IF MustEnd(player.track) THEN [pc |-> "swapping", track |-> player.track]
                   ELSE [transition EXCEPT !.pc = "update"]
  /\ UNCHANGED <<player, arming, next, job, waiting, holder, queued, ended, monitor, backend,
                 used, told>>

TransitionSwaps ==
  /\ transition.pc = "swapping"
  /\ Store(transition.track) /\ transition' = [pc |-> "update", track |-> None]
  /\ UNCHANGED <<player, arming, next, job, waiting, holder, queued, ended, monitor, backend,
                 used, told>>

\* mutant: the app is not told.
TransitionEndsSilently ==
  /\ transition.pc = "update"
  /\ transition' = NoMove
  /\ PrepareNext("transition")
  /\ UNCHANGED <<player, next, job, waiting, ended, monitor, active, backend, used, given, told>>

\* The report, then the track after the next is armed.
TransitionEnds ==
  /\ transition.pc = "update"
  /\ Report(player) /\ transition' = NoMove
  /\ PrepareNext("transition")
  /\ UNCHANGED <<player, next, job, waiting, ended, monitor, active, backend, used, given>>

\* Superseded, on to the next item, or stop.  That repeat-one starts the same track again under the
\* lock is in PlaybackControl.
EndedDecides ==
  /\ ended # NoEnd
  /\ ended' = NoEnd
  /\ CASE Superseded -> UNCHANGED <<player, next, job, waiting, told>>
       [] ~Superseded /\ next # None ->
            /\ NextGeneration([pc |-> "begin", want |-> "advance", track |-> next,
                               stale |-> FALSE, changed |-> FALSE])
            /\ next' = None /\ UNCHANGED <<player, told>>
       [] OTHER ->
            /\ player' = [state |-> "STOPPED", track |-> None]
            /\ Report(player') /\ UNCHANGED <<next, job, waiting>>
  /\ given' = [given EXCEPT !.dropped = @ \/ (Superseded /\ player.state = "PLAYING")]
  /\ UNCHANGED <<arming, holder, queued, transition, monitor, active, backend, used>>

-----------------------------------------------------------------------------
(* _playback_monitor_loop.  Its counters are read and written here alone.      *)

OnlyMonitor == UNCHANGED <<next, job, waiting, transition, ended, backend>>

\* get_state: a failed read looks like STOPPED.
Reads(mode) ==
  \/ mode = backend.mode /\ UNCHANGED used
  \/ mode = "stopped" /\ backend.mode # "stopped" /\ Uses("bad", MaxBadReads)

Sleep == monitor' = [monitor EXCEPT !.pc = "sleep"]

MonitorWakes ==
  /\ monitor.pc = "sleep"
  /\ \/ /\ player.state = "PLAYING"
        /\ monitor' = [monitor EXCEPT !.pc = "polling", !.stops = 0]
     \/ player.state = "PAUSED" /\ monitor' = [monitor EXCEPT !.pc = "pausedPolling"]
     \/ /\ player.state \notin Live
        /\ monitor' = [monitor EXCEPT !.stops = 0, !.plays = 0]
  /\ UNCHANGED <<player, arming, holder, queued, active, used, told, given>> /\ OnlyMonitor

\* While PLAYING: a pause at the device is taken over, then the position is read.
PollReturns ==
  /\ monitor.pc = "polling"
  /\ \E mode \in {"stopped", "playing", "paused"} :
       /\ Reads(mode)
       /\ IF player.state # "PLAYING" THEN Sleep /\ UNCHANGED <<player, told>>
          ELSE IF mode = "paused"
          THEN /\ player' = [player EXCEPT !.state = "PAUSED"] /\ Report(player')
               /\ monitor' = [monitor EXCEPT !.pc = "notePaused"]
          ELSE monitor' = [monitor EXCEPT !.pc = "position"] /\ UNCHANGED <<player, told>>
  /\ UNCHANGED <<arming, holder, queued, active, given>> /\ OnlyMonitor

MonitorNotesPause ==
  /\ monitor.pc = "notePaused"
  /\ NotePaused /\ Notes("PAUSED") /\ monitor' = [monitor EXCEPT !.pc = "position"]
  /\ UNCHANGED <<player, arming, holder, queued, used, told>> /\ OnlyMonitor

\* The position is only set while PLAYING; then the next track is armed.
PositionRead ==
  /\ monitor.pc = "position"
  /\ IF player.state = "PLAYING"
     THEN PrepareNext("monitor") /\ monitor' = [monitor EXCEPT !.pc = "arming"]
     ELSE Sleep /\ UNCHANGED <<arming, holder, queued>>
  /\ UNCHANGED <<player, active, used, told, given>> /\ OnlyMonitor

MonitorArmed ==
  /\ monitor.pc = "arming" /\ holder.kind # "monitor"
  /\ \A i \in DOMAIN queued : queued[i] # "monitor"
  /\ Sleep
  /\ UNCHANGED <<player, arming, holder, queued, active, used, told, given>> /\ OnlyMonitor

ConfirmedByOne == monitor.stops >= 0         \* mutant: the first poll is trusted
Confirmed == monitor.stops + 1 >= StopConfirmations

\* The device plays: once that is confirmed, and no command is at it, its position is read.
PausedSeesPlay ==
  /\ monitor' = [monitor EXCEPT !.stops = 0,
                                !.plays = IF job # NoJob \/ @ + 1 >= PlayConfirmations THEN 0
                                          ELSE @ + 1,
                                !.pc = IF job = NoJob /\ monitor.plays + 1 >= PlayConfirmations
                                       THEN "resumePosition" ELSE "sleep"]
  /\ UNCHANGED <<player, told, given>>

\* The device has stopped; or reads failed one after the other (given.misled).
PausedSeesStop ==
  /\ Confirmed
  /\ player' = [player EXCEPT !.state = "STOPPED"] /\ Report(player')
  /\ monitor' = [monitor EXCEPT !.stops = 0, !.plays = 0, !.pc = "noteStopped"]
  /\ given' = [given EXCEPT !.misled = @ \/ backend.track # None]

PausedCounts(stops) ==
  /\ monitor' = [monitor EXCEPT !.stops = stops, !.plays = 0, !.pc = "sleep"]
  /\ UNCHANGED <<player, told, given>>

\* While PAUSED: confirmed polls tell a resume or a stop at the device.
PausedPollReturns ==
  /\ monitor.pc = "pausedPolling"
  /\ \E mode \in {"stopped", "playing", "paused"} :
       /\ Reads(mode)
       /\ \/ player.state # "PAUSED" /\ Sleep /\ UNCHANGED <<player, told, given>>
          \/ player.state = "PAUSED" /\ mode = "playing" /\ PausedSeesPlay
          \/ player.state = "PAUSED" /\ mode = "stopped" /\ PausedSeesStop
          \/ /\ player.state = "PAUSED" /\ mode = "stopped" /\ ~Confirmed
             /\ PausedCounts(monitor.stops + 1)
          \/ player.state = "PAUSED" /\ mode = "paused" /\ PausedCounts(0)
  /\ UNCHANGED <<arming, holder, queued, active>> /\ OnlyMonitor

\* The position is there: the player is PLAYING again and says so.
MonitorResumes ==
  /\ monitor.pc = "resumePosition"
  /\ IF player.state = "PAUSED"
     THEN /\ player' = [player EXCEPT !.state = "PLAYING"] /\ Report(player')
          /\ monitor' = [monitor EXCEPT !.pc = "notePlaying"]
     ELSE Sleep /\ UNCHANGED <<player, told>>
  /\ UNCHANGED <<arming, holder, queued, active, used, given>> /\ OnlyMonitor

MonitorNotesPlay ==
  /\ monitor.pc = "notePlaying"
  /\ active' = Noted(player.track) /\ Notes("PLAYING")
  /\ monitor' = [monitor EXCEPT !.pc = IF MustEnd(player.track) THEN "swapping" ELSE "sleep",
                                !.track = IF MustEnd(player.track) THEN player.track ELSE None]
  /\ UNCHANGED <<player, arming, holder, queued, used, told>> /\ OnlyMonitor

MonitorSwaps ==
  /\ monitor.pc = "swapping"
  /\ Store(monitor.track) /\ monitor' = [monitor EXCEPT !.pc = "sleep", !.track = None]
  /\ UNCHANGED <<player, arming, holder, queued, used, told>> /\ OnlyMonitor

MonitorNotesStop ==
  /\ monitor.pc = "noteStopped"
  /\ active' = NoPlay /\ Notes("STOPPED") /\ Sleep
  /\ UNCHANGED <<player, arming, holder, queued, used, told>> /\ OnlyMonitor

\* _heartbeat_loop: a report every five seconds while PLAYING.
Heartbeat ==
  /\ player.state = "PLAYING" /\ told # Wire(player)
  /\ Report(player)
  /\ UNCHANGED <<player, arming, next, job, waiting, holder, queued, transition, ended,
                 monitor, active, backend, used, given>>

-----------------------------------------------------------------------------
ArmingStep == TakeArmLock \/ Resolved \/ SetNextReturned \/ ClearReturned
JobStep == \/ TakePlaybackLock \/ Begin \/ Unloaded \/ Unreported \/ Loaded \/ Started \/ Resumed
           \/ PlayNoted
           \/ JobSwaps \/ Paused \/ PauseNoted \/ Stopped \/ StopNoted \/ JobEnds
TransitionStep == TransitionReports \/ TransitionSwaps \/ TransitionEnds
EndedStep == EndedDecides
MonitorStep == \/ MonitorWakes \/ PollReturns \/ MonitorNotesPause \/ PositionRead
               \/ PausedPollReturns \/ MonitorResumes \/ MonitorNotesPlay \/ MonitorSwaps
               \/ MonitorNotesStop \/ MonitorArmed
\* A message without a playing state changes the next item only.
Messages ==
  \/ \E t \in Tracks \cup {None} : \E n \in (Tracks \ {t}) \cup {None} :
       \E want \in {"playing", "paused", "stopped"} : ReceiveSetState(want, t, n)
  \/ \E n \in Tracks \cup {None} : ReceiveSetState("none", None, n)

Next ==
  \/ Messages \/ JobStep
  \/ ArmingStep \/ BackendSetsNext \/ BackendClearsNext
  \/ BackendAdvances \/ BackendEnds
  \/ \E mode \in {"playing", "paused", "stopped"} : DeviceOperated(mode)
  \/ ReleaseExternalPlayback
  \/ TransitionStep \/ EndedStep \/ MonitorStep \/ Heartbeat

Spec == Init /\ [][Next]_vars

-----------------------------------------------------------------------------
\* Every variable has its type; an armed track is known; the monitor's counters stay
\* below their confirmations.
TypeOK ==
  /\ player.state \in {"STOPPED", "LOADING", "PLAYING", "PAUSED"}
  /\ player.track \in Tracks \cup {None} /\ next \in Tracks \cup {None}
  /\ arming \in [armed : BOOLEAN, pending : Tracks \cup {None}, fresh : BOOLEAN]
  /\ arming.armed = (arming.pending # None)
  /\ monitor.stops < StopConfirmations /\ monitor.plays < PlayConfirmations
  /\ backend.mode \in {"stopped", "playing", "paused"}
  /\ backend.track = None => backend = Silent

\* Nothing is under way: no command, arming, transition, end or report.
Quiet ==
  /\ job = NoJob /\ waiting = <<>> /\ holder = NoHold /\ queued = <<>>
  /\ transition = NoMove /\ ended = NoEnd /\ monitor.pc = "sleep"

\* The player knows what its device does: no failed reads were taken for a stop, and no end
\* or move of the device fell into the start of a play.
Trusted == ~given.misled /\ ~given.crossed

\* Gapless follows the app: when nothing is under way, the armed track is the next item
\* of the last SET_STATE, however changes, armings and transitions overlapped; unless the
\* end of a track consumed the next item and was then dropped for a newer command.
ArmedFollowsApp == Quiet /\ arming.armed /\ ~given.dropped => arming.pending = next

\* What the device will play next by itself is what the player has armed: no arming
\* that went stale, or was cleared while it was under way, is left behind.
QueuedIsArmed == Quiet /\ Trusted /\ backend.next # None => arming.pending = backend.next

\* The player believes in the track that is heard, also after the device moved on by
\* itself.  A move while nothing is armed is not followed (given.missed).
TransitionsFollowed ==
  Quiet /\ Trusted /\ ~given.missed /\ player.state = "PLAYING" /\ backend.track # None
    => player.track = backend.track

\* The open play is the current track of a player that plays or pauses, and a player
\* that plays has one; except for notes that came late, the end of a track that was
\* dropped for a newer command (PlaybackControl).
OpenPlayIsHeard ==
  Quiet /\ ~given.late /\ ~given.dropped =>
    /\ active # NoPlay => player.state \in Live /\ active.track = player.track
    /\ player.state = "PLAYING" /\ player.track # None => active # NoPlay

\* The clock of the open play runs exactly while the player plays: a pause, by the app
\* or at the device, is not counted as listening, and a resume is.
ClockRuns == Quiet /\ active # NoPlay /\ ~given.late => (active.runs <=> player.state = "PLAYING")

\* The last state report shows the state and the item the player has, whoever of the
\* commands, the transition, the end and the monitor changed them last.
ReportsAreTrue == Quiet => told \in {Untold, Wire(player)}

\* A paused listen is ended by the monitor only if the device has stopped: fewer failed reads
\* than confirmations do not end it.  Left out: a count that an earlier pause left behind.
PausedListenSurvives ==
  [][/\ monitor.pc = "pausedPolling" /\ monitor'.pc = "noteStopped"
     /\ used'.bad < StopConfirmations /\ ~given.carried
     => backend.mode = "stopped"]_vars

\* What is armed, here and on the device, is the app's next item (_prepare_next_track_for_gapless,
\* on_next_track_info_changed); with the types.
ArmingIsRight == TypeOK /\ ArmedFollowsApp /\ QueuedIsArmed

\* What the app is told is what the player has, and that is what is heard
\* (_handle_gapless_transition, state_reporter.py).
ToldIsHeard == TransitionsFollowed /\ ReportsAreTrue

\* The listening history: a play is open for what is heard, and only listening counts
\* (play_reporter.py).
HistoryIsTrue == OpenPlayIsHeard /\ ClockRuns
=============================================================================
