# TLA+ models of QobuzProxy

QobuzProxy makes a DLNA renderer, a Lyrion (LMS/Squeezebox) player or a local sound
device appear as a Qobuz Connect speaker.  It holds a WebSocket to the Qobuz server,
obeys the server's commands while it is the active renderer, drives the device and
reports what it does.  The modules in this directory model that program's control:
who may act, in which order, and what is left behind when something fails half way.
They are checked with TLC on small instances; parts are proved with TLAPS for all.

Paths below are relative to `src/qobuz_proxy/`.  `PROJECT.json` maps every definition
that stands for code to the lines it stands for.

## 1. The system

Each speaker is one asyncio program: every component runs on one event loop, and
interleaving happens at `await`s only.  Exceptions are the audio callback and the
decoder threads of the local backend.

| component | state it keeps | operations | what makes it correct |
|---|---|---|---|
| WebSocket manager `connect/ws_manager.py` | tokens and their version, session, connection and ownership flags, ownership generation, armed selection, send lock | `set_tokens`, `start`, `stop`, `release_external_playback`, connection loop, receive, send methods | reports only as the owner; a connection stands for the newest tokens and session; a selection is used once and not lost; always back on line |
| command handler `playback/command_handler.py` | ownership flag, generation, last deactivation, next item | `note_connected/disconnected`, `dispatch_message`, `handle_message` | only commands of the present tenure reach the player; a deactivation is never lost |
| player `playback/player.py` | playback state, current track and its URL, command number, lock, pending skip, position and volume, armed next track | `apply_remote_state`, `stop_playback`, `reload_current_track`, `_handle_track_ended`, skip timer, gapless arming, monitor loop | the newest intent wins as a unit; reported state is audible state; no wait without end; the next track is the one the app asked for |
| speaker `speaker.py` | references to all parts, set-up lock | `start`, `stop`, `_setup_websocket`, `_on_external_playback` | callbacks keep the parts in step; no part outlives a stop |
| queue `playback/queue.py`, `queue_handler.py` | tracks, order, index, shuffle, repeat | server queue messages, next/previous | shuffle is a permutation; the current item survives edits |
| play reporter `playback/play_reporter.py` | the play under way | `note_playing/paused/resumed/stopped` | every play that was started is ended once |
| state reporter `playback/state_reporter.py` | last report, heartbeat task | `report_now`, heartbeat | reports describe one moment and are not sent out of order |
| LMS backend `backends/lms/backend.py` | expected playlist, last status, transition bookkeeping | play, pause, stop, queue next, poll loop | playlist edits by index hit the entry that was meant; a failed start is seen |
| local backend `backends/local/` | ring buffer, feeding task, output stream, prepared next track | write/read, play, seek, gapless hand-over | no frame lost, duplicated or of a replaced track; ends once |
| DLNA backend and proxy `backends/dlna/` | current URI, transport state, external-playback flag, registered URLs | SOAP calls, poll loop, selection, HTTP streaming | another controller is detected and not disturbed |
| metadata service `playback/metadata.py` | caches with expiry | look up track and URL | stale URLs are not used |
| application `app.py` | running speakers, retry tasks, the token's validation, configuration | start, login, logout, add, edit and remove speakers, shutdown | no speaker runs unknown to the program; every configured one comes up; a logout is silent |
| discovery, codec, authentication, configuration parsing, web UI | see the notes in `PROJECT.json` | | |

How they interact.  Discovery calls `Speaker._on_app_connected`, which calls
`WsManager.set_tokens`.  The manager's receive loop calls the handler's
`dispatch_message`; the handler creates one task per message, and these call the
player.  The manager tells the handler about connections and takeovers
(`note_connected`, `note_disconnected`), and the handler tells the player to forget
registered commands (`invalidate_pending_commands`).  The player calls the backend under
`_playback_lock`, and reports through the manager.  The backend calls back: track
ended, gapless transition, error, external playback.  The player asks the server for
the next item with `request_next_track`.

What is hard about it.

* *Interleaving at awaits.*  A handshake is five awaits, a load two or more, a start
  three; tokens, ownership changes, commands and ends of tracks arrive between them.
* *Two copies of one fact.*  Ownership is kept by the manager and by the handler; the
  playback state by the player and by the device.
* *Lost connections.*  They revoke what was registered before, except what must
  survive them: the stop of a deactivation, the user's selection of this speaker.
* *Ordering.*  Every message is a task; ends of tracks are tasks as well; the lock
  serves them first come, first served.
* *Failure half way.*  An item that cannot be fetched after the old one was stopped; a
  rejected resume; a join that fails after the selection was read.

* *Devices with a will of their own.*  A renderer moves on to the next track, is operated
  at its buttons and is taken over by other sources between the reading of its status and
  the request that follows from it; a request's answer gets lost after it was carried out.
* *Lists of running tasks.*  Retries, requests of the web UI and the shutdown edit the same
  lists of speakers across awaits.

The hazards, with line and properties, are in `PROJECT.json`.

## 2. The modules

| module | what it is | its proofs |
|---|---|---|
| `WsManager` | the WebSocket manager | `SessionProofs` |
| `CommandHandler` | the command handler: a library of state and steps, used by the next two | |
| `Session` | manager and handler composed | `SessionProofs` |
| `PlaybackControl` | handler and player, with the lock, the backend's answers and its events | `PlaybackControlProofs` |
| `Gapless` | the player's arming, transitions, ends and monitor, with play and state reporter | `GaplessProofs` |
| `Queue` | the playback queue, its messages, its preload loop and the player's skips through it | `QueueProofs` |
| `PlayOrder` | what a queue promises: a play order of the server's list (abstract; implemented by `Queue`) | |
| `LmsBackend` | the LMS backend against a player that plays on by itself | `LmsProofs` |
| `DlnaBackend` | the DLNA backend against a renderer others may take over | `DlnaProofs` |
| `LocalBackend` | feeding loop, hand-over, commands and the audio thread of the local backend | `LocalBackendProofs` |
| `RingBuffer` | the ring buffer, a library used by `LocalBackend` | `LocalBackendProofs` |
| `Fifo` | a bounded queue (abstract; implemented by the ring buffer under `LocalBackend`) | |
| `Lifecycle` | the application and the start, set-up and stop of its speakers | `LifecycleProofs` |

Each module with a specification, except the abstract ones, has an instance for TLC, `MC...`.  Two composites are not made: `Gapless` with
a backend, and `PlaybackControl` with `Gapless`.  Each side has the other's contract as an
action (`BackendAdvances`, `JobStep`), because the products are far beyond TLC.

### WsManager

One variable for each field of the class that its decisions read, the local
variables of `_connect_and_run` and `_send_join_session` in the record `conn`, and `phase`,
the await at which the one connection task is suspended:

    idle -> checking -> [minting -> [sleeping]] -> opening -> authenticating ->
    subscribing -> joining -> running -> leaving -> backoff or checking or stopped

An action is what happens between two awaits.  `SetTokens`, `Stop`,
`ReleaseExternalPlayback`, `StartSend` and the expiry of the token are calls of other tasks
and may come at any await.  A token is a serial number; a token push and a minted token
take the next one.  The owner-scoped sends (`send_state_update`,
`request_next_track`) are modelled one by one with the generation they captured and
the check under `_send_lock`; of the device-scoped ones what matters is that they hold the
lock.  `set_tokens` is modelled with both values of `activate`, though the speaker
always passes True.  `heard` (what the server last said on this socket), `consumed`
(selections carried by a join) and the field `owned` of a send (whether its caller was
the owner, and no interruption followed) are history: no guard reads them.

Abstracted: message encoding, endpoints and URLs, the length of backoff delays, the
ten-second receive timeout (`RefreshWhenIdle` may happen whenever the token nears expiry).

### CommandHandler, Session

`dispatch_message` records ownership at once and appends a task to `inbox`; `RunTask` is
the oldest task up to its call of the player, named by `PlayerCall`: `apply`
(a SET_STATE), `stop` (a deactivation), `volume` (an activation), `reload` (a quality
message) or `none` (stale).  Tasks start in the order of their creation, as asyncio
does it, and none suspends before its call: the queue methods on the way take a lock
that no holder keeps over an await.

`Session` runs a step of the manager and, where the code calls back, the
handler's part of it in the same action.  `tenure` counts how often ownership ended
and `owedStop` remembers a deactivation that has not asked for its stop yet; both are
history.

### PlaybackControl

The holder of `_playback_lock` is `job`, suspended at the await `job.pc`; `waiting` is the
queue of the lock.  A command is registered (`Register`, the code's
`_next_generation`), then takes the lock or queues (`Enter`), compares its number once it
has the lock (`TakeLock`) and begins (`Begin`).  One action for each await it may be
suspended at says what the answer does: `Permitted`, `Unloaded`, `Loaded`,
`LoadFails`, `Sought`, `Announced`, `Played`, `Resumed`, `Paused`, `Stopped`, `Halted`,
`Reloading`, `Reported`.  `audio` is what the device does.  `Played` has three outcomes: the
track plays; `backend.play` raises; or it notifies the error and returns, as all three
backends do when a track cannot be loaded or started (`lms/backend.py:318-322`,
`dlna/backend.py:322,356-360,389-390`, `local/backend.py:139-142`), after which
`_start_playback` sets PLAYING (`player.py:1293-1304`).  `TrackEnds`, `PlaybackError` and the
timer of a pending skip come from outside; `_handle_track_ended` is a task of its own
(`ended`), with the numbers of tasks that were ready before it.

`ReleaseExternalPlayback` combines the calls the speaker makes one after the other, of
which none suspends before the player's state is changed.

Left out, and why.  Gapless arming and the monitor loop are in `Gapless`; without them
tracks end with a stop of the device.  The
monitor loop does not correct a PLAYING state over a STOPPED device
(`player.py:1828-1830`), so it would not repair what `SilentPlaying` shows.  The queue
is empty: a Qobuz Connect renderer is told the current and the next item, so
`_handle_track_ended` falls through to the handler's next item.
`_skip_past_unplayable_locked` always finds the NEXT request callback set and
is therefore `BeginSkipWait`.  A stop or a pause that the device refuses is left out: the
backends log it (`dlna/backend.py:408-419`, `lms/backend.py:349-361`), and the player's state follows
its request.  Positions appear as a choice: whether a message seeks,
whether a pause is a stale snapshot.

### Gapless

The tasks that run beside the commands.  The holder of `_gapless_arm_lock` is `holder`,
`queued` waits for it.  A transition (`_handle_gapless_transition`) and an end
(`_handle_track_ended`) are tasks of their own, and the monitor sleeps, polls or ends a
play it has confirmed as stopped.  `_command_generation` and
`_transition_generation` are kept as the staleness of the tasks that captured them.  The
play reporter is `active`, with the await of its end report inside the transition, end and monitor
tasks; a state report is built in one step from the player, after the awaits that fetch
the position, so it shows one moment of state and item.  The command path is a reduction
of `PlaybackControl`'s: no load fails, because what a failing load does is checked there.
`_start_playback` keeps the track it began with, so a command that starts has it in its
`track`.  `_handle_track_ended` compares tracks as objects: every load and transition makes the
end that is being handled stale (`Outdated`).  Its restart under repeat-one
(`player.py:1428-1432`) is in `PlaybackControl` and not here: it starts the current track again
under the lock, as a command does.
The device follows the contract of `backends/base.py`: it plays one track and holds at
most one next.

### Queue, PlayOrder

A queue operation holds the queue's lock without awaiting, so it is one step, and so is a
queue message, which loads and then shuffles.  The preload loop is `loader`: it collects
the window and fetches metadata and URL of each of its tracks, and the queue may be
replaced at both awaits.  `random.shuffle` is any permutation.  `PlayOrder` has
only a list of items in play order and a place in it; `Queue` implements it with the items
mapped through `_shuffled_indexes`.  `meant` is history: the item the last operation
meant to make or leave current.

### LmsBackend, DlnaBackend

In both, a few tasks talk to one device: the poll loop, one command (the player holds
its lock), one arming (it holds the arm lock) and, for DLNA, whoever else asks
`check_external_playback`.  Each has at most one request on its way.  The device is a
state machine next to them: it moves on, ends, and is operated or taken over by others.  Of a status,
what matters is which moment it describes; it is asked, served and returned in three
steps.  Every other LMS request is sent and served in two.  For DLNA, a command of the
player is sent, done and returned, and other requests take effect when answered; their
retries after a lost reply (`client.py`) are outcomes of those actions.

A Lyrion player's playlist is a sequence with an index, the commands are those the backend sends,
and `orphan` is `_orphan_url`.  A Sonos plays a queue; any other renderer has a next URI.
`sonos` is chosen at the start.  The grace period of a DLNA play ends at any moment (`GraceEnds`): it lasts
five seconds (`dlna/backend.py:38,156,665-668`), while a request may take ten and be sent again
(`client.py:29-31`).  A takeover clears the backend's state, and the
callback it awaits changes manager and player before its first await, so it is one step;
a selection that asked goes on in a step of its own (`AskAnswered`, pc `released`).  In `LmsBackend` the
two seconds after a change of the next track may or may not be over when a status returns (`Ripe`).
`given` in both records what went wrong where the code
has no defence; the properties name each such case in their comment.

### LocalBackend, RingBuffer, Fifo

Four parties work on one buffer: the feeding loop, PortAudio's thread, the player's
command and its gapless arming.  `RingBuffer` has the two-part copies of `write` and
`read` over the wrap-around; both run under the buffer's lock and are single steps.  A
frame is a pair of track and number.  Downloads and decoder threads end whenever they
like, or fail.  Pause, resume and seek are guarded by what the player shows (`believed`), as in the code:
the backend itself does not look at its state (`local/backend.py:473-486`).  PortAudio is taken to
work: a stream that is opened opens, also for another format (`Reformat`,
`local/backend.py:425`, `209-212`).  `last` (last frame heard), `armed`, `sought` and `ended` are
history.  `Fifo` is a bounded queue with put, get, clear and, for another sample format, an exchange;
`BufferIsFifo` says that the buffer, under all four parties, does nothing else.

### Lifecycle

The coroutines are the validation of the saved token, the requests of the web UI and the retry tasks; each
holds the `Speaker` objects it starts or stops until their `start` or `stop` returned.  A
`Speaker` goes through its phases and its connection through `none`, `setting` and `on`.  The app may
connect as long as discovery serves, which is from the last await of a start nearly to the end of a stop
(`speaker.py:379-388`), and nobody on that path asks whether the speaker runs (`416-419`, `428-533`).  A
stop drops the manager that it finds; one that is made later stays (`Left`).
`config` has a version number for each name: an edit takes the next one.  A cancelled
coroutine ends at the await it is at, with what its `finally` does.

## 3. The runs

| run | instance | what it shows |
|---|---|---|
| `ws_ownership` | 2 sessions, 1 sender, 2 pushes, 2 tokens, 1 failure, 2 SET_ACTIVE, 1 takeover | the safety properties of the manager; a selection reaches the server; it comes back on line |
| `session` | 2 sessions, 4 messages, 3 tasks waiting, 1 failure, 1 takeover | manager and handler agree; stale commands die; deactivations are kept |
| `playback_control` | 2 tracks, 3 messages, 3 waiting, 2 disconnects, 2 ends, 2 failures, skip limit 1 | the newest SET_STATE decides; the reported state is heard; deactivations silence; a pending skip ends |
| `gapless` | 3 tracks, 2 messages, 2 ends, 1 operation at the device, 1 failed read | arming follows the app; history and reports say what is heard |
| `queue` | lists of 3 and of 1, 2 loads, 2 other operations, 1 failure, window 2 | the queue implements a play order; skips move on; URLs stay fresh |
| `lms_backend` | 3 tracks, 2 commands, 3 armings, 1 advance, 1 other controller, 1 lost request | the playlist holds what the backend knows; the player is told what is heard |
| `dlna_backend` | 3 URLs, Sonos and not, 3 tasks, 2 events | ends and takeovers are real; what plays next was armed |
| `local_backend` | tracks of 4 and 2 frames and one of another format, buffer of 3, chunks and blocks of 2, 3 commands, 2 armings, 1 failure | audio is continuous; positions, transitions and ends are told as heard |
| `lifecycle` | 2 names, 1 saved, 4 speakers, 2 requests at once, 3 retries, 2 failures, 1 selection | no speaker is lost or left running; all come up |
| `lost_deactivation`, `stuck_loading`, `silent_playing` | small instances of `PlaybackControl` | three disagreements of code and comments, below |

**Bounds.**  A property about two overlapping tasks needs both of them, what made each
start, and one event between; the bounds give each instance that and one more.

* The manager's properties relate a handshake to what overtakes it: a
  second push, token and message have to fit into one handshake and one reconnect must
  follow.  One sender is enough for the send lock, as
  `DeviceSend` holds it for any length of time.
* The properties of the command path are about a command under way, one queued behind it
  and one that overtakes both: three messages.  Two tracks
  distinguish "the same" from "another" item.  The skip limit is 20 in the code
  (`player.py:57`); one is enough to reach it, and nothing depends on its value.  An instance with four messages,
  no disconnect and one failure (2.5 million states) was explored as well.
* A track armed, one armed instead and one playing make three in `Gapless` and
  `LmsBackend`.  The monitor confirms with 2 polls that play and
  3 that do not, as in the code (`player.py:44`, `41`).  Instances of `Gapless`
  with one track, three messages, two failed reads and up to two operations at the device
  (29 million states) were explored as well.
* The local buffer of 3 wraps in the middle of a chunk of 2, and 4 frames fill it more
  than once; a hand-over mixes a tail, a whole short track and a new head in it.
* In `Queue` a window of two lies inside a list of three or ends with it (it does not wrap under
  repeat, `queue.py:496-499`); the single track is the case where a skip has nowhere to go.  With two
  operations TLC does not get to skips of a playing item under both repeat modes; the
  theorem `SkipsMoveOn` covers any number of operations.
* In `Lifecycle` one name is saved and one may be added; two requests overlap each other
  and the retries.  `CONSTRAINT Orderly` ends the exploration once one of four things
  happened against which the program has no defence (below).  The properties about lost speakers,
  old configurations and logouts claim nothing after that.  `TypeOK`, `OfflineWhenStopped` and
  `WebLoginWins` do claim something there: TLC checks them up to the constraint only, and the
  proofs, which know no constraint, cover the rest.  The safety properties were
  explored without the constraint as well (2.5 million states), and under it with a third request and
  one failure less (1.7 million).

**Views and symmetry.**  Generations and command numbers grow without bound but are only
compared with the present ones, so the views of the MC modules keep the results of the
comparisons.  Two states with the same view have the same successors up to the view,
and no property reads the numbers otherwise.  `TypeOK` does, and holds trivially of
any number the steps increase; a number that decreases is reached before its view is
met again.  `local_backend`'s view leaves out the slots of the buffer that hold no frame.
`gapless`, `lms_backend` and `dlna_backend` use symmetry of tracks: no track is named, and they
check no liveness.

**Deadlock** is not checked: with its bounds used up and every task done, each system may
rest.

**Fairness.**  `WsManager!Spec` has weak fairness of `Progress`: the event loop runs
ready tasks, the server answers, the token service is up, timers fire.  Failures are bounded
by `MaxFailures`; a server that never answers again makes both liveness properties
false of any implementation.  `PlaybackControl!Spec` has weak fairness of `Tasks` (the loop
runs ready tasks and what they await ends: every request has a timeout) and of the
timer, `SkipTimeout`, which `_begin_skip_wait_locked` starts and only `_clear_skip_pending`
cancels.  `Queue!FairSpec` has it of the preload loop's three steps: the loop sleeps a
fixed time and its fetches have timeouts.  `Lifecycle!FairSpec` has it of the validation,
of each request, retry and speaker: each is a coroutine of the event loop whose awaits
end, and their failures are bounded.

### Properties and their exceptions

A property of a run may be the conjunction of several that are broken by the same kind of
code; the modules state each part with its own comment.

| run | property | parts |
|---|---|---|
| `local_backend` | `HeardAsTold` | `TypeOK`, `AudioIsContinuous`, `PositionIsHeard`, `BelievedIsHeard` |
| | `CommandsHold` | `PausedIsSilent`, `SeekIsCarriedOut`, `PlayingIsFed` |
| `lms_backend` | `InCharge` | `TypeOK`, the backend plays on the player it claims |
| | `PlaylistIsKnown` | `NothingUnwanted`, `QueuedOnce` |
| | `PlayerIsRight` | `BelievedIsHeard`, `BelievedArmed` |
| `gapless` | `ArmingIsRight` | `TypeOK`, `ArmedFollowsApp`, `QueuedIsArmed` |
| | `ToldIsHeard` | `TransitionsFollowed`, `ReportsAreTrue` |
| | `HistoryIsTrue` | `OpenPlayIsHeard`, `ClockRuns` |
| `dlna_backend` | `TakeoverIsReal` | `TypeOK`, `TakeoverIsForeign`, `SelectionHolds`, `NoPlayWhileExternal` |
| | `NextIsKnown` | `NextIsArmed`, `QueuedOnce` |
| `queue` | `CursorHolds` | `TypeOK`, the item that was meant stays current |
| `lifecycle` | `SpeakersAreKnown` | `TypeOK`, `NothingIsLost`, `NewestConfiguration` |
| | `StoppedIsSilent` | `LogoutSilences`, `OfflineWhenStopped` |

Most of these speak of quiet states, where no task is under way.  Writing them showed where the code
does not keep what it seems to promise.  The exceptions are history flags, in `given` and
`spared`, set exactly where they happen, so that everything else is still checked.

`PlaybackControl`:

* `given.end`: the end of a track was dropped because a command or a disconnect came
  between the end and its handling (`player.py:1425`).
* `given.race`: the track ended while a command was under way; `_handle_track_ended`
  reads the command number only when its task starts (`player.py:1412`), so it may
  take that command for its own past.  It then clears the current track under a pending
  skip, and a SET_STATE that pauses the skip's item leaves no current track.
* `given.loading`: an automatic advance gave its load up, or a disconnect cleared a
  pending skip, and the state stays LOADING.
* `given.failed`: the last play was reported as failed and returned, so that the player
  overwrites ERROR with PLAYING, over silence or over the track before
  (`player.py:1293-1304`), against its own state machine (`player.py:73`, "LOADING -> ERROR (on
  failure)"); or a local backend with nothing left to play said that it resumed.  In these cases
  `StateIsAudible` still says that what sounds is reported as PLAYING.
* `spared`: a lost connection or a quality change came after the deactivation.

`Gapless`: the device moved on while nothing was armed (`missed`); an end was dropped for
a newer command (`dropped`); `note_playing` awaits the end report of the play before and
then overwrites a play that was stored meanwhile (`play_reporter.py:74-84`, `late`); while a
play is being started the track that still plays ends or moves on, so that the handling of the
end finds the same track current and stops the player, or continues, over the new play
(`player.py:1231-1302`, `1423-1460`, `crossed`); failed reads in a row were taken for a stop of a
paused device (`misled`); and the monitor's count of stopped polls outlives the pause it
belongs to if the monitor does not wake in between (`player.py:1862`, `1883`), so that a single failed
read ends the next paused listen, against the comment at `1855-1857` (`carried`).  A player
that plays without a current track has no play open: a stop and a play of the same
track, or a poll that finds a pause and its resume, while the end report waits.

`LmsBackend`: a status and a command passed each other (`crossed`); a track being cleared
was found playing (`slipped`), so that `clear_next_track` makes it current without telling the
player (`lms/backend.py:480-484`); the removal of an orphan for an arming missed it, because the
playlist changed between the read and the delete by index (`missed`).  The last is a hazard
of the code that needs four armings: the state loop drops the finished track
(`522`) while an arming is about to remove an orphan behind it (`500`), the index is one
too high, the delete hits nothing, and the orphan, which `_remove_orphan` has already
forgotten (`493`), stays queued.  `missed` also covers a status read that lasted longer than
`REARM_GRACE_SECONDS`, which is 2 while a request may take 5: an orphan made during the read is
taken for one that the status should show, and forgotten (`592-593`).  The instance has three armings; the proof, which is for any number of
them, found it.  `InCharge`, `BelievedArmed` and `QueuedOnce` need none of
these exceptions and hold with lost requests as well; `NothingUnwanted`, `BelievedIsHeard` and
`EndIsTold` are about behaviours without a lost request.

`DlnaBackend`: a status that could not be read counts as STOPPED and ends the track
(`backend.py:484-490`, `misread`); a status read before a stop overwrites STOPPED and the next
poll tells an end (`703-727`, `crossed`); a play whose second request fails leaves the new
URI on the renderer, a takeover once the grace period is over (`half`); a stop or clear right
after a hand-over forgets the armed track that has begun, which is then taken for another source's
(`orphaned`), and on a renderer other than a Sonos a clear leaves the next URI in place; an arming
overtaken by a new play, or made after the renderer moved on to another armed track (`late`); an `AddURIToQueue` whose answer is lost is sent again and
queues twice (`client.py:795-876`, `resent`); removing a Sonos entry that began to play cuts it
(`cut`); the grace period ended while the renderer still loaded, or while an answer from before
was on its way (`slow`): then an old URI of ours is taken for another source's, and a renderer that loads for
one that has stopped.  `slow` lasts until the next grace period ends.  A load that fails
(LOADING to STOPPED) tells no end at all.

`LocalBackend`: the next track was set or cleared after it had been swapped in
(`rearmed`); a hand-over survived the command that cancelled it (`survived`); a hand-over to another format
opens a paused stream again (`unpaused`); a seek came after the last frame was buffered (`tail`); a
backend that had stopped at the end of its track, or could not load one, was paused or
resumed by a player that did not know it, and says PAUSED or PLAYING with no loop to feed it
(`hollow`, `local/backend.py:473-486`): the "phantom PLAYING state with nothing to play" that the comment at
`480-482` means to exclude.

`Lifecycle`: an edit keeps an index while a remove shortens the list (`app.py:531-538`,
`shifted`); requests to start speakers overlap a logout, the shutdown or an edit of the same
speaker (`crossed`); a login overlapping an edit lists a name twice (`doubled`); the
`finally` of a cancelled retry removes the entry of the task that replaced it (`774`), so a
logout misses that one (`untracked`).  `ComesUp` further excludes a login while some
speakers run, which starts none of the others (`385`), and a failed edit, which is not
retried (`543-548`); `OfflineWhenStopped` a stop or a failing start while the set-up task, of which
nobody keeps a reference, is under way (`speaker.py:419`), and a connect that is accepted while the
speaker stops (`late`): both leave a stopped speaker with a manager that stays on line.

Not properties, but seen on the way: `set_shuffle_mode` passes no pivot, so the current
item changes with it; `load_queue` keeps the shuffle flag over an order that is
not shuffled; a queue message resets the cursor while the old item plays; a failed
metadata fetch is not repeated as long as the URL is fresh; a failed set-up leaves
`_ws_manager` in place (`speaker.py:438-444`).

### Findings

* `lost_deactivation` (`DeactivationAlwaysSilences`): `stop_playback` takes a number,
  waits for the lock and gives up if the number changed; a lost connection changes it.
  The comment at `playback/command_handler.py:118-120` says only a later activation can
  revoke a received deactivation.  The handler keeps the promise up to the player
  (`DeactivationIsKept`), the player does not.
* `stuck_loading` (`LoadingIsTransient`): `_play_track_locked` returns without touching the
  state when its load was superseded; `apply_remote_state` resets it in the same place.
* `silent_playing` (`PlayingIsAudible`): the end of a track is dropped when a command or a
  disconnect came in between, and PLAYING is left over a silent device; a PLAY for the
  same track is then a no-op.

## 4. Proofs

The proofs hold for any sets and any bounds.  Their assumptions are those the modules
declare about their constants, which TLC evaluates in every run.

### SessionProofs

`WsManager`, from `SessionAssumption` and `BoundAssumption`: `TypeOK`, `OnlyTheOwnerReports`,
`ConnectedToCurrentSession`, `NoArmedTakeover`, `SelectionSpentOnce`, and the action property
`ExternalStaysPassive`.  None of these is inductive.  `IndInv` adds

* `Connection`: a connection counts only from its join to its end, and ownership only
  while it counts;
* `Ownership`: what is recorded is what the server said last on this socket, and a
  takeover clears it along with any armed selection;
* `Captured`: a queued send whose generation is still the present one was captured by
  an owner, because every loss of ownership makes a new generation;
* `Handshake`: as long as the token version is the one the attempt began with, the token
  sent and the session named are those in hand, and only the selection read for the
  join can be armed;
* `Selections`: selections are numbered by token version, so an armed one is newer than
  every one that was sent.

There is a lemma for each group with a step for each action, and `NextIndInv` combines
them.

`Session`: `OwnershipAgrees`, `StaleCommandsDie` and `DeactivationIsKept`, on
top of `NextIndInv`.  `SessionInv` adds that ownership is confirmed only while the manager
runs (`ActiveRuns`), what the waiting tasks recorded (`Recorded`: a task of the
present generation was created under the present ownership, in the present tenure) and
that a stop that is owed has its task (`Owed`).  The key lemma is
`TransportOwnership`: a step of the manager that is not a message either calls the
handler back and leaves the manager without ownership, or does not touch ownership.

### PlaybackControlProofs

From `LimitAssumption`, `WantAssumption` and `TrackAssumption`: `TypeOK`, `DeactivationSilences` and
`StateIsAudible`.  Each command part (`BeginLoad`, `Finish`, `BeginStop`, ...) is an operator that
several actions end in, so each invariant has a lemma for each part, and the step of an
action cites the parts it may end in.

* `Types` adds what the holder of the lock and the waiters may be (`Holder`, `Waiter`): no
  await has a kind of command that does not get there.
* `Numbers`: no captured number is ahead of the one it is compared with.
* `DeactivationInv`, over `Numbers` and `Received`: after a deactivation that nothing
  spared, a stop is still among the messages, waits for the lock with the newest
  number, runs, or the device is silent with nothing under way that could start it.
* `LockInv`: LOADING belongs to a pending skip, to a load under way, or to what `given.loading`
  records.
* `QueueInv`: at most one command that holds or waits for the lock has the newest number, and
  the waiting ones of a pending skip are older.
* `AudibleInv`: what each await of the lock's holder implies about player and device
  (`Sounds`), that the handling of an end finds the player as the end left it and no goal
  set, unless it was overtaken (`EndFound`), and that nothing waits to start the same track
  again (`NoRestart`).

The parts are kept in this order because each needs the ones before it: an end may clear
the player only because no command with a newer number is under way.

`NewestCommandWins` rests on all of these and on two more invariants:

* `HeardInv`: even after an end amid commands what is PLAYING is heard, unless the end is
  being handled or was dropped, or what follows it waits for the lock;
* `GoalInv`: as long as nothing took the goal away, the command waits with only stale ones
  behind it, or it holds the lock and each await says what has been done of it (`Toward`),
  or nobody holds the lock and what was asked for is there (`Reached`).

A command while it waits could be spoilt only by a skip that becomes pending before it, or
by a newer command behind it; `OneCurrent` excludes the first, the numbers the second.
While it runs it could be spoilt by an end; `EndFound` says that an end which is still
valid belongs to no goal.

### LocalBackendProofs

From `LocalAssumption`, for any lengths of tracks, chunk, block and capacity:
`BufferIsFifo`, `CommandsHold`, `HeardAsTold` and `EndIsHeard`.

`BufferImplementsFifo` is the refinement: every step of `LocalBackend`
is a step of the bounded queue or leaves it as it is, for any capacity, chunk and block
size, lengths and formats.  It rests on `LocalInv`, the types with the feeding position in the
track, the names of what is fetched and the positions of the ring, and on
`ChunkAssumption` and `BatchAssumption`, which say only that the set of batches the queue may be given is
large enough.  The first part of the module has the arithmetic on the circle: `WriteIsPut` (a write in two
copies appends what fits), `ReadIsTaken` and `ReadIsGet` (a read in two copies returns the
oldest frames, in order, and leaves the others).

The other three properties need `HeardInv`, which adds to `LocalInv`

* `ControlInv`: what the command under way (`Commanding`), the feeding loop (`Working`), the
  announcements (`Announcing`) and a seek (`Seeking`) have done so far at each of their
  awaits, with what the history admits (`Exceptions`);
* `HeldFrames`: the frames in the ring follow each other and the last one heard (`FollowOn`), lead up
  to the frame that is fed next (`LeadUpTo`), and as many of them belong to the track before
  as the hand-over that is pending says (`Positioned`).

Each action has one lemma for the control and one for the frames.  That frames are heard
complete and in order follows from `HeldFrames` alone; that the track they belong to is the one that
was told needs both.

### QueueProofs

From `QueueAssumption`, for lists of any length: `ImplementsPlayOrder`, the refinement of
`PlayOrder`; `CursorHolds`; and the action property `SkipMovesOn`.  The inductive invariant
`QueueInv` is `TypeOK` with

* `Shape`: the tracks are different, the order is a permutation of their places, and the
  cursor is in it unless the list is empty;
* `Meant`: the item last meant is the current one.

`PermIsOnto` is the counting argument behind it (an order of n places without a repetition
misses none); `ShuffledIsPerm` says that shuffling around a pivot keeps it in place, and
`OrderedIsArrangement` that the items in any order are an arrangement of the list in any
other.  Each step of the queue has a lemma that says what it is to the abstract one.

### LifecycleProofs

From `LifecycleAssumption`, for any names, objects, requests and retries, of which only the
first three (with the tasks) need be finite because the model counts free objects and tasks:
`SpeakersAreKnown`, `StoppedIsSilent` and the action property `WebLoginWins`.  `LifecycleInv` has three
parts, each with its own exceptions.

* `Standing` holds whatever the requests cross.  `Shape` says of every coroutine which
  `Speaker` objects it holds at which await and in which phases these may be; that what is being
  started has one holder and is not listed (`Apart`); that a free object is held by nobody
  (`Free`); and that the table of retries names tasks that are at it (`RetryShape`).  `Courses`
  says how far the program, the validation and the requests have come; `WebLoginWins` follows
  from it, because the validation asks only while nobody is logged in and a login waits until the
  validation is cancelled.
* `Links`, unless a set-up came late: only speakers that start, are up or stop are set up or
  on line.
* `Orders`, unless something crossed, shifted, doubled or was untracked (`Orderly`): a stop of all
  speakers is alone (`Uncrossed`), names are listed once (`Unique`), retries that go on are in the
  table and have the newest configuration (`Tracked`), whatever runs is known and configured so
  (`Newest`), and so is what is about to be listed (`Brought`); an edit has the newest
  configuration and is the only one of its name (`Edits`), its place in the list is still that
  of the speaker it stopped (`Places`); who stops all speakers stops all that are listed, and no
  retry goes on (`Stopped`); and while nobody is logged in nothing is listed or started
  (`Silent`).

`Orders` is proved for the steps after which the state is still `Orderly`; as `given` only
grows (`GivenGrows`), it was before the step too.  The argument at the centre is `ChangeStops`:
an edit or a removal of a name stops everything of that name that runs, because nobody but a
retry can be starting it, the retries are in the table, and the list has it once.  Choices
of new objects and of free tasks (`NewFor`, `Schedule`) are shown to be possible by
counting (`InjectionExists`).

### GaplessProofs

From `GaplessAssumption`, for any tracks, confirmations and bounds: `ArmingIsRight`,
`ToldIsHeard`, `HistoryIsTrue` and the action property `PausedListenSurvives`.  The properties
speak mostly of quiet states; `GaplessInv` says what is true on the way there.

* `Typed`: the types, with what each await of a task implies about its record.
* `ArmingHolds`: while the arm lock is held nothing is armed; what is armed, or is about to be
  by a holder whose generation is current, is the app's next item, or something is on its way that
  repairs it (`Repaired`): a command that has not told the player of its change yet, a
  change that waits for the lock, an item that follows an end.
* `DeviceHolds`: a player that neither plays nor pauses, a command before the start of a play and an
  end that still counts mean a silent device, and the current track is the device's.
* `QueuedHolds`: the device's next track is the armed one, the one being set, or one that the
  holder of a lock is about to clear.
* `ToldHolds`: the last report is right, but during a load or a transition.
* `CountHolds`: the monitor's count of stops is at most the number of failed reads while the device
  has a track.
* `ActiveTyped`, `NothingOpen`, `ClockHolds`, `OpenHolds`, `PlayHolds`: the open play
  against the player's state and track, each with the notes that are about to come.

`Trusted` (neither misled nor crossed) is a hypothesis of `DeviceHolds` and `QueuedHolds`, and so
of `ToldIsHeard`; the arming follows the app without it.  The proof of the invariance is one lemma for each part,
with a step for each action that touches it; `Frames` says what the others leave alone.

### DlnaProofs

From `DlnaAssumption`, for any URLs and bounds: `TakeoverIsReal`, `EndIsReal`, `NextIsKnown` and
the action property `OnlySelectionReturns`.  Each action has a lemma that says field by field
what it does (`PlayDoes`, ...), and `Frames` says what it leaves alone; `DlnaInv` is kept by one
lemma for each of its parts:

* `Typed`, `Shape`: the types, and what each task may be suspended at; a track is being started
  exactly while a play is past its check, and no play goes on against another source.
* `Where`: who has seen a URI, or is past the check, has a renderer that shows one.
* `Loading`: while a track loads the renderer is not seen to play, and no pause is done.
* `EndsTold`: a stop that the poll loop has read, or will read, is due, or it falls into the
  grace period, or a stop of ours is about to be told.
* `NextArmed`: what plays next is the armed track or nothing, never the one that plays or loads,
  and the queue of a Sonos ends with it; a removal under way names that entry.
* `Ownership`: what loads is the current track, what shows is the current or the next one or
  foreign (`ShowsOurs`); a track that the poll loop or an arming takes for the next one is still
  there (`LooksTrue`); whatever was asked for the current track has seen it or the next
  one (`Seen`), so that only a foreign URI declares a takeover.

The last three hold until something that the properties name (`misread`, `late`, ...)
happens.  TLC, with a third URL, showed the first form of `NextArmed` not to be inductive: an
arming that was under way while the renderer moved on to the track armed before it is late,
too (`Overtaken`).

### LmsProofs

From `LmsAssumption`, for any tracks and bounds: `InCharge`, `PlaylistIsKnown`, `PlayerIsRight` and
`EndIsTold`.  All four speak of a backend at rest; `LmsInv` says how it gets there.

* `Typed`, `Shaped`: the types, with at most one item behind the playing one, and what each
  task may be suspended at and has asked for.  That `QueuedOnce` holds always is part of
  the types, but an `add` keeps it only because of `Kept`.
* `Kept`: only an arming adds to the playlist, so what waits behind the playing item now was there
  when the arming read its status, and the player has not moved on since.
* `OneNext`: an armed next track and an orphan exclude each other, and an arming that removes
  or adds has neither.
* `NotItself`, `NotTwice`: no track is queued behind itself, unless the arming is outdated.
* `OrphanRead`: an orphan older than the state loop's read still waits where the read saw it.
* `Believed`: what the player holds for armed is the backend's next track, and a play outdates
  the arming under way.
* `Sees`: once the loop has acted on the player as it is, the claimed track plays.

These hold always (`Always`); the others (`Cleanly`) until one of the exceptions or a lost request:

* `Modes`: the player's, the backend's and the server's idea of playing, paused and stopped, with
  the command that is about to make them agree;
* `Shown`: the track the player shows is the backend's current one, outside a stop;
* `Removing`: while the loop removes an orphan, its status from before still tells whether the
  music stops, which it compares afterwards (`lms/backend.py:592-608`);
* `Known`: an item behind the claimed track that is neither armed nor an orphan has somebody
  at work on it: an arming that has just added it or asks where it is, or a delete on its way that will
  hit it.

`Known` is where `missed` came from: without it a delete need not hit.  Requests of
three tasks are served in any order, so each request has a lemma of its own
(`AddServedKeeps`, `ArmDeleteServedKeeps`, ...), on top of what the server does to the playlist
(`Deletes`, `AddsTo`, `Plays`); the actions that end in the same operator (`CompareState`, `Armed`, `Cleared`,
`Adds`) share one.  `AtCalm` draws the conclusion for a state of rest.  A backend
that lets go of a track of its own needs no exception: until its player starts something nothing is claimed.

### Model-checked only

The liveness properties (`SelectionReachesServer`, `AlwaysReconnects`, `SkipEnds`,
`PreloadKeepsUp`, `ComesUp`): fairness and `ENABLED` are out of the prover's reach here.  Every invariant and action
property of the passing runs, and both refinements, are theorems.

## 5. Plan

What is left is `Gapless` composed with `PlaybackControl`, on an instance small enough for TLC.

### Not modelled

* DLNA proxy server, metadata service: the refresh of URLs for open streams.  Lookups
  succeed or fail as choices in `PlaybackControl`, `Gapless` and `Queue`; what is left is
  streaming and a cache.
* Discovery, protocol codec, authentication and API client, web UI: input and output
  with no state that outlives a call; they appear as choices of their results
  (`SetTokens`, `MintFails`, the messages and requests of the models).
* Volume: passes through to the backend.
* The public methods `play`, `pause` and `load_track` of the player have no caller in the program; `next_track` and `previous_track` are in `Queue`.
* Configuration parsing, capabilities and topology of renderers, decoding and PortAudio.
