---------------------------- MODULE LocalBackend ----------------------------
(***************************************************************************)
(* The local audio backend: backends/local/backend.py with its stream.     *)
(* Three parties work on the ring buffer: the feeding loop (a task), the   *)
(* player's command (one at a time, it holds the playback lock) and        *)
(* PortAudio's thread.  A fourth, the player's gapless arming, names the   *)
(* next track at any time.  Downloads and decodings end when they like.    *)
(* The sound device is taken to work: a stream that is opened opens.       *)
(***************************************************************************)
EXTENDS RingBuffer, FiniteSets

CONSTANTS
    Tracks, None,
    Length,         \* [Tracks -> Nat \ {0}], in frames
    Format,         \* [Tracks -> sample rate and channels]
    Chunk,          \* CHUNK_SIZE: frames fed at a time
    Block,          \* frames PortAudio asks for
    MaxCommands, MaxArms, MaxFailures   \* bounds of the instance

ASSUME LocalAssumption ==
    /\ Length \in [Tracks -> Nat \ {0}]
    /\ None \notin Tracks /\ None \notin Nat
    /\ Chunk \in Nat \ {0} /\ Block \in Nat \ {0}
    /\ {MaxCommands, MaxArms, MaxFailures} \subseteq Nat

\* The frames a feeding step takes of track t, of the given length, at frame f.
ChunkOf(t, f, length) ==
    [i \in 1 .. (IF f + Chunk < length THEN Chunk ELSE length - f) |-> <<t, f + i - 1>>]

\* What is fed is among the batches the buffer is instantiated with.
ASSUME ChunkAssumption ==
    \A t \in Tracks : \A f \in 0 .. Length[t] : ChunkOf(t, f, Length[t]) \in Batch

VARIABLES
    track,          \* the track of _audio_data, or None
    fed,            \* _frames_fed
    rate,           \* _sample_rate, channels of the ring buffer
    seek_target,    \* _seek_target, or None
    next,           \* [track, prefetch, decode]: the three _next_ fields
    pending,        \* _transition_pending
    prev,           \* the track _prev_total_frames belongs to
    state,          \* _state: what listeners were told
    stream,         \* [running, paused] of the output stream
    feeder,         \* await of _feeding_loop, or "none"
    taken,          \* what _transition_to_next_track holds while it drains
    cmd,            \* [op, track, pc]: the player's command
    arm,            \* track of a set_next_track that waits for a cancelled task
    last,           \* history: last frame heard since the buffer was cleared
    ended,          \* history: times the end of a track was announced
    believed,       \* the track the player shows as playing or paused
    armed,          \* history: the track the player believes is next
    sought,         \* history: the track a seek not yet carried out was meant for
    given,          \* history: exceptions, see the properties
    used            \* [commands, arms, failures]: what was used of the bounds

feedVars == <<track, fed, rate, seek_target, pending, prev>>
playerVars == <<believed, armed, given, sought>>
vars == <<ring, feedVars, next, state, stream, feeder, taken, cmd, arm, last, ended,
          playerVars, used>>

Idle == [op |-> "none", track |-> None, pc |-> "idle"]
NoNext == [track |-> None, prefetch |-> "none", decode |-> "none"]
Jobs == {"none", "running", "done", "failed"}
Total == IF track = None THEN 0 ELSE Length[track]

Init ==
    /\ RingInit
    /\ track = None /\ fed = 0 /\ rate = None /\ seek_target = None
    /\ pending = FALSE /\ prev = None
    /\ next = NoNext /\ state = "STOPPED"
    /\ stream = [running |-> FALSE, paused |-> FALSE]
    /\ feeder = "none" /\ taken = None /\ cmd = Idle /\ arm = None
    /\ last = NoFrame /\ ended = 0 /\ believed = None /\ armed = None
    /\ sought = None
    /\ given = [rearmed |-> FALSE, unpaused |-> FALSE, tail |-> FALSE, survived |-> FALSE,
                hollow |-> FALSE]
    /\ used = [commands |-> 0, arms |-> 0, failures |-> 0]

Spend(what) ==
    /\ used[what] < CASE what = "commands" -> MaxCommands
                      [] what = "arms" -> MaxArms
                      [] what = "failures" -> MaxFailures
    /\ used' = [used EXCEPT ![what] = @ + 1]

-----------------------------------------------------------------------------
(***************************************************************************)
(* The audio thread                                                        *)
(***************************************************************************)

AudioCallback ==
    /\ stream.running /\ ~stream.paused /\ ring.available > 0
    /\ last' = Output(ring, Block)[Actual(ring, Block)]
    /\ Read(Block)
    /\ UNCHANGED <<feedVars, next, state, stream, feeder, taken, cmd, arm, ended,
                   playerVars, used>>

(***************************************************************************)
(* Downloads and decodings                                                 *)
(***************************************************************************)
Download(result) ==
    /\ next.prefetch = "running"
    /\ next' = [next EXCEPT !.prefetch = result]

Decoding(result) ==
    /\ next.decode = "running"
    /\ next' = [next EXCEPT !.decode = result]

JobEnds ==
    /\ \/ (Download("done") \/ Decoding("done")) /\ UNCHANGED used
       \/ (Download("failed") \/ Decoding("failed")) /\ Spend("failures")
    /\ UNCHANGED <<ring, feedVars, state, stream, feeder, taken, cmd, arm, last, ended,
                   playerVars>>

Running(n) == n.prefetch = "running" \/ n.decode = "running"

-----------------------------------------------------------------------------
(***************************************************************************)
(* The next track                                                          *)
(***************************************************************************)

\* _take_next_track_audio from one await to the next: where it goes on, and
\* what it leaves of the next track.
Outcomes(pc) ==
    LET Goes(to, n) == {[to |-> to, next |-> n]}
    IN  CASE pc = "taking" /\ next.decode # "none" -> Goes("decoding", next)
          [] pc = "taking" /\ next.decode = "none" /\ next.prefetch = "done"
                -> Goes("decoding", [next EXCEPT !.decode = "running"])
          [] pc = "taking" /\ next.decode = "none" /\ next.prefetch \in {"none", "failed"}
                -> Goes("nothing", NoNext)
          [] pc = "taking" /\ next.decode = "none" /\ next.prefetch = "running"
                -> IF ring.available = 0 THEN Goes("giving_up", NoNext) ELSE {}
          [] pc = "decoding" /\ next.decode = "none" -> Goes("taking", next)
          [] pc = "decoding" /\ next.decode = "failed" -> Goes("nothing", NoNext)
          [] pc = "decoding" /\ next.decode = "done"
                -> Goes("audio", [next EXCEPT !.prefetch = "none"])
          [] pc = "giving_up" -> Goes("nothing", next)
          [] OTHER -> {}

\* _forget_consumed_next_track
Forgotten(n) == IF n.prefetch = "none" THEN NoNext ELSE n

\* on_next_track_started as the player takes it: the armed track is current.
Announced ==
    /\ believed' = IF armed = None THEN believed ELSE armed
    /\ armed' = None

\* _maybe_complete_transition, over a buffer r and f frames fed.
CompletesAtOnce(r, f) == pending                     \* mutant: the tail is still to be heard
Completes(r, f) == pending /\ f >= r.available

CompleteTransition(r, f) ==
    IF Completes(r, f)
    THEN pending' = FALSE /\ next' = Forgotten(next) /\ Announced
    ELSE UNCHANGED <<pending, next, believed, armed>>

\* A track was swapped in, but the player has not been told yet.
Swapped == pending \/ taken # None

SetNextTrack(t) ==
    /\ arm = None /\ cmd.op # "play" /\ believed # None /\ Spend("arms")
    /\ IF Running(next)
       THEN arm' = t /\ next' = NoNext /\ UNCHANGED armed
       ELSE /\ next' = [track |-> t, prefetch |-> "running", decode |-> "none"]
            /\ armed' = t /\ UNCHANGED arm
    /\ given' = [given EXCEPT !.rearmed = @ \/ Swapped]
    /\ UNCHANGED <<ring, feedVars, state, stream, feeder, taken, cmd, last, ended, believed, sought>>

NextTrackSet ==
    /\ arm # None
    /\ next' = [track |-> arm, prefetch |-> "running", decode |-> "none"]
    /\ armed' = arm /\ arm' = None
    /\ given' = [given EXCEPT !.rearmed = @ \/ Swapped]
    /\ UNCHANGED <<ring, feedVars, state, stream, feeder, taken, cmd, last, ended, believed, sought,
                   used>>

ClearNextTrack ==
    /\ arm = None /\ (next # NoNext \/ armed # None) /\ Spend("arms")
    /\ next' = NoNext /\ armed' = None
    /\ given' = [given EXCEPT !.rearmed = @ \/ Swapped]
    /\ UNCHANGED <<ring, feedVars, state, stream, feeder, taken, cmd, arm, last, ended, believed, sought>>

-----------------------------------------------------------------------------
(***************************************************************************)
(* The feeding loop                                                        *)
(***************************************************************************)
ChunkAt(f) == ChunkOf(track, f, Total)

\* BUFFER_HIGH_WATER is 0.8
HighWater(r) == 10 * r.available > 8 * Capacity

\* The buffer may take less than it was offered.
FedChunk(r, f) == f + Len(ChunkAt(f))                \* mutant: counts what was offered
FedTo(r, f) == f + Fits(r, ChunkAt(f))

SeekForgotten == fed                                 \* mutant: feeds on
FeedFrom == IF seek_target # None THEN seek_target ELSE fed

\* An iteration of _feed_current_track, with or without a seek before it.
Feed ==
    /\ feeder = "feeding" /\ fed < Total
    /\ LET seeks == seek_target # None
           r == IF seeks THEN Cleared(ring) ELSE ring
           f == FeedFrom
       IN  /\ CompleteTransition(r, f)
           /\ ring' = IF HighWater(r) THEN r ELSE Written(r, ChunkAt(f))
           /\ fed' = IF HighWater(r) THEN f ELSE FedTo(r, f)
           /\ last' = IF seeks THEN NoFrame ELSE last
    /\ seek_target' = None
    /\ sought' = IF seek_target = FeedFrom /\ track = sought THEN None ELSE sought
    /\ UNCHANGED <<track, rate, prev, state, stream, feeder, taken, cmd, arm, ended, given, used>>

\* All frames are fed: into the transition, or on to the tail.
FedAll ==
    /\ feeder = "feeding" /\ fed = Total
    /\ feeder' = IF next.prefetch # "none" THEN "taking" ELSE "draining"
    /\ UNCHANGED <<ring, feedVars, next, state, stream, taken, cmd, arm, last, ended, playerVars,
                   used>>

\* The swap of _transition_to_next_track.
Swap(t) ==
    /\ track' = t /\ fed' = 0 /\ seek_target' = None
    /\ feeder' = "feeding"

FeederTakes ==
    /\ \E o \in Outcomes(feeder) :
          /\ next' = o.next
          /\ \/ /\ o.to \in {"taking", "decoding", "giving_up"}
                /\ feeder' = o.to
                /\ UNCHANGED <<feedVars, taken, given>>
             \/ /\ o.to = "nothing"
                /\ feeder' = "draining"
                /\ UNCHANGED <<feedVars, taken, given>>
             \/ /\ o.to = "audio" /\ Format[o.next.track] = rate
                /\ Swap(o.next.track)
                /\ prev' = track /\ pending' = TRUE
                /\ given' = [given EXCEPT !.rearmed = @ \/ pending]
                /\ UNCHANGED <<rate, taken>>
             \/ /\ o.to = "audio" /\ Format[o.next.track] # rate
                /\ feeder' = "reformatting" /\ taken' = o.next.track
                /\ given' = [given EXCEPT !.rearmed = @ \/ pending]
                /\ UNCHANGED feedVars
    /\ UNCHANGED <<ring, state, stream, cmd, arm, last, ended, believed, armed, sought, used>>

\* The old track has drained: a new ring buffer, and the stream is opened anew.
Reformat ==
    /\ feeder = "reformatting" /\ ring.available = 0
    /\ Swap(taken)
    /\ ring' = Empty /\ last' = NoFrame
    /\ rate' = Format[taken] /\ taken' = None
    /\ stream' = [running |-> TRUE, paused |-> FALSE]
    /\ pending' = FALSE /\ next' = Forgotten(next) /\ Announced
    /\ given' = [given EXCEPT !.unpaused = @ \/ stream.paused]
    /\ UNCHANGED <<prev, state, cmd, arm, ended, sought, used>>

DrainedNearly == ring.available <= 1                 \* mutant: cuts the last frame off
Drained == ring.available = 0

Drain ==
    /\ feeder = "draining"
    /\ LET armedNext == next.prefetch # "none"
       IN  /\ IF Drained /\ armedNext
              THEN UNCHANGED <<pending, next, believed, armed>>
              ELSE CompleteTransition(ring, fed)
           /\ \/ armedNext /\ feeder' = "feeding" /\ UNCHANGED <<state, ended>>
              \/ ~armedNext /\ Drained /\ feeder' = "none" /\ state' = "STOPPED" /\ ended' = ended + 1
              \/ ~armedNext /\ ~Drained /\ Completes(ring, fed) /\ UNCHANGED <<feeder, state, ended>>
    /\ UNCHANGED <<ring, track, fed, rate, seek_target, prev, stream, taken, cmd, arm, last, given,
                   sought, used>>

-----------------------------------------------------------------------------
(***************************************************************************)
(* The player's commands.  The feeding loop dies at its await when it is   *)
(* cancelled, except where it waits for a task it has cancelled itself:    *)
(* clear_next_track takes that CancelledError for the task's.              *)
(***************************************************************************)
CancelFeeding(op, t) ==
    /\ cmd = Idle /\ Spend("commands")
    /\ cmd' = [op |-> op, track |-> t, pc |-> "cancelling"]
    /\ feeder' = IF feeder = "giving_up" THEN feeder ELSE "none"
    /\ taken' = None
    /\ given' = [given EXCEPT !.survived = @ \/ feeder = "giving_up",
                              !.tail = @ \/ op = "seek"]
    /\ UNCHANGED <<ring, feedVars, next, state, stream, last, ended>>

\* The player forgets the armed track before it loads or stops, and undoes an
\* arming that was under way.
Play(t) ==
    /\ CancelFeeding("play", t)
    /\ armed' = None /\ arm' = None /\ sought' = None /\ UNCHANGED believed

Stop(keep) ==
    /\ CancelFeeding("stop", keep)
    /\ armed' = None /\ arm' = None /\ sought' = None /\ UNCHANGED believed

Fed == cmd.pc = "cancelling" /\ feeder = "none"

\* The callback falls silent before anything else is awaited.
Silence ==
    /\ ring' = Cleared(ring) /\ last' = NoFrame
    /\ stream' = [stream EXCEPT !.paused = @ \/ rate # None]
    /\ state' = "LOADING"

Quietly == <<track, fed, rate, seek_target, prev, feeder, taken, arm, ended, playerVars, used>>

\* reuse: the prefetched track is the one asked for, in the quality asked for.
PlayPrepares(reuse) ==
    /\ Fed /\ cmd.op = "play"
    /\ pending' = FALSE
    /\ \/ /\ reuse /\ next.track = cmd.track
          /\ cmd' = [cmd EXCEPT !.pc = "taking"]
          /\ Silence /\ UNCHANGED next
       \/ /\ ~reuse /\ next' = NoNext
          /\ IF Running(next)
             THEN cmd' = [cmd EXCEPT !.pc = "clearing"] /\ UNCHANGED <<ring, last, stream, state>>
             ELSE cmd' = [cmd EXCEPT !.pc = "loading"] /\ Silence
    /\ UNCHANGED Quietly

PlayCleared ==
    /\ cmd.op = "play" /\ cmd.pc = "clearing"
    /\ cmd' = [cmd EXCEPT !.pc = "loading"]
    /\ Silence
    /\ UNCHANGED <<pending, next, Quietly>>

Start(t) ==
    /\ track' = t /\ rate' = Format[t] /\ fed' = 0 /\ seek_target' = None
    /\ ring' = Empty /\ last' = NoFrame
    /\ stream' = [running |-> TRUE, paused |-> FALSE]
    /\ feeder' = "feeding" /\ state' = "PLAYING" /\ believed' = cmd.track
    /\ given' = [given EXCEPT !.hollow = FALSE] /\ cmd' = Idle

PlayTakes ==
    /\ cmd.op = "play"
    /\ \E o \in Outcomes(cmd.pc) :
          \/ /\ o.to \in {"taking", "decoding", "giving_up"}
             /\ cmd' = [cmd EXCEPT !.pc = o.to] /\ next' = o.next
             /\ UNCHANGED <<ring, track, rate, fed, seek_target, last, stream, feeder, state, believed,
                            given>>
          \/ /\ o.to = "nothing"
             /\ cmd' = [cmd EXCEPT !.pc = "loading"] /\ next' = NoNext
             /\ UNCHANGED <<ring, track, rate, fed, seek_target, last, stream, feeder, state, believed,
                            given>>
          \/ o.to = "audio" /\ next' = NoNext /\ Start(o.next.track)
    /\ UNCHANGED <<pending, prev, taken, arm, ended, armed, sought, used>>

Loaded ==
    /\ cmd.pc = "loading" /\ Start(cmd.track)
    /\ UNCHANGED <<pending, prev, next, taken, arm, ended, armed, sought, used>>

\* play tells the error and returns as ever: the player shows the track as playing, and
\* the audio of the one before stays where it was.
LoadFails ==
    /\ cmd.pc = "loading" /\ Spend("failures")
    /\ state' = "ERROR" /\ believed' = cmd.track /\ cmd' = Idle
    /\ UNCHANGED <<ring, feedVars, next, stream, feeder, taken, arm, last, ended, armed, given, sought>>

StoppedSilently ==                                   \* mutant: tells nobody
    /\ ring' = Cleared(ring) /\ last' = NoFrame
    /\ stream' = [stream EXCEPT !.running = FALSE]
    /\ fed' = 0 /\ track' = None /\ believed' = None
    /\ cmd' = Idle /\ UNCHANGED state
Stopped ==
    /\ ring' = Cleared(ring) /\ last' = NoFrame
    /\ stream' = [stream EXCEPT !.running = FALSE]
    /\ fed' = 0 /\ track' = None /\ state' = "STOPPED" /\ believed' = None
    /\ cmd' = Idle

StopClears ==
    /\ Fed /\ cmd.op = "stop"
    /\ pending' = FALSE
    /\ LET kept == next.track # None /\ next.track = cmd.track
       IN  /\ next' = IF kept THEN next ELSE NoNext
           /\ IF ~kept /\ Running(next)
              THEN cmd' = [cmd EXCEPT !.pc = "clearing"]
                   /\ UNCHANGED <<ring, last, stream, fed, track, state, believed>>
              ELSE Stopped
    /\ UNCHANGED <<rate, seek_target, prev, feeder, taken, arm, ended, armed, given, sought, used>>

StopCleared ==
    /\ cmd.op = "stop" /\ cmd.pc = "clearing"
    /\ Stopped
    /\ UNCHANGED <<rate, seek_target, pending, prev, next, feeder, taken, arm, ended, armed, given,
                   sought, used>>

\* The player pauses and resumes by what it shows itself, and that is a playing track also
\* after the backend has stopped at its end or could not load it: then there is no loop.
Hollow == given' = [given EXCEPT !.hollow = @ \/ feeder = "none"]

PauseBriefly ==                                      \* mutant: the stream plays on
    /\ cmd = Idle /\ believed # None /\ Spend("commands")
    /\ state' = "PAUSED" /\ Hollow
    /\ UNCHANGED <<ring, feedVars, next, stream, feeder, taken, cmd, arm, last, ended, believed, armed,
                   sought>>
Pause ==
    /\ cmd = Idle /\ believed # None /\ Spend("commands")
    /\ stream' = [stream EXCEPT !.paused = TRUE] /\ state' = "PAUSED" /\ Hollow
    /\ UNCHANGED <<ring, feedVars, next, feeder, taken, cmd, arm, last, ended, believed, armed, sought>>

Resume ==
    /\ cmd = Idle /\ believed # None /\ track # None /\ Spend("commands")
    /\ stream' = [stream EXCEPT !.paused = FALSE] /\ state' = "PLAYING" /\ Hollow
    /\ UNCHANGED <<ring, feedVars, next, feeder, taken, cmd, arm, last, ended, believed, armed, sought>>

\* The player keeps the target within the track it believes is playing.  Without a loop
\* the position is set at once.
Seek(target) ==
    /\ believed # None /\ track # None
    /\ target \in 0 .. Length[believed] - 1
    /\ \/ /\ cmd = Idle /\ target < Total /\ Spend("commands")
          /\ seek_target' = target
          /\ given' = [given EXCEPT !.tail = @ \/ fed = Total \/ Swapped]
          /\ IF feeder = "none"
             THEN ring' = Cleared(ring) /\ last' = NoFrame /\ fed' = target /\ sought' = None
             ELSE sought' = believed /\ UNCHANGED <<ring, last, fed>>
          /\ UNCHANGED <<track, rate, pending, prev, next, state, stream, feeder, taken, cmd, ended>>
       \/ target >= Total /\ CancelFeeding("seek", None) /\ sought' = believed
    /\ UNCHANGED <<arm, believed, armed>>

SeekEnds ==
    /\ Fed /\ cmd.op = "seek"
    /\ ring' = Cleared(ring) /\ last' = NoFrame /\ fed' = Total
    /\ state' = "STOPPED" /\ ended' = ended + 1 /\ cmd' = Idle
    /\ UNCHANGED <<track, rate, seek_target, pending, prev, next, stream, feeder, taken, arm,
                   playerVars, used>>

-----------------------------------------------------------------------------
FeederStep == Feed \/ FedAll \/ FeederTakes \/ Reformat \/ Drain

CommandStep ==
    \/ (\E reuse \in BOOLEAN : PlayPrepares(reuse)) \/ PlayCleared \/ PlayTakes \/ Loaded \/ LoadFails
    \/ StopClears \/ StopCleared \/ SeekEnds

Calls ==
    \/ \E t \in Tracks : Play(t) \/ SetNextTrack(t)
    \/ \E keep \in Tracks \cup {None} : Stop(keep)
    \/ Pause \/ Resume \/ ClearNextTrack
    \/ \E t \in Tracks : \E target \in 0 .. Length[t] - 1 : Seek(target)

Next == AudioCallback \/ JobEnds \/ FeederStep \/ CommandStep \/ NextTrackSet \/ Calls

Spec == Init /\ [][Next]_vars

\* _playback_position_ms, in frames.
PositionOfNew ==                                     \* mutant: forgets the old track's tail
    IF fed > ring.available THEN fed - ring.available ELSE 0
PositionFrames ==
    IF pending /\ ring.available > fed
    THEN LET old == Length[prev] - (ring.available - fed) IN IF old > 0 THEN old ELSE 0
    ELSE IF fed > ring.available THEN fed - ring.available ELSE 0

-----------------------------------------------------------------------------
(***************************************************************************)
(* Properties                                                              *)
(***************************************************************************)
TypeOK ==
    /\ track \in Tracks \cup {None} /\ taken \in Tracks \cup {None} /\ prev \in Tracks \cup {None}
    /\ fed \in 0 .. Total
    /\ rate \in {Format[t] : t \in Tracks} \cup {None}
    /\ seek_target \in Nat \cup {None}
    /\ next \in [track : Tracks \cup {None}, prefetch : Jobs, decode : Jobs]
    /\ pending \in BOOLEAN
    /\ state \in {"STOPPED", "LOADING", "PLAYING", "PAUSED", "ERROR"}
    /\ stream \in [running : BOOLEAN, paused : BOOLEAN]
    /\ feeder \in {"none", "feeding", "taking", "decoding", "giving_up", "reformatting", "draining"}
    /\ ring.write_pos \in 0 .. Capacity - 1 /\ ring.read_pos \in 0 .. Capacity - 1
    /\ ring.available \in 0 .. Capacity

\* The buffer behaves as a bounded queue: its two indexes and two-part copies
\* lose, double and reorder nothing (RingBuffer.write, read and clear).
BufferIsFifo == Queue!Spec

Follows(f, g) ==
    \/ g = <<f[1], f[2] + 1>>
    \/ f[2] = Length[f[1]] - 1 /\ g[2] = 0

\* Gapless and complete: what is buffered runs on from what was heard, frame by
\* frame, and a new track begins only after the last frame of the one before
\* (_feed_current_track, _transition_to_next_track).
AudioIsContinuous ==
    /\ \A i \in 1 .. ring.available - 1 : Follows(Contents[i], Contents[i + 1])
    /\ ring.available > 0 /\ last # NoFrame => Follows(last, Contents[1])

\* The position told is that of the next frame the listener hears, also while
\* the tail of the old track is still ahead of the new one (_playback_position_ms).
PositionIsHeard ==
    ring.available > 0 /\ ~given.rearmed => PositionFrames = Contents[1][2]

\* The player is told of a transition at the boundary of what is heard: with a
\* frame to play, the track it believes is playing is the one of that frame
\* (_maybe_complete_transition).  Not so if the next track was set or cleared
\* after it had been swapped in.
BelievedIsHeard ==
    /\ ring.available > 0 /\ ~given.rearmed /\ ~given.survived /\ ~Completes(ring, fed)
    => believed = Contents[1][1]

\* What was paused stays silent until it is resumed (AudioOutputStream.pause).
\* Not so if a transition to another format opens the stream again.
PausedIsSilent ==
    state = "PAUSED" /\ ~given.unpaused => stream.paused

\* A seek is carried out on the track it was meant for, unless the track is
\* replaced by command.  Not so once all frames of that track are in the buffer.
SeekIsCarriedOut ==
    sought # None /\ ~given.tail /\ ~given.rearmed
    => /\ seek_target # None /\ track = sought
       /\ feeder # "none"

\* The end of a track is announced when its last frame was heard, and not
\* because the loop lost count (_feeding_loop).
EndIsHeard ==
    [][ended' # ended /\ cmd.op # "seek" => last = <<track, Total - 1>>]_vars

\* A backend that says PLAYING or PAUSED has a loop that feeds the buffer and announces the
\* end.  Not so if it was paused or resumed after it had stopped at the end of its track or
\* failed to load one: pause and resume ask for no loop (pause, resume, _feeding_loop, play).
PlayingIsFed ==
    state \in {"PLAYING", "PAUSED"} /\ cmd.op = "none" /\ feeder = "none" => given.hollow

\* What is heard is complete, and it is the track and the position that are told (the feeding
\* loop, the audio callback and _playback_position_ms); with the types.
HeardAsTold == TypeOK /\ AudioIsContinuous /\ PositionIsHeard /\ BelievedIsHeard

\* Pause, seek and play take effect and keep it, whatever the feeding loop is doing when they come
\* (pause, seek, _cancel_feeding).
CommandsHold == PausedIsSilent /\ SeekIsCarriedOut /\ PlayingIsFed
=============================================================================
