----------------------------- MODULE DlnaBackend -----------------------------
(***************************************************************************)
(* backends/dlna/backend.py against a UPnP renderer that other sources may *)
(* take over at any time.                                                  *)
(*                                                                         *)
(* The renderer plays one URI.  A Sonos plays its queue, any other one has *)
(* a next URI.  Four tasks talk to it, each suspended at the request named *)
(* by its pc: the poll loop, a command of the player (one at a time, under *)
(* its playback lock), an arming (under its arm lock), and whoever else    *)
(* asks for the source: a new selection of the speaker, a snapshot, the    *)
(* volume.  A URI is read when it is asked for, and what was read may be   *)
(* old when it is returned: whatever the renderer does in between could as *)
(* well precede the question.  A status read is asked, served and returned *)
(* in three steps, a command of the player is sent, done and returned, and *)
(* every other request takes effect when it is answered.  A URL is the     *)
(* proxy URL of one queue item.                                            *)
(***************************************************************************)
EXTENDS Naturals, Sequences, SequencesExt

CONSTANTS
  Urls, None, Foreign,
  MaxTasks,      \* bound: commands, armings, selections and questions for the source
  MaxEvents      \* bound: ends of tracks, operations at the renderer and failing requests

ASSUME DlnaAssumption ==
  /\ None \notin Urls /\ Foreign \notin Urls /\ None # Foreign
  /\ MaxTasks \in Nat /\ MaxEvents \in Nat

VARIABLES
  sonos,    \* _is_sonos
  mine,     \* what the backend remembers
  poll,     \* _poll_state_loop
  cmd,      \* play, pause, resume or stop
  arm,      \* set_next_track or clear_next_track
  ask,      \* _owns_transport for others
  device,   \* the renderer
  used,     \* how much of each bound has been used
  due,      \* history: the renderer has stopped and the end of its track may be told
  given     \* history: what went wrong, and whether the last grace period ended too early

vars == <<sonos, mine, poll, cmd, arm, ask, device, used, due, given>>

Idle == [kind |-> "none", pc |-> "none", url |-> None, expected |-> None, saw |-> None,
         nr |-> 0]

Init ==
  /\ sonos \in BOOLEAN
  /\ mine = [current |-> None, next |-> None, nr |-> 0, external |-> FALSE,
             starting |-> FALSE, grace |-> FALSE, state |-> "STOPPED", gapless |-> TRUE]
  /\ poll = [pc |-> "sleep", expected |-> None, saw |-> None, state |-> "STOPPED",
             grace |-> FALSE]
  /\ cmd = Idle /\ arm = Idle /\ ask = Idle
  /\ device \in {[uri |-> u, mode |-> IF u = None THEN "STOPPED" ELSE "PLAYING",
                  loading |-> None, next |-> None, queue |-> <<>>, pos |-> 0] :
                   u \in {None, Foreign}}
  /\ used = [tasks |-> 0, events |-> 0]
  /\ due = FALSE
  /\ given = [falseEnd |-> FALSE, falseTakeover |-> FALSE, cut |-> FALSE, misread |-> FALSE,
              crossed |-> FALSE, late |-> FALSE, orphaned |-> FALSE, half |-> FALSE,
              resent |-> FALSE, slow |-> FALSE]

Spent(what) == [used EXCEPT ![what] = @ + 1]
Happens == used.events < MaxEvents /\ used' = Spent("events")
Fails == Happens
Answered == UNCHANGED used
Notes(what, wrong) == given' = [given EXCEPT ![what] = @ \/ wrong]

-----------------------------------------------------------------------------
(* Who owns the renderer.                                                      *)

\* mutant: while a track is being started, too.
Asks_Starting == ~mine.external /\ mine.current # None

\* _owns_transport asks the renderer only if a track of ours could be playing.
Asks == ~mine.external /\ ~mine.starting /\ mine.current # None

\* What get_track_uri or get_media_info answers, None when it fails or knows nothing.
Uris == Urls \cup {None, Foreign}
Reads(u, spent) ==
  \/ u = device.uri /\ used' = spent
  \/ /\ u = None /\ device.uri # None /\ used.events < MaxEvents
     /\ used' = [spent EXCEPT !.events = @ + 1]

\* A task that asks who owns the renderer.
Asking(kind, u, saw) ==
  [kind |-> kind, pc |-> "checking", url |-> u, expected |-> mine.current, saw |-> saw, nr |-> 0]

\* mutant: a renderer that still shows the old URI is foreign.
Verdict_NoGrace(t) ==
  IF ~Asks \/ t.expected # mine.current \/ t.saw = None THEN "unknown"
  ELSE IF t.saw \in {mine.current, mine.next} THEN "ours" ELSE "foreign"
\* mutant: nothing is checked again after the read.
Verdict_Stale(t) ==
  IF t.saw = None THEN "unknown"
  ELSE IF t.saw \in {mine.current, mine.next} THEN "ours"
  ELSE IF mine.grace THEN "unknown" ELSE "foreign"

\* _owns_transport with its answer: t is the task that asked for it.
Verdict(t) ==
  IF ~Asks \/ t.expected # mine.current \/ t.saw = None THEN "unknown"
  ELSE IF t.saw \in {mine.current, mine.next} THEN "ours"
  ELSE IF mine.grace THEN "unknown" ELSE "foreign"

\* The gapless state is forgotten.
Unarmed(m) == [m EXCEPT !.next = None, !.nr = 0]

\* _owns_transport finds another source: the listening session is released.  The callback it awaits
\* changes manager and player before its only await, the end report of the play; only a selection
\* (AskAnswered) has something left to do after it.
TakeOver(t) ==
  /\ mine' = [Unarmed(mine) EXCEPT !.external = TRUE]
  /\ Notes("falseTakeover", t.saw # Foreign /\ ~given.slow)

\* What the renderer plays after this track.
Upcoming ==
  IF ~sonos THEN device.next
  ELSE IF device.pos \in 1 .. Len(device.queue) - 1 THEN device.queue[device.pos + 1] ELSE None

-----------------------------------------------------------------------------
(* play.                                                                       *)

\* play after its check: _starting_playback suspends the poll loop.
StartsPlaying(m) == [Unarmed(m) EXCEPT !.starting = TRUE]
FirstRequest == IF sonos THEN "clearQueue" ELSE "setUri"

OnlyCmd == UNCHANGED <<sonos, poll, arm, ask>>

CmdGoes(pc) == cmd' = [Idle EXCEPT !.kind = cmd.kind, !.pc = pc, !.url = cmd.url]

\* A command that asks for the source first.
Checks(kind, u) ==
  \E saw \in Uris : Reads(saw, Spent("tasks")) /\ cmd' = Asking(kind, u, saw)

Play(u) ==
  /\ cmd = Idle /\ ~mine.external /\ used.tasks < MaxTasks
  /\ \/ Asks /\ Checks("play", u) /\ UNCHANGED mine
     \/ /\ ~Asks /\ used' = Spent("tasks") /\ mine' = StartsPlaying(mine)
        /\ cmd' = [Idle EXCEPT !.kind = "play", !.pc = FirstRequest, !.url = u]
  /\ UNCHANGED <<device, due, given>> /\ OnlyCmd

\* mutant: play goes on unless it has found another source itself.
PlayChecked_OwnEyes ==
  /\ cmd.kind = "play" /\ cmd.pc = "checking" /\ Answered
  /\ \/ Verdict(cmd) = "foreign" /\ TakeOver(cmd) /\ cmd' = Idle
     \/ /\ Verdict(cmd) # "foreign" /\ UNCHANGED given
        /\ mine' = StartsPlaying(mine) /\ CmdGoes(FirstRequest)
  /\ UNCHANGED <<device, due>> /\ OnlyCmd

\* check_external_playback answered: play raises if another source owns the renderer.
PlayChecked ==
  /\ cmd.kind = "play" /\ cmd.pc = "checking" /\ Answered
  /\ \/ Verdict(cmd) = "foreign" /\ TakeOver(cmd) /\ cmd' = Idle
     \/ /\ Verdict(cmd) # "foreign" /\ mine.external
        /\ cmd' = Idle /\ UNCHANGED <<mine, given>>
     \/ /\ Verdict(cmd) # "foreign" /\ ~mine.external
        /\ mine' = StartsPlaying(mine) /\ CmdGoes(FirstRequest)
        /\ UNCHANGED given
  /\ UNCHANGED <<device, due>> /\ OnlyCmd

\* A request of a command changes the renderer while the poll loop reads its status.
Crosses == Notes("crossed", poll.pc \in {"asked", "served", "looking"})

\* _play_via_queue: clear, add, play; each failure but the last falls back.
QueueCleared ==
  /\ cmd.pc = "clearQueue"
  /\ \/ /\ Answered /\ CmdGoes("addUri") /\ Crosses
        /\ device' = [device EXCEPT !.queue = <<>>, !.pos = 0,
                                    !.mode = IF device.pos = 0 THEN @ ELSE "STOPPED"]
     \/ Fails /\ CmdGoes("setUri") /\ UNCHANGED <<device, given>>
  /\ UNCHANGED <<mine, due>> /\ OnlyCmd

\* The renderer queues u, and once more if the reply was lost and the request sent again.
Adds(n, u) ==
  /\ IF n = 1 THEN Answered ELSE Fails
  /\ device' = [device EXCEPT !.queue = IF n = 1 THEN Append(@, u) ELSE @ \o <<u, u>>]

UriAdded ==
  /\ cmd.pc = "addUri"
  /\ \/ /\ \E n \in 1 .. 2 : Adds(n, cmd.url) /\ Notes("resent", n = 2)
        /\ CmdGoes("playQueue")
     \/ Fails /\ CmdGoes("setUri") /\ UNCHANGED <<device, given>>
  /\ UNCHANGED <<mine, due>> /\ OnlyCmd

\* mutant: the queue is counted from one.
Loads_FromOne(u, p) ==
  [device EXCEPT !.loading = u, !.pos = IF p = 0 THEN 0 ELSE p + 1, !.mode = "LOADING"]

\* The renderer begins to load u.
Loads(u, p) == [device EXCEPT !.loading = u, !.pos = p, !.mode = "LOADING"]

\* play succeeded: what is current now, with a grace period.
Succeeds ==
  /\ mine' = [mine EXCEPT !.current = cmd.url, !.external = FALSE, !.starting = FALSE,
                          !.grace = TRUE, !.state = "PLAYING"]
  /\ due' = FALSE
\* It reports an error and returns all the same; the renderer may be half way.
GivesUp ==
  /\ Fails /\ cmd' = Idle /\ mine' = [mine EXCEPT !.starting = FALSE]
  /\ given' = [given EXCEPT !.half = TRUE]
  /\ UNCHANGED <<device, due>>

QueuePlayed ==
  /\ cmd.pc = "playQueue"
  /\ \/ /\ device.queue # <<>> /\ Answered /\ cmd' = Idle /\ Crosses
        /\ device' = Loads(device.queue[1], 1) /\ Succeeds
     \/ GivesUp
  /\ OnlyCmd

\* _try_transport_sequence, twice at most: SetAVTransportURI, then Play.
UriSet ==
  /\ cmd.pc \in {"setUri", "setUriAgain"}
  /\ \/ /\ Answered /\ CmdGoes(IF cmd.pc = "setUri" THEN "playUri" ELSE "playUriAgain")
        /\ device' = [device EXCEPT !.loading = cmd.url, !.next = None, !.pos = 0,
                                    !.mode = "STOPPED"]
        /\ Crosses /\ UNCHANGED <<mine, due>>
     \/ Fails /\ cmd.pc = "setUri" /\ CmdGoes("reset") /\ UNCHANGED <<device, mine, due, given>>
     \/ cmd.pc = "setUriAgain" /\ GivesUp
  /\ OnlyCmd

UriPlayed ==
  /\ cmd.pc \in {"playUri", "playUriAgain"}
  /\ \/ /\ Answered /\ cmd' = Idle /\ Crosses /\ Succeeds
        /\ device' = IF device.loading = None THEN [device EXCEPT !.mode = "PLAYING"]
                     ELSE Loads(device.loading, 0)
     \/ Fails /\ cmd.pc = "playUri" /\ CmdGoes("reset") /\ UNCHANGED <<device, mine, due, given>>
     \/ cmd.pc = "playUriAgain" /\ GivesUp
  /\ OnlyCmd

\* _play_via_transport: the session is reset and the renderer stopped, then once more.
TransportReset ==
  /\ cmd.pc = "reset" /\ CmdGoes("setUriAgain")
  /\ \/ Answered /\ device' = [device EXCEPT !.mode = "STOPPED"] /\ Crosses
     \/ Fails /\ UNCHANGED <<device, given>>
  /\ UNCHANGED <<mine, due>> /\ OnlyCmd

-----------------------------------------------------------------------------
(* pause, resume and stop: only while the renderer plays for us.               *)

Stops(kind) == IF kind = "stop" THEN Unarmed(mine) ELSE mine
\* What is armed is forgotten, though the renderer may play it next or plays it already.
Orphans == Notes("orphaned", mine.next # None)

Command(kind) ==
  /\ cmd = Idle /\ used.tasks < MaxTasks
  /\ kind = "pause" => mine.state = "PLAYING"
  /\ kind = "resume" => mine.state = "PAUSED"
  /\ \/ Asks /\ Checks(kind, None) /\ UNCHANGED <<mine, given>>
     \/ ~Asks /\ used' = Spent("tasks") /\ mine' = Stops(kind) /\ UNCHANGED cmd
        /\ IF kind = "stop" THEN Orphans ELSE UNCHANGED given
  /\ UNCHANGED <<device, due>> /\ OnlyCmd

CommandChecked ==
  /\ cmd.kind \in {"pause", "resume", "stop"} /\ cmd.pc = "checking" /\ Answered
  /\ \/ Verdict(cmd) = "foreign" /\ TakeOver(cmd) /\ cmd' = Idle
     \/ /\ Verdict(cmd) # "foreign" /\ mine' = Stops(cmd.kind)
        /\ IF cmd.kind = "stop" THEN Orphans ELSE UNCHANGED given
        /\ IF Verdict(cmd) = "ours" THEN CmdGoes("sent") ELSE cmd' = Idle
  /\ UNCHANGED <<device, due>> /\ OnlyCmd

\* What the renderer does; it refuses to pause if it does not play.
Mode(kind) ==
  CASE kind = "pause"  -> "PAUSED"
    [] kind = "resume" -> IF device.mode = "LOADING" THEN "LOADING" ELSE "PLAYING"
    [] OTHER           -> "STOPPED"
Refused == cmd.kind = "pause" /\ device.mode # "PLAYING"

CommandDone ==
  /\ cmd.pc = "sent"
  /\ \/ /\ Answered /\ ~Refused /\ CmdGoes("done") /\ Crosses
        /\ device' = [device EXCEPT !.mode = Mode(cmd.kind)] /\ due' = FALSE
     \/ /\ (Refused /\ Answered) \/ Fails
        /\ cmd' = Idle /\ UNCHANGED <<device, due, given>>
  /\ UNCHANGED mine /\ OnlyCmd

\* The state follows; stop ends the grace period.
CommandTold ==
  /\ cmd.pc = "done" /\ cmd' = Idle /\ Answered
  /\ mine' = CASE cmd.kind = "pause"  -> [mine EXCEPT !.state = "PAUSED"]
               [] cmd.kind = "resume" -> [mine EXCEPT !.state = "PLAYING"]
               [] OTHER               -> [mine EXCEPT !.state = "STOPPED", !.grace = FALSE]
  /\ Notes("crossed", poll.pc # "sleep" \/ arm # Idle \/ ask # Idle)
  /\ UNCHANGED <<device, due>> /\ OnlyCmd

-----------------------------------------------------------------------------
(* The next track.                                                             *)

OnlyArm == UNCHANGED <<sonos, poll, cmd, ask, due>>

\* set_next_track; the player arms while it plays.
SetNextTrack(u) ==
  /\ arm = Idle /\ used.tasks < MaxTasks
  /\ mine.gapless /\ mine.state = "PLAYING" /\ u # mine.current /\ Asks
  /\ \E saw \in Uris : Reads(saw, Spent("tasks")) /\ arm' = Asking("set", u, saw)
  /\ UNCHANGED <<mine, device, given>> /\ OnlyArm

\* mutant: the entry is appended every time.
Queued_Never(u) == u = None

\* A Sonos that has it queued already is left alone.
Queued(u) == sonos /\ mine.next = u /\ mine.nr # 0

SetNextChecked ==
  /\ arm.kind = "set" /\ arm.pc = "checking" /\ Answered
  /\ \/ Verdict(arm) = "foreign" /\ TakeOver(arm) /\ arm' = Idle
     \/ /\ Verdict(arm) = "unknown" \/ (Verdict(arm) = "ours" /\ Queued(arm.url))
        /\ arm' = Idle /\ UNCHANGED <<mine, given>>
     \/ /\ Verdict(arm) = "ours" /\ ~Queued(arm.url)
        /\ arm' = [arm EXCEPT !.pc = "setting", !.saw = None] /\ UNCHANGED <<mine, given>>
  /\ UNCHANGED device /\ OnlyArm

\* The track that was current when the next one was armed has been replaced or has ended, the
\* renderer is at the one to be armed, or it has moved on to the one that was armed before.
Overtaken ==
  \/ mine.starting \/ mine.current # arm.expected \/ arm.url \in {device.uri, device.loading}
  \/ mine.next \notin {None, arm.url} /\ mine.current \notin {device.uri, device.loading}

\* The renderer takes it, refuses it for now, or does not know how.
NextSet ==
  /\ arm.kind = "set" /\ arm.pc = "setting" /\ arm' = Idle
  /\ \/ /\ ~sonos /\ Answered
        /\ device' = [device EXCEPT !.next = arm.url]
        /\ mine' = [mine EXCEPT !.next = arm.url]
        /\ Notes("late", Overtaken)
     \/ /\ sonos /\ \E n \in 1 .. 2 :
             /\ Adds(n, arm.url)
             /\ mine' = [mine EXCEPT !.next = arm.url, !.nr = Len(device.queue) + n]
             /\ given' = [given EXCEPT !.late = @ \/ Overtaken, !.resent = @ \/ n = 2,
                                      !.orphaned = @ \/ Upcoming \notin {None, arm.url}]
     \/ Fails /\ UNCHANGED <<mine, device, given>>
     \/ Fails /\ ~sonos /\ mine' = [mine EXCEPT !.gapless = FALSE] /\ UNCHANGED <<device, given>>
  /\ OnlyArm

\* clear_next_track forgets it; a Sonos is asked to remove it, if it plays for us.
Forgets == mine' = Unarmed(mine) /\ Orphans

ClearNextTrack ==
  /\ arm = Idle /\ used.tasks < MaxTasks
  /\ \/ /\ sonos /\ mine.nr # 0 /\ Asks
        /\ \E saw \in Uris : Reads(saw, Spent("tasks")) /\ arm' = Asking("clear", None, saw)
        /\ UNCHANGED <<mine, given>>
     \/ /\ ~sonos \/ mine.nr = 0 \/ ~Asks
        /\ used' = Spent("tasks") /\ Forgets /\ UNCHANGED arm
  /\ UNCHANGED device /\ OnlyArm

\* mutant: the entry stays in the queue of a Sonos.
ClearNextChecked_Kept ==
  /\ arm.kind = "clear" /\ arm.pc = "checking" /\ Answered /\ arm' = Idle
  /\ \/ Verdict(arm) = "foreign" /\ TakeOver(arm)
     \/ Verdict(arm) = "unknown" /\ Forgets
     \/ Verdict(arm) = "ours" /\ mine' = Unarmed(mine) /\ UNCHANGED given
  /\ UNCHANGED device /\ OnlyArm

ClearNextChecked ==
  /\ arm.kind = "clear" /\ arm.pc = "checking" /\ Answered
  /\ \/ Verdict(arm) = "foreign" /\ TakeOver(arm) /\ arm' = Idle
     \/ Verdict(arm) = "unknown" /\ Forgets /\ arm' = Idle
     \/ /\ Verdict(arm) = "ours" /\ UNCHANGED <<mine, given>>
        /\ arm' = [Idle EXCEPT !.kind = "clear", !.pc = "removing", !.nr = mine.nr]
  /\ UNCHANGED device /\ OnlyArm

\* The entry goes, even if the renderer plays it by now.
NextRemoved ==
  /\ arm.pc = "removing" /\ arm' = Idle
  /\ \/ /\ Answered /\ arm.nr \in DOMAIN device.queue
        /\ device' = [device EXCEPT
                         !.queue = RemoveAt(@, arm.nr),
                         !.mode = IF arm.nr = device.pos THEN "STOPPED" ELSE @,
                         !.pos = IF arm.nr = @ THEN 0 ELSE IF arm.nr < @ THEN @ - 1 ELSE @]
        /\ given' = [given EXCEPT !.cut = @ \/ arm.nr = device.pos,
                               !.orphaned = @ \/ device.uri # mine.current]
        /\ mine' = Unarmed(mine)
     \/ /\ IF arm.nr \in DOMAIN device.queue THEN Fails ELSE Answered
        /\ Forgets /\ UNCHANGED device
  /\ OnlyArm

-----------------------------------------------------------------------------
(* Selections, snapshots and the volume ask for the source.                    *)

OnlyAsk == UNCHANGED <<sonos, poll, cmd, arm, device, due>>

\* prepare_for_selection, after the question: the speaker may load a track again.
Selected(m) == IF m.external THEN [m EXCEPT !.current = None, !.external = FALSE] ELSE m

Ask(kind) ==
  /\ ask = Idle /\ used.tasks < MaxTasks
  /\ \/ /\ Asks /\ UNCHANGED mine
        /\ \E saw \in Uris : Reads(saw, Spent("tasks")) /\ ask' = Asking(kind, None, saw)
     \/ /\ ~Asks /\ used' = Spent("tasks") /\ UNCHANGED ask
        /\ mine' = IF kind = "select" THEN Selected(mine) ELSE mine
  /\ UNCHANGED given /\ OnlyAsk

\* The answer.  A selection that released the session goes on when the callback has returned.
AskAnswered ==
  /\ ask # Idle /\ Answered
  /\ \/ /\ Verdict(ask) = "foreign" /\ TakeOver(ask)
        /\ ask' = IF ask.kind = "select"
                  THEN [Idle EXCEPT !.kind = "select", !.pc = "released"] ELSE Idle
     \/ /\ Verdict(ask) # "foreign" /\ ask' = Idle /\ UNCHANGED given
        /\ mine' = IF ask.kind = "select" THEN Selected(mine) ELSE mine
  /\ OnlyAsk

-----------------------------------------------------------------------------
(* _poll_state_loop.                                                           *)

OnlyPoll == UNCHANGED <<sonos, cmd, arm, ask, device>>
Sleeps == poll' = [poll EXCEPT !.pc = "sleep", !.expected = None, !.saw = None]

\* The owner is asked before the status is, and again for the position.
PollAsks(pc, p) ==
  \E saw \in Uris :
    /\ Reads(saw, used)
    /\ poll' = [p EXCEPT !.pc = pc, !.expected = mine.current, !.saw = saw]

PollWakes ==
  /\ poll.pc = "sleep" /\ Asks /\ PollAsks("checking", poll)
  /\ UNCHANGED <<mine, due, given>> /\ OnlyPoll

PollChecked ==
  /\ poll.pc \in {"checking", "locating"} /\ Answered
  /\ \/ Verdict(poll) = "foreign" /\ TakeOver(poll) /\ Sleeps
     \/ /\ Verdict(poll) # "foreign" /\ UNCHANGED <<mine, given>>
        /\ IF poll.pc = "checking" /\ ~mine.external
           THEN poll' = [poll EXCEPT !.pc = "asked", !.expected = None, !.saw = None]
           ELSE Sleeps
  /\ UNCHANGED due /\ OnlyPoll

\* get_state; a status that cannot be read is STOPPED, and so is a renderer that is loading.
StatusServed ==
  /\ poll.pc = "asked"
  /\ \/ /\ Answered
        /\ \E m \in {device.mode} \cup (IF device.loading # None THEN {"STOPPED"} ELSE {}) :
             poll' = [poll EXCEPT !.pc = "served", !.state = m]
        /\ given' = [given EXCEPT !.crossed = @ \/ cmd.pc = "done" \/ mine.starting
                                              \/ device.uri = Foreign]
     \/ /\ Fails /\ device.mode # "STOPPED"
        /\ poll' = [poll EXCEPT !.pc = "served", !.state = "STOPPED"]
        /\ given' = [given EXCEPT !.misread = TRUE]
  /\ UNCHANGED <<mine, due>> /\ OnlyPoll

\* mutant: STOPPED counts during the grace period too.
Changed_NoGrace(s, inGrace) ==
  LET stopped == mine.state = "PLAYING" /\ s = "STOPPED"
      left == IF stopped THEN [mine EXCEPT !.next = None] ELSE mine
  IN  /\ mine' = [left EXCEPT !.state = s]
      /\ due' = (due /\ ~stopped)
      /\ given' = [given EXCEPT !.falseEnd = @ \/ (stopped /\ ~due /\ ~given.slow),
                               !.orphaned = @ \/ (stopped /\ mine.next # None)]

\* The state is compared with the one remembered.
Changed(s, inGrace) ==
  LET stopped == mine.state = "PLAYING" /\ s = "STOPPED"
      left == IF stopped THEN [mine EXCEPT !.next = None] ELSE mine
  IN  /\ mine' = IF stopped /\ inGrace THEN left ELSE [left EXCEPT !.state = s]
      /\ due' = (due /\ (~stopped \/ inGrace))
      /\ given' = [given EXCEPT !.falseEnd = @ \/ (stopped /\ ~inGrace /\ ~due /\ ~given.slow),
                               !.orphaned = @ \/ (stopped /\ mine.next # None)]

StatusReturned ==
  /\ poll.pc = "served"
  /\ \/ /\ poll.state = "PLAYING" /\ mine.next # None
        /\ \E saw \in Uris :
             /\ Reads(saw, used)
             /\ poll' = [poll EXCEPT !.pc = "looking", !.saw = saw, !.grace = mine.grace]
        /\ UNCHANGED <<mine, due, given>>
     \/ /\ poll.state = "PLAYING" /\ mine.next = None /\ Changed("PLAYING", mine.grace)
        /\ IF Asks THEN PollAsks("locating", poll) ELSE Sleeps /\ Answered
     \/ /\ poll.state # "PLAYING" /\ Changed(poll.state, mine.grace) /\ Sleeps /\ Answered
  /\ OnlyPoll

\* The renderer has moved on to the track that was armed, or not.
TrackLooked ==
  /\ poll.pc = "looking"
  /\ \/ /\ poll.saw # None /\ poll.saw = mine.next /\ Sleeps /\ Answered
        /\ mine' = [Unarmed(mine) EXCEPT !.current = mine.next, !.grace = TRUE]
        /\ UNCHANGED <<due, given>>
     \/ /\ poll.saw = None \/ poll.saw # mine.next
        /\ Changed("PLAYING", poll.grace)
        /\ IF Asks THEN PollAsks("locating", [poll EXCEPT !.grace = FALSE])
           ELSE Sleeps /\ Answered
  /\ OnlyPoll

\* The renderer still loads, or a task is about to go by what it read before it was loaded.
Unsettled ==
  \/ device.loading # None
  \/ \E t \in {cmd, arm, ask, poll} : t.saw \notin {None, Foreign, mine.current, device.uri}
  \/ poll.pc = "served" /\ poll.state # device.mode

\* Five seconds after the play or the transition, whatever is still going on: a request may last
\* ten and be repeated.  slow stays until the next grace period ends.
GraceEnds ==
  /\ mine.grace
  /\ mine' = [mine EXCEPT !.grace = FALSE]
  /\ given' = [given EXCEPT !.slow = Unsettled]
  /\ UNCHANGED <<sonos, poll, cmd, arm, ask, device, used, due>>

-----------------------------------------------------------------------------
(* The renderer, and whoever else uses it.                                     *)

OnlyDevice == UNCHANGED <<sonos, mine, poll, cmd, arm, ask>>

\* The URI it was given shows.
Loaded ==
  /\ device.loading # None
  /\ device' = [device EXCEPT !.uri = device.loading, !.loading = None,
                              !.mode = IF @ = "LOADING" THEN "PLAYING" ELSE @]
  /\ due' = FALSE /\ Answered /\ UNCHANGED given /\ OnlyDevice

\* The track ends and the next begins.
Advances ==
  /\ device.mode = "PLAYING" /\ device.loading = None /\ Upcoming # None
  /\ Happens
  /\ device' = IF sonos THEN [device EXCEPT !.uri = Upcoming, !.pos = @ + 1]
               ELSE [device EXCEPT !.uri = Upcoming, !.next = None]
  /\ UNCHANGED <<due, given>> /\ OnlyDevice

\* The track ends and none follows.
Ends ==
  /\ device.mode = "PLAYING" /\ device.uri \in Urls /\ device.loading = None /\ Upcoming = None
  /\ Happens
  /\ device' = [device EXCEPT !.mode = "STOPPED"]
  /\ due' = TRUE /\ UNCHANGED given /\ OnlyDevice

\* Another source begins to play.
ForeignTakes ==
  /\ device.uri # Foreign \/ device.loading # None
  /\ Happens
  /\ device' = [device EXCEPT !.uri = Foreign, !.mode = "PLAYING", !.loading = None,
                              !.next = None, !.pos = 0]
  /\ due' = FALSE /\ Crosses /\ OnlyDevice

\* Somebody pauses, resumes or stops what plays, at the renderer.
HandsOn(m) ==
  /\ device.mode \in {"PLAYING", "PAUSED"} /\ m # device.mode
  /\ Happens
  /\ device' = [device EXCEPT !.mode = m]
  /\ due' = (m = "STOPPED" /\ device.uri \in Urls) /\ UNCHANGED given /\ OnlyDevice

Next ==
  \/ \E u \in Urls : Play(u) \/ SetNextTrack(u)
  \/ PlayChecked \/ QueueCleared \/ UriAdded \/ QueuePlayed \/ UriSet \/ UriPlayed
  \/ TransportReset
  \/ \E kind \in {"pause", "resume", "stop"} : Command(kind)
  \/ CommandChecked \/ CommandDone \/ CommandTold
  \/ SetNextChecked \/ NextSet \/ ClearNextTrack \/ ClearNextChecked \/ NextRemoved
  \/ \E kind \in {"select", "check"} : Ask(kind)
  \/ AskAnswered
  \/ PollWakes \/ PollChecked \/ StatusServed \/ StatusReturned \/ TrackLooked \/ GraceEnds
  \/ Loaded \/ Advances \/ Ends \/ ForeignTakes
  \/ \E m \in {"PLAYING", "PAUSED", "STOPPED"} : HandsOn(m)

Spec == Init /\ [][Next]_vars

-----------------------------------------------------------------------------
(* Properties.                                                                 *)

Modes == {"STOPPED", "PLAYING", "PAUSED", "LOADING"}
TypeOK ==
  /\ sonos \in BOOLEAN
  /\ mine.current \in Urls \cup {None} /\ mine.next \in Urls \cup {None}
  /\ mine.state \in Modes /\ mine.nr \in Nat
  /\ device.uri \in Uris /\ device.mode \in Modes /\ device.queue \in Seq(Urls)
  /\ device.pos \in 0 .. Len(device.queue)
  /\ poll.pc \in {"sleep", "checking", "asked", "served", "looking", "locating"}

\* The end of a track is told only after the renderer stopped by itself or at its own buttons,
\* not for a stop of ours, nor while a new track loads.  Left out: a track that takes longer
\* to load than the grace period lasts (slow), a status that could not be read, which counts
\* as STOPPED, one that a command or another source overtook, a play that failed half way,
\* and an entry removed from a Sonos while it played.
EndIsReal == given.falseEnd => given.misread \/ given.crossed \/ given.half \/ given.cut

\* A takeover is declared only when another source has played: none of our own tracks is taken
\* for one, though the renderer shows an old URI for a while and moves on by itself.  Left out:
\* a grace period that ended while the renderer still loaded or an answer from before was under
\* way (slow), what it still plays after a failed play, a status that could not be read, an
\* arming that a new play overtook, a next track that was forgotten without the renderer, and
\* a stop, which ends the grace period of a track that others have asked about.
TakeoverIsForeign ==
  given.falseTakeover =>
    \/ given.misread \/ given.late \/ given.orphaned \/ given.half \/ given.crossed
    \/ given.resent

\* The renderer never goes on to a track that the backend does not know it armed.
NextIsArmed ==
  /\ arm = Idle /\ cmd = Idle /\ ~mine.external /\ device.mode \in {"PLAYING", "PAUSED"}
  /\ device.uri = mine.current
  /\ ~given.misread /\ ~given.late /\ ~given.orphaned /\ ~given.half /\ ~given.resent
  => Upcoming \in {None, mine.next}

\* A Sonos never has the track that was armed in its queue twice.
QueuedOnce ==
  sonos /\ ~given.misread /\ ~given.late /\ ~given.orphaned /\ ~given.half /\ ~given.resent
    => Len(device.queue) <= device.pos + 1 \/ device.pos = 0

\* No play is on its way to the renderer once another source is known to own it: playing asked
\* before it began, and nobody declares a takeover while it goes on.
NoPlayWhileExternal == mine.external => ~mine.starting

\* A new selection holds: a question that was asked before it does not take the speaker away
\* again, since there is no track of ours to lose until one has been played.
SelectionHolds == mine.external => mine.current # None

\* Once another source owns the renderer only a new selection gives it back, and then no track
\* of ours is current: a play that was asked for before cannot take it back.
OnlySelectionReturns ==
  [][mine.external /\ ~mine'.external => ask' = Idle /\ mine'.current = None]_vars

\* Who owns the renderer is seen as it is: no takeover of our own track, none after a new
\* selection, and no play against one (check_external_playback); with the types.
TakeoverIsReal == TypeOK /\ TakeoverIsForeign /\ SelectionHolds /\ NoPlayWhileExternal

\* What the renderer will play next is what the backend armed, and that once (set_next_track,
\* clear_next_track).
NextIsKnown == NextIsArmed /\ QueuedOnce
=============================================================================
