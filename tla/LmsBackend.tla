----------------------------- MODULE LmsBackend -----------------------------
(***************************************************************************)
(* The LMS backend: backends/lms/backend.py.  Three tasks drive one player *)
(* of a Lyrion server over HTTP: the state loop, the player's command and  *)
(* the gapless arming.  Each has at most one request on its way; the       *)
(* server, which plays on by itself and obeys other controllers as well,   *)
(* serves requests in any order.  What a task decides, it decides on the   *)
(* status of the moment it was read.                                       *)
(***************************************************************************)
EXTENDS Integers, SequencesExt

CONSTANTS
    Tracks, Foreign, None,      \* our tracks, another source's item
    MaxCommands, MaxArms, MaxAdvances, MaxForeign, MaxFailures  \* bounds of the instance

ASSUME LmsAssumption ==
    /\ Foreign \notin Tracks /\ None \notin Tracks \cup {Foreign}
    /\ {MaxCommands, MaxArms, MaxAdvances, MaxForeign, MaxFailures} \subseteq Nat

VARIABLES
    lms,            \* the player: [list, cur, mode]
    current,        \* _current_url
    nxt,            \* _next_url
    orphan,         \* _orphan_url
    grace,          \* _playback_started_at is recent
    state,          \* _state, what listeners were told
    task,           \* the three tasks: [pc, req, status, item, old, stale]
    player,         \* history: [track, armed, mode], what QobuzPlayer believes
    seen,           \* history: the state loop has acted on the present status
    given,          \* history: exceptions, see the properties
    used            \* what was used of the bounds

backendVars == <<current, nxt, orphan, grace, state>>
vars == <<lms, backendVars, task, player, seen, given, used>>

Loop == "loop"
Command == "command"
Arm == "arm"

NoReq == [kind |-> "none", item |-> None, index |-> 0]
Req(kind, item, index) == [kind |-> kind, item |-> item, index |-> index]
Status == Req("status", None, 0)

Silent == [list |-> <<>>, cur |-> 0, mode |-> "stop"]
IdleTask == [pc |-> "idle", req |-> NoReq, status |-> Silent, item |-> None, old |-> None,
             stale |-> FALSE]

Bound == [commands |-> MaxCommands, arms |-> MaxArms, advances |-> MaxAdvances,
          foreign |-> MaxForeign, failures |-> MaxFailures]

Spend(what) == used[what] < Bound[what] /\ used' = [used EXCEPT ![what] = @ + 1]

Init ==
    /\ lms = Silent
    /\ current = None /\ nxt = None /\ orphan = None /\ grace = FALSE /\ state = "STOPPED"
    /\ task = [t \in {Loop, Command, Arm} |-> IdleTask]
    /\ player = [track |-> None, armed |-> None, mode |-> "stopped"]
    /\ seen = TRUE
    /\ given = [crossed |-> FALSE, slipped |-> FALSE, missed |-> FALSE]
    /\ used = [what \in DOMAIN Bound |-> 0]

-----------------------------------------------------------------------------
(***************************************************************************)
(* Reading a status                                                        *)
(***************************************************************************)

\* _status_url
Url(s) == IF s.cur \in 1 .. Len(s.list) THEN s.list[s.cur] ELSE None

\* What waits behind the playing item.
Behind(s) == IF s.cur < Len(s.list) THEN s.list[s.cur + 1] ELSE None

\* _owns_player
OwnsAny(s) == Url(s) # None   \* mutant: whatever plays is ours
Owns(s) == Url(s) # None /\ Url(s) \in {current, nxt}

\* _index_of: the first item after the current one with this URL, or 0.
Indexes(s, url) == {i \in s.cur + 1 .. Len(s.list) : s.list[i] = url}
IndexOf(s, url) == IF Indexes(s, url) = {} THEN 0 ELSE Min(Indexes(s, url))

\* _handle_transition: the last item before the current one with this URL, or 0.
Finished(s, url) == LET I == {i \in 1 .. s.cur - 1 : s.list[i] = url}
                    IN  IF I = {} THEN 0 ELSE Max(I)

ModeAsIs(s) == s.mode   \* mutant: the server's word is taken for a PlaybackState
ModeToState(s) == CASE s.mode = "play" -> "PLAYING"
                    [] s.mode = "pause" -> "PAUSED"
                    [] s.mode = "stop" -> "STOPPED"

-----------------------------------------------------------------------------
(***************************************************************************)
(* The server                                                              *)
(***************************************************************************)
Effect(l, r) ==
    CASE r.kind = "status" -> l
      [] r.kind = "play" -> [list |-> <<r.item>>, cur |-> 1, mode |-> "play"]
      [] r.kind = "add" -> [l EXCEPT !.list = Append(@, r.item), !.cur = IF l.list = <<>> THEN 1 ELSE @]
      [] r.kind = "stop" -> [l EXCEPT !.mode = "stop"]
      [] r.kind = "pause" -> [l EXCEPT !.mode = IF @ = "play" THEN "pause" ELSE @]
      [] r.kind = "unpause" -> [l EXCEPT !.mode = IF @ = "pause" THEN "play" ELSE @]
      [] r.kind = "delete" ->
            IF r.index \notin 1 .. Len(l.list) THEN l
            ELSE IF r.index < l.cur THEN [l EXCEPT !.list = RemoveAt(@, r.index), !.cur = @ - 1]
            ELSE IF r.index > l.cur THEN [l EXCEPT !.list = RemoveAt(@, r.index)]
            ELSE IF l.cur < Len(l.list) THEN [l EXCEPT !.list = RemoveAt(@, r.index)]
            ELSE [l EXCEPT !.list = RemoveAt(@, r.index), !.cur = @ - 1, !.mode = "stop"]

Waiting(t) == task[t].req.kind \notin {"none", "answered", "failed"}
Answered(t) == task[t].req.kind = "answered"
Failed(t) == task[t].req.kind = "failed"

\* Only a status request brings a status; another leaves the one read before.
Reply(t, kind, l) ==
    [task EXCEPT ![t].req = [NoReq EXCEPT !.kind = kind],
                 ![t].status = IF task[t].req = Status THEN l ELSE @]

\* The arming deletes by an index from before the playlist changed, and what
\* it means to delete stays behind the playing track.
Missed(t) ==
    /\ task[t].pc = "deleting" /\ task[t].status.list # lms.list
    /\ Behind(Effect(lms, task[t].req)) = task[t].req.item

Serve(t) ==
    /\ Waiting(t)
    /\ lms' = Effect(lms, task[t].req)
    /\ task' = Reply(t, "answered", lms')
    /\ seen' = (seen /\ lms' = lms)
    /\ given' = [given EXCEPT !.missed = @ \/ Missed(t)]
    /\ UNCHANGED <<backendVars, player, used>>

\* No answer in time, whether or not the request reached the server.
TimeOut(t) ==
    /\ Waiting(t) /\ Spend("failures")
    /\ lms' \in {lms, Effect(lms, task[t].req)}
    /\ task' = Reply(t, "failed", Silent)
    /\ seen' = (seen /\ lms' = lms)
    /\ UNCHANGED <<backendVars, player, given>>

\* The end of an item.
Advance ==
    /\ lms.mode = "play" /\ Spend("advances")
    /\ lms' = IF lms.cur < Len(lms.list) THEN [lms EXCEPT !.cur = @ + 1]
                                        ELSE [lms EXCEPT !.mode = "stop"]
    /\ seen' = FALSE
    /\ UNCHANGED <<backendVars, task, player, given>>

\* Another controller takes over a player of ours.
ForeignPlays ==
    /\ current # None /\ Spend("foreign")
    /\ lms' = [list |-> <<Foreign>>, cur |-> 1, mode |-> "play"]
    /\ seen' = FALSE
    /\ UNCHANGED <<backendVars, task, player, given>>

-----------------------------------------------------------------------------
(***************************************************************************)
(* What the player makes of the backend's callbacks                        *)
(***************************************************************************)
TransitionMissed == player' = player   \* mutant: no _notify_next_track_started
TransitionTold ==
    player' = IF player.armed = None THEN player
              ELSE [player EXCEPT !.track = player.armed, !.armed = None]

\* _handle_track_ended: an arming on its way is outdated.
EndTold == player' = [player EXCEPT !.mode = "stopped", !.armed = None]

Goes(t, pc, req) == task' = [task EXCEPT ![t].pc = pc, ![t].req = req, ![t].status = Silent]
Rests(t) == task' = [task EXCEPT ![t] = IdleTask]
RestsAfterEnd == task' = [task EXCEPT ![Loop] = IdleTask, ![Arm].stale = TRUE]

-----------------------------------------------------------------------------
(***************************************************************************)
(* The state loop: _poll_state_loop                                        *)
(***************************************************************************)
LoopReads ==
    /\ task[Loop].pc = "idle" /\ current # None
    /\ task' = [task EXCEPT ![Loop].pc = "reading", ![Loop].req = Status, ![Loop].old = orphan]
    /\ UNCHANGED <<lms, backendVars, player, seen, given, used>>

GraceEnds ==
    /\ grace /\ grace' = FALSE
    /\ UNCHANGED <<lms, current, nxt, orphan, state, task, player, seen, given, used>>

\* The loop is done with a status that is still the server's, and not one from
\* before a removal of its own.
Saw(s) == seen' = (s = lms /\ task[Loop].pc = "reading")

\* mutant: a stop in the grace period is taken note of
CompareInGrace(s) ==
    LET ended == ModeToState(s) = "STOPPED" /\ state = "PLAYING"
    IN  /\ state' = ModeToState(s) /\ Saw(s)
        /\ \/ ended /\ ~grace /\ nxt' = None /\ EndTold /\ RestsAfterEnd
           \/ ~(ended /\ ~grace) /\ UNCHANGED <<nxt, player>> /\ Rests(Loop)

\* The tail of an iteration: the mode of s against what listeners know.
CompareState(s) ==
    LET ended == ModeToState(s) = "STOPPED" /\ state = "PLAYING"
    IN  \/ /\ ended /\ ~grace
           /\ nxt' = None /\ state' = "STOPPED" /\ EndTold /\ RestsAfterEnd /\ Saw(s)
        \/ /\ ended /\ grace
           /\ UNCHANGED <<nxt, state, player>> /\ Rests(Loop) /\ seen' = FALSE
        \/ /\ ~ended
           /\ state' = ModeToState(s) /\ UNCHANGED <<nxt, player>> /\ Rests(Loop) /\ Saw(s)

\* A cleared next track was reached: the track before it has ended.
ReachedOrphan(s) ==
    /\ orphan # None /\ Url(s) = orphan
    /\ current' = orphan /\ orphan' = None
    /\ EndTold /\ Saw(s) /\ RestsAfterEnd
    /\ UNCHANGED <<nxt, grace, state>>

Reached(s) == orphan # None /\ Url(s) = orphan

CommandOnItsWay == task[Command].pc # "idle"

\* Someone else plays on this player: let go without advancing.
Release(s) ==
    /\ ~Reached(s) /\ ~Owns(s) /\ ~grace
    /\ current' = None /\ nxt' = None /\ orphan' = None /\ state' = "STOPPED"
    /\ Saw(s) /\ Rests(Loop)
    /\ UNCHANGED <<grace, player>>

WaitsInGrace(s) ==
    /\ ~Reached(s) /\ ~Owns(s) /\ grace
    /\ seen' = FALSE /\ Rests(Loop)
    /\ UNCHANGED <<backendVars, player>>

Transition(s) ==
    /\ ~Reached(s) /\ Owns(s) /\ nxt # None /\ Url(s) = nxt
    /\ current' = nxt /\ nxt' = None /\ grace' = TRUE
    /\ TransitionTold /\ seen' = FALSE
    /\ LET index == IF current = None THEN 0 ELSE Finished(s, current)
       IN  IF index = 0 THEN Rests(Loop)
           ELSE Goes(Loop, "dropping", Req("delete", current, index))
    /\ UNCHANGED <<orphan, state>>

\* _remove_orphan for a status in which the orphan is not playing.
RemovesOrphan(t, s, pc) ==
    /\ orphan' = None
    /\ IndexOf(s, orphan) # 0
    /\ task' = [task EXCEPT ![t].pc = pc, ![t].req = Req("delete", orphan, IndexOf(s, orphan))]

Steady(s) == ~Reached(s) /\ Owns(s) /\ ~(nxt # None /\ Url(s) = nxt)

\* REARM_GRACE_SECONDS may be over or not.
Ripe == orphan # None

\* They are over for an orphan younger than the read that lasted so long: the
\* status need not show it.
Unseen(s) == Steady(s) /\ orphan' = None /\ orphan \notin {None, task[Loop].old}

StillPlays(s) ==
    /\ Steady(s)
    /\ \/ UNCHANGED orphan /\ CompareState(s)
       \/ Ripe /\ IndexOf(s, orphan) = 0 /\ orphan' = None /\ CompareState(s)
       \/ /\ Ripe /\ RemovesOrphan(Loop, s, "removing")
          /\ UNCHANGED <<nxt, state, player, seen>>
    /\ UNCHANGED <<current, grace>>

LoopActs ==
    /\ task[Loop].pc = "reading" /\ Answered(Loop)
    /\ LET s == task[Loop].status
       IN  /\ Release(s) \/ ReachedOrphan(s) \/ WaitsInGrace(s) \/ Transition(s) \/ StillPlays(s)
           /\ given' = [given EXCEPT !.crossed = @ \/ CommandOnItsWay, !.missed = @ \/ Unseen(s)]
    /\ UNCHANGED <<lms, used>>

\* The read failed, or the finished track is dropped: around again.
LoopContinues ==
    /\ \/ task[Loop].pc = "reading" /\ Failed(Loop)
       \/ task[Loop].pc = "dropping" /\ ~Waiting(Loop)
    /\ seen' = FALSE /\ Rests(Loop)
    /\ UNCHANGED <<lms, backendVars, player, given, used>>

\* The rest of the iteration still uses the status from before the removal.
OrphanRemoved ==
    /\ task[Loop].pc = "removing" /\ ~Waiting(Loop)
    /\ CompareState(task[Loop].status)
    /\ UNCHANGED <<lms, current, orphan, grace, given, used>>

-----------------------------------------------------------------------------
(***************************************************************************)
(* The player's command                                                    *)
(***************************************************************************)
\* mutant: gapless state survives a new command
BeginsArmed(pc, req, item) ==
    /\ task[Command].pc = "idle"
    /\ IF pc = "resuming" THEN UNCHANGED used ELSE Spend("commands")
    /\ task' = [task EXCEPT ![Command].pc = pc, ![Command].req = req, ![Command].item = item]
    /\ player' = IF pc = "playing" THEN [player EXCEPT !.mode = "stopped"] ELSE player

Begins(pc, req, item) ==
    /\ task[Command].pc = "idle"
    /\ IF pc = "resuming" THEN UNCHANGED used ELSE Spend("commands")
    /\ task' = [task EXCEPT ![Command].pc = pc, ![Command].req = req, ![Command].item = item,
                            ![Arm].stale = (@ \/ pc \in {"playing", "stopping"})]
    /\ player' = CASE pc = "playing" -> [player EXCEPT !.armed = None, !.mode = "stopped"]
                   [] pc = "stopping" -> [player EXCEPT !.armed = None]
                   [] OTHER -> player

\* The state loop still has to act on a status from before the command's end.
HoldsStatus == task[Loop].pc = "removing" \/ (task[Loop].pc = "reading" /\ Answered(Loop))
Crosses == given' = [given EXCEPT !.crossed = @ \/ HoldsStatus]

\* `playlist play` replaces the whole playlist.
Play(t) ==
    /\ Begins("playing", Req("play", t, 0), t)
    /\ nxt' = None /\ orphan' = None
    /\ UNCHANGED <<lms, current, grace, state, seen, given>>

\* A failed play returns like one that succeeded: QobuzPlayer reports PLAYING.
PlayEnds ==
    /\ task[Command].pc = "playing" /\ ~Waiting(Command)
    /\ IF Answered(Command)
       THEN current' = task[Command].item /\ grace' = TRUE /\ state' = "PLAYING"
       ELSE current' = None /\ UNCHANGED <<grace, state>>
    /\ player' = [player EXCEPT !.track = task[Command].item, !.mode = "playing"]
    /\ seen' = FALSE /\ Rests(Command) /\ Crosses
    /\ UNCHANGED <<lms, nxt, orphan, used>>

Pause ==
    /\ player.mode = "playing" /\ Begins("pausing", Req("pause", None, 0), None)
    /\ UNCHANGED <<lms, backendVars, seen, given>>

PauseEnds ==
    /\ task[Command].pc = "pausing" /\ ~Waiting(Command)
    /\ state' = IF Answered(Command) THEN "PAUSED" ELSE state
    /\ player' = IF Answered(Command) THEN [player EXCEPT !.mode = "paused"] ELSE player
    /\ seen' = FALSE /\ Rests(Command) /\ Crosses
    /\ UNCHANGED <<lms, current, nxt, orphan, grace, used>>

\* Only a player that still has our track is woken; a pause pays for its resume.
Resume ==
    /\ player.mode = "paused" /\ current # None /\ Begins("resuming", Status, None)
    /\ UNCHANGED <<lms, backendVars, seen, given>>

ResumeGoesOn ==
    /\ task[Command].pc = "resuming" /\ ~Waiting(Command)
    /\ IF Answered(Command) /\ Owns(task[Command].status)
       THEN Goes(Command, "unpausing", Req("unpause", None, 0))
       ELSE Rests(Command)
    /\ UNCHANGED <<lms, backendVars, player, seen, given, used>>

ResumeEnds ==
    /\ task[Command].pc = "unpausing" /\ ~Waiting(Command)
    /\ state' = IF Answered(Command) THEN "PLAYING" ELSE state
    /\ player' = IF Answered(Command) THEN [player EXCEPT !.mode = "playing"] ELSE player
    /\ seen' = FALSE /\ Rests(Command) /\ Crosses
    /\ UNCHANGED <<lms, current, nxt, orphan, grace, used>>

Stop ==
    /\ Begins("stopping", Status, None)
    /\ UNCHANGED <<lms, backendVars, seen, given>>

\* Never stop what was started from another controller.
StopGoesOn ==
    /\ task[Command].pc = "stopping" /\ Answered(Command) /\ Owns(task[Command].status)
    /\ Goes(Command, "stopped", Req("stop", None, 0))
    /\ UNCHANGED <<lms, backendVars, player, seen, given, used>>

StopEnds ==
    /\ \/ task[Command].pc = "stopped" /\ ~Waiting(Command)
       \/ task[Command].pc = "stopping" /\ Failed(Command)
       \/ /\ task[Command].pc = "stopping" /\ Answered(Command)
          /\ ~Owns(task[Command].status)
    /\ current' = None /\ nxt' = None /\ orphan' = None /\ state' = "STOPPED"
    /\ player' = [player EXCEPT !.mode = "stopped"]
    /\ seen' = FALSE /\ Rests(Command)
    /\ UNCHANGED <<lms, grace, given, used>>

-----------------------------------------------------------------------------
(***************************************************************************)
(* Arming the next track: set_next_track and clear_next_track, under the   *)
(* player's _gapless_arm_lock                                              *)
(***************************************************************************)
ArmGoes(pc, req) == Goes(Arm, pc, req) /\ UNCHANGED player

\* The player resolves the track before it calls the backend.
ArmStarts(t) ==
    /\ task[Arm].pc = "idle" /\ player.mode = "playing" /\ player.armed = None /\ Spend("arms")
    /\ task' = [task EXCEPT ![Arm].pc = "fetching", ![Arm].item = t, ![Arm].stale = FALSE]
    /\ UNCHANGED <<lms, backendVars, player, seen, given>>

SetNextTrack ==
    /\ task[Arm].pc = "fetching"
    /\ IF current \in {None, task[Arm].item} THEN Rests(Arm) ELSE Goes(Arm, "setting", Status)
    /\ UNCHANGED <<lms, backendVars, player, seen, given, used>>

\* set_next_track has returned True: armed, or outdated and to be undone.
Armed(t) ==
    IF task[Arm].stale
    THEN /\ nxt' = None /\ UNCHANGED player
         /\ task' = [task EXCEPT ![Arm].pc = "clearing", ![Arm].req = Status, ![Arm].old = t]
    ELSE /\ nxt' = t /\ player' = [player EXCEPT !.armed = t]
         /\ Rests(Arm)

Unreachable(s) == Url(s) # current \/ task[Arm].item = current

\* mutant: foreign items are not looked for
AddsAnyway(s) ==
    IF Unreachable(s) THEN Rests(Arm) ELSE Goes(Arm, "adding", Req("add", task[Arm].item, 0))

Adds(s) ==
    IF Unreachable(s) \/ Len(s.list) > s.cur THEN Rests(Arm)
    ELSE Goes(Arm, "adding", Req("add", task[Arm].item, 0))

SetNextSees(s, t) ==
    \/ Url(s) # current /\ Rests(Arm) /\ UNCHANGED <<nxt, orphan, player>>
    \/ /\ Url(s) = current /\ t = nxt /\ IndexOf(s, t) # 0
       /\ Armed(t) /\ UNCHANGED orphan
    \/ /\ Url(s) = current /\ t # nxt /\ t = orphan /\ IndexOf(s, t) # 0
       /\ Armed(t) /\ orphan' = None
    \/ /\ Url(s) = current /\ ~(t \in {nxt, orphan} /\ IndexOf(s, t) # 0)
       /\ UNCHANGED <<orphan, player>>
       /\ \/ /\ nxt # None /\ nxt' = None
             /\ task' = [task EXCEPT ![Arm].pc = "replacing", ![Arm].req = Status,
                                     ![Arm].old = nxt]
          \/ /\ nxt = None /\ UNCHANGED nxt
             /\ IF orphan # None THEN Goes(Arm, "removing", Status) ELSE Adds(s)

SetNextReads ==
    /\ task[Arm].pc = "setting" /\ Answered(Arm)
    /\ SetNextSees(task[Arm].status, task[Arm].item)
    /\ seen' = FALSE
    /\ UNCHANGED <<lms, current, grace, state, given, used>>

\* mutant: the cleared item is not remembered
ClearedForgotten ==
    /\ current' = IF Answered(Arm) /\ Url(task[Arm].status) = task[Arm].old THEN task[Arm].old
                  ELSE current
    /\ UNCHANGED orphan

\* clear_next_track after its read of the status.
Cleared ==
    LET s == task[Arm].status
        old == task[Arm].old
    IN  IF Failed(Arm) THEN orphan' = old /\ UNCHANGED current
        ELSE IF Url(s) = old THEN current' = old /\ UNCHANGED orphan
        ELSE UNCHANGED current /\ orphan' = IF IndexOf(s, old) # 0 THEN old ELSE orphan

Slipped ==
    given' = [given EXCEPT !.slipped =
                  @ \/ (Answered(Arm) /\ Url(task[Arm].status) = task[Arm].old)]

ClearNextTrack ==
    /\ task[Arm].pc = "idle" /\ player.mode = "playing" /\ Spend("arms")
    /\ player' = [player EXCEPT !.armed = None]
    /\ nxt' = None
    /\ task' = IF nxt = None THEN task
               ELSE [task EXCEPT ![Arm].pc = "clearing", ![Arm].req = Status, ![Arm].old = nxt]
    /\ UNCHANGED <<lms, current, orphan, grace, state, seen, given>>

ClearEnds ==
    /\ task[Arm].pc = "clearing" /\ ~Waiting(Arm)
    /\ Cleared /\ Slipped /\ seen' = FALSE
    /\ task' = [task EXCEPT ![Arm] = IdleTask, ![Loop].old = IF orphan' = orphan THEN @ ELSE None]
    /\ UNCHANGED <<lms, nxt, grace, state, player, used>>

ReplaceGoesOn ==
    /\ task[Arm].pc = "replacing" /\ ~Waiting(Arm)
    /\ Cleared /\ Slipped /\ seen' = FALSE
    /\ task' = [task EXCEPT ![Arm].pc = IF orphan' # None THEN "removing" ELSE "rereading",
                            ![Arm].req = Status, ![Arm].status = Silent,
                            ![Loop].old = IF orphan' = orphan THEN @ ELSE None]
    /\ UNCHANGED <<lms, nxt, grace, state, player, used>>

RemoveOrphan ==
    /\ task[Arm].pc = "removing" /\ Answered(Arm)
    /\ LET s == task[Arm].status
       IN  IF orphan # None /\ ~Reached(s) /\ IndexOf(s, orphan) # 0
           THEN RemovesOrphan(Arm, s, "deleting")
           ELSE orphan' = None /\ Goes(Arm, "rereading", Status)
    /\ UNCHANGED <<lms, current, nxt, grace, state, player, seen, given, used>>

OrphanDeleted ==
    /\ task[Arm].pc = "deleting" /\ ~Waiting(Arm)
    /\ Goes(Arm, "rereading", Status)
    /\ UNCHANGED <<lms, backendVars, player, seen, given, used>>

SetNextRereads ==
    /\ task[Arm].pc = "rereading" /\ Answered(Arm)
    /\ Adds(task[Arm].status)
    /\ UNCHANGED <<lms, backendVars, player, seen, given, used>>

Added ==
    /\ task[Arm].pc = "adding" /\ Answered(Arm)
    /\ Armed(task[Arm].item) /\ seen' = FALSE
    /\ UNCHANGED <<lms, current, orphan, grace, state, given, used>>

ArmFails ==
    /\ task[Arm].pc \in {"setting", "removing", "rereading", "adding"} /\ Failed(Arm)
    /\ Rests(Arm)
    /\ UNCHANGED <<lms, backendVars, player, seen, given, used>>

-----------------------------------------------------------------------------
Environment == Advance \/ ForeignPlays \/ \E t \in DOMAIN task : Serve(t) \/ TimeOut(t)
StateLoop == LoopReads \/ GraceEnds \/ LoopActs \/ LoopContinues \/ OrphanRemoved
Commands ==
    \/ \E t \in Tracks : Play(t)
    \/ Pause \/ Resume \/ Stop
    \/ PlayEnds \/ PauseEnds \/ ResumeGoesOn \/ ResumeEnds \/ StopGoesOn \/ StopEnds
Arming ==
    \/ \E t \in Tracks : ArmStarts(t)
    \/ SetNextTrack \/ SetNextReads \/ ClearNextTrack \/ ClearEnds \/ ReplaceGoesOn
    \/ RemoveOrphan \/ OrphanDeleted \/ SetNextRereads \/ Added \/ ArmFails

Next == Environment \/ StateLoop \/ Commands \/ Arming

Spec == Init /\ [][Next]_vars

-----------------------------------------------------------------------------
(***************************************************************************)
(* Properties                                                              *)
(***************************************************************************)
Items == Tracks \cup {Foreign}
Players == [list : Seq(Items), cur : Nat, mode : {"play", "pause", "stop"}]
Kinds == {"none", "answered", "failed", "status", "play", "add", "stop", "pause", "unpause",
          "delete"}

\* Types; the player's index is one of its playlist.
TypeOK ==
    /\ lms \in Players /\ lms.cur <= Len(lms.list)
    /\ {current, nxt, orphan} \subseteq Tracks \cup {None}
    /\ state \in {"PLAYING", "PAUSED", "STOPPED"}
    /\ \A t \in DOMAIN task :
          /\ task[t].req.kind \in Kinds /\ task[t].req.item \in Tracks \cup {None}
          /\ task[t].status \in Players

Upcoming == {i \in DOMAIN lms.list : i > lms.cur}

\* Nothing is on its way, the state loop has acted on the player as it is, and
\* the backend claims to play.
Calm == seen /\ current # None /\ \A t \in DOMAIN task : task[t].pc = "idle"

\* No request was lost, and none of three known races was met.  `crossed`: a
\* status read and a command passed each other.  `slipped`: a track being cleared
\* was found playing.  `missed`: an index moved between its read and its delete,
\* or a status read took longer than REARM_GRACE_SECONDS and an orphan made during
\* it was forgotten.
Undisturbed ==
    /\ given = [crossed |-> FALSE, slipped |-> FALSE, missed |-> FALSE]
    /\ used.failures = 0

\* Whatever the tasks and other controllers did, a backend that claims the
\* player sits on one that plays its track (_owns_player, the state loop); with the types.
InCharge == TypeOK /\ (Calm => Url(lms) = current)

\* No cleared, replaced or outdated next track is left behind in the playlist
\* without the backend knowing (clear_next_track, _remove_orphan, play).
NothingUnwanted ==
    Calm /\ Undisturbed /\ player.mode = "playing" => \A i \in Upcoming : lms.list[i] \in {nxt, orphan}

\* The player shows the track that is heard, through gapless transitions,
\* skips and re-armings (_handle_transition).
BelievedIsHeard ==
    Calm /\ Undisturbed /\ player.mode = "playing" => player.track = Url(lms)

\* What the player holds for armed is what the backend will announce
\* (set_next_track and clear_next_track against play, stop and track end).
BelievedArmed == Calm /\ player.armed # None => player.armed = nxt

\* However armings, skips and removals interleave, at most one track waits
\* behind the playing one: none is queued twice (set_next_track).
QueuedOnce == Cardinality(Upcoming) <= 1

\* A player that thinks it plays is told when the music has stopped; the end
\* is seen as a change of the state last told (_poll_state_loop).
EndIsTold == Calm /\ Undisturbed /\ player.mode = "playing" => lms.mode # "stop"

\* Behind the playing track waits at most one, and the backend knows it (set_next_track,
\* clear_next_track, _remove_orphan).
PlaylistIsKnown == NothingUnwanted /\ QueuedOnce

\* What the player holds for playing and for armed is so (_handle_transition, the notifications).
PlayerIsRight == BelievedIsHeard /\ BelievedArmed
=============================================================================
