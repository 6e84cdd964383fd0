--------------------------- MODULE GaplessProofs ---------------------------
(***************************************************************************)
(* Proofs about Gapless, for all tracks, confirmations and bounds: what is *)
(* armed is the app's next item, what is told is heard, the listening      *)
(* history is true, and a paused listen survives failed reads.  GaplessInv *)
(* is the inductive invariant; its parts are proved one after the other,   *)
(* each in a lemma with a step per action.                                 *)
(***************************************************************************)
EXTENDS Gapless, SequenceTheorems, TLAPS

TrackOrNone == Tracks \cup {None}
Kinds == {"changed", "monitor", "transition"}
Jobs ==
  [pc : {"none", "begin", "unloading", "unreporting", "loading", "starting", "resuming",
         "notePlaying", "swapping", "pausing", "notePaused", "stopping", "noteStopped",
         "finished"},
   want : {"none", "playing", "paused", "stopped", "advance"},
   track : TrackOrNone, stale : BOOLEAN, changed : BOOLEAN]
Waiting == {j \in Jobs : j.pc = "begin" /\ (j.want = "advance" => j.track # None)}
MonitorPcs == {"sleep", "polling", "pausedPolling", "notePaused", "position", "arming",
               "resumePosition", "notePlaying", "swapping", "noteStopped"}
ArmingPcs == {"resolving", "setting", "set"}

\* The types, by what changes together.
PlayerTyped ==
  /\ player \in [state : {"STOPPED", "LOADING", "PLAYING", "PAUSED"}, track : TrackOrNone]
  /\ next \in TrackOrNone
ArmingTyped ==
  /\ arming \in [armed : BOOLEAN, pending : TrackOrNone, fresh : BOOLEAN]
  /\ arming.armed <=> arming.pending # None
HolderTyped ==
  /\ holder \in [pc : {"free", "refused", "clearing", "undoing", "cleared"} \cup ArmingPcs,
                 kind : {"none"} \cup Kinds, track : TrackOrNone]
  /\ holder.pc \in ArmingPcs => holder.track # None
  /\ queued \in Seq(Kinds)
JobTyped ==
  /\ job \in Jobs
  /\ job.pc = "starting" \/ (job.pc = "begin" /\ job.want = "advance") => job.track # None
WaitingTyped == waiting \in Seq(Waiting)
MoveTyped ==
  transition \in [pc : {"none", "quality", "swapping", "update"}, track : TrackOrNone]
EndTyped ==
  ended \in [pc : {"none", "reporting"}, track : TrackOrNone, stale : BOOLEAN]
MonitorTyped ==
  /\ monitor \in [pc : MonitorPcs, track : TrackOrNone, stops : Nat, plays : Nat]
  /\ monitor.stops < StopConfirmations /\ monitor.plays < PlayConfirmations
BackendTyped ==
  /\ backend \in [track : TrackOrNone, next : TrackOrNone,
                 mode : {"stopped", "playing", "paused"}]
  /\ backend.track = None <=> backend.mode = "stopped"
  /\ backend.track = None => backend.next = None
UsedTyped == used \in [messages : Nat, ends : Nat, device : Nat, bad : Nat]
GivenTyped ==
  given \in [missed : BOOLEAN, dropped : BOOLEAN, late : BOOLEAN, crossed : BOOLEAN,
             carried : BOOLEAN, misled : BOOLEAN]

Typed ==
  /\ PlayerTyped /\ ArmingTyped /\ HolderTyped /\ JobTyped /\ WaitingTyped
  /\ MoveTyped /\ EndTyped /\ MonitorTyped /\ BackendTyped /\ UsedTyped /\ GivenTyped

\* What each step leaves alone.
LEMMA Frames ==
  /\ TakeArmLock => UNCHANGED <<player, next, job, waiting, transition, ended, monitor, active,
      backend, used, told, given>>
  /\ Resolved => UNCHANGED <<player, arming, next, job, waiting, queued, transition, ended,
      monitor, active, backend, told, given>>
  /\ SetNextReturned => UNCHANGED <<player, next, job, waiting, queued, transition, ended,
      monitor, active, backend, used, told, given>>
  /\ ClearReturned => UNCHANGED <<player, next, job, waiting, queued, transition, ended, monitor,
      active, backend, used, told, given>>
  /\ BackendSetsNext => UNCHANGED <<player, arming, next, job, waiting, queued, transition,
      ended, monitor, active, told, given>>
  /\ BackendClearsNext => UNCHANGED <<player, arming, next, job, waiting, queued, transition,
      ended, monitor, active, used, told, given>>
  /\ TakePlaybackLock => UNCHANGED <<player, arming, next, holder, queued, transition, ended,
      monitor, active, backend, used, told, given>>
  /\ Begin => UNCHANGED <<next, waiting, holder, queued, transition, monitor, active, backend,
      used>>
  /\ Unloaded => UNCHANGED <<arming, next, waiting, holder, queued, transition, monitor, used,
      told, given>>
  /\ Unreported => UNCHANGED <<arming, next, waiting, holder, queued, transition, monitor,
      active, backend, used, told, given>>
  /\ Loaded => UNCHANGED <<next, waiting, holder, queued, transition, ended, monitor, active,
      backend, used, given>>
  /\ Started => UNCHANGED <<arming, next, waiting, holder, queued, transition, ended, monitor,
      active, used>>
  /\ Resumed => UNCHANGED <<arming, next, waiting, holder, queued, transition, ended, monitor,
      active, used, given>>
  /\ PlayNoted => UNCHANGED <<player, arming, next, waiting, holder, queued, transition, ended,
      monitor, backend, used, told>>
  /\ JobSwaps => UNCHANGED <<player, arming, next, waiting, holder, queued, transition, ended,
      monitor, backend, used, told>>
  /\ Paused => UNCHANGED <<arming, next, waiting, holder, queued, transition, ended, monitor,
      active, used>>
  /\ PauseNoted => UNCHANGED <<player, arming, next, waiting, holder, queued, transition, ended,
      monitor, backend, used, told>>
  /\ Stopped => UNCHANGED <<arming, next, waiting, holder, queued, transition, ended, monitor,
      active, used, given>>
  /\ StopNoted => UNCHANGED <<player, arming, next, waiting, holder, queued, transition, ended,
      monitor, backend, used, told>>
  /\ JobEnds => UNCHANGED <<player, next, waiting, transition, ended, monitor, active, backend,
      used, told, given>>
  /\ BackendAdvances => UNCHANGED <<job, waiting, holder, queued, monitor, active, told>>
  /\ BackendEnds => UNCHANGED <<player, next, job, waiting, holder, queued, transition, monitor,
      told, given>>
  /\ ReleaseExternalPlayback => UNCHANGED <<holder, queued, transition, monitor, given>>
  /\ TransitionReports => UNCHANGED <<player, arming, next, job, waiting, holder, queued, ended,
      monitor, backend, used, told>>
  /\ TransitionSwaps => UNCHANGED <<player, arming, next, job, waiting, holder, queued, ended,
      monitor, backend, used, told>>
  /\ TransitionEnds => UNCHANGED <<player, next, job, waiting, ended, monitor, active, backend,
      used, given>>
  /\ EndedDecides => UNCHANGED <<arming, holder, queued, transition, monitor, active, backend,
      used>>
  /\ MonitorWakes => UNCHANGED <<player, arming, next, job, waiting, holder, queued, transition,
      ended, active, backend, used, told, given>>
  /\ PollReturns => UNCHANGED <<arming, next, job, waiting, holder, queued, transition, ended,
      active, backend, given>>
  /\ MonitorNotesPause => UNCHANGED <<player, arming, next, job, waiting, holder, queued,
      transition, ended, backend, used, told>>
  /\ PositionRead => UNCHANGED <<player, next, job, waiting, transition, ended, active, backend,
      used, told, given>>
  /\ PausedPollReturns => UNCHANGED <<arming, next, job, waiting, holder, queued, transition,
      ended, active, backend>>
  /\ MonitorResumes => UNCHANGED <<arming, next, job, waiting, holder, queued, transition, ended,
      active, backend, used, given>>
  /\ MonitorNotesPlay => UNCHANGED <<player, arming, next, job, waiting, holder, queued,
      transition, ended, backend, used, told>>
  /\ MonitorSwaps => UNCHANGED <<player, arming, next, job, waiting, holder, queued, transition,
      ended, backend, used, told>>
  /\ MonitorNotesStop => UNCHANGED <<player, arming, next, job, waiting, holder, queued,
      transition, ended, backend, used, told>>
  /\ MonitorArmed => UNCHANGED <<player, arming, next, job, waiting, holder, queued, transition,
      ended, active, backend, used, told, given>>
  /\ Heartbeat => UNCHANGED <<player, arming, next, job, waiting, holder, queued, transition,
      ended, monitor, active, backend, used, given>>
  /\ Messages => UNCHANGED <<player, arming, holder, queued, transition, monitor, active,
      backend, told, given>>
  /\ (\E mode \in {"playing", "paused", "stopped"} : DeviceOperated(mode)) => UNCHANGED <<player,
      arming, next, job, waiting, holder, queued, transition, ended, monitor, active, told,
      given>>
<1>1. TakeArmLock => UNCHANGED <<player, next, job, waiting, transition, ended, monitor, active,
      backend, used, told, given>>
  BY DEF TakeArmLock, Enter, Prepare
<1>2. Resolved => UNCHANGED <<player, arming, next, job, waiting, queued, transition, ended,
      monitor, active, backend, told, given>>
  BY DEF Resolved, Uses, OnlyArming
<1>3. SetNextReturned => UNCHANGED <<player, next, job, waiting, queued, transition, ended,
      monitor, active, backend, used, told, given>>
  BY DEF SetNextReturned, OnlyArming
<1>4. ClearReturned => UNCHANGED <<player, next, job, waiting, queued, transition, ended,
      monitor, active, backend, used, told, given>>
  BY DEF ClearReturned, Prepare, OnlyArming
<1>5. BackendSetsNext => UNCHANGED <<player, arming, next, job, waiting, queued, transition,
      ended, monitor, active, told, given>>
  BY DEF BackendSetsNext, Uses, OnlyArming
<1>6. BackendClearsNext => UNCHANGED <<player, arming, next, job, waiting, queued, transition,
      ended, monitor, active, used, told, given>>
  BY DEF BackendClearsNext, OnlyArming
<1>7. TakePlaybackLock => UNCHANGED <<player, arming, next, holder, queued, transition, ended,
      monitor, active, backend, used, told, given>>
  BY DEF TakePlaybackLock
<1>8. Begin => UNCHANGED <<next, waiting, holder, queued, transition, monitor, active, backend,
      used>>
  BY DEF Begin, Go, Loads, Replace, Outdated, Finish, Starts, Report, OnlyLoad
<1>9. Unloaded => UNCHANGED <<arming, next, waiting, holder, queued, transition, monitor, used,
      told, given>>
  BY DEF Unloaded, Silent, Replace, Outdated, Go, OnlyLoad
<1>10. Unreported => UNCHANGED <<arming, next, waiting, holder, queued, transition, monitor,
      active, backend, used, told, given>>
  BY DEF Unreported, Replace, Outdated, Go, OnlyLoad
<1>11. Loaded => UNCHANGED <<next, waiting, holder, queued, transition, ended, monitor, active,
      backend, used, given>>
  BY DEF Loaded, Go, Finish, Starts, OnlyJob, OnlyLoad
<1>12. Started => UNCHANGED <<arming, next, waiting, holder, queued, transition, ended, monitor,
      active, used>>
  BY DEF Started, Report, Go, Superseded, OnlyJob, OnlyLoad
<1>13. Resumed => UNCHANGED <<arming, next, waiting, holder, queued, transition, ended, monitor,
      active, used, given>>
  BY DEF Resumed, Report, Go, OnlyJob, OnlyLoad
<1>14. PlayNoted => UNCHANGED <<player, arming, next, waiting, holder, queued, transition, ended,
      monitor, backend, used, told>>
  BY DEF PlayNoted, Noted, MustEnd, Notes, Late, OnlyJob, OnlyLoad
<1>15. JobSwaps => UNCHANGED <<player, arming, next, waiting, holder, queued, transition, ended,
      monitor, backend, used, told>>
  BY DEF JobSwaps, Store, Late, Go, OnlyJob, OnlyLoad
<1>16. Paused => UNCHANGED <<arming, next, waiting, holder, queued, transition, ended, monitor,
      active, used>>
  BY DEF Paused, Report, Go, OnlyJob, OnlyLoad
<1>17. PauseNoted => UNCHANGED <<player, arming, next, waiting, holder, queued, transition,
      ended, monitor, backend, used, told>>
  BY DEF PauseNoted, NotePaused, Notes, Late, Go, OnlyJob, OnlyLoad
<1>18. Stopped => UNCHANGED <<arming, next, waiting, holder, queued, transition, ended, monitor,
      active, used, given>>
  BY DEF Stopped, Silent, Report, Go, OnlyJob, OnlyLoad
<1>19. StopNoted => UNCHANGED <<player, arming, next, waiting, holder, queued, transition, ended,
      monitor, backend, used, told>>
  BY DEF StopNoted, Notes, Late, Go, OnlyJob, OnlyLoad
<1>20. JobEnds => UNCHANGED <<player, next, waiting, transition, ended, monitor, active, backend,
      used, told, given>>
  BY DEF JobEnds, InfoChanged, AskArmLock, Enter, Prepare
<1>21. BackendAdvances => UNCHANGED <<job, waiting, holder, queued, monitor, active, told>>
  BY DEF BackendAdvances, Settled, Uses, TransitionRuns, Outdated
<1>22. BackendEnds => UNCHANGED <<player, next, job, waiting, holder, queued, transition,
      monitor, told, given>>
  BY DEF BackendEnds, Settled, Uses, Silent, EndedRuns
<1>23. ReleaseExternalPlayback => UNCHANGED <<holder, queued, transition, monitor, given>>
  BY DEF ReleaseExternalPlayback, Uses, Silent, Outdated
<1>24. TransitionReports => UNCHANGED <<player, arming, next, job, waiting, holder, queued,
      ended, monitor, backend, used, told>>
  BY DEF TransitionReports, Noted, MustEnd, Notes, Late
<1>25. TransitionSwaps => UNCHANGED <<player, arming, next, job, waiting, holder, queued, ended,
      monitor, backend, used, told>>
  BY DEF TransitionSwaps, Store, Late
<1>26. TransitionEnds => UNCHANGED <<player, next, job, waiting, ended, monitor, active, backend,
      used, given>>
  BY DEF TransitionEnds, Report, PrepareNext, AskArmLock, Enter, Prepare
<1>27. EndedDecides => UNCHANGED <<arming, holder, queued, transition, monitor, active, backend,
      used>>
  BY DEF EndedDecides, Superseded, NextGeneration, Report
<1>28. MonitorWakes => UNCHANGED <<player, arming, next, job, waiting, holder, queued,
      transition, ended, active, backend, used, told, given>>
  BY DEF MonitorWakes, OnlyMonitor
<1>29. PollReturns => UNCHANGED <<arming, next, job, waiting, holder, queued, transition, ended,
      active, backend, given>>
  BY DEF PollReturns, Reads, Uses, Sleep, Report, OnlyMonitor
<1>30. MonitorNotesPause => UNCHANGED <<player, arming, next, job, waiting, holder, queued,
      transition, ended, backend, used, told>>
  BY DEF MonitorNotesPause, NotePaused, Notes, Late, OnlyMonitor
<1>31. PositionRead => UNCHANGED <<player, next, job, waiting, transition, ended, active,
      backend, used, told, given>>
  BY DEF PositionRead, PrepareNext, AskArmLock, Enter, Prepare, Sleep, OnlyMonitor
<1>32. PausedPollReturns => UNCHANGED <<arming, next, job, waiting, holder, queued, transition,
      ended, active, backend>>
  BY DEF PausedPollReturns, Reads, Uses, Sleep, PausedSeesPlay, PausedSeesStop, Confirmed,
       Report, PausedCounts, OnlyMonitor
<1>33. MonitorResumes => UNCHANGED <<arming, next, job, waiting, holder, queued, transition,
      ended, active, backend, used, given>>
  BY DEF MonitorResumes, Report, Sleep, OnlyMonitor
<1>34. MonitorNotesPlay => UNCHANGED <<player, arming, next, job, waiting, holder, queued,
      transition, ended, backend, used, told>>
  BY DEF MonitorNotesPlay, Noted, MustEnd, Notes, Late, OnlyMonitor
<1>35. MonitorSwaps => UNCHANGED <<player, arming, next, job, waiting, holder, queued,
      transition, ended, backend, used, told>>
  BY DEF MonitorSwaps, Store, Late, OnlyMonitor
<1>36. MonitorNotesStop => UNCHANGED <<player, arming, next, job, waiting, holder, queued,
      transition, ended, backend, used, told>>
  BY DEF MonitorNotesStop, Notes, Late, Sleep, OnlyMonitor
<1>37. MonitorArmed => UNCHANGED <<player, arming, next, job, waiting, holder, queued,
      transition, ended, active, backend, used, told, given>>
  BY DEF MonitorArmed, Sleep, OnlyMonitor
<1>38. Heartbeat => UNCHANGED <<player, arming, next, job, waiting, holder, queued, transition,
      ended, monitor, active, backend, used, given>>
  BY DEF Heartbeat, Report
<1>39. Messages => UNCHANGED <<player, arming, holder, queued, transition, monitor, active,
      backend, told, given>>
  BY DEF Messages, ReceiveSetState, Uses, NextGeneration, Outdated
<1>40. (\E mode \in {"playing", "paused", "stopped"} : DeviceOperated(mode)) => UNCHANGED <<
      player, arming, next, job, waiting, holder, queued, transition, ended, monitor, active,
      told, given>>
  BY DEF DeviceOperated, Uses, Silent
<1>. QED
  BY <1>1, <1>2, <1>3, <1>4, <1>5, <1>6, <1>7, <1>8, <1>9, <1>10, <1>11, <1>12, <1>13, <1>14,
     <1>15, <1>16, <1>17, <1>18, <1>19, <1>20, <1>21, <1>22, <1>23, <1>24, <1>25, <1>26, <1>27,
     <1>28, <1>29, <1>30, <1>31, <1>32, <1>33, <1>34, <1>35, <1>36, <1>37, <1>38, <1>39, <1>40

\* Whoever gets the arm lock leaves the arming and the lock with their types.
LEMMA EnterTyped ==
  ASSUME Typed, NEW kind \in Kinds, Enter(kind)
  PROVE  ArmingTyped' /\ HolderTyped!1' /\ HolderTyped!2'
<1>1. CASE kind = "changed"
  <2>1. arming' = Cleared /\ holder' = [pc |-> "clearing", kind |-> kind, track |-> None]
    BY <1>1 DEF Enter
  <2>2. QED
    BY <2>1 DEF Cleared, ArmingTyped, HolderTyped, TrackOrNone, ArmingPcs
<1>2. CASE kind # "changed"
  <2>1. Prepare(kind, arming, player)
    BY <1>2 DEF Enter
  <2>2. CASE ~arming.armed /\ player.state = "PLAYING" /\ next # None
    <3>1. /\ arming' = [arming EXCEPT !.fresh = TRUE]
          /\ holder' = [pc |-> "resolving", kind |-> kind, track |-> next]
      BY <2>1, <2>2 DEF Prepare
    <3>2. QED
      BY <2>2, <3>1 DEF Typed, PlayerTyped, ArmingTyped, HolderTyped, TrackOrNone, ArmingPcs
  <2>3. CASE ~(~arming.armed /\ player.state = "PLAYING" /\ next # None)
    <3>1. arming' = arming /\ holder' = NoHold
      BY <2>1, <2>3 DEF Prepare
    <3>2. QED
      BY <3>1 DEF Typed, ArmingTyped, HolderTyped, NoHold, TrackOrNone, ArmingPcs
  <2>4. QED
    BY <2>2, <2>3
<1>3. QED
  BY <1>1, <1>2

\* Asking for the arm lock keeps the types, whether it is free or not.
LEMMA AskTyped ==
  ASSUME Typed, NEW kind \in Kinds, AskArmLock(kind)
  PROVE  ArmingTyped' /\ HolderTyped'
<1>1. CASE holder = NoHold /\ queued = <<>>
  <2>1. Enter(kind) /\ queued' = queued
    BY <1>1 DEF AskArmLock
  <2>2. QED
    BY <2>1, EnterTyped DEF Typed, HolderTyped
<1>2. CASE ~(holder = NoHold /\ queued = <<>>)
  <2>1. queued' = Append(queued, kind) /\ arming' = arming /\ holder' = holder
    BY <1>2 DEF AskArmLock
  <2>2. QED
    BY <2>1 DEF Typed, ArmingTyped, HolderTyped
<1>3. QED
  BY <1>1, <1>2

\* So does a change of the next item,
LEMMA ChangeTyped ==
  ASSUME Typed, InfoChanged
  PROVE  ArmingTyped' /\ HolderTyped'
<1>1. CASE arming.armed /\ next # None /\ arming.pending = next
  BY <1>1 DEF InfoChanged, Typed, ArmingTyped, HolderTyped
<1>2. CASE ~(arming.armed /\ next # None /\ arming.pending = next)
  BY <1>2, AskTyped DEF InfoChanged, Kinds
<1>3. QED
  BY <1>1, <1>2

\* and so does an arming.
LEMMA PrepareTyped ==
  ASSUME Typed, NEW kind \in Kinds, PrepareNext(kind)
  PROVE  ArmingTyped' /\ HolderTyped'
<1>1. CASE arming.armed
  BY <1>1 DEF PrepareNext, Typed, ArmingTyped, HolderTyped
<1>2. CASE ~arming.armed
  BY <1>2, AskTyped DEF PrepareNext
<1>3. QED
  BY <1>1, <1>2

\* Revoking the waiting commands and adding one keeps their types.
LEMMA RevokedTyped ==
  ASSUME WaitingTyped
  PROVE  /\ \A j \in Waiting :
              Append([i \in DOMAIN waiting |-> Revoked(waiting[i])], j) \in Seq(Waiting)
         /\ [i \in DOMAIN waiting |-> [waiting[i] EXCEPT !.stale = TRUE, !.changed = FALSE]]
               \in Seq(Waiting)
<1>1. DOMAIN waiting = 1 .. Len(waiting) /\ Len(waiting) \in Nat
  BY DEF WaitingTyped
<1>2. ASSUME NEW i \in DOMAIN waiting PROVE waiting[i] \in Waiting
  BY <1>1 DEF WaitingTyped
<1>3. ASSUME NEW k \in Waiting
      PROVE  Revoked(k) \in Waiting /\ [k EXCEPT !.stale = TRUE, !.changed = FALSE] \in Waiting
  BY DEF Waiting, Jobs, Revoked
<1>4. ASSUME NEW f \in [1 .. Len(waiting) -> Waiting] PROVE f \in Seq(Waiting)
  BY <1>1, SeqDef
<1>5. [i \in DOMAIN waiting |-> Revoked(waiting[i])] \in [1 .. Len(waiting) -> Waiting]
  BY <1>1, <1>2, <1>3
<1>6. [i \in DOMAIN waiting |-> [waiting[i] EXCEPT !.stale = TRUE, !.changed = FALSE]]
        \in [1 .. Len(waiting) -> Waiting]
  BY <1>1, <1>2, <1>3
<1>7. [i \in DOMAIN waiting |-> Revoked(waiting[i])] \in Seq(Waiting)
  BY <1>4, <1>5
<1>8. [i \in DOMAIN waiting |-> [waiting[i] EXCEPT !.stale = TRUE, !.changed = FALSE]]
        \in Seq(Waiting)
  BY <1>4, <1>6, Zenon
<1>9. \A j \in Waiting :
        Append([i \in DOMAIN waiting |-> Revoked(waiting[i])], j) \in Seq(Waiting)
  BY <1>7
<1>10. QED
  BY <1>8, <1>9, Zenon

\* An end that has become stale is still an end.
LEMMA OutdatedTyped ==
  ASSUME Typed, Outdated
  PROVE  EndTyped'
<1>1. CASE ended = NoEnd
  BY <1>1 DEF Outdated, Typed, EndTyped
<1>2. CASE ended # NoEnd
  BY <1>2 DEF Outdated, Typed, EndTyped
<1>3. QED
  BY <1>1, <1>2

\* The monitor's counters may always be set back.
LEMMA ZeroCounts == 0 \in Nat /\ 0 < StopConfirmations /\ 0 < PlayConfirmations
  BY GaplessAssumption

\* The monitor's counters may be set below their confirmations.
LEMMA CountsTyped ==
  ASSUME Typed, NEW pc \in MonitorPcs, NEW s \in Nat, NEW p \in Nat,
         s < StopConfirmations, p < PlayConfirmations,
         monitor' = [monitor EXCEPT !.pc = pc, !.stops = s, !.plays = p]
  PROVE  MonitorTyped'
<1>1. monitor' \in [pc : MonitorPcs, track : TrackOrNone, stops : Nat, plays : Nat]
  BY DEF Typed, MonitorTyped
<1>2. monitor'.stops = s /\ monitor'.plays = p
  BY DEF Typed, MonitorTyped
<1>3. QED
  BY <1>1, <1>2 DEF MonitorTyped

\* The player's state and tracks are of their types.
LEMMA PlayerTypedStep ==
  ASSUME Typed, [Next]_vars
  PROVE  PlayerTyped'
<1>1. CASE UNCHANGED <<player, next>>
  BY <1>1 DEF Typed, PlayerTyped, TrackOrNone
<1>2. CASE Begin
  BY <1>2, GaplessAssumption DEF Begin, Loads, Cleared, Live, Replace, Finish, Starts, OnlyLoad,
       Typed, PlayerTyped, TrackOrNone, JobTyped, Jobs
<1>3. CASE Unloaded
  BY <1>3, GaplessAssumption DEF Unloaded, Silent, NoPlay, Replace, OnlyLoad, Typed, PlayerTyped,
       TrackOrNone, JobTyped, Jobs
<1>4. CASE Unreported
  BY <1>4, GaplessAssumption DEF Unreported, Replace, OnlyLoad, Typed, PlayerTyped, TrackOrNone,
       JobTyped, Jobs
<1>5. CASE Loaded
  BY <1>5, GaplessAssumption DEF Loaded, Finish, Starts, Live, Cleared, Wire, Untold, OnlyJob,
       OnlyLoad, Typed, PlayerTyped, TrackOrNone
<1>6. CASE Started
  BY <1>6, GaplessAssumption DEF Started, NoEnd, Superseded, OnlyJob, OnlyLoad, Typed,
       PlayerTyped, TrackOrNone
<1>7. CASE Resumed
  BY <1>7, GaplessAssumption DEF Resumed, OnlyJob, OnlyLoad, Typed, PlayerTyped, TrackOrNone
<1>8. CASE Paused
  BY <1>8, GaplessAssumption DEF Paused, OnlyJob, OnlyLoad, Typed, PlayerTyped, TrackOrNone
<1>9. CASE Stopped
  BY <1>9, GaplessAssumption DEF Stopped, Silent, OnlyJob, OnlyLoad, Typed, PlayerTyped,
       TrackOrNone
<1>10. CASE BackendAdvances
  BY <1>10, GaplessAssumption DEF BackendAdvances, TransitionRuns, Typed, PlayerTyped,
       TrackOrNone, ArmingTyped
<1>11. CASE ReleaseExternalPlayback
  BY <1>11, GaplessAssumption DEF ReleaseExternalPlayback, Silent, Cleared, NoJob, NoPlay, Untold,
       Typed, PlayerTyped, TrackOrNone
<1>12. CASE EndedDecides
  BY <1>12, GaplessAssumption DEF EndedDecides, NoEnd, Superseded, Typed, PlayerTyped, TrackOrNone
<1>13. CASE PollReturns
  BY <1>13, GaplessAssumption DEF PollReturns, OnlyMonitor, Typed, PlayerTyped, TrackOrNone
<1>14. CASE PausedPollReturns
  BY <1>14, GaplessAssumption DEF PausedPollReturns, PausedSeesPlay, NoJob, PausedSeesStop,
       PausedCounts, OnlyMonitor, Typed, PlayerTyped, TrackOrNone
<1>15. CASE MonitorResumes
  BY <1>15, GaplessAssumption DEF MonitorResumes, OnlyMonitor, Typed, PlayerTyped, TrackOrNone
<1>16. CASE Messages
  BY <1>16, GaplessAssumption DEF Messages, ReceiveSetState, Typed, PlayerTyped, TrackOrNone
<1>. QED
  BY <1>1, <1>2, <1>3, <1>4, <1>5, <1>6, <1>7, <1>8, <1>9, <1>10, <1>11, <1>12, <1>13, <1>14,
     <1>15, <1>16, Frames DEF Next, JobStep, ArmingStep, TransitionStep, EndedStep, MonitorStep,
       vars

\* The arming keeps its type: armed exactly when a track is pending.
LEMMA ArmingTypedStep ==
  ASSUME Typed, [Next]_vars
  PROVE  ArmingTyped'
<1>1. CASE UNCHANGED <<arming>>
  BY <1>1 DEF Typed, ArmingTyped, TrackOrNone
<1>2. CASE TakeArmLock
  <2>1. Head(queued) \in Kinds
    BY <1>2 DEF TakeArmLock, Typed, HolderTyped
  <2>2. QED
    BY <1>2, <2>1, EnterTyped DEF TakeArmLock
<1>3. CASE SetNextReturned
  BY <1>3, GaplessAssumption DEF SetNextReturned, NoHold, Typed, ArmingTyped, TrackOrNone,
       HolderTyped, ArmingPcs
<1>4. CASE ClearReturned
  BY <1>4, GaplessAssumption DEF ClearReturned, Prepare, NoHold, Typed, ArmingTyped, TrackOrNone
<1>5. CASE Begin
  <2>1. arming' \in {arming, Cleared}
    BY <1>5 DEF Begin, Finish
  <2>2. CASE arming' = arming
    BY <2>2 DEF Typed, ArmingTyped
  <2>3. CASE arming' = Cleared
    BY <2>3 DEF ArmingTyped, Cleared, TrackOrNone
  <2>4. QED
    BY <2>1, <2>2, <2>3
<1>6. CASE Loaded
  <2>1. arming' \in {arming, Cleared}
    BY <1>6 DEF Loaded, Finish
  <2>2. CASE arming' = arming
    BY <2>2 DEF Typed, ArmingTyped
  <2>3. CASE arming' = Cleared
    BY <2>3 DEF ArmingTyped, Cleared, TrackOrNone
  <2>4. QED
    BY <2>1, <2>2, <2>3
<1>7. CASE JobEnds
  BY <1>7, ChangeTyped DEF JobEnds, Typed, ArmingTyped
<1>8. CASE BackendAdvances
  BY <1>8, GaplessAssumption DEF BackendAdvances, TransitionRuns, Typed, ArmingTyped, TrackOrNone
<1>9. CASE BackendEnds
  BY <1>9, GaplessAssumption DEF BackendEnds, NoEnd, Silent, EndedRuns, Cleared, NoPlay, Typed,
       ArmingTyped, TrackOrNone
<1>10. CASE ReleaseExternalPlayback
  BY <1>10, GaplessAssumption DEF ReleaseExternalPlayback, Silent, Cleared, NoJob, NoPlay, Untold,
       Typed, ArmingTyped, TrackOrNone
<1>11. CASE TransitionEnds
  BY <1>11, PrepareTyped DEF TransitionEnds, Kinds
<1>12. CASE PositionRead
  BY <1>12, PrepareTyped DEF PositionRead, Kinds, Typed, ArmingTyped
<1>. QED
  BY <1>1, <1>2, <1>3, <1>4, <1>5, <1>6, <1>7, <1>8, <1>9, <1>10, <1>11, <1>12, Frames
  DEF Next, JobStep, ArmingStep, TransitionStep, EndedStep, MonitorStep, vars

\* The holder of the arm lock and its queue keep their types.
LEMMA HolderTypedStep ==
  ASSUME Typed, [Next]_vars
  PROVE  HolderTyped'
<1>1. CASE UNCHANGED <<holder, queued>>
  BY <1>1 DEF Typed, HolderTyped, TrackOrNone, Kinds, ArmingPcs
<1>2. CASE TakeArmLock
  <2>1. Head(queued) \in Kinds /\ Tail(queued) \in Seq(Kinds)
    BY <1>2 DEF TakeArmLock, Typed, HolderTyped
  <2>2. queued' \in Seq(Kinds)
    BY <1>2, <2>1 DEF TakeArmLock
  <2>3. QED
    BY <1>2, <2>1, <2>2, EnterTyped DEF TakeArmLock, HolderTyped
<1>3. CASE Resolved
  BY <1>3, GaplessAssumption DEF Resolved, NoHold, OnlyArming, Typed, HolderTyped, TrackOrNone,
       Kinds, ArmingPcs
<1>4. CASE SetNextReturned
  BY <1>4, GaplessAssumption DEF SetNextReturned, NoHold, OnlyArming, Typed, HolderTyped,
       TrackOrNone, Kinds, ArmingPcs
<1>5. CASE ClearReturned
  BY <1>5, GaplessAssumption DEF ClearReturned, Prepare, NoHold, OnlyArming, Typed, HolderTyped,
       TrackOrNone, Kinds, ArmingPcs, PlayerTyped
<1>6. CASE BackendSetsNext
  BY <1>6, GaplessAssumption DEF BackendSetsNext, OnlyArming, Typed, HolderTyped, TrackOrNone,
       Kinds, ArmingPcs
<1>7. CASE BackendClearsNext
  BY <1>7, GaplessAssumption DEF BackendClearsNext, NoHold, OnlyArming, Typed, HolderTyped,
       TrackOrNone, Kinds, ArmingPcs
<1>8. CASE JobEnds
  BY <1>8, ChangeTyped DEF JobEnds, Typed, HolderTyped
<1>9. CASE TransitionEnds
  BY <1>9, PrepareTyped DEF TransitionEnds, Kinds
<1>10. CASE PositionRead
  BY <1>10, PrepareTyped DEF PositionRead, Kinds, Typed, HolderTyped
<1>. QED
  BY <1>1, <1>2, <1>3, <1>4, <1>5, <1>6, <1>7, <1>8, <1>9, <1>10, Frames
  DEF Next, JobStep, ArmingStep, TransitionStep, EndedStep, MonitorStep, vars

\* The running command keeps its type, and starts or advances to a track.
LEMMA JobTypedStep ==
  ASSUME Typed, [Next]_vars
  PROVE  JobTyped'
<1>1. CASE UNCHANGED <<job>>
  BY <1>1 DEF Typed, JobTyped, Jobs, TrackOrNone
<1>2. CASE TakePlaybackLock
  BY <1>2, GaplessAssumption DEF TakePlaybackLock, NoJob, Typed, JobTyped, Jobs, TrackOrNone,
       WaitingTyped, Waiting
<1>3. CASE Begin
  BY <1>3, GaplessAssumption DEF Begin, Go, Loads, Cleared, Live, Replace, Finish, Starts, Typed,
       JobTyped, Jobs, TrackOrNone, PlayerTyped
<1>4. CASE Unloaded
  BY <1>4, GaplessAssumption DEF Unloaded, Silent, NoPlay, Replace, Go, Typed, JobTyped, Jobs,
       TrackOrNone
<1>5. CASE Unreported
  BY <1>5, GaplessAssumption DEF Unreported, Replace, Go, Typed, JobTyped, Jobs, TrackOrNone
<1>6. CASE Loaded
  BY <1>6, GaplessAssumption DEF Loaded, Go, Finish, Starts, Live, Cleared, Wire, Untold, Typed,
       JobTyped, Jobs, TrackOrNone, PlayerTyped
<1>7. CASE Started
  BY <1>7, GaplessAssumption DEF Started, Go, NoEnd, Typed, JobTyped, Jobs, TrackOrNone
<1>8. CASE Resumed
  BY <1>8, GaplessAssumption DEF Resumed, Go, Typed, JobTyped, Jobs, TrackOrNone
<1>9. CASE PlayNoted
  BY <1>9, GaplessAssumption DEF PlayNoted, Notes, Late, NoEnd, Typed, JobTyped, Jobs,
       TrackOrNone, PlayerTyped
<1>10. CASE JobSwaps
  BY <1>10, GaplessAssumption DEF JobSwaps, Store, Late, NoEnd, Go, Typed, JobTyped, Jobs,
       TrackOrNone
<1>11. CASE Paused
  BY <1>11, GaplessAssumption DEF Paused, Go, Typed, JobTyped, Jobs, TrackOrNone
<1>12. CASE PauseNoted
  BY <1>12, GaplessAssumption DEF PauseNoted, Notes, Late, NoEnd, Go, Typed, JobTyped, Jobs,
       TrackOrNone
<1>13. CASE Stopped
  BY <1>13, GaplessAssumption DEF Stopped, Silent, Go, Typed, JobTyped, Jobs, TrackOrNone
<1>14. CASE StopNoted
  BY <1>14, GaplessAssumption DEF StopNoted, NoPlay, Notes, Late, NoEnd, Go, Typed, JobTyped,
       Jobs, TrackOrNone
<1>15. CASE JobEnds
  BY <1>15, GaplessAssumption DEF JobEnds, NoJob, Typed, JobTyped, Jobs, TrackOrNone
<1>16. CASE ReleaseExternalPlayback
  BY <1>16, GaplessAssumption DEF ReleaseExternalPlayback, Silent, Cleared, NoJob, NoPlay, Untold,
       Typed, JobTyped, Jobs, TrackOrNone
<1>17. CASE EndedDecides
  BY <1>17, GaplessAssumption DEF EndedDecides, NoEnd, NextGeneration, NoJob, Revoked, Typed,
       JobTyped, Jobs, TrackOrNone
<1>18. CASE Messages
  BY <1>18, GaplessAssumption DEF Messages, ReceiveSetState, NextGeneration, NoJob, Revoked,
       Typed, JobTyped, Jobs, TrackOrNone
<1>. QED
  BY <1>1, <1>2, <1>3, <1>4, <1>5, <1>6, <1>7, <1>8, <1>9, <1>10, <1>11, <1>12, <1>13, <1>14,
     <1>15, <1>16, <1>17, <1>18, Frames DEF Next, JobStep, ArmingStep, TransitionStep, EndedStep,
       MonitorStep, vars

\* Waiting commands are at their beginning.
LEMMA WaitingTypedStep ==
  ASSUME Typed, [Next]_vars
  PROVE  WaitingTyped'
<1>1. CASE UNCHANGED <<waiting>>
  BY <1>1 DEF Typed, WaitingTyped, Waiting, Jobs, TrackOrNone
<1>2. CASE TakePlaybackLock
  BY <1>2, GaplessAssumption DEF TakePlaybackLock, NoJob, Typed, WaitingTyped, Waiting, Jobs,
       TrackOrNone
<1>3. CASE ReleaseExternalPlayback
  <2>1. waiting' = [i \in DOMAIN waiting |->
                      [waiting[i] EXCEPT !.stale = TRUE, !.changed = FALSE]]
    BY <1>3 DEF ReleaseExternalPlayback
  <2>2. waiting' \in Seq(Waiting)
    BY <2>1, RevokedTyped, Zenon DEF Typed
  <2>3. QED
    BY <2>2 DEF WaitingTyped
<1>4. CASE EndedDecides
  <2>1. CASE UNCHANGED waiting
    BY <2>1 DEF Typed, WaitingTyped
  <2>2. CASE ~UNCHANGED waiting
    <3> DEFINE j == [pc |-> "begin", want |-> "advance", track |-> next, stale |-> FALSE,
                     changed |-> FALSE]
    <3>1. waiting' = Append([i \in DOMAIN waiting |-> Revoked(waiting[i])], j) /\ next # None
      BY <1>4, <2>2 DEF EndedDecides, NextGeneration
    <3>2. j \in Waiting
      BY <3>1 DEF Waiting, Jobs, Typed, PlayerTyped, TrackOrNone
    <3>3. QED
      BY <3>1, <3>2, RevokedTyped DEF Typed, WaitingTyped
  <2>3. QED
    BY <2>1, <2>2
<1>5. CASE Messages
  <2>1. PICK want \in {"playing", "paused", "stopped", "none"}, t \in TrackOrNone,
             n \in TrackOrNone :
            ReceiveSetState(want, t, n)
    BY <1>5 DEF Messages, TrackOrNone
  <2> DEFINE j == [pc |-> "begin", want |-> want, track |-> t, stale |-> FALSE,
                   changed |-> n # next]
  <2>2. waiting' = Append([i \in DOMAIN waiting |-> Revoked(waiting[i])], j)
    BY <2>1 DEF ReceiveSetState, NextGeneration
  <2>3. j \in Waiting
    BY DEF Waiting, Jobs
  <2>4. QED
    BY <2>2, <2>3, RevokedTyped DEF Typed, WaitingTyped
<1>. QED
  BY <1>1, <1>2, <1>3, <1>4, <1>5, Frames
  DEF Next, JobStep, ArmingStep, TransitionStep, EndedStep, MonitorStep, vars

\* The transition keeps its type.
LEMMA MoveTypedStep ==
  ASSUME Typed, [Next]_vars
  PROVE  MoveTyped'
<1>1. CASE UNCHANGED <<transition>>
  BY <1>1 DEF Typed, MoveTyped, TrackOrNone
<1>2. CASE BackendAdvances
  BY <1>2, GaplessAssumption DEF BackendAdvances, Settled, NoMove, TransitionRuns, Typed,
       MoveTyped, TrackOrNone
<1>3. CASE TransitionReports
  BY <1>3, GaplessAssumption DEF TransitionReports, Typed, MoveTyped, TrackOrNone, PlayerTyped
<1>4. CASE TransitionSwaps
  BY <1>4, GaplessAssumption DEF TransitionSwaps, Typed, MoveTyped, TrackOrNone
<1>5. CASE TransitionEnds
  BY <1>5, GaplessAssumption DEF TransitionEnds, NoMove, Typed, MoveTyped, TrackOrNone
<1>. QED
  BY <1>1, <1>2, <1>3, <1>4, <1>5, Frames
  DEF Next, JobStep, ArmingStep, TransitionStep, EndedStep, MonitorStep, vars

\* The end keeps its type.
LEMMA EndTypedStep ==
  ASSUME Typed, [Next]_vars
  PROVE  EndTyped'
<1>1. CASE UNCHANGED <<ended>>
  BY <1>1 DEF Typed, EndTyped, TrackOrNone
<1>2. CASE Begin
  BY <1>2, OutdatedTyped DEF Begin, Replace, Typed, EndTyped
<1>3. CASE Unloaded
  BY <1>3, OutdatedTyped DEF Unloaded, Replace, Typed, EndTyped
<1>4. CASE Unreported
  BY <1>4, OutdatedTyped DEF Unreported, Replace, Typed, EndTyped
<1>5. CASE BackendAdvances
  BY <1>5, OutdatedTyped DEF BackendAdvances, TransitionRuns, Typed, EndTyped
<1>6. CASE BackendEnds
  BY <1>6, GaplessAssumption DEF BackendEnds, NoEnd, Silent, EndedRuns, Cleared, NoPlay, Typed,
       EndTyped, TrackOrNone, PlayerTyped
<1>7. CASE ReleaseExternalPlayback
  BY <1>7, OutdatedTyped DEF ReleaseExternalPlayback
<1>8. CASE EndedDecides
  BY <1>8, GaplessAssumption DEF EndedDecides, NoEnd, Superseded, Typed, EndTyped, TrackOrNone
<1>9. CASE Messages
  BY <1>9, OutdatedTyped DEF Messages, ReceiveSetState
<1>. QED
  BY <1>1, <1>2, <1>3, <1>4, <1>5, <1>6, <1>7, <1>8, <1>9, Frames
  DEF Next, JobStep, ArmingStep, TransitionStep, EndedStep, MonitorStep, vars

\* The monitor's counters stay below their confirmations.
LEMMA MonitorTypedStep ==
  ASSUME Typed, [Next]_vars
  PROVE  MonitorTyped'
<1>1. CASE UNCHANGED <<monitor>>
  BY <1>1 DEF Typed, MonitorTyped, MonitorPcs, TrackOrNone
<1>2. CASE MonitorWakes
  <2>1. CASE monitor' = [monitor EXCEPT !.pc = "polling", !.stops = 0]
    <3>1. monitor' = [monitor EXCEPT !.pc = "polling", !.stops = 0, !.plays = monitor.plays]
      BY <2>1 DEF Typed, MonitorTyped
    <3>2. /\ "polling" \in MonitorPcs /\ 0 \in Nat /\ monitor.plays \in Nat
          /\ 0 < StopConfirmations /\ monitor.plays < PlayConfirmations
      BY ZeroCounts DEF Typed, MonitorTyped, MonitorPcs
    <3>3. QED
      BY <3>1, <3>2, CountsTyped
  <2>2. CASE monitor' = [monitor EXCEPT !.pc = "pausedPolling"]
    BY <2>2 DEF Typed, MonitorTyped, MonitorPcs
  <2>3. CASE monitor' = [monitor EXCEPT !.stops = 0, !.plays = 0]
    <3>1. monitor' = [monitor EXCEPT !.pc = monitor.pc, !.stops = 0, !.plays = 0]
      BY <2>3 DEF Typed, MonitorTyped
    <3>2. /\ monitor.pc \in MonitorPcs /\ 0 \in Nat /\ 0 \in Nat
          /\ 0 < StopConfirmations /\ 0 < PlayConfirmations
      BY ZeroCounts DEF Typed, MonitorTyped, MonitorPcs
    <3>3. QED
      BY <3>1, <3>2, CountsTyped
  <2>4. QED
    BY <1>2, <2>1, <2>2, <2>3 DEF MonitorWakes
<1>3. CASE PollReturns
  BY <1>3, GaplessAssumption DEF PollReturns, Sleep, Typed, MonitorTyped, MonitorPcs, TrackOrNone
<1>4. CASE MonitorNotesPause
  BY <1>4, GaplessAssumption DEF MonitorNotesPause, Typed, MonitorTyped, MonitorPcs, TrackOrNone
<1>5. CASE PositionRead
  BY <1>5, GaplessAssumption DEF PositionRead, Sleep, Typed, MonitorTyped, MonitorPcs, TrackOrNone
<1>6. CASE PausedPollReturns
  <2> DEFINE played == IF job # NoJob \/ monitor.plays + 1 >= PlayConfirmations THEN 0
                       ELSE monitor.plays + 1
  <2> DEFINE pc == IF job = NoJob /\ monitor.plays + 1 >= PlayConfirmations
                   THEN "resumePosition" ELSE "sleep"
  <2> DEFINE more == monitor.stops + 1
  <2>1. Sleep \/ PausedSeesPlay \/ PausedSeesStop \/ (~Confirmed /\ PausedCounts(more))
        \/ PausedCounts(0)
    BY <1>6 DEF PausedPollReturns
  <2>2. CASE Sleep
    BY <2>2 DEF Sleep, Typed, MonitorTyped, MonitorPcs
  <2>3. CASE PausedSeesPlay
    <3>1. pc \in MonitorPcs /\ played \in Nat /\ played < PlayConfirmations
      BY ZeroCounts, GaplessAssumption DEF Typed, MonitorTyped, MonitorPcs
    <3>2. monitor' = [monitor EXCEPT !.stops = 0, !.plays = played, !.pc = pc]
      BY <2>3 DEF PausedSeesPlay
    <3> HIDE DEF pc, played
    <3>3. monitor' = [monitor EXCEPT !.pc = pc, !.stops = 0, !.plays = played]
      BY <3>2 DEF Typed, MonitorTyped
    <3>4. QED
      BY <3>1, <3>3, ZeroCounts, CountsTyped
  <2>4. CASE PausedSeesStop
    <3>1. monitor' = [monitor EXCEPT !.pc = "noteStopped", !.stops = 0, !.plays = 0]
      BY <2>4 DEF PausedSeesStop, Typed, MonitorTyped
    <3>2. QED
      BY <3>1, ZeroCounts, CountsTyped DEF MonitorPcs
  <2>5. ASSUME NEW s \in Nat, s < StopConfirmations, PausedCounts(s)
        PROVE  MonitorTyped'
    <3>1. monitor' = [monitor EXCEPT !.pc = "sleep", !.stops = s, !.plays = 0]
      BY <2>5 DEF PausedCounts, Typed, MonitorTyped
    <3>2. QED
      BY <2>5, <3>1, ZeroCounts, CountsTyped DEF MonitorPcs
  <2>6. ~Confirmed => more \in Nat /\ more < StopConfirmations
    BY GaplessAssumption DEF Typed, MonitorTyped, Confirmed
  <2> HIDE DEF more
  <2>7. QED
    BY <2>1, <2>2, <2>3, <2>4, <2>5, <2>6, ZeroCounts
<1>7. CASE MonitorResumes
  BY <1>7, GaplessAssumption DEF MonitorResumes, Sleep, Typed, MonitorTyped, MonitorPcs,
       TrackOrNone
<1>8. CASE MonitorNotesPlay
  BY <1>8, GaplessAssumption DEF MonitorNotesPlay, Typed, MonitorTyped, MonitorPcs, TrackOrNone,
       PlayerTyped
<1>9. CASE MonitorSwaps
  BY <1>9, GaplessAssumption DEF MonitorSwaps, Typed, MonitorTyped, MonitorPcs, TrackOrNone
<1>10. CASE MonitorNotesStop
  BY <1>10, GaplessAssumption DEF MonitorNotesStop, NoPlay, Sleep, Typed, MonitorTyped,
       MonitorPcs, TrackOrNone
<1>11. CASE MonitorArmed
  BY <1>11, GaplessAssumption DEF MonitorArmed, Sleep, Typed, MonitorTyped, MonitorPcs,
       TrackOrNone
<1>. QED
  BY <1>1, <1>2, <1>3, <1>4, <1>5, <1>6, <1>7, <1>8, <1>9, <1>10, <1>11, Frames
  DEF Next, JobStep, ArmingStep, TransitionStep, EndedStep, MonitorStep, vars

\* The device keeps its type: only one that has a track plays or holds a next.
LEMMA BackendTypedStep ==
  ASSUME Typed, [Next]_vars
  PROVE  BackendTyped'
<1>1. CASE UNCHANGED <<backend>>
  BY <1>1 DEF Typed, BackendTyped, TrackOrNone
<1>2. CASE BackendSetsNext
  BY <1>2, GaplessAssumption DEF BackendSetsNext, Typed, BackendTyped, TrackOrNone, HolderTyped,
       ArmingPcs
<1>3. CASE BackendClearsNext
  BY <1>3, GaplessAssumption DEF BackendClearsNext, NoHold, Typed, BackendTyped, TrackOrNone
<1>4. CASE Unloaded
  BY <1>4, GaplessAssumption DEF Unloaded, Silent, NoPlay, Typed, BackendTyped, TrackOrNone
<1>5. CASE Started
  BY <1>5, GaplessAssumption DEF Started, NoEnd, Typed, BackendTyped, TrackOrNone, JobTyped, Jobs
<1>6. CASE Resumed
  BY <1>6, GaplessAssumption DEF Resumed, Typed, BackendTyped, TrackOrNone
<1>7. CASE Paused
  BY <1>7, GaplessAssumption DEF Paused, Typed, BackendTyped, TrackOrNone
<1>8. CASE Stopped
  BY <1>8, GaplessAssumption DEF Stopped, Silent, Typed, BackendTyped, TrackOrNone
<1>9. CASE BackendAdvances
  BY <1>9, GaplessAssumption DEF BackendAdvances, Typed, BackendTyped, TrackOrNone
<1>10. CASE BackendEnds
  BY <1>10, GaplessAssumption DEF BackendEnds, NoEnd, Silent, Typed, BackendTyped, TrackOrNone
<1>11. CASE ReleaseExternalPlayback
  BY <1>11, GaplessAssumption DEF ReleaseExternalPlayback, Silent, Cleared, NoJob, NoPlay, Untold,
       Typed, BackendTyped, TrackOrNone
<1>12. CASE \E mode \in {"playing", "paused", "stopped"} : DeviceOperated(mode)
  BY <1>12, GaplessAssumption DEF DeviceOperated, Silent, Typed, BackendTyped, TrackOrNone
<1>. QED
  BY <1>1, <1>2, <1>3, <1>4, <1>5, <1>6, <1>7, <1>8, <1>9, <1>10, <1>11, <1>12, Frames
  DEF Next, JobStep, ArmingStep, TransitionStep, EndedStep, MonitorStep, vars

\* The bounds' counters are numbers.
LEMMA UsedTypedStep ==
  ASSUME Typed, [Next]_vars
  PROVE  UsedTyped'
<1>1. CASE UNCHANGED <<used>>
  BY <1>1 DEF Typed, UsedTyped
<1>2. CASE Resolved
  BY <1>2, GaplessAssumption DEF Resolved, Uses, NoHold, Typed, UsedTyped
<1>3. CASE BackendSetsNext
  BY <1>3, GaplessAssumption DEF BackendSetsNext, Uses, Typed, UsedTyped
<1>4. CASE BackendAdvances
  BY <1>4, GaplessAssumption DEF BackendAdvances, Uses, Typed, UsedTyped
<1>5. CASE BackendEnds
  BY <1>5, GaplessAssumption DEF BackendEnds, NoEnd, Uses, Silent, Typed, UsedTyped
<1>6. CASE ReleaseExternalPlayback
  <2>1. Uses("device", MaxDevice)
    BY <1>6 DEF ReleaseExternalPlayback
  <2>2. QED
    BY <2>1 DEF Uses, Typed, UsedTyped
<1>7. CASE PollReturns
  BY <1>7, GaplessAssumption DEF PollReturns, Reads, Uses, Typed, UsedTyped
<1>8. CASE PausedPollReturns
  BY <1>8, GaplessAssumption DEF PausedPollReturns, Reads, Uses, Typed, UsedTyped
<1>9. CASE Messages
  <2>1. Uses("messages", MaxMessages)
    BY <1>9 DEF Messages, ReceiveSetState
  <2>2. QED
    BY <2>1 DEF Uses, Typed, UsedTyped
<1>10. CASE \E mode \in {"playing", "paused", "stopped"} : DeviceOperated(mode)
  BY <1>10, GaplessAssumption DEF DeviceOperated, Uses, Silent, Typed, UsedTyped
<1>. QED
  BY <1>1, <1>2, <1>3, <1>4, <1>5, <1>6, <1>7, <1>8, <1>9, <1>10, Frames
  DEF Next, JobStep, ArmingStep, TransitionStep, EndedStep, MonitorStep, vars

\* The histories are Boolean.
LEMMA GivenTypedStep ==
  ASSUME Typed, [Next]_vars
  PROVE  GivenTyped'
<1>1. CASE UNCHANGED <<given>>
  BY <1>1 DEF Typed, GivenTyped
<1>2. CASE Begin
  BY <1>2, GaplessAssumption DEF Begin, Cleared, Live, Typed, GivenTyped
<1>3. CASE Started
  BY <1>3, GaplessAssumption DEF Started, NoEnd, Typed, GivenTyped
<1>4. CASE PlayNoted
  BY <1>4, GaplessAssumption DEF PlayNoted, Notes, Typed, GivenTyped
<1>5. CASE JobSwaps
  BY <1>5, GaplessAssumption DEF JobSwaps, Store, Typed, GivenTyped
<1>6. CASE Paused
  BY <1>6, GaplessAssumption DEF Paused, Typed, GivenTyped
<1>7. CASE PauseNoted
  BY <1>7, GaplessAssumption DEF PauseNoted, Notes, Typed, GivenTyped
<1>8. CASE StopNoted
  BY <1>8, GaplessAssumption DEF StopNoted, NoPlay, Notes, Typed, GivenTyped
<1>9. CASE BackendAdvances
  BY <1>9, GaplessAssumption DEF BackendAdvances, TransitionRuns, Typed, GivenTyped
<1>10. CASE TransitionReports
  BY <1>10, GaplessAssumption DEF TransitionReports, Notes, Typed, GivenTyped
<1>11. CASE TransitionSwaps
  BY <1>11, GaplessAssumption DEF TransitionSwaps, Store, Typed, GivenTyped
<1>12. CASE EndedDecides
  BY <1>12, GaplessAssumption DEF EndedDecides, NoEnd, Typed, GivenTyped
<1>13. CASE MonitorNotesPause
  BY <1>13, GaplessAssumption DEF MonitorNotesPause, Notes, Typed, GivenTyped
<1>14. CASE PausedPollReturns
  BY <1>14, GaplessAssumption DEF PausedPollReturns, PausedSeesPlay, NoJob, PausedSeesStop,
       PausedCounts, Typed, GivenTyped
<1>15. CASE MonitorNotesPlay
  BY <1>15, GaplessAssumption DEF MonitorNotesPlay, Notes, Typed, GivenTyped
<1>16. CASE MonitorSwaps
  BY <1>16, GaplessAssumption DEF MonitorSwaps, Store, Typed, GivenTyped
<1>17. CASE MonitorNotesStop
  BY <1>17, GaplessAssumption DEF MonitorNotesStop, NoPlay, Notes, Typed, GivenTyped
<1>. QED
  BY <1>1, <1>2, <1>3, <1>4, <1>5, <1>6, <1>7, <1>8, <1>9, <1>10, <1>11, <1>12, <1>13, <1>14,
     <1>15, <1>16, <1>17, Frames DEF Next, JobStep, ArmingStep, TransitionStep, EndedStep,
       MonitorStep, vars

\* The initial state has the types, and every step keeps them.
LEMMA InitTyped ==
  ASSUME Init
  PROVE  Typed
<1>1. PlayerTyped /\ ArmingTyped /\ MoveTyped /\ EndTyped /\ UsedTyped /\ GivenTyped
  BY DEF Init, PlayerTyped, ArmingTyped, MoveTyped, EndTyped, UsedTyped, GivenTyped, TrackOrNone,
       NoMove, NoEnd
<1>2. HolderTyped
  BY DEF Init, HolderTyped, NoHold, ArmingPcs, TrackOrNone
<1>3. JobTyped /\ WaitingTyped
  BY DEF Init, JobTyped, WaitingTyped, NoJob, Jobs, TrackOrNone
<1>4. MonitorTyped /\ BackendTyped
  BY GaplessAssumption DEF Init, MonitorTyped, MonitorPcs, BackendTyped, Silent, TrackOrNone
<1>5. QED
  BY <1>1, <1>2, <1>3, <1>4 DEF Typed

\* Every step keeps the types.
LEMMA StepTyped ==
  ASSUME Typed, [Next]_vars
  PROVE  Typed'
BY PlayerTypedStep, ArmingTypedStep, HolderTypedStep, JobTypedStep, WaitingTypedStep,
   MoveTypedStep, EndTypedStep, MonitorTypedStep, BackendTypedStep, UsedTypedStep, GivenTypedStep
  DEF Typed

\* The types give TypeOK.
LEMMA TypedIsTypeOK ==
  ASSUME Typed
  PROVE  TypeOK
<1>1. backend.track = None => backend = Silent
  <2>1. backend = [track |-> backend.track, next |-> backend.next, mode |-> backend.mode]
    BY DEF Typed, BackendTyped
  <2>2. QED
    BY <2>1 DEF Typed, BackendTyped, Silent
<1>2. QED
  BY <1>1 DEF Typed, PlayerTyped, ArmingTyped, MonitorTyped, BackendTyped, TypeOK, TrackOrNone

-----------------------------------------------------------------------------
\* Something is on its way that arms anew, or has given up (given.dropped): a change of
\* the next item that the player was not told of yet, or the play of an item that followed.
Advances(j) == j.pc = "begin" /\ j.want = "advance"
JobRepairs(j) == j.changed \/ Advances(j)
Repaired ==
  \/ JobRepairs(job)
  \/ \E i \in DOMAIN waiting : JobRepairs(waiting[i])
  \/ \E i \in DOMAIN queued : queued[i] = "changed"
  \/ given.dropped

\* While the arm lock is held nothing is armed; what is armed, and what the holder of the
\* lock arms with a current generation, is the next item, or something repairs it.
ArmingHolds ==
  /\ holder # NoHold => ~arming.armed
  /\ arming.armed => arming.pending = next \/ Repaired
  /\ holder.pc \in ArmingPcs /\ arming.fresh => holder.track = next \/ Repaired

\* Whoever gets the lock, and prepares anew after clearing, takes the next item.
LEMMA PrepareHolds ==
  ASSUME Typed, ArmingHolds, NEW kind, Prepare(kind, arming, player),
         next' = next, Repaired => Repaired'
  PROVE  ArmingHolds'
<1>1. CASE ~arming.armed /\ player.state = "PLAYING" /\ next # None
  <2>1. /\ arming' = [arming EXCEPT !.fresh = TRUE]
        /\ holder' = [pc |-> "resolving", kind |-> kind, track |-> next]
    BY <1>1 DEF Prepare
  <2>2. QED
    BY <1>1, <2>1 DEF ArmingHolds, Typed, ArmingTyped
<1>2. CASE ~(~arming.armed /\ player.state = "PLAYING" /\ next # None)
  <2>1. arming' = arming /\ holder' = NoHold
    BY <1>2 DEF Prepare
  <2>2. QED
    BY <2>1 DEF ArmingHolds, NoHold, ArmingPcs
<1>3. QED
  BY <1>1, <1>2

\* Whoever gets the arm lock keeps the arming in order; a change of the next item always does,
\* others if they take no repair off its way.
LEMMA EnterHolds ==
  ASSUME Typed, ArmingHolds, NEW kind \in Kinds, Enter(kind), next' = next,
         kind = "changed" \/ (Repaired => Repaired')
  PROVE  ArmingHolds'
<1>1. CASE kind = "changed"
  <2>1. arming' = Cleared /\ holder' = [pc |-> "clearing", kind |-> kind, track |-> None]
    BY <1>1 DEF Enter
  <2>2. QED
    BY <2>1 DEF ArmingHolds, Cleared, ArmingPcs
<1>2. CASE kind # "changed"
  BY <1>2, PrepareHolds DEF Enter
<1>3. QED
  BY <1>1, <1>2

\* A task that has to wait for the lock is in the queue.
LEMMA AskHolds ==
  ASSUME Typed, ArmingHolds, NEW kind \in Kinds, AskArmLock(kind), next' = next,
         waiting' = waiting, given' = given,
         kind = "changed" \/ (JobRepairs(job) => JobRepairs(job'))
  PROVE  ArmingHolds'
<1>1. CASE holder = NoHold /\ queued = <<>>
  <2>1. Enter(kind) /\ queued' = queued
    BY <1>1 DEF AskArmLock
  <2>2. kind = "changed" \/ (Repaired => Repaired')
    BY <2>1 DEF Repaired
  <2>3. QED
    BY <2>1, <2>2, EnterHolds
<1>2. CASE ~(holder = NoHold /\ queued = <<>>)
  <2>1. queued' = Append(queued, kind) /\ arming' = arming /\ holder' = holder
    BY <1>2 DEF AskArmLock
  <2>2. queued \in Seq(Kinds)
    BY DEF Typed, HolderTyped
  <2>3. /\ Len(queued) + 1 \in DOMAIN queued' /\ queued'[Len(queued) + 1] = kind
        /\ \A i \in DOMAIN queued : i \in DOMAIN queued' /\ queued'[i] = queued[i]
    BY <2>1, <2>2
  <2>4. Repaired => Repaired'
    BY <2>3 DEF Repaired
  <2>5. QED
    BY <2>1, <2>4 DEF ArmingHolds
<1>3. QED
  BY <1>1, <1>2

\* A change of the next item keeps the arming in order,
LEMMA ChangeHolds ==
  ASSUME Typed, ArmingHolds, InfoChanged, next' = next, waiting' = waiting, given' = given
  PROVE  ArmingHolds'
<1>1. CASE arming.armed /\ next # None /\ arming.pending = next
  <2>1. arming' = arming /\ holder' = holder
    BY <1>1 DEF InfoChanged
  <2>2. holder = NoHold
    BY <1>1 DEF ArmingHolds
  <2>3. QED
    BY <1>1, <2>1, <2>2 DEF ArmingHolds, NoHold, ArmingPcs
<1>2. CASE ~(arming.armed /\ next # None /\ arming.pending = next)
  BY <1>2, AskHolds DEF InfoChanged, Kinds
<1>3. QED
  BY <1>1, <1>2

\* and so does an arming by the monitor or after a transition.
LEMMA NextHolds ==
  ASSUME Typed, ArmingHolds, NEW kind \in Kinds, PrepareNext(kind), next' = next,
         waiting' = waiting, given' = given, job' = job
  PROVE  ArmingHolds'
<1>1. CASE arming.armed
  <2>1. UNCHANGED <<arming, holder, queued>>
    BY <1>1 DEF PrepareNext
  <2>2. Repaired => Repaired'
    BY <2>1 DEF Repaired
  <2>3. QED
    BY <2>1, <2>2 DEF ArmingHolds
<1>2. CASE ~arming.armed
  BY <1>2, AskHolds DEF PrepareNext
<1>3. QED
  BY <1>1, <1>2

\* A newer command leaves what repairs where it was, behind the commands that wait.
LEMMA GenerationRepairs ==
  ASSUME Typed, NEW j \in Waiting, NextGeneration(j)
  PROVE  /\ JobRepairs(job) => JobRepairs(job')
         /\ Advances(job) => Advances(job')
         /\ \A i \in DOMAIN waiting :
              /\ i \in DOMAIN waiting'
              /\ JobRepairs(waiting[i]) => JobRepairs(waiting'[i])
              /\ Advances(waiting[i]) => Advances(waiting'[i])
         /\ Len(waiting) + 1 \in DOMAIN waiting' /\ waiting'[Len(waiting) + 1] = j
<1>1. (JobRepairs(job) => JobRepairs(job')) /\ (Advances(job) => Advances(job'))
  BY DEF NextGeneration, JobRepairs, Advances, Revoked, NoJob, Typed, JobTyped, Jobs
<1> DEFINE w == [i \in DOMAIN waiting |-> Revoked(waiting[i])]
<1>2. waiting' = Append(w, j)
  BY DEF NextGeneration
<1>3. DOMAIN waiting = 1 .. Len(waiting) /\ Len(waiting) \in Nat
  BY DEF Typed, WaitingTyped
<1>4. \A i \in DOMAIN waiting : waiting[i] \in Waiting
  BY DEF Typed, WaitingTyped
<1>5. \A i \in DOMAIN waiting : w[i] = [waiting[i] EXCEPT !.stale = TRUE]
  BY DEF Revoked
<1>6. w \in [1 .. Len(waiting) -> Waiting]
  BY <1>3, <1>4 DEF Revoked, Waiting, Jobs
<1>7. w \in Seq(Waiting) /\ Len(w) = Len(waiting)
  BY <1>3, <1>6, SeqDef
<1> HIDE DEF w
<1>8. /\ \A i \in DOMAIN w : i \in DOMAIN waiting' /\ waiting'[i] = w[i]
      /\ Len(w) + 1 \in DOMAIN waiting' /\ waiting'[Len(w) + 1] = j
  BY <1>2, <1>7
<1>9. DOMAIN w = DOMAIN waiting
  BY <1>3, <1>6
<1>10. \A i \in DOMAIN waiting : i \in DOMAIN waiting' /\ waiting'[i] = w[i]
  BY <1>8, <1>9
<1>11. ASSUME NEW i \in DOMAIN waiting
       PROVE  /\ JobRepairs(waiting[i]) => JobRepairs(waiting'[i])
              /\ Advances(waiting[i]) => Advances(waiting'[i])
  <2>1. waiting'[i] = [waiting[i] EXCEPT !.stale = TRUE] /\ waiting[i] \in Jobs
    BY <1>4, <1>5, <1>10 DEF Waiting
  <2>2. QED
    BY <2>1 DEF JobRepairs, Advances, Jobs
<1>12. Len(waiting) + 1 \in DOMAIN waiting' /\ waiting'[Len(waiting) + 1] = j
  BY <1>7, <1>8
<1>13. QED
  BY <1>1, <1>10, <1>11, <1>12

\* Every step keeps what is armed, and what is being armed, the next item or repaired.
LEMMA ArmingHoldsStep ==
  ASSUME Typed, ArmingHolds, [Next]_vars
  PROVE  ArmingHolds'
<1>1. CASE UNCHANGED <<arming, holder, next, queued, job, waiting, given>>
  BY <1>1 DEF ArmingHolds, Repaired
<1>2. CASE TakeArmLock
  <2>1. UNCHANGED <<next, job, waiting, given>>
    BY <1>2, Frames
  <2>2. queued \in Seq(Kinds) /\ queued # <<>>
    BY <1>2 DEF TakeArmLock, Typed, HolderTyped
  <2>3. Head(queued) \in Kinds /\ Head(queued) = queued[1]
    BY <2>2
  <2>4. queued' = Tail(queued) /\ Enter(Head(queued))
    BY <1>2 DEF TakeArmLock
  <2>5. \A i \in DOMAIN queued : i = 1 \/ (i - 1 \in DOMAIN queued' /\ queued'[i - 1] = queued[i])
    BY <2>2, <2>4
  <2>6. Head(queued) = "changed" \/ (Repaired => Repaired')
    BY <2>1, <2>3, <2>5 DEF Repaired
  <2>7. QED
    BY <2>1, <2>3, <2>4, <2>6, EnterHolds
<1>3. CASE Resolved
  <2>1. UNCHANGED <<next, job, waiting, queued, given>>
    BY <1>3, Frames
  <2>2. Repaired => Repaired'
    BY <2>1 DEF Repaired
  <2>3. QED
    BY <1>3, <2>1, <2>2 DEF Resolved, NoHold, Typed, HolderTyped, ArmingTyped, ArmingHolds,
         ArmingPcs
<1>4. CASE SetNextReturned
  <2>1. UNCHANGED <<next, job, waiting, queued, given>>
    BY <1>4, Frames
  <2>2. Repaired => Repaired'
    BY <2>1 DEF Repaired
  <2>3. holder.pc = "set" => holder.pc \in ArmingPcs
    BY DEF ArmingPcs
  <2>4. CASE holder.pc = "set" /\ arming.fresh
    <3>1. arming' = [arming EXCEPT !.armed = TRUE, !.pending = holder.track] /\ holder' = NoHold
      BY <1>4, <2>4 DEF SetNextReturned
    <3>2. arming'.pending = holder.track
      BY <3>1 DEF Typed, ArmingTyped
    <3>3. holder.track = next \/ Repaired
      BY <2>3, <2>4 DEF ArmingHolds
    <3>4. QED
      BY <2>1, <2>2, <3>1, <3>2, <3>3 DEF ArmingHolds, NoHold, ArmingPcs
  <2>5. CASE ~(holder.pc = "set" /\ arming.fresh)
    <3>1. arming' = arming
      BY <1>4, <2>5 DEF SetNextReturned
    <3>2. holder' = NoHold \/ holder' = [holder EXCEPT !.pc = "undoing"]
      BY <1>4, <2>5 DEF SetNextReturned
    <3>3. holder # NoHold /\ holder'.pc \notin ArmingPcs
      BY <1>4, <3>2 DEF SetNextReturned, NoHold, ArmingPcs, Typed, HolderTyped
    <3>4. QED
      BY <2>1, <2>2, <3>1, <3>3 DEF ArmingHolds
  <2>6. QED
    BY <2>4, <2>5
<1>5. CASE ClearReturned
  <2>1. UNCHANGED <<next, job, waiting, queued, given>>
    BY <1>5, Frames
  <2>2. Repaired => Repaired'
    BY <2>1 DEF Repaired
  <2>3. QED
    BY <1>5, <2>1, <2>2, PrepareHolds DEF ClearReturned
<1>6. CASE BackendSetsNext
  <2>1. UNCHANGED <<next, job, waiting, queued, given>>
    BY <1>6, Frames
  <2>2. Repaired => Repaired'
    BY <2>1 DEF Repaired
  <2>3. QED
    BY <1>6, <2>1, <2>2 DEF BackendSetsNext, Uses, NoHold, Typed, HolderTyped, ArmingTyped,
         ArmingHolds, ArmingPcs
<1>7. CASE BackendClearsNext
  <2>1. UNCHANGED <<next, job, waiting, queued, given>>
    BY <1>7, Frames
  <2>2. Repaired => Repaired'
    BY <2>1 DEF Repaired
  <2>3. QED
    BY <1>7, <2>1, <2>2 DEF BackendClearsNext, NoHold, Typed, HolderTyped, ArmingTyped,
         ArmingHolds, ArmingPcs
<1>8. CASE TakePlaybackLock
  <2>1. UNCHANGED <<arming, holder, next, queued, given>>
    BY <1>8, Frames
  <2>2. waiting \in Seq(Waiting) /\ waiting # <<>>
    BY <1>8 DEF TakePlaybackLock, Typed, WaitingTyped
  <2>3. job = NoJob /\ job' = waiting[1] /\ waiting' = Tail(waiting)
    BY <1>8, <2>2 DEF TakePlaybackLock
  <2>4. \A i \in DOMAIN waiting :
          i = 1 \/ (i - 1 \in DOMAIN waiting' /\ waiting'[i - 1] = waiting[i])
    BY <2>2, <2>3
  <2>5. Repaired => Repaired'
    BY <2>1, <2>3, <2>4 DEF Repaired, JobRepairs, Advances, NoJob
  <2>6. QED
    BY <2>1, <2>5 DEF ArmingHolds
<1>9. CASE Begin
  <2>1. UNCHANGED <<next, waiting, holder, queued>>
    BY <1>9, Frames
  <2>2. given.dropped => given'.dropped
    BY <1>9 DEF Begin, Typed, GivenTyped
  <2>3. CASE job.stale
    <3>1. arming' = arming /\ job' = [job EXCEPT !.pc = "finished"]
      BY <1>9, <2>3 DEF Begin, Go
    <3>2. job.want = "advance" => given'.dropped
      BY <1>9, <2>3 DEF Begin, Typed, GivenTyped
    <3>3. Repaired => Repaired'
      BY <2>1, <2>2, <3>1, <3>2 DEF Repaired, JobRepairs, Advances, Typed, JobTyped, Jobs
    <3>4. QED
      BY <2>1, <3>1, <3>3 DEF ArmingHolds
  <2>4. CASE ~job.stale /\ Loads
    <3>1. arming' = Cleared
      BY <1>9, <2>4 DEF Begin
    <3>2. QED
      BY <2>1, <3>1 DEF ArmingHolds, Cleared
  <2>5. CASE ~job.stale /\ ~Loads
    <3>1. Finish
      BY <1>9, <2>5 DEF Begin
    <3>2. arming' \in {arming, Cleared} /\ job'.changed = job.changed /\ job.want # "advance"
      BY <2>5, <3>1 DEF Finish, Loads, Typed, JobTyped, Jobs
    <3>3. Repaired => Repaired'
      BY <2>1, <2>2, <3>2 DEF Repaired, JobRepairs, Advances
    <3>4. QED
      BY <2>1, <3>2, <3>3 DEF ArmingHolds, Cleared
  <2>6. QED
    BY <2>3, <2>4, <2>5
<1>10. CASE Unloaded
  <2>1. UNCHANGED <<arming, holder, next, queued>>
    BY <1>10, Frames
  <2>2. Repaired => Repaired'
    BY <1>10, Frames DEF Unloaded, Repaired, JobRepairs, Advances, Silent, NoPlay, Replace, Go,
         Typed, JobTyped, Jobs, GivenTyped
  <2>3. QED
    BY <2>1, <2>2 DEF ArmingHolds
<1>11. CASE Unreported
  <2>1. UNCHANGED <<arming, holder, next, queued>>
    BY <1>11, Frames
  <2>2. Repaired => Repaired'
    BY <1>11, Frames DEF Unreported, Repaired, JobRepairs, Advances, Replace, Go, Typed, JobTyped,
         Jobs, GivenTyped
  <2>3. QED
    BY <2>1, <2>2 DEF ArmingHolds
<1>12. CASE Loaded
  <2>1. UNCHANGED <<next, waiting, holder, queued, given>>
    BY <1>12, Frames
  <2>2. arming' \in {arming, Cleared} /\ job'.changed = job.changed /\ job.pc # "begin"
    BY <1>12 DEF Loaded, Finish, Go, Typed, JobTyped, Jobs
  <2>3. Repaired => Repaired'
    BY <2>1, <2>2 DEF Repaired, JobRepairs, Advances
  <2>4. QED
    BY <2>1, <2>2, <2>3 DEF ArmingHolds, Cleared
<1>13. CASE Started
  <2>1. UNCHANGED <<arming, holder, next, queued>>
    BY <1>13, Frames
  <2>2. Repaired => Repaired'
    BY <1>13, Frames DEF Started, Repaired, JobRepairs, Advances, Go, NoEnd, Typed, JobTyped,
         Jobs, GivenTyped
  <2>3. QED
    BY <2>1, <2>2 DEF ArmingHolds
<1>14. CASE Resumed
  <2>1. UNCHANGED <<arming, holder, next, queued>>
    BY <1>14, Frames
  <2>2. Repaired => Repaired'
    BY <1>14, Frames DEF Resumed, Repaired, JobRepairs, Advances, Go, Typed, JobTyped, Jobs,
         GivenTyped
  <2>3. QED
    BY <2>1, <2>2 DEF ArmingHolds
<1>15. CASE PlayNoted
  <2>1. UNCHANGED <<arming, holder, next, queued>>
    BY <1>15, Frames
  <2>2. Repaired => Repaired'
    BY <1>15, Frames DEF PlayNoted, Repaired, JobRepairs, Advances, Notes, Late, NoEnd, Typed,
         JobTyped, Jobs, GivenTyped
  <2>3. QED
    BY <2>1, <2>2 DEF ArmingHolds
<1>16. CASE JobSwaps
  <2>1. UNCHANGED <<arming, holder, next, queued>>
    BY <1>16, Frames
  <2>2. Repaired => Repaired'
    BY <1>16, Frames DEF JobSwaps, Repaired, JobRepairs, Advances, Store, Late, NoEnd, Go, Typed,
         JobTyped, Jobs, GivenTyped
  <2>3. QED
    BY <2>1, <2>2 DEF ArmingHolds
<1>17. CASE Paused
  <2>1. UNCHANGED <<arming, holder, next, queued>>
    BY <1>17, Frames
  <2>2. Repaired => Repaired'
    BY <1>17, Frames DEF Paused, Repaired, JobRepairs, Advances, Go, Typed, JobTyped, Jobs,
         GivenTyped
  <2>3. QED
    BY <2>1, <2>2 DEF ArmingHolds
<1>18. CASE PauseNoted
  <2>1. UNCHANGED <<arming, holder, next, queued>>
    BY <1>18, Frames
  <2>2. Repaired => Repaired'
    BY <1>18, Frames DEF PauseNoted, Repaired, JobRepairs, Advances, Notes, Late, NoEnd, Go,
         Typed, JobTyped, Jobs, GivenTyped
  <2>3. QED
    BY <2>1, <2>2 DEF ArmingHolds
<1>19. CASE Stopped
  <2>1. UNCHANGED <<arming, holder, next, queued>>
    BY <1>19, Frames
  <2>2. Repaired => Repaired'
    BY <1>19, Frames DEF Stopped, Repaired, JobRepairs, Advances, Silent, Go, Typed, JobTyped,
         Jobs, GivenTyped
  <2>3. QED
    BY <2>1, <2>2 DEF ArmingHolds
<1>20. CASE StopNoted
  <2>1. UNCHANGED <<arming, holder, next, queued>>
    BY <1>20, Frames
  <2>2. Repaired => Repaired'
    BY <1>20, Frames DEF StopNoted, Repaired, JobRepairs, Advances, NoPlay, Notes, Late, NoEnd,
         Go, Typed, JobTyped, Jobs, GivenTyped
  <2>3. QED
    BY <2>1, <2>2 DEF ArmingHolds
<1>21. CASE JobEnds
  <2>1. UNCHANGED <<next, waiting, given>>
    BY <1>21, Frames
  <2>2. CASE job.changed
    BY <1>21, <2>1, <2>2, ChangeHolds DEF JobEnds
  <2>3. CASE ~job.changed
    <3>1. UNCHANGED <<arming, holder, queued>> /\ ~JobRepairs(job)
      BY <1>21, <2>3 DEF JobEnds, JobRepairs, Advances
    <3>2. Repaired => Repaired'
      BY <2>1, <3>1 DEF Repaired
    <3>3. QED
      BY <2>1, <3>1, <3>2 DEF ArmingHolds
  <2>4. QED
    BY <2>2, <2>3
<1>22. CASE BackendAdvances
  <2>1. UNCHANGED <<job, waiting, holder, queued>>
    BY <1>22, Frames
  <2>2. CASE arming.armed
    <3>1. ~arming'.armed /\ holder' = NoHold
      BY <1>22, <2>1, <2>2 DEF BackendAdvances, TransitionRuns, ArmingHolds, Typed, ArmingTyped
    <3>2. QED
      BY <3>1 DEF ArmingHolds, NoHold, ArmingPcs
  <2>3. CASE ~arming.armed
    <3>1. arming' = arming /\ next' = next /\ given'.dropped = given.dropped
      BY <1>22, <2>3 DEF BackendAdvances, TransitionRuns, Typed, GivenTyped
    <3>2. Repaired => Repaired'
      BY <2>1, <3>1 DEF Repaired
    <3>3. QED
      BY <2>1, <3>1, <3>2 DEF ArmingHolds
  <2>4. QED
    BY <2>2, <2>3
<1>23. CASE BackendEnds
  <2>1. arming' = Cleared /\ holder' = holder
    BY <1>23 DEF BackendEnds, EndedRuns
  <2>2. QED
    BY <2>1 DEF ArmingHolds, Cleared
<1>24. CASE ReleaseExternalPlayback
  <2>1. arming' = Cleared /\ holder' = holder
    BY <1>24 DEF ReleaseExternalPlayback
  <2>2. QED
    BY <2>1 DEF ArmingHolds, Cleared
<1>25. CASE TransitionReports
  <2>1. UNCHANGED <<arming, holder, next, queued>>
    BY <1>25, Frames
  <2>2. Repaired => Repaired'
    BY <1>25, Frames DEF TransitionReports, Repaired, JobRepairs, Advances, Notes, Late, NoEnd,
         Typed, JobTyped, Jobs, GivenTyped
  <2>3. QED
    BY <2>1, <2>2 DEF ArmingHolds
<1>26. CASE TransitionSwaps
  <2>1. UNCHANGED <<arming, holder, next, queued>>
    BY <1>26, Frames
  <2>2. Repaired => Repaired'
    BY <1>26, Frames DEF TransitionSwaps, Repaired, JobRepairs, Advances, Store, Late, NoEnd,
         Typed, JobTyped, Jobs, GivenTyped
  <2>3. QED
    BY <2>1, <2>2 DEF ArmingHolds
<1>27. CASE TransitionEnds
  <2>1. UNCHANGED <<next, job, waiting, given>>
    BY <1>27, Frames
  <2>2. QED
    BY <1>27, <2>1, NextHolds DEF TransitionEnds, Kinds
<1>28. CASE EndedDecides
  <2>1. UNCHANGED <<arming, holder, queued>>
    BY <1>28, Frames
  <2>2. given.dropped => given'.dropped
    BY <1>28 DEF EndedDecides, Typed, GivenTyped
  <2>3. CASE UNCHANGED <<next, job, waiting>>
    <3>1. Repaired => Repaired'
      BY <2>1, <2>2, <2>3 DEF Repaired
    <3>2. QED
      BY <2>1, <2>3, <3>1 DEF ArmingHolds
  <2>4. CASE ~UNCHANGED <<next, job, waiting>>
    <3> DEFINE j == [pc |-> "begin", want |-> "advance", track |-> next, stale |-> FALSE,
                     changed |-> FALSE]
    <3>1. NextGeneration(j) /\ next # None
      BY <1>28, <2>4 DEF EndedDecides
    <3>2. j \in Waiting /\ JobRepairs(j)
      BY <3>1 DEF Waiting, Jobs, Typed, PlayerTyped, TrackOrNone, JobRepairs, Advances
    <3> HIDE DEF j
    <3>3. Repaired'
      BY <3>1, <3>2, GenerationRepairs DEF Repaired
    <3>4. QED
      BY <2>1, <3>3 DEF ArmingHolds
  <2>5. QED
    BY <2>3, <2>4
<1>29. CASE MonitorNotesPause
  <2>1. UNCHANGED <<arming, holder, next, queued>>
    BY <1>29, Frames
  <2>2. Repaired => Repaired'
    BY <1>29, Frames DEF MonitorNotesPause, Repaired, JobRepairs, Advances, Notes, Late, NoEnd,
         OnlyMonitor, Typed, JobTyped, Jobs, GivenTyped
  <2>3. QED
    BY <2>1, <2>2 DEF ArmingHolds
<1>30. CASE PositionRead
  <2>1. UNCHANGED <<next, job, waiting, given>>
    BY <1>30, Frames
  <2>2. CASE player.state = "PLAYING"
    BY <1>30, <2>1, <2>2, NextHolds DEF PositionRead, Kinds
  <2>3. CASE player.state # "PLAYING"
    <3>1. UNCHANGED <<arming, holder, queued>>
      BY <1>30, <2>3 DEF PositionRead
    <3>2. Repaired => Repaired'
      BY <2>1, <3>1 DEF Repaired
    <3>3. QED
      BY <2>1, <3>1, <3>2 DEF ArmingHolds
  <2>4. QED
    BY <2>2, <2>3
<1>31. CASE PausedPollReturns
  <2>1. UNCHANGED <<arming, holder, next, queued>>
    BY <1>31, Frames
  <2>2. Repaired => Repaired'
    BY <1>31, Frames DEF PausedPollReturns, Repaired, JobRepairs, Advances, PausedSeesPlay, NoJob,
         PausedSeesStop, PausedCounts, OnlyMonitor, Typed, JobTyped, Jobs, GivenTyped
  <2>3. QED
    BY <2>1, <2>2 DEF ArmingHolds
<1>32. CASE MonitorNotesPlay
  <2>1. UNCHANGED <<arming, holder, next, queued>>
    BY <1>32, Frames
  <2>2. Repaired => Repaired'
    BY <1>32, Frames DEF MonitorNotesPlay, Repaired, JobRepairs, Advances, Notes, Late, NoEnd,
         OnlyMonitor, Typed, JobTyped, Jobs, GivenTyped
  <2>3. QED
    BY <2>1, <2>2 DEF ArmingHolds
<1>33. CASE MonitorSwaps
  <2>1. UNCHANGED <<arming, holder, next, queued>>
    BY <1>33, Frames
  <2>2. Repaired => Repaired'
    BY <1>33, Frames DEF MonitorSwaps, Repaired, JobRepairs, Advances, Store, Late, NoEnd,
         OnlyMonitor, Typed, JobTyped, Jobs, GivenTyped
  <2>3. QED
    BY <2>1, <2>2 DEF ArmingHolds
<1>34. CASE MonitorNotesStop
  <2>1. UNCHANGED <<arming, holder, next, queued>>
    BY <1>34, Frames
  <2>2. Repaired => Repaired'
    BY <1>34, Frames DEF MonitorNotesStop, Repaired, JobRepairs, Advances, NoPlay, Notes, Late,
         NoEnd, OnlyMonitor, Typed, JobTyped, Jobs, GivenTyped
  <2>3. QED
    BY <2>1, <2>2 DEF ArmingHolds
<1>35. CASE Messages
  <2>1. UNCHANGED <<arming, holder, queued, given>>
    BY <1>35, Frames
  <2>2. PICK want \in {"playing", "paused", "stopped", "none"}, t \in TrackOrNone,
             n \in TrackOrNone : ReceiveSetState(want, t, n)
    BY <1>35 DEF Messages, TrackOrNone
  <2> DEFINE j == [pc |-> "begin", want |-> want, track |-> t, stale |-> FALSE,
                   changed |-> n # next]
  <2>3. NextGeneration(j) /\ next' = n
    BY <2>2 DEF ReceiveSetState
  <2>4. j \in Waiting /\ (next' # next => JobRepairs(j))
    BY <2>3 DEF Waiting, Jobs, JobRepairs, Advances
  <2> HIDE DEF j
  <2>5. (Repaired => Repaired') /\ (next' # next => Repaired')
    BY <2>1, <2>3, <2>4, GenerationRepairs DEF Repaired
  <2>6. QED
    BY <2>1, <2>5 DEF ArmingHolds
<1>. QED
  BY <1>1, <1>2, <1>3, <1>4, <1>5, <1>6, <1>7, <1>8, <1>9, <1>10, <1>11, <1>12, <1>13, <1>14,
     <1>15, <1>16, <1>17, <1>18, <1>19, <1>20, <1>21, <1>22, <1>23, <1>24, <1>25, <1>26, <1>27,
     <1>28, <1>29, <1>30, <1>31, <1>32, <1>33, <1>34, <1>35, Frames DEF Next, JobStep, ArmingStep,
       TransitionStep, EndedStep, MonitorStep, vars

-----------------------------------------------------------------------------
\* The histories only grow.
LEMMA GivenStays ==
  ASSUME Typed, [Next]_vars
  PROVE  /\ Trusted' => Trusted
         /\ given.missed => given'.missed
         /\ given.dropped => given'.dropped
         /\ given.carried => given'.carried
         /\ given.late => given'.late
<1>1. CASE UNCHANGED <<given>>
  BY <1>1 DEF Trusted
<1>2. CASE Begin
  BY <1>2 DEF Begin, Cleared, Live, Trusted, Typed, GivenTyped
<1>3. CASE Started
  BY <1>3 DEF Started, NoEnd, Trusted, Typed, GivenTyped
<1>4. CASE PlayNoted
  BY <1>4 DEF PlayNoted, Notes, Trusted, Typed, GivenTyped
<1>5. CASE JobSwaps
  BY <1>5 DEF JobSwaps, Store, Trusted, Typed, GivenTyped
<1>6. CASE Paused
  BY <1>6 DEF Paused, Trusted, Typed, GivenTyped
<1>7. CASE PauseNoted
  BY <1>7 DEF PauseNoted, Notes, Trusted, Typed, GivenTyped
<1>8. CASE StopNoted
  BY <1>8 DEF StopNoted, NoPlay, Notes, Trusted, Typed, GivenTyped
<1>9. CASE BackendAdvances
  BY <1>9 DEF BackendAdvances, TransitionRuns, Trusted, Typed, GivenTyped
<1>10. CASE TransitionReports
  BY <1>10 DEF TransitionReports, Notes, Trusted, Typed, GivenTyped
<1>11. CASE TransitionSwaps
  BY <1>11 DEF TransitionSwaps, Store, Trusted, Typed, GivenTyped
<1>12. CASE EndedDecides
  BY <1>12 DEF EndedDecides, NoEnd, Trusted, Typed, GivenTyped
<1>13. CASE MonitorNotesPause
  BY <1>13 DEF MonitorNotesPause, Notes, Trusted, Typed, GivenTyped
<1>14. CASE PausedPollReturns
  BY <1>14 DEF PausedPollReturns, PausedSeesPlay, NoJob, PausedSeesStop, PausedCounts, Trusted,
       Typed, GivenTyped
<1>15. CASE MonitorNotesPlay
  BY <1>15 DEF MonitorNotesPlay, Notes, Trusted, Typed, GivenTyped
<1>16. CASE MonitorSwaps
  BY <1>16 DEF MonitorSwaps, Store, Trusted, Typed, GivenTyped
<1>17. CASE MonitorNotesStop
  BY <1>17 DEF MonitorNotesStop, NoPlay, Notes, Trusted, Typed, GivenTyped
<1>. QED
  BY <1>1, <1>2, <1>3, <1>4, <1>5, <1>6, <1>7, <1>8, <1>9, <1>10, <1>11, <1>12, <1>13, <1>14,
     <1>15, <1>16, <1>17, Frames DEF Next, JobStep, ArmingStep, TransitionStep, EndedStep,
       MonitorStep, vars

\* What the player knows of its device.  A player that neither plays nor pauses, a command
\* on its way to the start of a play and an end that still counts mean silence; and the
\* current track is the one on the device.
DeviceHolds ==
  /\ ended # NoEnd /\ ~Superseded /\ Trusted => backend.track = None
  /\ Trusted /\ player.state \notin Live => backend.track = None
  /\ Trusted /\ job.pc \in {"unreporting", "loading", "starting"} => backend.track = None
  /\ Trusted /\ ~given.missed /\ backend.track # None => player.track = backend.track

\* An end that was outdated does not count.
LEMMA OutdatedIsSuperseded ==
  ASSUME Typed, Outdated
  PROVE  ended' # NoEnd => Superseded'
<1>1. CASE ended = NoEnd
  BY <1>1 DEF Outdated
<1>2. CASE ended # NoEnd
  <2>1. ended'.stale
    BY <1>2 DEF Outdated, Typed, EndTyped
  <2>2. QED
    BY <2>1 DEF Superseded
<1>3. QED
  BY <1>1, <1>2

\* What the device holds as its next track: the armed one, or the one that is just being
\* set; or it is about to be cleared.
QueuedHolds ==
  /\ arming.armed => backend.next \in {None, arming.pending}
  /\ holder.pc = "set" => backend.next \in {None, holder.track}
  /\ Trusted /\ backend.next # None =>
       \/ arming.armed
       \/ holder.pc \in {"set", "clearing", "undoing"}
       \/ job.pc \in {"unloading", "stopping"}

\* Every step keeps it.
LEMMA DeviceHoldsStep ==
  ASSUME Typed, DeviceHolds, QueuedHolds, [Next]_vars
  PROVE  DeviceHolds'
<1>1. CASE UNCHANGED <<backend, player, job, ended, given>>
  BY <1>1 DEF DeviceHolds, Superseded, Trusted
<1>2. CASE BackendSetsNext
  <2>1. (Trusted' => Trusted) /\ (~given'.missed => ~given.missed)
    BY <1>2, GivenStays DEF Next, JobStep, ArmingStep, TransitionStep, EndedStep, MonitorStep
  <2>2. UNCHANGED <<player, job, ended, given>>
    BY <1>2, Frames
  <2>3. QED
    BY <1>2, <2>1, <2>2 DEF BackendSetsNext, OnlyArming, DeviceHolds, Superseded, Typed,
         BackendTyped
<1>3. CASE BackendClearsNext
  <2>1. (Trusted' => Trusted) /\ (~given'.missed => ~given.missed)
    BY <1>3, GivenStays DEF Next, JobStep, ArmingStep, TransitionStep, EndedStep, MonitorStep
  <2>2. UNCHANGED <<player, job, ended, given>>
    BY <1>3, Frames
  <2>3. QED
    BY <1>3, <2>1, <2>2 DEF BackendClearsNext, NoHold, OnlyArming, DeviceHolds, Superseded, Typed,
         BackendTyped
<1>4. CASE TakePlaybackLock
  <2>1. (Trusted' => Trusted) /\ (~given'.missed => ~given.missed)
    BY <1>4, GivenStays DEF Next, JobStep, ArmingStep, TransitionStep, EndedStep, MonitorStep
  <2>2. UNCHANGED <<backend, player, ended, given>>
    BY <1>4, Frames
  <2>3. job'.pc = "begin"
    BY <1>4 DEF TakePlaybackLock, Typed, WaitingTyped, Waiting
  <2>4. QED
    BY <2>1, <2>2, <2>3 DEF DeviceHolds, Superseded
<1>5. CASE Begin
  <2>1. (Trusted' => Trusted) /\ (~given'.missed => ~given.missed)
    BY <1>5, GivenStays DEF Next, JobStep, ArmingStep, TransitionStep, EndedStep, MonitorStep
  <2>2. UNCHANGED <<backend>>
    BY <1>5, Frames
  <2>3. QED
    BY <1>5, <2>1, <2>2 DEF Begin, Go, Loads, Cleared, Live, Replace, Outdated, NoEnd, Finish,
         Starts, DeviceHolds, Superseded, Typed, PlayerTyped, JobTyped, EndTyped, Jobs
<1>6. CASE Unloaded
  <2>1. (Trusted' => Trusted) /\ (~given'.missed => ~given.missed)
    BY <1>6, GivenStays DEF Next, JobStep, ArmingStep, TransitionStep, EndedStep, MonitorStep
  <2>2. UNCHANGED <<given>>
    BY <1>6, Frames
  <2>3. QED
    BY <1>6, <2>1, <2>2 DEF Unloaded, Silent, NoPlay, Replace, Outdated, NoEnd, Go, DeviceHolds,
         Superseded, Typed, BackendTyped, PlayerTyped, JobTyped, EndTyped, Jobs
<1>7. CASE Unreported
  <2>1. (Trusted' => Trusted) /\ (~given'.missed => ~given.missed)
    BY <1>7, GivenStays DEF Next, JobStep, ArmingStep, TransitionStep, EndedStep, MonitorStep
  <2>2. UNCHANGED <<backend, given>>
    BY <1>7, Frames
  <2>3. QED
    BY <1>7, <2>1, <2>2 DEF Unreported, Replace, Outdated, NoEnd, Go, DeviceHolds, Superseded,
         Typed, PlayerTyped, JobTyped, EndTyped, Jobs
<1>8. CASE Loaded
  <2>1. (Trusted' => Trusted) /\ (~given'.missed => ~given.missed)
    BY <1>8, GivenStays DEF Next, JobStep, ArmingStep, TransitionStep, EndedStep, MonitorStep
  <2>2. UNCHANGED <<backend, ended, given>>
    BY <1>8, Frames
  <2>3. QED
    BY <1>8, <2>1, <2>2 DEF Loaded, Go, Finish, Starts, Live, Cleared, Wire, Untold, OnlyJob,
         DeviceHolds, Superseded, Typed, PlayerTyped, JobTyped, Jobs
<1>9. CASE Started
  <2>1. (Trusted' => Trusted) /\ (~given'.missed => ~given.missed)
    BY <1>9, GivenStays DEF Next, JobStep, ArmingStep, TransitionStep, EndedStep, MonitorStep
  <2>2. UNCHANGED <<ended>>
    BY <1>9, Frames
  <2>3. job'.pc = "notePlaying" /\ backend'.track = job.track
    BY <1>9 DEF Started, Go, Typed, JobTyped, Jobs
  <2>4. player'.state = "PLAYING" /\ player'.track = player.track
    BY <1>9 DEF Started, Typed, PlayerTyped
  <2>5. Superseded' = Superseded
    BY <2>2, <2>4 DEF Superseded
  <2>6. Trusted' => player.track = job.track /\ (ended = NoEnd \/ Superseded)
    BY <1>9 DEF Started, Trusted, Typed, GivenTyped
  <2>7. QED
    BY <2>1, <2>2, <2>3, <2>4, <2>5, <2>6 DEF DeviceHolds, Live
<1>10. CASE Resumed
  <2>1. (Trusted' => Trusted) /\ (~given'.missed => ~given.missed)
    BY <1>10, GivenStays DEF Next, JobStep, ArmingStep, TransitionStep, EndedStep, MonitorStep
  <2>2. UNCHANGED <<ended, given>>
    BY <1>10, Frames
  <2>3. job'.pc \in {"notePlaying", "finished"} /\ backend'.track = backend.track
    BY <1>10 DEF Resumed, Go, Typed, JobTyped, Jobs, BackendTyped
  <2>4. player'.state \in {player.state, "PLAYING"} /\ player'.track = player.track
    BY <1>10 DEF Resumed, Typed, PlayerTyped
  <2>5. Superseded' = Superseded
    BY <2>2, <2>4 DEF Superseded
  <2>6. QED
    BY <2>1, <2>2, <2>3, <2>4, <2>5 DEF DeviceHolds, Live
<1>11. CASE PlayNoted
  <2>1. (Trusted' => Trusted) /\ (~given'.missed => ~given.missed)
    BY <1>11, GivenStays DEF Next, JobStep, ArmingStep, TransitionStep, EndedStep, MonitorStep
  <2>2. UNCHANGED <<backend, player, ended>>
    BY <1>11, Frames
  <2>3. QED
    BY <1>11, <2>1, <2>2 DEF PlayNoted, Notes, Late, NoEnd, OnlyJob, DeviceHolds, Superseded,
         Typed, JobTyped, Jobs
<1>12. CASE JobSwaps
  <2>1. (Trusted' => Trusted) /\ (~given'.missed => ~given.missed)
    BY <1>12, GivenStays DEF Next, JobStep, ArmingStep, TransitionStep, EndedStep, MonitorStep
  <2>2. UNCHANGED <<backend, player, ended>>
    BY <1>12, Frames
  <2>3. QED
    BY <1>12, <2>1, <2>2 DEF JobSwaps, Store, Late, NoEnd, Go, OnlyJob, DeviceHolds, Superseded,
         Typed, JobTyped, Jobs
<1>13. CASE Paused
  <2>1. (Trusted' => Trusted) /\ (~given'.missed => ~given.missed)
    BY <1>13, GivenStays DEF Next, JobStep, ArmingStep, TransitionStep, EndedStep, MonitorStep
  <2>2. UNCHANGED <<ended>>
    BY <1>13, Frames
  <2>3. job'.pc = "notePaused" /\ backend'.track = backend.track
    BY <1>13 DEF Paused, Go, Typed, JobTyped, Jobs, BackendTyped
  <2>4. player'.state = "PAUSED" /\ player'.track = player.track
    BY <1>13 DEF Paused, Typed, PlayerTyped
  <2>5. Superseded' = Superseded
    BY <2>2, <2>4 DEF Superseded
  <2>6. QED
    BY <2>1, <2>2, <2>3, <2>4, <2>5 DEF DeviceHolds, Live
<1>14. CASE PauseNoted
  <2>1. (Trusted' => Trusted) /\ (~given'.missed => ~given.missed)
    BY <1>14, GivenStays DEF Next, JobStep, ArmingStep, TransitionStep, EndedStep, MonitorStep
  <2>2. UNCHANGED <<backend, player, ended>>
    BY <1>14, Frames
  <2>3. QED
    BY <1>14, <2>1, <2>2 DEF PauseNoted, Notes, Late, NoEnd, Go, OnlyJob, DeviceHolds, Superseded,
         Typed, JobTyped, Jobs
<1>15. CASE Stopped
  <2>1. (Trusted' => Trusted) /\ (~given'.missed => ~given.missed)
    BY <1>15, GivenStays DEF Next, JobStep, ArmingStep, TransitionStep, EndedStep, MonitorStep
  <2>2. UNCHANGED <<ended, given>>
    BY <1>15, Frames
  <2>3. QED
    BY <1>15, <2>1, <2>2 DEF Stopped, Silent, Go, OnlyJob, DeviceHolds, Superseded, Typed,
         BackendTyped, PlayerTyped, JobTyped, Jobs
<1>16. CASE StopNoted
  <2>1. (Trusted' => Trusted) /\ (~given'.missed => ~given.missed)
    BY <1>16, GivenStays DEF Next, JobStep, ArmingStep, TransitionStep, EndedStep, MonitorStep
  <2>2. UNCHANGED <<backend, player, ended>>
    BY <1>16, Frames
  <2>3. QED
    BY <1>16, <2>1, <2>2 DEF StopNoted, NoPlay, Notes, Late, NoEnd, Go, OnlyJob, DeviceHolds,
         Superseded, Typed, JobTyped, Jobs
<1>17. CASE JobEnds
  <2>1. (Trusted' => Trusted) /\ (~given'.missed => ~given.missed)
    BY <1>17, GivenStays DEF Next, JobStep, ArmingStep, TransitionStep, EndedStep, MonitorStep
  <2>2. UNCHANGED <<backend, player, ended, given>>
    BY <1>17, Frames
  <2>3. QED
    BY <1>17, <2>1, <2>2 DEF JobEnds, NoJob, InfoChanged, AskArmLock, NoHold, Enter, Cleared,
         DeviceHolds, Superseded, Typed, JobTyped, Jobs
<1>18. CASE BackendAdvances
  <2>1. (Trusted' => Trusted) /\ (~given'.missed => ~given.missed)
    BY <1>18, GivenStays DEF Next, JobStep, ArmingStep, TransitionStep, EndedStep, MonitorStep
  <2>2. /\ UNCHANGED job /\ backend.track # None
        /\ backend'.track = backend.next /\ backend.next # None
    BY <1>18, Frames DEF BackendAdvances, Typed, BackendTyped
  <2>3. CASE arming.armed
    <3>1. player'.state = player.state /\ player'.track = arming.pending
      BY <1>18, <2>3 DEF BackendAdvances, TransitionRuns, Typed, PlayerTyped
    <3>2. ended' # NoEnd => Superseded'
      BY <1>18, <2>3, OutdatedIsSuperseded DEF BackendAdvances, TransitionRuns
    <3>3. backend.next = arming.pending
      BY <2>2, <2>3 DEF QueuedHolds
    <3>4. QED
      BY <2>1, <2>2, <3>1, <3>2, <3>3 DEF DeviceHolds
  <2>4. CASE ~arming.armed
    <3>1. player' = player /\ ended' = ended /\ given'.missed
      BY <1>18, <2>4 DEF BackendAdvances, TransitionRuns, Typed, GivenTyped
    <3>2. Superseded' = Superseded
      BY <3>1 DEF Superseded
    <3>3. QED
      BY <2>1, <2>2, <3>1, <3>2 DEF DeviceHolds
  <2>5. QED
    BY <2>3, <2>4
<1>19. CASE BackendEnds
  <2>1. (Trusted' => Trusted) /\ (~given'.missed => ~given.missed)
    BY <1>19, GivenStays DEF Next, JobStep, ArmingStep, TransitionStep, EndedStep, MonitorStep
  <2>2. UNCHANGED <<player, job, given>>
    BY <1>19, Frames
  <2>3. QED
    BY <1>19, <2>1, <2>2 DEF BackendEnds, NoEnd, Settled, NoMove, Silent, EndedRuns, Cleared,
         NoPlay, DeviceHolds, Superseded, Typed, BackendTyped, EndTyped
<1>20. CASE ReleaseExternalPlayback
  <2>1. (Trusted' => Trusted) /\ (~given'.missed => ~given.missed)
    BY <1>20, GivenStays DEF Next, JobStep, ArmingStep, TransitionStep, EndedStep, MonitorStep
  <2>2. UNCHANGED <<given>>
    BY <1>20, Frames
  <2>3. QED
    BY <1>20, <2>1, <2>2 DEF ReleaseExternalPlayback, Silent, Cleared, NoJob, Outdated, NoEnd,
         NoPlay, Untold, DeviceHolds, Superseded, Typed, BackendTyped, PlayerTyped, JobTyped,
         EndTyped, Jobs
<1>21. CASE TransitionReports
  <2>1. (Trusted' => Trusted) /\ (~given'.missed => ~given.missed)
    BY <1>21, GivenStays DEF Next, JobStep, ArmingStep, TransitionStep, EndedStep, MonitorStep
  <2>2. UNCHANGED <<backend, player, job, ended>>
    BY <1>21, Frames
  <2>3. QED
    BY <1>21, <2>1, <2>2 DEF TransitionReports, Notes, Late, NoEnd, DeviceHolds, Superseded, Typed
<1>22. CASE TransitionSwaps
  <2>1. (Trusted' => Trusted) /\ (~given'.missed => ~given.missed)
    BY <1>22, GivenStays DEF Next, JobStep, ArmingStep, TransitionStep, EndedStep, MonitorStep
  <2>2. UNCHANGED <<backend, player, job, ended>>
    BY <1>22, Frames
  <2>3. QED
    BY <1>22, <2>1, <2>2 DEF TransitionSwaps, Store, Late, NoEnd, DeviceHolds, Superseded, Typed
<1>23. CASE EndedDecides
  <2>1. (Trusted' => Trusted) /\ (~given'.missed => ~given.missed)
    BY <1>23, GivenStays DEF Next, JobStep, ArmingStep, TransitionStep, EndedStep, MonitorStep
  <2>2. UNCHANGED <<backend>>
    BY <1>23, Frames
  <2>3. QED
    BY <1>23, <2>1, <2>2 DEF EndedDecides, NoEnd, Superseded, NextGeneration, NoJob, Revoked,
         DeviceHolds, Typed, PlayerTyped, JobTyped, EndTyped, Jobs
<1>24. CASE PollReturns
  <2>1. (Trusted' => Trusted) /\ (~given'.missed => ~given.missed)
    BY <1>24, GivenStays DEF Next, JobStep, ArmingStep, TransitionStep, EndedStep, MonitorStep
  <2>2. UNCHANGED <<backend, job, ended, given>>
    BY <1>24, Frames
  <2>3. player'.state = player.state \/ (player'.state = "PAUSED" /\ player.state = "PLAYING")
    BY <1>24 DEF PollReturns, Typed, PlayerTyped
  <2>4. player'.track = player.track
    BY <1>24 DEF PollReturns, Typed, PlayerTyped
  <2>5. Superseded' = Superseded
    BY <2>2, <2>4 DEF Superseded
  <2>6. QED
    BY <2>1, <2>2, <2>3, <2>4, <2>5 DEF DeviceHolds, Live
<1>25. CASE MonitorNotesPause
  <2>1. (Trusted' => Trusted) /\ (~given'.missed => ~given.missed)
    BY <1>25, GivenStays DEF Next, JobStep, ArmingStep, TransitionStep, EndedStep, MonitorStep
  <2>2. UNCHANGED <<backend, player, job, ended>>
    BY <1>25, Frames
  <2>3. QED
    BY <1>25, <2>1, <2>2 DEF MonitorNotesPause, Notes, Late, NoEnd, OnlyMonitor, DeviceHolds,
         Superseded, Typed
<1>26. CASE PausedPollReturns
  <2>1. (Trusted' => Trusted) /\ (~given'.missed => ~given.missed)
    BY <1>26, GivenStays DEF Next, JobStep, ArmingStep, TransitionStep, EndedStep, MonitorStep
  <2>2. UNCHANGED <<backend, job, ended>>
    BY <1>26, Frames
  <2>3. PausedSeesStop \/ UNCHANGED player
    BY <1>26 DEF PausedPollReturns, PausedSeesPlay, PausedCounts
  <2>4. player'.track = player.track
    BY <2>3 DEF PausedSeesStop, Typed, PlayerTyped
  <2>5. Superseded' = Superseded
    BY <2>2, <2>4 DEF Superseded
  <2>6. player'.state = player.state \/ (Trusted' => backend.track = None)
    BY <2>3 DEF PausedSeesStop, Trusted, Typed, GivenTyped
  <2>7. QED
    BY <2>1, <2>2, <2>4, <2>5, <2>6 DEF DeviceHolds, Live
<1>27. CASE MonitorResumes
  <2>1. (Trusted' => Trusted) /\ (~given'.missed => ~given.missed)
    BY <1>27, GivenStays DEF Next, JobStep, ArmingStep, TransitionStep, EndedStep, MonitorStep
  <2>2. UNCHANGED <<backend, job, ended, given>>
    BY <1>27, Frames
  <2>3. player'.state = player.state \/ (player.state = "PAUSED" /\ player'.state = "PLAYING")
    BY <1>27 DEF MonitorResumes, Typed, PlayerTyped
  <2>4. player'.track = player.track
    BY <1>27 DEF MonitorResumes, Typed, PlayerTyped
  <2>5. Superseded' = Superseded
    BY <2>2, <2>4 DEF Superseded
  <2>6. QED
    BY <2>1, <2>2, <2>3, <2>4, <2>5 DEF DeviceHolds, Live
<1>28. CASE MonitorNotesPlay
  <2>1. (Trusted' => Trusted) /\ (~given'.missed => ~given.missed)
    BY <1>28, GivenStays DEF Next, JobStep, ArmingStep, TransitionStep, EndedStep, MonitorStep
  <2>2. UNCHANGED <<backend, player, job, ended>>
    BY <1>28, Frames
  <2>3. QED
    BY <1>28, <2>1, <2>2 DEF MonitorNotesPlay, Notes, Late, NoEnd, OnlyMonitor, DeviceHolds,
         Superseded, Typed
<1>29. CASE MonitorSwaps
  <2>1. (Trusted' => Trusted) /\ (~given'.missed => ~given.missed)
    BY <1>29, GivenStays DEF Next, JobStep, ArmingStep, TransitionStep, EndedStep, MonitorStep
  <2>2. UNCHANGED <<backend, player, job, ended>>
    BY <1>29, Frames
  <2>3. QED
    BY <1>29, <2>1, <2>2 DEF MonitorSwaps, Store, Late, NoEnd, OnlyMonitor, DeviceHolds,
         Superseded, Typed
<1>30. CASE MonitorNotesStop
  <2>1. (Trusted' => Trusted) /\ (~given'.missed => ~given.missed)
    BY <1>30, GivenStays DEF Next, JobStep, ArmingStep, TransitionStep, EndedStep, MonitorStep
  <2>2. UNCHANGED <<backend, player, job, ended>>
    BY <1>30, Frames
  <2>3. QED
    BY <1>30, <2>1, <2>2 DEF MonitorNotesStop, NoPlay, Notes, Late, NoEnd, OnlyMonitor,
         DeviceHolds, Superseded, Typed
<1>31. CASE Messages
  <2>1. (Trusted' => Trusted) /\ (~given'.missed => ~given.missed)
    BY <1>31, GivenStays DEF Next, JobStep, ArmingStep, TransitionStep, EndedStep, MonitorStep
  <2>2. UNCHANGED <<backend, player, given>>
    BY <1>31, Frames
  <2>3. QED
    BY <1>31, <2>1, <2>2 DEF Messages, ReceiveSetState, NextGeneration, NoJob, Revoked, Outdated,
         NoEnd, DeviceHolds, Superseded, Typed, JobTyped, EndTyped, Jobs
<1>32. CASE \E mode \in {"playing", "paused", "stopped"} : DeviceOperated(mode)
  <2>1. (Trusted' => Trusted) /\ (~given'.missed => ~given.missed)
    BY <1>32, GivenStays DEF Next, JobStep, ArmingStep, TransitionStep, EndedStep, MonitorStep
  <2>2. UNCHANGED <<player, job, ended, given>>
    BY <1>32, Frames
  <2>3. QED
    BY <1>32, <2>1, <2>2 DEF DeviceOperated, Silent, DeviceHolds, Superseded, Typed, BackendTyped
<1>. QED
  BY <1>1, <1>2, <1>3, <1>4, <1>5, <1>6, <1>7, <1>8, <1>9, <1>10, <1>11, <1>12, <1>13, <1>14,
     <1>15, <1>16, <1>17, <1>18, <1>19, <1>20, <1>21, <1>22, <1>23, <1>24, <1>25, <1>26, <1>27,
     <1>28, <1>29, <1>30, <1>31, <1>32, Frames DEF Next, JobStep, ArmingStep, TransitionStep,
       EndedStep, MonitorStep, vars

\* The next item is taken into the lock without a change of what is armed.
LEMMA PrepareKeeps ==
  ASSUME Typed, NEW kind, Prepare(kind, arming, player)
  PROVE  /\ arming'.armed = arming.armed /\ arming'.pending = arming.pending
         /\ holder'.pc \in {"free", "resolving"}
<1>1. CASE ~arming.armed /\ player.state = "PLAYING" /\ next # None
  <2>1. /\ arming' = [arming EXCEPT !.fresh = TRUE]
        /\ holder' = [pc |-> "resolving", kind |-> kind, track |-> next]
    BY <1>1 DEF Prepare
  <2>2. QED
    BY <2>1 DEF Typed, ArmingTyped
<1>2. CASE ~(~arming.armed /\ player.state = "PLAYING" /\ next # None)
  BY <1>2 DEF Prepare, NoHold
<1>3. QED
  BY <1>1, <1>2

\* Whoever asks for the lock keeps the device's next track armed, or is about to clear it.
LEMMA EnterQueued ==
  ASSUME Typed, QueuedHolds, NEW kind, Enter(kind), holder = NoHold, backend' = backend,
         Trusted' => Trusted, job' = job \/ job.pc \notin {"unloading", "stopping"}
  PROVE  QueuedHolds'
<1>1. CASE kind = "changed"
  <2>1. arming' = Cleared /\ holder' = [pc |-> "clearing", kind |-> kind, track |-> None]
    BY <1>1 DEF Enter
  <2>2. QED
    BY <2>1 DEF QueuedHolds, Cleared
<1>2. CASE kind # "changed"
  <2>1. /\ arming'.armed = arming.armed /\ arming'.pending = arming.pending
        /\ holder'.pc \in {"free", "resolving"}
    BY <1>2, PrepareKeeps DEF Enter
  <2>2. QED
    BY <2>1 DEF QueuedHolds, NoHold
<1>3. QED
  BY <1>1, <1>2

\* Asking for the arm lock keeps what the device holds in order.
LEMMA AskQueued ==
  ASSUME Typed, QueuedHolds, NEW kind, AskArmLock(kind), backend' = backend,
         Trusted' => Trusted, job' = job \/ job.pc \notin {"unloading", "stopping"}
  PROVE  QueuedHolds'
<1>1. CASE holder = NoHold /\ queued = <<>>
  BY <1>1, EnterQueued DEF AskArmLock
<1>2. CASE ~(holder = NoHold /\ queued = <<>>)
  <2>1. UNCHANGED <<arming, holder>>
    BY <1>2 DEF AskArmLock
  <2>2. QED
    BY <2>1 DEF QueuedHolds
<1>3. QED
  BY <1>1, <1>2

\* Every step keeps it: what disarms is about to clear the device, or leaves it silent.
LEMMA QueuedHoldsStep ==
  ASSUME Typed, ArmingHolds, DeviceHolds, QueuedHolds, [Next]_vars
  PROVE  QueuedHolds'
<1>1. CASE UNCHANGED <<backend, arming, holder, job, given>>
  BY <1>1 DEF QueuedHolds, Trusted
<1>2. CASE TakeArmLock
  <2>1. backend' = backend /\ (Trusted' => Trusted)
    BY <1>2, Frames DEF Trusted
  <2>2. job' = job
    BY <1>2, Frames
  <2>3. QED
    BY <1>2, <2>1, <2>2, EnterQueued DEF TakeArmLock
<1>3. CASE Resolved
  <2>1. Trusted' => Trusted
    BY <1>3, GivenStays DEF Next, JobStep, ArmingStep, TransitionStep, EndedStep, MonitorStep
  <2>2. UNCHANGED <<backend, arming, job, given>>
    BY <1>3, Frames
  <2>3. QED
    BY <1>3, <2>1, <2>2 DEF Resolved, NoHold, OnlyArming, QueuedHolds, ArmingHolds, DeviceHolds,
         Typed, HolderTyped
<1>4. CASE SetNextReturned
  <2>1. Trusted' => Trusted
    BY <1>4, GivenStays DEF Next, JobStep, ArmingStep, TransitionStep, EndedStep, MonitorStep
  <2>2. UNCHANGED <<backend, job, given>>
    BY <1>4, Frames
  <2>3. CASE holder.pc = "set" /\ arming.fresh
    <3>1. arming'.armed /\ arming'.pending = holder.track /\ holder' = NoHold
      BY <1>4, <2>3 DEF SetNextReturned, Typed, ArmingTyped
    <3>2. QED
      BY <2>1, <2>2, <2>3, <3>1 DEF QueuedHolds, NoHold
  <2>4. CASE holder.pc = "set" /\ ~arming.fresh
    <3>1. arming' = arming /\ holder'.pc = "undoing"
      BY <1>4, <2>4 DEF SetNextReturned, Typed, HolderTyped
    <3>2. QED
      BY <2>1, <2>2, <2>4, <3>1 DEF QueuedHolds
  <2>5. CASE holder.pc = "refused"
    <3>1. arming' = arming /\ holder' = NoHold
      BY <1>4, <2>5 DEF SetNextReturned
    <3>2. QED
      BY <2>1, <2>2, <2>5, <3>1 DEF QueuedHolds, NoHold
  <2>6. QED
    BY <1>4, <2>3, <2>4, <2>5 DEF SetNextReturned
<1>5. CASE ClearReturned
  <2>1. backend' = backend /\ (Trusted' => Trusted)
    BY <1>5, Frames DEF Trusted
  <2>2. job' = job
    BY <1>5, Frames
  <2>3. /\ arming'.armed = arming.armed /\ arming'.pending = arming.pending
        /\ holder'.pc \in {"free", "resolving"} /\ holder.pc = "cleared"
    BY <1>5, PrepareKeeps DEF ClearReturned
  <2>4. QED
    BY <2>1, <2>2, <2>3 DEF QueuedHolds
<1>6. CASE BackendSetsNext
  <2>1. Trusted' => Trusted
    BY <1>6, GivenStays DEF Next, JobStep, ArmingStep, TransitionStep, EndedStep, MonitorStep
  <2>2. UNCHANGED <<arming, job, given>>
    BY <1>6, Frames
  <2>3. holder.pc = "setting" /\ ~arming.armed
    BY <1>6 DEF BackendSetsNext, ArmingHolds, NoHold
  <2>4. CASE holder' = [holder EXCEPT !.pc = "set"]
    <3>1. backend'.next = holder.track /\ holder'.pc = "set" /\ holder'.track = holder.track
      BY <1>6, <2>4 DEF BackendSetsNext, Typed, HolderTyped, BackendTyped
    <3>2. QED
      BY <2>1, <2>2, <2>3, <3>1 DEF QueuedHolds
  <2>5. CASE holder' = [holder EXCEPT !.pc = "refused"] /\ backend' = backend
    <3>1. holder'.pc = "refused"
      BY <2>5 DEF Typed, HolderTyped
    <3>2. QED
      BY <2>1, <2>2, <2>3, <2>5, <3>1 DEF QueuedHolds
  <2>6. QED
    BY <1>6, <2>4, <2>5 DEF BackendSetsNext
<1>7. CASE BackendClearsNext
  <2>1. Trusted' => Trusted
    BY <1>7, GivenStays DEF Next, JobStep, ArmingStep, TransitionStep, EndedStep, MonitorStep
  <2>2. UNCHANGED <<arming, job, given>>
    BY <1>7, Frames
  <2>3. QED
    BY <1>7, <2>1, <2>2 DEF BackendClearsNext, NoHold, OnlyArming, QueuedHolds, ArmingHolds,
         DeviceHolds, Typed, BackendTyped, HolderTyped
<1>8. CASE TakePlaybackLock
  <2>1. Trusted' => Trusted
    BY <1>8, GivenStays DEF Next, JobStep, ArmingStep, TransitionStep, EndedStep, MonitorStep
  <2>2. UNCHANGED <<backend, arming, holder, given>>
    BY <1>8, Frames
  <2>3. QED
    BY <1>8, <2>1, <2>2 DEF TakePlaybackLock, NoJob, QueuedHolds, ArmingHolds, DeviceHolds, Typed,
         JobTyped, Jobs
<1>9. CASE Begin
  <2>1. Trusted' => Trusted
    BY <1>9, GivenStays DEF Next, JobStep, ArmingStep, TransitionStep, EndedStep, MonitorStep
  <2>2. UNCHANGED <<backend, holder>>
    BY <1>9, Frames
  <2>3. job.pc = "begin"
    BY <1>9 DEF Begin
  <2>4. CASE arming' = arming
    BY <2>1, <2>2, <2>3, <2>4 DEF QueuedHolds
  <2>5. CASE ~job.stale /\ Loads
    <3>1. arming' = Cleared
      BY <1>9, <2>5 DEF Begin
    <3>2. player.state \in Live => job'.pc = "unloading"
      BY <1>9, <2>5 DEF Begin, Go, Typed, JobTyped, Jobs
    <3>3. player.state \notin Live /\ Trusted => backend.next = None
      BY DEF DeviceHolds, Typed, BackendTyped
    <3>4. QED
      BY <2>1, <2>2, <3>1, <3>2, <3>3 DEF QueuedHolds, Cleared
  <2>6. CASE ~job.stale /\ ~Loads /\ job.want = "stopped"
    <3>1. arming' = Cleared
      BY <1>9, <2>6 DEF Begin, Finish
    <3>2. job'.pc = "stopping"
      BY <1>9, <2>6 DEF Begin, Finish, Starts, Typed, JobTyped, Jobs
    <3>3. QED
      BY <2>1, <2>2, <3>1, <3>2 DEF QueuedHolds, Cleared
  <2>7. QED
    BY <1>9, <2>4, <2>5, <2>6 DEF Begin, Finish
<1>10. CASE Unloaded
  <2>1. Trusted' => Trusted
    BY <1>10, GivenStays DEF Next, JobStep, ArmingStep, TransitionStep, EndedStep, MonitorStep
  <2>2. UNCHANGED <<arming, holder, given>>
    BY <1>10, Frames
  <2>3. QED
    BY <1>10, <2>1, <2>2 DEF Unloaded, Silent, NoPlay, Replace, Go, OnlyLoad, QueuedHolds,
         ArmingHolds, DeviceHolds, Typed, BackendTyped, JobTyped, Jobs
<1>11. CASE Unreported
  <2>1. Trusted' => Trusted
    BY <1>11, GivenStays DEF Next, JobStep, ArmingStep, TransitionStep, EndedStep, MonitorStep
  <2>2. UNCHANGED <<backend, arming, holder, given>>
    BY <1>11, Frames
  <2>3. QED
    BY <1>11, <2>1, <2>2 DEF Unreported, Replace, Go, OnlyLoad, QueuedHolds, ArmingHolds,
         DeviceHolds, Typed, JobTyped, Jobs
<1>12. CASE Loaded
  <2>1. Trusted' => Trusted
    BY <1>12, GivenStays DEF Next, JobStep, ArmingStep, TransitionStep, EndedStep, MonitorStep
  <2>2. UNCHANGED <<backend, holder, given>>
    BY <1>12, Frames
  <2>3. job.pc = "loading"
    BY <1>12 DEF Loaded
  <2>4. Trusted => backend.next = None
    BY <2>3 DEF DeviceHolds, Typed, BackendTyped
  <2>5. arming' \in {arming, Cleared}
    BY <1>12 DEF Loaded, Finish
  <2>6. QED
    BY <2>1, <2>2, <2>4, <2>5 DEF QueuedHolds, Cleared
<1>13. CASE Started
  <2>1. Trusted' => Trusted
    BY <1>13, GivenStays DEF Next, JobStep, ArmingStep, TransitionStep, EndedStep, MonitorStep
  <2>2. UNCHANGED <<arming, holder>>
    BY <1>13, Frames
  <2>3. QED
    BY <1>13, <2>1, <2>2 DEF Started, Go, NoEnd, OnlyJob, OnlyLoad, QueuedHolds, ArmingHolds,
         DeviceHolds, Typed, BackendTyped, JobTyped, Jobs
<1>14. CASE Resumed
  <2>1. Trusted' => Trusted
    BY <1>14, GivenStays DEF Next, JobStep, ArmingStep, TransitionStep, EndedStep, MonitorStep
  <2>2. UNCHANGED <<arming, holder, given>>
    BY <1>14, Frames
  <2>3. QED
    BY <1>14, <2>1, <2>2 DEF Resumed, Go, OnlyJob, OnlyLoad, QueuedHolds, ArmingHolds,
         DeviceHolds, Typed, BackendTyped, JobTyped, Jobs
<1>15. CASE PlayNoted
  <2>1. Trusted' => Trusted
    BY <1>15, GivenStays DEF Next, JobStep, ArmingStep, TransitionStep, EndedStep, MonitorStep
  <2>2. UNCHANGED <<backend, arming, holder>>
    BY <1>15, Frames
  <2>3. QED
    BY <1>15, <2>1, <2>2 DEF PlayNoted, Notes, Late, NoEnd, OnlyJob, OnlyLoad, QueuedHolds,
         ArmingHolds, DeviceHolds, Typed, JobTyped, Jobs
<1>16. CASE JobSwaps
  <2>1. Trusted' => Trusted
    BY <1>16, GivenStays DEF Next, JobStep, ArmingStep, TransitionStep, EndedStep, MonitorStep
  <2>2. UNCHANGED <<backend, arming, holder>>
    BY <1>16, Frames
  <2>3. QED
    BY <1>16, <2>1, <2>2 DEF JobSwaps, Store, Late, NoEnd, Go, OnlyJob, OnlyLoad, QueuedHolds,
         ArmingHolds, DeviceHolds, Typed, JobTyped, Jobs
<1>17. CASE Paused
  <2>1. Trusted' => Trusted
    BY <1>17, GivenStays DEF Next, JobStep, ArmingStep, TransitionStep, EndedStep, MonitorStep
  <2>2. UNCHANGED <<arming, holder>>
    BY <1>17, Frames
  <2>3. QED
    BY <1>17, <2>1, <2>2 DEF Paused, Go, OnlyJob, OnlyLoad, QueuedHolds, ArmingHolds, DeviceHolds,
         Typed, BackendTyped, JobTyped, Jobs
<1>18. CASE PauseNoted
  <2>1. Trusted' => Trusted
    BY <1>18, GivenStays DEF Next, JobStep, ArmingStep, TransitionStep, EndedStep, MonitorStep
  <2>2. UNCHANGED <<backend, arming, holder>>
    BY <1>18, Frames
  <2>3. QED
    BY <1>18, <2>1, <2>2 DEF PauseNoted, Notes, Late, NoEnd, Go, OnlyJob, OnlyLoad, QueuedHolds,
         ArmingHolds, DeviceHolds, Typed, JobTyped, Jobs
<1>19. CASE Stopped
  <2>1. Trusted' => Trusted
    BY <1>19, GivenStays DEF Next, JobStep, ArmingStep, TransitionStep, EndedStep, MonitorStep
  <2>2. UNCHANGED <<arming, holder, given>>
    BY <1>19, Frames
  <2>3. QED
    BY <1>19, <2>1, <2>2 DEF Stopped, Silent, Go, OnlyJob, OnlyLoad, QueuedHolds, ArmingHolds,
         DeviceHolds, Typed, BackendTyped, JobTyped, Jobs
<1>20. CASE StopNoted
  <2>1. Trusted' => Trusted
    BY <1>20, GivenStays DEF Next, JobStep, ArmingStep, TransitionStep, EndedStep, MonitorStep
  <2>2. UNCHANGED <<backend, arming, holder>>
    BY <1>20, Frames
  <2>3. QED
    BY <1>20, <2>1, <2>2 DEF StopNoted, NoPlay, Notes, Late, NoEnd, Go, OnlyJob, OnlyLoad,
         QueuedHolds, ArmingHolds, DeviceHolds, Typed, JobTyped, Jobs
<1>21. CASE JobEnds
  <2>1. backend' = backend /\ (Trusted' => Trusted)
    BY <1>21, Frames DEF Trusted
  <2>2. job.pc = "finished"
    BY <1>21 DEF JobEnds
  <2>3. CASE UNCHANGED <<arming, holder>>
    BY <2>1, <2>2, <2>3 DEF QueuedHolds
  <2>4. CASE AskArmLock("changed")
    BY <2>1, <2>2, <2>4, AskQueued
  <2>5. QED
    BY <1>21, <2>3, <2>4 DEF JobEnds, InfoChanged
<1>22. CASE BackendAdvances
  <2>1. Trusted' => Trusted
    BY <1>22, GivenStays DEF Next, JobStep, ArmingStep, TransitionStep, EndedStep, MonitorStep
  <2>2. UNCHANGED <<holder, job>>
    BY <1>22, Frames
  <2>3. QED
    BY <1>22, <2>1, <2>2 DEF BackendAdvances, Settled, NoMove, TransitionRuns, QueuedHolds,
         ArmingHolds, DeviceHolds, Typed, BackendTyped, ArmingTyped
<1>23. CASE BackendEnds
  <2>1. Trusted' => Trusted
    BY <1>23, GivenStays DEF Next, JobStep, ArmingStep, TransitionStep, EndedStep, MonitorStep
  <2>2. UNCHANGED <<holder, job, given>>
    BY <1>23, Frames
  <2>3. QED
    BY <1>23, <2>1, <2>2 DEF BackendEnds, NoEnd, Settled, NoMove, Silent, EndedRuns, Cleared,
         NoPlay, QueuedHolds, ArmingHolds, DeviceHolds, Typed, BackendTyped, ArmingTyped
<1>24. CASE ReleaseExternalPlayback
  <2>1. Trusted' => Trusted
    BY <1>24, GivenStays DEF Next, JobStep, ArmingStep, TransitionStep, EndedStep, MonitorStep
  <2>2. UNCHANGED <<holder, given>>
    BY <1>24, Frames
  <2>3. QED
    BY <1>24, <2>1, <2>2 DEF ReleaseExternalPlayback, Silent, Cleared, NoJob, NoPlay, Untold,
         QueuedHolds, ArmingHolds, DeviceHolds, Typed, BackendTyped, ArmingTyped, JobTyped, Jobs
<1>25. CASE TransitionReports
  <2>1. Trusted' => Trusted
    BY <1>25, GivenStays DEF Next, JobStep, ArmingStep, TransitionStep, EndedStep, MonitorStep
  <2>2. UNCHANGED <<backend, arming, holder, job>>
    BY <1>25, Frames
  <2>3. QED
    BY <1>25, <2>1, <2>2 DEF TransitionReports, Notes, Late, NoEnd, QueuedHolds, ArmingHolds,
         DeviceHolds, Typed
<1>26. CASE TransitionSwaps
  <2>1. Trusted' => Trusted
    BY <1>26, GivenStays DEF Next, JobStep, ArmingStep, TransitionStep, EndedStep, MonitorStep
  <2>2. UNCHANGED <<backend, arming, holder, job>>
    BY <1>26, Frames
  <2>3. QED
    BY <1>26, <2>1, <2>2 DEF TransitionSwaps, Store, Late, NoEnd, QueuedHolds, ArmingHolds,
         DeviceHolds, Typed
<1>27. CASE TransitionEnds
  <2>1. backend' = backend /\ (Trusted' => Trusted)
    BY <1>27, Frames DEF Trusted
  <2>2. job' = job
    BY <1>27, Frames
  <2>3. CASE UNCHANGED <<arming, holder>>
    BY <2>1, <2>2, <2>3 DEF QueuedHolds
  <2>4. CASE AskArmLock("transition")
    BY <2>1, <2>2, <2>4, AskQueued
  <2>5. QED
    BY <1>27, <2>3, <2>4 DEF TransitionEnds, PrepareNext
<1>28. CASE EndedDecides
  <2>1. Trusted' => Trusted
    BY <1>28, GivenStays DEF Next, JobStep, ArmingStep, TransitionStep, EndedStep, MonitorStep
  <2>2. UNCHANGED <<backend, arming, holder>>
    BY <1>28, Frames
  <2>3. QED
    BY <1>28, <2>1, <2>2 DEF EndedDecides, NoEnd, NextGeneration, NoJob, Revoked, QueuedHolds,
         ArmingHolds, DeviceHolds, Typed, JobTyped, Jobs
<1>29. CASE MonitorNotesPause
  <2>1. Trusted' => Trusted
    BY <1>29, GivenStays DEF Next, JobStep, ArmingStep, TransitionStep, EndedStep, MonitorStep
  <2>2. UNCHANGED <<backend, arming, holder, job>>
    BY <1>29, Frames
  <2>3. QED
    BY <1>29, <2>1, <2>2 DEF MonitorNotesPause, Notes, Late, NoEnd, OnlyMonitor, QueuedHolds,
         ArmingHolds, DeviceHolds, Typed
<1>30. CASE PositionRead
  <2>1. backend' = backend /\ (Trusted' => Trusted)
    BY <1>30, Frames DEF Trusted
  <2>2. job' = job
    BY <1>30, Frames
  <2>3. CASE UNCHANGED <<arming, holder>>
    BY <2>1, <2>2, <2>3 DEF QueuedHolds
  <2>4. CASE AskArmLock("monitor")
    BY <2>1, <2>2, <2>4, AskQueued
  <2>5. QED
    BY <1>30, <2>3, <2>4 DEF PositionRead, PrepareNext
<1>31. CASE PausedPollReturns
  <2>1. Trusted' => Trusted
    BY <1>31, GivenStays DEF Next, JobStep, ArmingStep, TransitionStep, EndedStep, MonitorStep
  <2>2. UNCHANGED <<backend, arming, holder, job>>
    BY <1>31, Frames
  <2>3. QED
    BY <1>31, <2>1, <2>2 DEF PausedPollReturns, Reads, PausedSeesPlay, NoJob, PausedSeesStop,
         OnlyMonitor, QueuedHolds, ArmingHolds, DeviceHolds, Typed
<1>32. CASE MonitorNotesPlay
  <2>1. Trusted' => Trusted
    BY <1>32, GivenStays DEF Next, JobStep, ArmingStep, TransitionStep, EndedStep, MonitorStep
  <2>2. UNCHANGED <<backend, arming, holder, job>>
    BY <1>32, Frames
  <2>3. QED
    BY <1>32, <2>1, <2>2 DEF MonitorNotesPlay, Notes, Late, NoEnd, OnlyMonitor, QueuedHolds,
         ArmingHolds, DeviceHolds, Typed
<1>33. CASE MonitorSwaps
  <2>1. Trusted' => Trusted
    BY <1>33, GivenStays DEF Next, JobStep, ArmingStep, TransitionStep, EndedStep, MonitorStep
  <2>2. UNCHANGED <<backend, arming, holder, job>>
    BY <1>33, Frames
  <2>3. QED
    BY <1>33, <2>1, <2>2 DEF MonitorSwaps, Store, Late, NoEnd, OnlyMonitor, QueuedHolds,
         ArmingHolds, DeviceHolds, Typed
<1>34. CASE MonitorNotesStop
  <2>1. Trusted' => Trusted
    BY <1>34, GivenStays DEF Next, JobStep, ArmingStep, TransitionStep, EndedStep, MonitorStep
  <2>2. UNCHANGED <<backend, arming, holder, job>>
    BY <1>34, Frames
  <2>3. QED
    BY <1>34, <2>1, <2>2 DEF MonitorNotesStop, NoPlay, Notes, Late, NoEnd, OnlyMonitor,
         QueuedHolds, ArmingHolds, DeviceHolds, Typed
<1>35. CASE Messages
  <2>1. Trusted' => Trusted
    BY <1>35, GivenStays DEF Next, JobStep, ArmingStep, TransitionStep, EndedStep, MonitorStep
  <2>2. UNCHANGED <<backend, arming, holder, given>>
    BY <1>35, Frames
  <2>3. QED
    BY <1>35, <2>1, <2>2 DEF Messages, ReceiveSetState, NextGeneration, NoJob, Revoked,
         QueuedHolds, ArmingHolds, DeviceHolds, Typed, JobTyped, Jobs
<1>36. CASE \E mode \in {"playing", "paused", "stopped"} : DeviceOperated(mode)
  <2>1. Trusted' => Trusted
    BY <1>36, GivenStays DEF Next, JobStep, ArmingStep, TransitionStep, EndedStep, MonitorStep
  <2>2. UNCHANGED <<arming, holder, job, given>>
    BY <1>36, Frames
  <2>3. QED
    BY <1>36, <2>1, <2>2 DEF DeviceOperated, Silent, QueuedHolds, ArmingHolds, DeviceHolds, Typed,
         BackendTyped
<1>. QED
  BY <1>1, <1>2, <1>3, <1>4, <1>5, <1>6, <1>7, <1>8, <1>9, <1>10, <1>11, <1>12, <1>13, <1>14,
     <1>15, <1>16, <1>17, <1>18, <1>19, <1>20, <1>21, <1>22, <1>23, <1>24, <1>25, <1>26, <1>27,
     <1>28, <1>29, <1>30, <1>31, <1>32, <1>33, <1>34, <1>35, <1>36, Frames DEF Next, JobStep,
       ArmingStep, TransitionStep, EndedStep, MonitorStep, vars

-----------------------------------------------------------------------------
\* What the app was told last is what the player has, while no load and no transition is
\* under way.
ToldHolds == told \in {Untold, Wire(player)} \/ job.pc = "loading" \/ transition # NoMove

\* The monitor counts stops of a paused device that has a track only for failed reads.
CountHolds ==
  /\ player.state = "PAUSED" /\ ~given.carried /\ backend.track # None
       => monitor.stops <= used.bad
  /\ monitor.pc = "polling" => monitor.stops = 0

\* What is used up is counted, and nothing else.
LEMMA UsesCounts ==
  ASSUME Typed, [Next]_vars
  PROVE  used.bad <= used'.bad
<1>1. CASE UNCHANGED <<used>>
  BY <1>1 DEF Typed, UsedTyped
<1>2. CASE Resolved
  <2>1. \/ UNCHANGED used
       \/ \E what \in {"messages", "ends", "device", "bad"}, max \in Nat :
            Uses(what, max)
    BY <1>2, GaplessAssumption DEF Resolved, NoHold
  <2>2. QED
    BY <2>1 DEF Uses, Typed, UsedTyped
<1>3. CASE BackendSetsNext
  <2>1. \/ UNCHANGED used
       \/ \E what \in {"messages", "ends", "device", "bad"}, max \in Nat :
            Uses(what, max)
    BY <1>3, GaplessAssumption DEF BackendSetsNext
  <2>2. QED
    BY <2>1 DEF Uses, Typed, UsedTyped
<1>4. CASE BackendAdvances
  <2>1. \/ UNCHANGED used
       \/ \E what \in {"messages", "ends", "device", "bad"}, max \in Nat :
            Uses(what, max)
    BY <1>4, GaplessAssumption DEF BackendAdvances
  <2>2. QED
    BY <2>1 DEF Uses, Typed, UsedTyped
<1>5. CASE BackendEnds
  <2>1. \/ UNCHANGED used
       \/ \E what \in {"messages", "ends", "device", "bad"}, max \in Nat :
            Uses(what, max)
    BY <1>5, GaplessAssumption DEF BackendEnds, NoEnd, Silent
  <2>2. QED
    BY <2>1 DEF Uses, Typed, UsedTyped
<1>6. CASE ReleaseExternalPlayback
  <2>1. \/ UNCHANGED used
       \/ \E what \in {"messages", "ends", "device", "bad"}, max \in Nat :
            Uses(what, max)
    BY <1>6, GaplessAssumption DEF ReleaseExternalPlayback, Silent, Cleared, NoJob, NoPlay, Untold
  <2>2. QED
    BY <2>1 DEF Uses, Typed, UsedTyped
<1>7. CASE PollReturns
  <2>1. \/ UNCHANGED used
       \/ \E what \in {"messages", "ends", "device", "bad"}, max \in Nat :
            Uses(what, max)
    BY <1>7, GaplessAssumption DEF PollReturns, Reads
  <2>2. QED
    BY <2>1 DEF Uses, Typed, UsedTyped
<1>8. CASE PausedPollReturns
  <2>1. \/ UNCHANGED used
       \/ \E what \in {"messages", "ends", "device", "bad"}, max \in Nat :
            Uses(what, max)
    BY <1>8, GaplessAssumption DEF PausedPollReturns, Reads
  <2>2. QED
    BY <2>1 DEF Uses, Typed, UsedTyped
<1>9. CASE Messages
  <2>1. Uses("messages", MaxMessages)
    BY <1>9 DEF Messages, ReceiveSetState
  <2>2. QED
    BY <2>1 DEF Uses, Typed, UsedTyped
<1>10. CASE \E mode \in {"playing", "paused", "stopped"} : DeviceOperated(mode)
  <2>1. \/ UNCHANGED used
       \/ \E what \in {"messages", "ends", "device", "bad"}, max \in Nat :
            Uses(what, max)
    BY <1>10, GaplessAssumption DEF DeviceOperated, Silent
  <2>2. QED
    BY <2>1 DEF Uses, Typed, UsedTyped
<1>. QED
  BY <1>1, <1>2, <1>3, <1>4, <1>5, <1>6, <1>7, <1>8, <1>9, <1>10, Frames
  DEF Next, JobStep, ArmingStep, TransitionStep, EndedStep, MonitorStep, vars

\* Every step keeps it: who changes the player reports, or leaves it to the load or transition.
LEMMA ToldHoldsStep ==
  ASSUME Typed, ToldHolds, [Next]_vars
  PROVE  ToldHolds'
<1>1. CASE UNCHANGED <<told, player, job, transition>>
  BY <1>1 DEF ToldHolds
<1>2. CASE TakePlaybackLock
  <2>1. UNCHANGED <<told, player, transition>>
    BY <1>2, Frames
  <2>2. QED
    BY <1>2, <2>1 DEF TakePlaybackLock, NoJob, ToldHolds, Typed, JobTyped, Jobs
<1>3. CASE Begin
  <2>1. UNCHANGED <<transition>>
    BY <1>3, Frames
  <2>2. QED
    BY <1>3, <2>1 DEF Begin, Go, Loads, Cleared, Live, Replace, Finish, Starts, Report, OnlyLoad,
         ToldHolds, Typed, JobTyped, Jobs
<1>4. CASE Unloaded
  <2>1. UNCHANGED <<told, transition>>
    BY <1>4, Frames
  <2>2. QED
    BY <1>4, <2>1 DEF Unloaded, Silent, NoPlay, Replace, Go, OnlyLoad, ToldHolds, Typed, JobTyped,
         Jobs
<1>5. CASE Unreported
  <2>1. UNCHANGED <<told, transition>>
    BY <1>5, Frames
  <2>2. QED
    BY <1>5, <2>1 DEF Unreported, Replace, Go, OnlyLoad, ToldHolds, Typed, JobTyped, Jobs
<1>6. CASE Loaded
  <2>1. UNCHANGED <<transition>>
    BY <1>6, Frames
  <2>2. QED
    BY <1>6, <2>1 DEF Loaded, Go, Finish, Starts, Live, Cleared, OnlyJob, OnlyLoad, ToldHolds,
         Typed, JobTyped, Jobs
<1>7. CASE Started
  <2>1. UNCHANGED <<transition>>
    BY <1>7, Frames
  <2>2. QED
    BY <1>7, <2>1 DEF Started, Report, Go, NoEnd, Superseded, OnlyJob, OnlyLoad, ToldHolds, Typed,
         JobTyped, Jobs
<1>8. CASE Resumed
  <2>1. UNCHANGED <<transition>>
    BY <1>8, Frames
  <2>2. QED
    BY <1>8, <2>1 DEF Resumed, Report, Go, OnlyJob, OnlyLoad, ToldHolds, Typed, JobTyped, Jobs
<1>9. CASE PlayNoted
  <2>1. UNCHANGED <<told, player, transition>>
    BY <1>9, Frames
  <2>2. QED
    BY <1>9, <2>1 DEF PlayNoted, Notes, Late, NoEnd, OnlyJob, OnlyLoad, ToldHolds, Typed,
         JobTyped, Jobs
<1>10. CASE JobSwaps
  <2>1. UNCHANGED <<told, player, transition>>
    BY <1>10, Frames
  <2>2. QED
    BY <1>10, <2>1 DEF JobSwaps, Store, Late, NoEnd, Go, OnlyJob, OnlyLoad, ToldHolds, Typed,
         JobTyped, Jobs
<1>11. CASE Paused
  <2>1. UNCHANGED <<transition>>
    BY <1>11, Frames
  <2>2. QED
    BY <1>11, <2>1 DEF Paused, Report, Go, OnlyJob, OnlyLoad, ToldHolds, Typed, JobTyped, Jobs
<1>12. CASE PauseNoted
  <2>1. UNCHANGED <<told, player, transition>>
    BY <1>12, Frames
  <2>2. QED
    BY <1>12, <2>1 DEF PauseNoted, Notes, Late, NoEnd, Go, OnlyJob, OnlyLoad, ToldHolds, Typed,
         JobTyped, Jobs
<1>13. CASE Stopped
  <2>1. UNCHANGED <<transition>>
    BY <1>13, Frames
  <2>2. QED
    BY <1>13, <2>1 DEF Stopped, Silent, Report, Go, OnlyJob, OnlyLoad, ToldHolds, Typed, JobTyped,
         Jobs
<1>14. CASE StopNoted
  <2>1. UNCHANGED <<told, player, transition>>
    BY <1>14, Frames
  <2>2. QED
    BY <1>14, <2>1 DEF StopNoted, NoPlay, Notes, Late, NoEnd, Go, OnlyJob, OnlyLoad, ToldHolds,
         Typed, JobTyped, Jobs
<1>15. CASE JobEnds
  <2>1. UNCHANGED <<told, player, transition>>
    BY <1>15, Frames
  <2>2. QED
    BY <1>15, <2>1 DEF JobEnds, NoJob, InfoChanged, AskArmLock, NoHold, Enter, Cleared, ToldHolds,
         Typed, JobTyped, Jobs
<1>16. CASE BackendAdvances
  <2>1. UNCHANGED <<told, job>>
    BY <1>16, Frames
  <2>2. QED
    BY <1>16, <2>1 DEF BackendAdvances, Settled, NoMove, TransitionRuns, ToldHolds, Typed,
         MoveTyped
<1>17. CASE ReleaseExternalPlayback
  <2>1. UNCHANGED <<transition>>
    BY <1>17, Frames
  <2>2. QED
    BY <1>17, <2>1 DEF ReleaseExternalPlayback, Silent, Cleared, NoJob, NoPlay, ToldHolds, Typed,
         JobTyped, Jobs
<1>18. CASE TransitionReports
  <2>1. UNCHANGED <<told, player, job>>
    BY <1>18, Frames
  <2>2. transition'.pc # "none"
    BY <1>18 DEF TransitionReports, Typed, MoveTyped
  <2>3. QED
    BY <2>2 DEF ToldHolds, NoMove
<1>19. CASE TransitionSwaps
  <2>1. UNCHANGED <<told, player, job>>
    BY <1>19, Frames
  <2>2. transition'.pc # "none"
    BY <1>19 DEF TransitionSwaps, Typed, MoveTyped
  <2>3. QED
    BY <2>2 DEF ToldHolds, NoMove
<1>20. CASE TransitionEnds
  <2>1. UNCHANGED <<player, job>>
    BY <1>20, Frames
  <2>2. QED
    BY <1>20, <2>1 DEF TransitionEnds, Report, NoMove, PrepareNext, AskArmLock, NoHold, Enter,
         Cleared, ToldHolds, Typed, MoveTyped
<1>21. CASE EndedDecides
  <2>1. UNCHANGED <<transition>>
    BY <1>21, Frames
  <2>2. QED
    BY <1>21, <2>1 DEF EndedDecides, NoEnd, Superseded, NextGeneration, NoJob, Revoked, Report,
         ToldHolds, Typed, JobTyped, Jobs
<1>22. CASE PollReturns
  <2>1. UNCHANGED <<job, transition>>
    BY <1>22, Frames
  <2>2. QED
    BY <1>22, <2>1 DEF PollReturns, Report, OnlyMonitor, ToldHolds, Typed
<1>23. CASE PausedPollReturns
  <2>1. UNCHANGED <<job, transition>>
    BY <1>23, Frames
  <2>2. QED
    BY <1>23, <2>1 DEF PausedPollReturns, PausedSeesPlay, NoJob, PausedSeesStop, Report,
         PausedCounts, OnlyMonitor, ToldHolds, Typed
<1>24. CASE MonitorResumes
  <2>1. UNCHANGED <<job, transition>>
    BY <1>24, Frames
  <2>2. QED
    BY <1>24, <2>1 DEF MonitorResumes, Report, OnlyMonitor, ToldHolds, Typed
<1>25. CASE Heartbeat
  <2>1. UNCHANGED <<player, job, transition>>
    BY <1>25, Frames
  <2>2. QED
    BY <1>25, <2>1 DEF Heartbeat, Report, ToldHolds, Typed
<1>26. CASE Messages
  <2>1. UNCHANGED <<told, player, transition>>
    BY <1>26, Frames
  <2>2. QED
    BY <1>26, <2>1 DEF Messages, ReceiveSetState, NextGeneration, NoJob, Revoked, ToldHolds,
         Typed, JobTyped, Jobs
<1>. QED
  BY <1>1, <1>2, <1>3, <1>4, <1>5, <1>6, <1>7, <1>8, <1>9, <1>10, <1>11, <1>12, <1>13, <1>14,
     <1>15, <1>16, <1>17, <1>18, <1>19, <1>20, <1>21, <1>22, <1>23, <1>24, <1>25, <1>26, Frames
    DEF Next, JobStep, ArmingStep, TransitionStep, EndedStep, MonitorStep, vars

\* Every step keeps it.
LEMMA CountHoldsStep ==
  ASSUME Typed, CountHolds, [Next]_vars
  PROVE  CountHolds'
<1>1. CASE UNCHANGED <<player, given, backend, monitor, used>>
  BY <1>1 DEF CountHolds
<1>2. CASE Resolved
  <2>1. ~given'.carried => ~given.carried
    BY <1>2, GivenStays DEF Next, JobStep, ArmingStep, TransitionStep, EndedStep, MonitorStep
  <2>2. UNCHANGED <<player, given, backend, monitor>>
    BY <1>2, Frames
  <2>3. used.bad <= used'.bad
    BY <1>2, UsesCounts DEF Next, JobStep, ArmingStep, TransitionStep, EndedStep, MonitorStep
  <2>4. used.bad \in Nat /\ used'.bad \in Nat /\ monitor.stops \in Nat
    BY <1>2, UsedTypedStep DEF Typed, UsedTyped, MonitorTyped, Next, JobStep, ArmingStep,
         TransitionStep, EndedStep, MonitorStep
  <2>5. QED
    BY <2>1, <2>2, <2>3, <2>4 DEF CountHolds
<1>3. CASE BackendSetsNext
  <2>1. ~given'.carried => ~given.carried
    BY <1>3, GivenStays DEF Next, JobStep, ArmingStep, TransitionStep, EndedStep, MonitorStep
  <2>2. UNCHANGED <<player, given, monitor>>
    BY <1>3, Frames
  <2>3. used.bad <= used'.bad
    BY <1>3, UsesCounts DEF Next, JobStep, ArmingStep, TransitionStep, EndedStep, MonitorStep
  <2>4. used.bad \in Nat /\ used'.bad \in Nat /\ monitor.stops \in Nat
    BY <1>3, UsedTypedStep DEF Typed, UsedTyped, MonitorTyped, Next, JobStep, ArmingStep,
         TransitionStep, EndedStep, MonitorStep
  <2>5. backend'.track = backend.track
    BY <1>3 DEF BackendSetsNext, Typed, BackendTyped
  <2>6. QED
    BY <2>1, <2>2, <2>3, <2>4, <2>5 DEF CountHolds
<1>4. CASE BackendClearsNext
  <2>1. ~given'.carried => ~given.carried
    BY <1>4, GivenStays DEF Next, JobStep, ArmingStep, TransitionStep, EndedStep, MonitorStep
  <2>2. UNCHANGED <<player, given, monitor, used>>
    BY <1>4, Frames
  <2>3. QED
    BY <1>4, <2>1, <2>2 DEF BackendClearsNext, NoHold, OnlyArming, CountHolds, Typed, BackendTyped
<1>5. CASE Begin
  <2>1. ~given'.carried => ~given.carried
    BY <1>5, GivenStays DEF Next, JobStep, ArmingStep, TransitionStep, EndedStep, MonitorStep
  <2>2. UNCHANGED <<backend, monitor, used>>
    BY <1>5, Frames
  <2>3. QED
    BY <1>5, <2>1, <2>2 DEF Begin, Loads, Cleared, Live, Replace, Finish, Starts, OnlyLoad,
         CountHolds, Typed, PlayerTyped, GivenTyped
<1>6. CASE Unloaded
  <2>1. ~given'.carried => ~given.carried
    BY <1>6, GivenStays DEF Next, JobStep, ArmingStep, TransitionStep, EndedStep, MonitorStep
  <2>2. UNCHANGED <<given, monitor, used>>
    BY <1>6, Frames
  <2>3. QED
    BY <1>6, <2>1, <2>2 DEF Unloaded, Silent, NoPlay, Replace, OnlyLoad, CountHolds, Typed,
         BackendTyped, PlayerTyped
<1>7. CASE Unreported
  <2>1. ~given'.carried => ~given.carried
    BY <1>7, GivenStays DEF Next, JobStep, ArmingStep, TransitionStep, EndedStep, MonitorStep
  <2>2. UNCHANGED <<given, backend, monitor, used>>
    BY <1>7, Frames
  <2>3. QED
    BY <1>7, <2>1, <2>2 DEF Unreported, Replace, OnlyLoad, CountHolds, Typed, PlayerTyped
<1>8. CASE Loaded
  <2>1. ~given'.carried => ~given.carried
    BY <1>8, GivenStays DEF Next, JobStep, ArmingStep, TransitionStep, EndedStep, MonitorStep
  <2>2. UNCHANGED <<given, backend, monitor, used>>
    BY <1>8, Frames
  <2>3. QED
    BY <1>8, <2>1, <2>2 DEF Loaded, Finish, Starts, Live, Cleared, OnlyJob, OnlyLoad, CountHolds,
         Typed, PlayerTyped
<1>9. CASE Started
  <2>1. ~given'.carried => ~given.carried
    BY <1>9, GivenStays DEF Next, JobStep, ArmingStep, TransitionStep, EndedStep, MonitorStep
  <2>2. UNCHANGED <<monitor, used>>
    BY <1>9, Frames
  <2>3. QED
    BY <1>9, <2>1, <2>2 DEF Started, NoEnd, Superseded, OnlyJob, OnlyLoad, CountHolds, Typed,
         BackendTyped, PlayerTyped, GivenTyped
<1>10. CASE Resumed
  <2>1. ~given'.carried => ~given.carried
    BY <1>10, GivenStays DEF Next, JobStep, ArmingStep, TransitionStep, EndedStep, MonitorStep
  <2>2. UNCHANGED <<given, monitor, used>>
    BY <1>10, Frames
  <2>3. QED
    BY <1>10, <2>1, <2>2 DEF Resumed, OnlyJob, OnlyLoad, CountHolds, Typed, BackendTyped,
         PlayerTyped
<1>11. CASE PlayNoted
  <2>1. ~given'.carried => ~given.carried
    BY <1>11, GivenStays DEF Next, JobStep, ArmingStep, TransitionStep, EndedStep, MonitorStep
  <2>2. UNCHANGED <<player, backend, monitor, used>>
    BY <1>11, Frames
  <2>3. QED
    BY <2>1, <2>2 DEF CountHolds
<1>12. CASE JobSwaps
  <2>1. ~given'.carried => ~given.carried
    BY <1>12, GivenStays DEF Next, JobStep, ArmingStep, TransitionStep, EndedStep, MonitorStep
  <2>2. UNCHANGED <<player, backend, monitor, used>>
    BY <1>12, Frames
  <2>3. QED
    BY <2>1, <2>2 DEF CountHolds
<1>13. CASE Paused
  <2>1. ~given'.carried => ~given.carried
    BY <1>13, GivenStays DEF Next, JobStep, ArmingStep, TransitionStep, EndedStep, MonitorStep
  <2>2. UNCHANGED <<monitor, used>>
    BY <1>13, Frames
  <2>3. given'.carried \/ monitor.stops = 0
    <3>1. given' = [given EXCEPT !.carried = given.carried \/ monitor.stops > 0]
      BY <1>13 DEF Paused
    <3>2. ASSUME NEW some \in BOOLEAN, some,
                 given' = [given EXCEPT !.carried = given.carried \/ some]
          PROVE  given'.carried
      BY <3>2 DEF Typed, GivenTyped
    <3>3. monitor.stops > 0 => given'.carried
      BY <3>1, <3>2
    <3>4. monitor.stops > 0 \/ monitor.stops = 0
      BY DEF Typed, MonitorTyped
    <3>5. QED
      BY <3>3, <3>4
  <2>4. used.bad \in Nat
    BY DEF Typed, UsedTyped
  <2>5. QED
    BY <2>1, <2>2, <2>3, <2>4 DEF CountHolds
<1>14. CASE PauseNoted
  <2>1. ~given'.carried => ~given.carried
    BY <1>14, GivenStays DEF Next, JobStep, ArmingStep, TransitionStep, EndedStep, MonitorStep
  <2>2. UNCHANGED <<player, backend, monitor, used>>
    BY <1>14, Frames
  <2>3. QED
    BY <2>1, <2>2 DEF CountHolds
<1>15. CASE Stopped
  <2>1. ~given'.carried => ~given.carried
    BY <1>15, GivenStays DEF Next, JobStep, ArmingStep, TransitionStep, EndedStep, MonitorStep
  <2>2. UNCHANGED <<given, monitor, used>>
    BY <1>15, Frames
  <2>3. QED
    BY <1>15, <2>1, <2>2 DEF Stopped, Silent, OnlyJob, OnlyLoad, CountHolds, Typed, BackendTyped,
         PlayerTyped
<1>16. CASE StopNoted
  <2>1. ~given'.carried => ~given.carried
    BY <1>16, GivenStays DEF Next, JobStep, ArmingStep, TransitionStep, EndedStep, MonitorStep
  <2>2. UNCHANGED <<player, backend, monitor, used>>
    BY <1>16, Frames
  <2>3. QED
    BY <2>1, <2>2 DEF CountHolds
<1>17. CASE BackendAdvances
  <2>1. ~given'.carried => ~given.carried
    BY <1>17, GivenStays DEF Next, JobStep, ArmingStep, TransitionStep, EndedStep, MonitorStep
  <2>2. UNCHANGED <<monitor>>
    BY <1>17, Frames
  <2>3. QED
    BY <1>17, <2>1, <2>2 DEF BackendAdvances, Uses, TransitionRuns, CountHolds, Typed,
         BackendTyped, PlayerTyped, GivenTyped, UsedTyped
<1>18. CASE BackendEnds
  <2>1. ~given'.carried => ~given.carried
    BY <1>18, GivenStays DEF Next, JobStep, ArmingStep, TransitionStep, EndedStep, MonitorStep
  <2>2. UNCHANGED <<player, given, monitor>>
    BY <1>18, Frames
  <2>3. QED
    BY <1>18, <2>1, <2>2 DEF BackendEnds, NoEnd, Uses, Silent, EndedRuns, Cleared, NoPlay,
         CountHolds, Typed, BackendTyped, UsedTyped
<1>19. CASE ReleaseExternalPlayback
  <2>1. ~given'.carried => ~given.carried
    BY <1>19, GivenStays DEF Next, JobStep, ArmingStep, TransitionStep, EndedStep, MonitorStep
  <2>2. UNCHANGED <<given, monitor>>
    BY <1>19, Frames
  <2>3. QED
    BY <1>19, <2>1, <2>2 DEF ReleaseExternalPlayback, Uses, Silent, Cleared, NoJob, NoPlay,
         CountHolds, Typed, BackendTyped, PlayerTyped, UsedTyped
<1>20. CASE TransitionReports
  <2>1. ~given'.carried => ~given.carried
    BY <1>20, GivenStays DEF Next, JobStep, ArmingStep, TransitionStep, EndedStep, MonitorStep
  <2>2. UNCHANGED <<player, backend, monitor, used>>
    BY <1>20, Frames
  <2>3. QED
    BY <2>1, <2>2 DEF CountHolds
<1>21. CASE TransitionSwaps
  <2>1. ~given'.carried => ~given.carried
    BY <1>21, GivenStays DEF Next, JobStep, ArmingStep, TransitionStep, EndedStep, MonitorStep
  <2>2. UNCHANGED <<player, backend, monitor, used>>
    BY <1>21, Frames
  <2>3. QED
    BY <2>1, <2>2 DEF CountHolds
<1>22. CASE EndedDecides
  <2>1. ~given'.carried => ~given.carried
    BY <1>22, GivenStays DEF Next, JobStep, ArmingStep, TransitionStep, EndedStep, MonitorStep
  <2>2. UNCHANGED <<backend, monitor, used>>
    BY <1>22, Frames
  <2>3. QED
    BY <1>22, <2>1, <2>2 DEF EndedDecides, NoEnd, Superseded, CountHolds, Typed, PlayerTyped,
         GivenTyped
<1>23. CASE MonitorWakes
  <2>1. ~given'.carried => ~given.carried
    BY <1>23, GivenStays DEF Next, JobStep, ArmingStep, TransitionStep, EndedStep, MonitorStep
  <2>2. UNCHANGED <<player, given, backend, used>>
    BY <1>23, Frames
  <2>3. QED
    BY <1>23, <2>1, <2>2 DEF MonitorWakes, Live, OnlyMonitor, CountHolds, Typed, MonitorTyped
<1>24. CASE PollReturns
  <2>1. ~given'.carried => ~given.carried
    BY <1>24, GivenStays DEF Next, JobStep, ArmingStep, TransitionStep, EndedStep, MonitorStep
  <2>2. UNCHANGED <<given, backend>>
    BY <1>24, Frames
  <2>3. QED
    BY <1>24, <2>1, <2>2 DEF PollReturns, Reads, Uses, Sleep, OnlyMonitor, CountHolds, Typed,
         PlayerTyped, UsedTyped, MonitorTyped
<1>25. CASE MonitorNotesPause
  <2>1. ~given'.carried => ~given.carried
    BY <1>25, GivenStays DEF Next, JobStep, ArmingStep, TransitionStep, EndedStep, MonitorStep
  <2>2. UNCHANGED <<player, backend, used>>
    BY <1>25, Frames
  <2>3. QED
    BY <1>25, <2>1, <2>2 DEF MonitorNotesPause, Notes, Late, NoEnd, OnlyMonitor, CountHolds,
         Typed, GivenTyped, MonitorTyped
<1>26. CASE PositionRead
  <2>1. ~given'.carried => ~given.carried
    BY <1>26, GivenStays DEF Next, JobStep, ArmingStep, TransitionStep, EndedStep, MonitorStep
  <2>2. UNCHANGED <<player, given, backend, used>>
    BY <1>26, Frames
  <2>3. QED
    BY <1>26, <2>1, <2>2 DEF PositionRead, PrepareNext, AskArmLock, NoHold, Enter, Cleared, Sleep,
         OnlyMonitor, CountHolds, Typed, MonitorTyped
<1>27. CASE PausedPollReturns
  <2>1. ~given'.carried => ~given.carried
    BY <1>27, GivenStays DEF Next, JobStep, ArmingStep, TransitionStep, EndedStep, MonitorStep
  <2>2. UNCHANGED <<backend>>
    BY <1>27, Frames
  <2>3. used.bad <= used'.bad
    BY <1>27, UsesCounts DEF Next, JobStep, ArmingStep, TransitionStep, EndedStep, MonitorStep
  <2>4. used.bad \in Nat /\ used'.bad \in Nat /\ monitor.stops \in Nat
    BY <1>27, UsedTypedStep DEF Typed, UsedTyped, MonitorTyped, Next, JobStep, ArmingStep,
         TransitionStep, EndedStep, MonitorStep
  <2>5. PICK mode \in {"stopped", "playing", "paused"} :
          /\ Reads(mode)
          /\ \/ player.state # "PAUSED" /\ Sleep /\ UNCHANGED player
             \/ mode = "playing" /\ PausedSeesPlay
             \/ mode = "stopped" /\ PausedSeesStop
             \/ mode = "stopped" /\ PausedCounts(monitor.stops + 1)
             \/ PausedCounts(0)
    BY <1>27 DEF PausedPollReturns
  <2>6. monitor'.pc # "polling"
    BY <2>5 DEF Sleep, PausedSeesPlay, PausedSeesStop, PausedCounts, Typed, MonitorTyped
  <2>7. CASE player.state # "PAUSED" /\ UNCHANGED player
    BY <2>6, <2>7 DEF CountHolds
  <2>8. CASE PausedSeesPlay \/ PausedCounts(0)
    <3>1. monitor'.stops = 0
      BY <2>8 DEF PausedSeesPlay, PausedCounts, Typed, MonitorTyped
    <3>2. QED
      BY <2>4, <2>6, <3>1 DEF CountHolds
  <2>9. CASE PausedSeesStop
    <3>1. player'.state = "STOPPED"
      BY <2>9 DEF PausedSeesStop, Typed, PlayerTyped
    <3>2. QED
      BY <2>6, <3>1 DEF CountHolds
  <2>10. CASE mode = "stopped" /\ PausedCounts(monitor.stops + 1)
    <3>1. monitor'.stops = monitor.stops + 1 /\ player' = player
      BY <2>10 DEF PausedCounts, Typed, MonitorTyped
    <3>2. backend.track # None => used'.bad = used.bad + 1
      BY <2>5, <2>10 DEF Reads, Uses, Typed, BackendTyped, UsedTyped
    <3>3. QED
      BY <2>1, <2>2, <2>4, <2>6, <3>1, <3>2 DEF CountHolds
  <2>11. QED
    BY <2>5, <2>7, <2>8, <2>9, <2>10
<1>28. CASE MonitorResumes
  <2>1. ~given'.carried => ~given.carried
    BY <1>28, GivenStays DEF Next, JobStep, ArmingStep, TransitionStep, EndedStep, MonitorStep
  <2>2. UNCHANGED <<given, backend, used>>
    BY <1>28, Frames
  <2>3. QED
    BY <1>28, <2>1, <2>2 DEF MonitorResumes, Sleep, OnlyMonitor, CountHolds, Typed, PlayerTyped,
         MonitorTyped
<1>29. CASE MonitorNotesPlay
  <2>1. ~given'.carried => ~given.carried
    BY <1>29, GivenStays DEF Next, JobStep, ArmingStep, TransitionStep, EndedStep, MonitorStep
  <2>2. UNCHANGED <<player, backend, used>>
    BY <1>29, Frames
  <2>3. QED
    BY <1>29, <2>1, <2>2 DEF MonitorNotesPlay, Notes, Late, NoEnd, OnlyMonitor, CountHolds, Typed,
         GivenTyped, MonitorTyped
<1>30. CASE MonitorSwaps
  <2>1. ~given'.carried => ~given.carried
    BY <1>30, GivenStays DEF Next, JobStep, ArmingStep, TransitionStep, EndedStep, MonitorStep
  <2>2. UNCHANGED <<player, backend, used>>
    BY <1>30, Frames
  <2>3. QED
    BY <1>30, <2>1, <2>2 DEF MonitorSwaps, Store, Late, NoEnd, OnlyMonitor, CountHolds, Typed,
         GivenTyped, MonitorTyped
<1>31. CASE MonitorNotesStop
  <2>1. ~given'.carried => ~given.carried
    BY <1>31, GivenStays DEF Next, JobStep, ArmingStep, TransitionStep, EndedStep, MonitorStep
  <2>2. UNCHANGED <<player, backend, used>>
    BY <1>31, Frames
  <2>3. QED
    BY <1>31, <2>1, <2>2 DEF MonitorNotesStop, NoPlay, Notes, Late, NoEnd, Sleep, OnlyMonitor,
         CountHolds, Typed, GivenTyped, MonitorTyped
<1>32. CASE MonitorArmed
  <2>1. ~given'.carried => ~given.carried
    BY <1>32, GivenStays DEF Next, JobStep, ArmingStep, TransitionStep, EndedStep, MonitorStep
  <2>2. UNCHANGED <<player, given, backend, used>>
    BY <1>32, Frames
  <2>3. QED
    BY <1>32, <2>1, <2>2 DEF MonitorArmed, Sleep, OnlyMonitor, CountHolds, Typed, MonitorTyped
<1>33. CASE Messages
  <2>1. ~given'.carried => ~given.carried
    BY <1>33, GivenStays DEF Next, JobStep, ArmingStep, TransitionStep, EndedStep, MonitorStep
  <2>2. UNCHANGED <<player, given, backend, monitor>>
    BY <1>33, Frames
  <2>3. QED
    BY <1>33, <2>1, <2>2 DEF Messages, ReceiveSetState, Uses, CountHolds, Typed, UsedTyped
<1>34. CASE \E mode \in {"playing", "paused", "stopped"} : DeviceOperated(mode)
  <2>1. ~given'.carried => ~given.carried
    BY <1>34, GivenStays DEF Next, JobStep, ArmingStep, TransitionStep, EndedStep, MonitorStep
  <2>2. UNCHANGED <<player, given, monitor>>
    BY <1>34, Frames
  <2>3. QED
    BY <1>34, <2>1, <2>2 DEF DeviceOperated, Uses, Silent, CountHolds, Typed, BackendTyped,
         UsedTyped
<1>. QED
  BY <1>1, <1>2, <1>3, <1>4, <1>5, <1>6, <1>7, <1>8, <1>9, <1>10, <1>11, <1>12, <1>13, <1>14,
     <1>15, <1>16, <1>17, <1>18, <1>19, <1>20, <1>21, <1>22, <1>23, <1>24, <1>25, <1>26, <1>27,
     <1>28, <1>29, <1>30, <1>31, <1>32, <1>33, <1>34, Frames DEF Next, JobStep, ArmingStep,
       TransitionStep, EndedStep, MonitorStep, vars

-----------------------------------------------------------------------------
\* The play reporter's notes.  One that is not late finds the player in its state, no end
\* report of a replaced track under way and, for a play, no end of a track.
LEMMA NotesAreLate ==
  ASSUME Typed, NEW state, Notes(state), ~given'.late
  PROVE  /\ ~given.late /\ player.state = state /\ job.pc # "unreporting"
         /\ state = "PLAYING" => ended = NoEnd
         /\ given'.dropped = given.dropped
<1>1. given' = [given EXCEPT !.late = given.late \/ Late(state)]
  BY DEF Notes
<1>2. ~(given.late \/ Late(state)) /\ given'.dropped = given.dropped
  BY <1>1 DEF Typed, GivenTyped
<1>3. QED
  BY <1>2 DEF Late

\* A play stored after its await, and not late, is the play of the current track.
LEMMA StoresAreLate ==
  ASSUME Typed, NEW t, Store(t), ~given'.late
  PROVE  /\ ~given.late /\ player.state = "PLAYING" /\ job.pc # "unreporting"
         /\ ended = NoEnd /\ player.track = t
         /\ given'.dropped = given.dropped
<1>1. given' = [given EXCEPT !.late = given.late \/ Late("PLAYING") \/ player.track # t]
  BY DEF Store
<1>2. ~(given.late \/ Late("PLAYING") \/ player.track # t) /\ given'.dropped = given.dropped
  BY <1>1 DEF Typed, GivenTyped
<1>3. QED
  BY <1>2 DEF Late

\* What note_playing of a track leaves until it waits.
LEMMA NotedPlay ==
  ASSUME NEW t
  PROVE  /\ t = None => Noted(t) = active /\ ~MustEnd(t)
         /\ MustEnd(t) => Noted(t) = NoPlay /\ t # None
         /\ t # None /\ ~MustEnd(t) => Noted(t) = [track |-> t, runs |-> TRUE]
         /\ [track |-> t, runs |-> TRUE] # NoPlay
<1>1. t = None => Noted(t) = active /\ ~MustEnd(t)
  BY DEF Noted, MustEnd
<1>2. MustEnd(t) => Noted(t) = NoPlay /\ t # None
  BY DEF Noted, MustEnd
<1>3. t # None /\ ~MustEnd(t) => Noted(t) = [track |-> t, runs |-> TRUE]
  BY DEF Noted
<1>4. [track |-> t, runs |-> TRUE] # NoPlay
  <2>1. [track |-> t, runs |-> TRUE].runs # NoPlay.runs
    BY DEF NoPlay
  <2>2. QED
    BY <2>1
<1>5. QED
  BY <1>1, <1>2, <1>3, <1>4

\* The open play, and the plays that wait for the end of another.
ActiveTyped ==
  /\ active \in [track : TrackOrNone, runs : BOOLEAN]
  /\ job.pc = "swapping" => job.track # None
  /\ transition.pc = "swapping" => transition.track # None
  /\ monitor.pc = "swapping" => monitor.track # None

\* Nothing is open without a track, behind an end, or between a track and the one that
\* replaces it, and a load finds a player that is not live.
NothingOpen ==
  /\ ~given.late /\ player.track = None => active = NoPlay
  /\ ~given.late /\ ended # NoEnd => active = NoPlay
  /\ ~given.late /\ job.pc = "unreporting" => active = NoPlay
  /\ job.pc = "loading" => player.state \notin Live

\* What note_playing leaves is an open play or none.
LEMMA NotedTyped ==
  ASSUME Typed, active \in [track : TrackOrNone, runs : BOOLEAN], NEW t \in TrackOrNone
  PROVE  /\ Noted(t) \in [track : TrackOrNone, runs : BOOLEAN]
         /\ [track |-> t, runs |-> TRUE] \in [track : TrackOrNone, runs : BOOLEAN]
<1>1. NoPlay \in [track : TrackOrNone, runs : BOOLEAN]
  BY DEF NoPlay, TrackOrNone
<1>2. [track |-> t, runs |-> TRUE] \in [track : TrackOrNone, runs : BOOLEAN]
  OBVIOUS
<1>3. Noted(t) \in {active, NoPlay, [track |-> t, runs |-> TRUE]}
  BY DEF Noted
<1>4. QED
  BY <1>1, <1>2, <1>3

\* Every step keeps the types of the plays.
LEMMA ActiveTypedStep ==
  ASSUME Typed, ActiveTyped, [Next]_vars
  PROVE  ActiveTyped'
<1>1. CASE UNCHANGED <<active, job, transition, monitor>>
  BY <1>1 DEF ActiveTyped
<1>2. CASE TakePlaybackLock
  <2>1. UNCHANGED <<active, transition, monitor>>
    BY <1>2, Frames
  <2>2. job'.pc = "begin"
    BY <1>2 DEF TakePlaybackLock, Typed, WaitingTyped, Waiting
  <2>3. QED
    BY <2>1, <2>2 DEF ActiveTyped
<1>3. CASE Begin
  <2>1. UNCHANGED <<active, transition, monitor>>
    BY <1>3, Frames
  <2>2. QED
    BY <1>3, <2>1 DEF Begin, Go, Loads, Cleared, Replace, Finish, Starts, OnlyLoad, ActiveTyped,
         Typed, JobTyped, Jobs, TrackOrNone
<1>4. CASE Unloaded
  <2>1. UNCHANGED <<transition, monitor>>
    BY <1>4, Frames
  <2>2. QED
    BY <1>4, <2>1 DEF Unloaded, Silent, NoPlay, Replace, Go, OnlyLoad, ActiveTyped, Typed,
         JobTyped, Jobs, TrackOrNone
<1>5. CASE Unreported
  <2>1. UNCHANGED <<active, transition, monitor>>
    BY <1>5, Frames
  <2>2. QED
    BY <1>5, <2>1 DEF Unreported, Replace, Go, OnlyLoad, ActiveTyped, Typed, JobTyped, Jobs,
         TrackOrNone
<1>6. CASE Loaded
  <2>1. UNCHANGED <<active, transition, monitor>>
    BY <1>6, Frames
  <2>2. QED
    BY <1>6, <2>1 DEF Loaded, Go, Finish, Starts, Cleared, OnlyJob, OnlyLoad, ActiveTyped, Typed,
         JobTyped, Jobs, TrackOrNone
<1>7. CASE Started
  <2>1. UNCHANGED <<active, transition, monitor>>
    BY <1>7, Frames
  <2>2. QED
    BY <1>7, <2>1 DEF Started, Go, NoEnd, OnlyJob, OnlyLoad, ActiveTyped, Typed, JobTyped, Jobs,
         TrackOrNone
<1>8. CASE Resumed
  <2>1. UNCHANGED <<active, transition, monitor>>
    BY <1>8, Frames
  <2>2. QED
    BY <1>8, <2>1 DEF Resumed, Go, OnlyJob, OnlyLoad, ActiveTyped, Typed, JobTyped, Jobs,
         TrackOrNone
<1>9. CASE PlayNoted
  <2>1. UNCHANGED <<transition, monitor>>
    BY <1>9, Frames
  <2>2. active' \in [track : TrackOrNone, runs : BOOLEAN]
    <3>1. active' = Noted(player.track)
      BY <1>9 DEF PlayNoted
    <3>2. QED
      BY <3>1, NotedTyped DEF ActiveTyped, Typed, PlayerTyped
  <2>3. job'.pc = "swapping" => job'.track # None
    BY <1>9, NotedPlay DEF PlayNoted, Typed, JobTyped, Jobs
  <2>4. QED
    BY <2>1, <2>2, <2>3 DEF ActiveTyped
<1>10. CASE JobSwaps
  <2>1. UNCHANGED <<transition, monitor>>
    BY <1>10, Frames
  <2>2. active' = [track |-> job.track, runs |-> TRUE]
    BY <1>10 DEF JobSwaps, Store
  <2>3. job.track \in TrackOrNone
    BY DEF Typed, JobTyped, Jobs
  <2>4. job'.pc # "swapping"
    BY <1>10 DEF JobSwaps, Go, Typed, JobTyped, Jobs
  <2>5. QED
    BY <2>1, <2>2, <2>3, <2>4, NotedTyped DEF ActiveTyped
<1>11. CASE Paused
  <2>1. UNCHANGED <<active, transition, monitor>>
    BY <1>11, Frames
  <2>2. QED
    BY <1>11, <2>1 DEF Paused, Go, OnlyJob, OnlyLoad, ActiveTyped, Typed, JobTyped, Jobs,
         TrackOrNone
<1>12. CASE PauseNoted
  <2>1. UNCHANGED <<transition, monitor>>
    BY <1>12, Frames
  <2>2. QED
    BY <1>12, <2>1 DEF PauseNoted, NotePaused, NoPlay, NoEnd, Go, OnlyJob, OnlyLoad, ActiveTyped,
         Typed, JobTyped, Jobs, TrackOrNone
<1>13. CASE Stopped
  <2>1. UNCHANGED <<active, transition, monitor>>
    BY <1>13, Frames
  <2>2. QED
    BY <1>13, <2>1 DEF Stopped, Silent, Go, OnlyJob, OnlyLoad, ActiveTyped, Typed, JobTyped, Jobs,
         TrackOrNone
<1>14. CASE StopNoted
  <2>1. UNCHANGED <<transition, monitor>>
    BY <1>14, Frames
  <2>2. QED
    BY <1>14, <2>1 DEF StopNoted, NoPlay, NoEnd, Go, OnlyJob, OnlyLoad, ActiveTyped, Typed,
         JobTyped, Jobs, TrackOrNone
<1>15. CASE JobEnds
  <2>1. UNCHANGED <<active, transition, monitor>>
    BY <1>15, Frames
  <2>2. QED
    BY <1>15, <2>1 DEF JobEnds, NoJob, ActiveTyped, Typed, JobTyped, Jobs, TrackOrNone
<1>16. CASE BackendAdvances
  <2>1. UNCHANGED <<active, job, monitor>>
    BY <1>16, Frames
  <2>2. QED
    BY <1>16, <2>1 DEF BackendAdvances, Settled, NoMove, TransitionRuns, ActiveTyped, Typed,
         MoveTyped, TrackOrNone
<1>17. CASE BackendEnds
  <2>1. UNCHANGED <<job, transition, monitor>>
    BY <1>17, Frames
  <2>2. QED
    BY <1>17, <2>1 DEF BackendEnds, NoEnd, Settled, NoMove, Silent, EndedRuns, Cleared, NoPlay,
         ActiveTyped, Typed, TrackOrNone
<1>18. CASE ReleaseExternalPlayback
  <2>1. UNCHANGED <<transition, monitor>>
    BY <1>18, Frames
  <2>2. QED
    BY <1>18, <2>1 DEF ReleaseExternalPlayback, Silent, Cleared, NoJob, NoPlay, ActiveTyped,
         Typed, JobTyped, Jobs, TrackOrNone
<1>19. CASE TransitionReports
  <2>1. UNCHANGED <<job, monitor>>
    BY <1>19, Frames
  <2>2. active' \in [track : TrackOrNone, runs : BOOLEAN]
    <3>1. active' = Noted(player.track)
      BY <1>19 DEF TransitionReports
    <3>2. QED
      BY <3>1, NotedTyped DEF ActiveTyped, Typed, PlayerTyped
  <2>3. transition'.pc = "swapping" => transition'.track # None
    BY <1>19, NotedPlay DEF TransitionReports, Typed, MoveTyped
  <2>4. QED
    BY <2>1, <2>2, <2>3 DEF ActiveTyped
<1>20. CASE TransitionSwaps
  <2>1. UNCHANGED <<job, monitor>>
    BY <1>20, Frames
  <2>2. active' = [track |-> transition.track, runs |-> TRUE]
    BY <1>20 DEF TransitionSwaps, Store
  <2>3. transition.track \in TrackOrNone
    BY DEF Typed, MoveTyped
  <2>4. transition'.pc # "swapping"
    BY <1>20 DEF TransitionSwaps, Go, Typed, MoveTyped
  <2>5. QED
    BY <2>1, <2>2, <2>3, <2>4, NotedTyped DEF ActiveTyped
<1>21. CASE TransitionEnds
  <2>1. UNCHANGED <<active, job, monitor>>
    BY <1>21, Frames
  <2>2. QED
    BY <1>21, <2>1 DEF TransitionEnds, NoMove, ActiveTyped, Typed, MoveTyped, TrackOrNone
<1>22. CASE EndedDecides
  <2>1. UNCHANGED <<active, transition, monitor>>
    BY <1>22, Frames
  <2>2. QED
    BY <1>22, <2>1 DEF EndedDecides, NoEnd, NextGeneration, NoJob, Revoked, ActiveTyped, Typed,
         JobTyped, Jobs, TrackOrNone
<1>23. CASE MonitorWakes
  <2>1. UNCHANGED <<active, job, transition>>
    BY <1>23, Frames
  <2>2. QED
    BY <1>23, <2>1 DEF MonitorWakes, OnlyMonitor, ActiveTyped, Typed, MonitorTyped, TrackOrNone
<1>24. CASE PollReturns
  <2>1. UNCHANGED <<active, job, transition>>
    BY <1>24, Frames
  <2>2. QED
    BY <1>24, <2>1 DEF PollReturns, Sleep, OnlyMonitor, ActiveTyped, Typed, MonitorTyped,
         TrackOrNone
<1>25. CASE MonitorNotesPause
  <2>1. UNCHANGED <<job, transition>>
    BY <1>25, Frames
  <2>2. QED
    BY <1>25, <2>1 DEF MonitorNotesPause, NotePaused, NoPlay, NoEnd, OnlyMonitor, ActiveTyped,
         Typed, MonitorTyped, TrackOrNone
<1>26. CASE PositionRead
  <2>1. UNCHANGED <<active, job, transition>>
    BY <1>26, Frames
  <2>2. QED
    BY <1>26, <2>1 DEF PositionRead, Sleep, OnlyMonitor, ActiveTyped, Typed, MonitorTyped,
         TrackOrNone
<1>27. CASE PausedPollReturns
  <2>1. UNCHANGED <<active, job, transition>>
    BY <1>27, Frames
  <2>2. QED
    BY <1>27, <2>1 DEF PausedPollReturns, Sleep, PausedSeesPlay, NoJob, PausedSeesStop, Confirmed,
         PausedCounts, OnlyMonitor, ActiveTyped, Typed, MonitorTyped, TrackOrNone
<1>28. CASE MonitorResumes
  <2>1. UNCHANGED <<active, job, transition>>
    BY <1>28, Frames
  <2>2. QED
    BY <1>28, <2>1 DEF MonitorResumes, Sleep, OnlyMonitor, ActiveTyped, Typed, MonitorTyped,
         TrackOrNone
<1>29. CASE MonitorNotesPlay
  <2>1. UNCHANGED <<job, transition>>
    BY <1>29, Frames
  <2>2. active' \in [track : TrackOrNone, runs : BOOLEAN]
    <3>1. active' = Noted(player.track)
      BY <1>29 DEF MonitorNotesPlay
    <3>2. QED
      BY <3>1, NotedTyped DEF ActiveTyped, Typed, PlayerTyped
  <2>3. monitor'.pc = "swapping" => monitor'.track # None
    BY <1>29, NotedPlay DEF MonitorNotesPlay, Typed, MonitorTyped
  <2>4. QED
    BY <2>1, <2>2, <2>3 DEF ActiveTyped
<1>30. CASE MonitorSwaps
  <2>1. UNCHANGED <<job, transition>>
    BY <1>30, Frames
  <2>2. active' = [track |-> monitor.track, runs |-> TRUE]
    BY <1>30 DEF MonitorSwaps, Store
  <2>3. monitor.track \in TrackOrNone
    BY DEF Typed, MonitorTyped
  <2>4. monitor'.pc # "swapping"
    BY <1>30 DEF MonitorSwaps, Go, Typed, MonitorTyped
  <2>5. QED
    BY <2>1, <2>2, <2>3, <2>4, NotedTyped DEF ActiveTyped
<1>31. CASE MonitorNotesStop
  <2>1. UNCHANGED <<job, transition>>
    BY <1>31, Frames
  <2>2. QED
    BY <1>31, <2>1 DEF MonitorNotesStop, NoPlay, NoEnd, Sleep, OnlyMonitor, ActiveTyped, Typed,
         MonitorTyped, TrackOrNone
<1>32. CASE MonitorArmed
  <2>1. UNCHANGED <<active, job, transition>>
    BY <1>32, Frames
  <2>2. QED
    BY <1>32, <2>1 DEF MonitorArmed, Sleep, OnlyMonitor, ActiveTyped, Typed, MonitorTyped,
         TrackOrNone
<1>33. CASE Messages
  <2>1. UNCHANGED <<active, transition, monitor>>
    BY <1>33, Frames
  <2>2. QED
    BY <1>33, <2>1 DEF Messages, ReceiveSetState, NextGeneration, NoJob, Revoked, ActiveTyped,
         Typed, JobTyped, Jobs, TrackOrNone
<1>. QED
  BY <1>1, <1>2, <1>3, <1>4, <1>5, <1>6, <1>7, <1>8, <1>9, <1>10, <1>11, <1>12, <1>13, <1>14,
     <1>15, <1>16, <1>17, <1>18, <1>19, <1>20, <1>21, <1>22, <1>23, <1>24, <1>25, <1>26, <1>27,
     <1>28, <1>29, <1>30, <1>31, <1>32, <1>33, Frames DEF Next, JobStep, ArmingStep,
       TransitionStep, EndedStep, MonitorStep, vars

\* Every step keeps it: a note that would break it comes late.
LEMMA NothingOpenStep ==
  ASSUME Typed, ActiveTyped, NothingOpen, [Next]_vars
  PROVE  NothingOpen'
<1>1. CASE UNCHANGED <<given, player, active, ended, job>>
  BY <1>1 DEF NothingOpen
<1>2. CASE TakePlaybackLock
  <2>1. (given.late => given'.late) /\ (given.dropped => given'.dropped)
    BY <1>2, GivenStays DEF Next, JobStep, ArmingStep, TransitionStep, EndedStep, MonitorStep
  <2>2. UNCHANGED <<given, player, active, ended>>
    BY <1>2, Frames
  <2>3. job'.pc = "begin"
    BY <1>2 DEF TakePlaybackLock, Typed, WaitingTyped, Waiting
  <2>4. QED
    BY <2>1, <2>2, <2>3 DEF NothingOpen
<1>3. CASE Begin
  <2>1. (given.late => given'.late) /\ UNCHANGED active
    BY <1>3, GivenStays, Frames DEF Next, JobStep, ArmingStep, TransitionStep, EndedStep,
         MonitorStep
  <2>2. CASE job.stale \/ (Loads /\ player.state \in Live)
    <3>1. UNCHANGED <<player, ended>> /\ job'.pc \in {"finished", "unloading"}
      BY <1>3, <2>2 DEF Begin, Go, Typed, JobTyped, Jobs
    <3>2. QED
      BY <2>1, <3>1 DEF NothingOpen
  <2>3. CASE ~job.stale /\ Loads /\ player.state \notin Live
    <3>1. Replace
      BY <1>3, <2>3 DEF Begin
    <3>2. job.track # None
      BY <1>3, <2>3 DEF Begin, Loads, Typed, JobTyped
    <3>3. player'.state \notin Live /\ player'.track # None /\ job'.pc = "loading"
      BY <3>1, <3>2 DEF Replace, Go, Live, Typed, JobTyped, Jobs
    <3>4. ended' # NoEnd => ended # NoEnd
      BY <3>1 DEF Replace, Outdated
    <3>5. QED
      BY <2>1, <3>3, <3>4 DEF NothingOpen
  <2>4. CASE ~job.stale /\ ~Loads
    <3>1. Finish /\ UNCHANGED ended
      BY <1>3, <2>4 DEF Begin
    <3>2. player'.track = player.track /\ job'.pc \notin {"unreporting", "loading"}
      BY <3>1 DEF Finish, Typed, JobTyped, Jobs, PlayerTyped
    <3>3. QED
      BY <2>1, <3>1, <3>2 DEF NothingOpen
  <2>5. QED
    BY <2>2, <2>3, <2>4
<1>4. CASE Unloaded
  <2>1. (given.late => given'.late) /\ (given.dropped => given'.dropped)
    BY <1>4, GivenStays DEF Next, JobStep, ArmingStep, TransitionStep, EndedStep, MonitorStep
  <2>2. UNCHANGED <<given>>
    BY <1>4, Frames
  <2>3. QED
    BY <1>4, <2>1, <2>2 DEF Unloaded, Silent, NoPlay, Replace, Outdated, NoEnd, Go, NothingOpen,
         ActiveTyped, Typed, PlayerTyped, EndTyped, JobTyped, Jobs, Live
<1>5. CASE Unreported
  <2>1. (given.late => given'.late) /\ (given.dropped => given'.dropped)
    BY <1>5, GivenStays DEF Next, JobStep, ArmingStep, TransitionStep, EndedStep, MonitorStep
  <2>2. UNCHANGED <<given, active>>
    BY <1>5, Frames
  <2>3. QED
    BY <1>5, <2>1, <2>2 DEF Unreported, Replace, Outdated, NoEnd, Go, NothingOpen, ActiveTyped,
         Typed, PlayerTyped, EndTyped, JobTyped, Jobs, Live
<1>6. CASE Loaded
  <2>1. (given.late => given'.late) /\ (given.dropped => given'.dropped)
    BY <1>6, GivenStays DEF Next, JobStep, ArmingStep, TransitionStep, EndedStep, MonitorStep
  <2>2. UNCHANGED <<given, active, ended>>
    BY <1>6, Frames
  <2>3. QED
    BY <1>6, <2>1, <2>2 DEF Loaded, Go, Finish, Starts, Cleared, OnlyJob, NothingOpen,
         ActiveTyped, Typed, PlayerTyped, JobTyped, Jobs, Live
<1>7. CASE Started
  <2>1. (given.late => given'.late) /\ (given.dropped => given'.dropped)
    BY <1>7, GivenStays DEF Next, JobStep, ArmingStep, TransitionStep, EndedStep, MonitorStep
  <2>2. UNCHANGED <<active, ended>>
    BY <1>7, Frames
  <2>3. QED
    BY <1>7, <2>1, <2>2 DEF Started, Go, NoEnd, Superseded, OnlyJob, NothingOpen, ActiveTyped,
         Typed, PlayerTyped, JobTyped, Jobs, Live
<1>8. CASE Resumed
  <2>1. (given.late => given'.late) /\ (given.dropped => given'.dropped)
    BY <1>8, GivenStays DEF Next, JobStep, ArmingStep, TransitionStep, EndedStep, MonitorStep
  <2>2. UNCHANGED <<given, active, ended>>
    BY <1>8, Frames
  <2>3. QED
    BY <1>8, <2>1, <2>2 DEF Resumed, Go, OnlyJob, NothingOpen, ActiveTyped, Typed, PlayerTyped,
         JobTyped, Jobs, Live
<1>9. CASE PlayNoted
  <2>1. (given.late => given'.late) /\ (given.dropped => given'.dropped)
    BY <1>9, GivenStays DEF Next, JobStep, ArmingStep, TransitionStep, EndedStep, MonitorStep
  <2>2. UNCHANGED <<player, ended>>
    BY <1>9, Frames
  <2>3. ~given'.late => /\ ~given.late /\ player.state = "PLAYING"
                          /\ job.pc # "unreporting" /\ ended = NoEnd
    BY <1>9, NotesAreLate DEF PlayNoted
  <2>4. active' = Noted(player.track)
    BY <1>9 DEF PlayNoted
  <2>5. QED
    BY <1>9, <2>1, <2>2, <2>3, <2>4, NotedPlay DEF PlayNoted, NoPlay, NoEnd, OnlyJob, NothingOpen,
         ActiveTyped, Typed, JobTyped, Jobs
<1>10. CASE JobSwaps
  <2>1. (given.late => given'.late) /\ (given.dropped => given'.dropped)
    BY <1>10, GivenStays DEF Next, JobStep, ArmingStep, TransitionStep, EndedStep, MonitorStep
  <2>2. UNCHANGED <<player, ended>>
    BY <1>10, Frames
  <2>3. ~given'.late => /\ ~given.late /\ player.state = "PLAYING" /\ job.pc # "unreporting"
                          /\ ended = NoEnd /\ player.track = job.track
    BY <1>10, StoresAreLate DEF JobSwaps
  <2>4. active' = [track |-> job.track, runs |-> TRUE] /\ active' # NoPlay
    BY <1>10, NotedPlay DEF JobSwaps, Store
  <2>5. QED
    BY <1>10, <2>1, <2>2, <2>3, <2>4 DEF JobSwaps, NoEnd, Go, OnlyJob, NothingOpen, ActiveTyped,
         Typed, JobTyped, Jobs
<1>11. CASE Paused
  <2>1. (given.late => given'.late) /\ (given.dropped => given'.dropped)
    BY <1>11, GivenStays DEF Next, JobStep, ArmingStep, TransitionStep, EndedStep, MonitorStep
  <2>2. UNCHANGED <<active, ended>>
    BY <1>11, Frames
  <2>3. QED
    BY <1>11, <2>1, <2>2 DEF Paused, Go, OnlyJob, NothingOpen, ActiveTyped, Typed, PlayerTyped,
         JobTyped, Jobs, Live
<1>12. CASE PauseNoted
  <2>1. (given.late => given'.late) /\ (given.dropped => given'.dropped)
    BY <1>12, GivenStays DEF Next, JobStep, ArmingStep, TransitionStep, EndedStep, MonitorStep
  <2>2. UNCHANGED <<player, ended>>
    BY <1>12, Frames
  <2>3. ~given'.late => ~given.late /\ player.state = "PAUSED" /\ job.pc # "unreporting"
    BY <1>12, NotesAreLate DEF PauseNoted
  <2>4. QED
    BY <1>12, <2>1, <2>2, <2>3 DEF PauseNoted, NotePaused, NoPlay, NoEnd, Go, OnlyJob,
         NothingOpen, ActiveTyped, Typed, JobTyped, Jobs
<1>13. CASE Stopped
  <2>1. (given.late => given'.late) /\ (given.dropped => given'.dropped)
    BY <1>13, GivenStays DEF Next, JobStep, ArmingStep, TransitionStep, EndedStep, MonitorStep
  <2>2. UNCHANGED <<given, active, ended>>
    BY <1>13, Frames
  <2>3. QED
    BY <1>13, <2>1, <2>2 DEF Stopped, Silent, Go, OnlyJob, NothingOpen, ActiveTyped, Typed,
         PlayerTyped, JobTyped, Jobs, Live
<1>14. CASE StopNoted
  <2>1. (given.late => given'.late) /\ (given.dropped => given'.dropped)
    BY <1>14, GivenStays DEF Next, JobStep, ArmingStep, TransitionStep, EndedStep, MonitorStep
  <2>2. UNCHANGED <<player, ended>>
    BY <1>14, Frames
  <2>3. ~given'.late => ~given.late /\ player.state = "STOPPED" /\ job.pc # "unreporting"
    BY <1>14, NotesAreLate DEF StopNoted
  <2>4. QED
    BY <1>14, <2>1, <2>2, <2>3 DEF StopNoted, NoPlay, NoEnd, Go, OnlyJob, NothingOpen,
         ActiveTyped, Typed, JobTyped, Jobs
<1>15. CASE JobEnds
  <2>1. (given.late => given'.late) /\ (given.dropped => given'.dropped)
    BY <1>15, GivenStays DEF Next, JobStep, ArmingStep, TransitionStep, EndedStep, MonitorStep
  <2>2. UNCHANGED <<given, player, active, ended>>
    BY <1>15, Frames
  <2>3. QED
    BY <1>15, <2>1, <2>2 DEF JobEnds, NoJob, InfoChanged, AskArmLock, NoHold, Enter, Cleared,
         NothingOpen, ActiveTyped, Typed, JobTyped, Jobs
<1>16. CASE BackendAdvances
  <2>1. (given.late => given'.late) /\ UNCHANGED <<active, job>>
    BY <1>16, GivenStays, Frames DEF Next, JobStep, ArmingStep, TransitionStep, EndedStep,
         MonitorStep
  <2>2. ended' = NoEnd \/ ended # NoEnd
    BY <1>16 DEF BackendAdvances, TransitionRuns, Outdated
  <2>3. player'.state = player.state
    BY <1>16 DEF BackendAdvances, TransitionRuns, Typed, PlayerTyped
  <2>4. player'.track # None \/ player'.track = player.track
    BY <1>16 DEF BackendAdvances, TransitionRuns, Typed, PlayerTyped, ArmingTyped
  <2>5. QED
    BY <2>1, <2>2, <2>3, <2>4 DEF NothingOpen
<1>17. CASE BackendEnds
  <2>1. (given.late => given'.late) /\ (given.dropped => given'.dropped)
    BY <1>17, GivenStays DEF Next, JobStep, ArmingStep, TransitionStep, EndedStep, MonitorStep
  <2>2. UNCHANGED <<given, player, job>>
    BY <1>17, Frames
  <2>3. QED
    BY <1>17, <2>1, <2>2 DEF BackendEnds, NoEnd, Settled, NoMove, Silent, EndedRuns, Cleared,
         NoPlay, NothingOpen, ActiveTyped, Typed, EndTyped
<1>18. CASE ReleaseExternalPlayback
  <2>1. (given.late => given'.late) /\ (given.dropped => given'.dropped)
    BY <1>18, GivenStays DEF Next, JobStep, ArmingStep, TransitionStep, EndedStep, MonitorStep
  <2>2. UNCHANGED <<given>>
    BY <1>18, Frames
  <2>3. QED
    BY <1>18, <2>1, <2>2 DEF ReleaseExternalPlayback, Silent, Cleared, NoJob, Outdated, NoEnd,
         NoPlay, NothingOpen, ActiveTyped, Typed, PlayerTyped, EndTyped, JobTyped, Jobs, Live
<1>19. CASE TransitionReports
  <2>1. (given.late => given'.late) /\ (given.dropped => given'.dropped)
    BY <1>19, GivenStays DEF Next, JobStep, ArmingStep, TransitionStep, EndedStep, MonitorStep
  <2>2. UNCHANGED <<player, ended, job>>
    BY <1>19, Frames
  <2>3. ~given'.late => /\ ~given.late /\ player.state = "PLAYING"
                          /\ job.pc # "unreporting" /\ ended = NoEnd
    BY <1>19, NotesAreLate DEF TransitionReports
  <2>4. active' = Noted(player.track)
    BY <1>19 DEF TransitionReports
  <2>5. QED
    BY <1>19, <2>1, <2>2, <2>3, <2>4, NotedPlay DEF TransitionReports, NoPlay, NoEnd, NothingOpen,
         ActiveTyped, Typed
<1>20. CASE TransitionSwaps
  <2>1. (given.late => given'.late) /\ (given.dropped => given'.dropped)
    BY <1>20, GivenStays DEF Next, JobStep, ArmingStep, TransitionStep, EndedStep, MonitorStep
  <2>2. UNCHANGED <<player, ended, job>>
    BY <1>20, Frames
  <2>3. ~given'.late => /\ ~given.late /\ player.state = "PLAYING" /\ job.pc # "unreporting"
                          /\ ended = NoEnd /\ player.track = transition.track
    BY <1>20, StoresAreLate DEF TransitionSwaps
  <2>4. active' = [track |-> transition.track, runs |-> TRUE] /\ active' # NoPlay
    BY <1>20, NotedPlay DEF TransitionSwaps, Store
  <2>5. QED
    BY <1>20, <2>1, <2>2, <2>3, <2>4 DEF TransitionSwaps, NoEnd, NothingOpen, ActiveTyped, Typed
<1>21. CASE EndedDecides
  <2>1. (given.late => given'.late) /\ (given.dropped => given'.dropped)
    BY <1>21, GivenStays DEF Next, JobStep, ArmingStep, TransitionStep, EndedStep, MonitorStep
  <2>2. UNCHANGED <<active>>
    BY <1>21, Frames
  <2>3. QED
    BY <1>21, <2>1, <2>2 DEF EndedDecides, NoEnd, Superseded, NextGeneration, NoJob, Revoked,
         NothingOpen, ActiveTyped, Typed, PlayerTyped, EndTyped, JobTyped, Jobs, Live
<1>22. CASE PollReturns
  <2>1. (given.late => given'.late) /\ (given.dropped => given'.dropped)
    BY <1>22, GivenStays DEF Next, JobStep, ArmingStep, TransitionStep, EndedStep, MonitorStep
  <2>2. UNCHANGED <<given, active, ended, job>>
    BY <1>22, Frames
  <2>3. QED
    BY <1>22, <2>1, <2>2 DEF PollReturns, OnlyMonitor, NothingOpen, ActiveTyped, Typed,
         PlayerTyped, Live
<1>23. CASE MonitorNotesPause
  <2>1. (given.late => given'.late) /\ (given.dropped => given'.dropped)
    BY <1>23, GivenStays DEF Next, JobStep, ArmingStep, TransitionStep, EndedStep, MonitorStep
  <2>2. UNCHANGED <<player, ended, job>>
    BY <1>23, Frames
  <2>3. ~given'.late => ~given.late /\ player.state = "PAUSED" /\ job.pc # "unreporting"
    BY <1>23, NotesAreLate DEF MonitorNotesPause
  <2>4. QED
    BY <1>23, <2>1, <2>2, <2>3 DEF MonitorNotesPause, NotePaused, NoPlay, NoEnd, OnlyMonitor,
         NothingOpen, ActiveTyped, Typed
<1>24. CASE PausedPollReturns
  <2>1. (given.late => given'.late) /\ (given.dropped => given'.dropped)
    BY <1>24, GivenStays DEF Next, JobStep, ArmingStep, TransitionStep, EndedStep, MonitorStep
  <2>2. UNCHANGED <<active, ended, job>>
    BY <1>24, Frames
  <2>3. QED
    BY <1>24, <2>1, <2>2 DEF PausedPollReturns, PausedSeesPlay, NoJob, PausedSeesStop,
         PausedCounts, OnlyMonitor, NothingOpen, ActiveTyped, Typed, PlayerTyped, Live
<1>25. CASE MonitorResumes
  <2>1. (given.late => given'.late) /\ (given.dropped => given'.dropped)
    BY <1>25, GivenStays DEF Next, JobStep, ArmingStep, TransitionStep, EndedStep, MonitorStep
  <2>2. UNCHANGED <<given, active, ended, job>>
    BY <1>25, Frames
  <2>3. QED
    BY <1>25, <2>1, <2>2 DEF MonitorResumes, OnlyMonitor, NothingOpen, ActiveTyped, Typed,
         PlayerTyped, Live
<1>26. CASE MonitorNotesPlay
  <2>1. (given.late => given'.late) /\ (given.dropped => given'.dropped)
    BY <1>26, GivenStays DEF Next, JobStep, ArmingStep, TransitionStep, EndedStep, MonitorStep
  <2>2. UNCHANGED <<player, ended, job>>
    BY <1>26, Frames
  <2>3. ~given'.late => /\ ~given.late /\ player.state = "PLAYING"
                          /\ job.pc # "unreporting" /\ ended = NoEnd
    BY <1>26, NotesAreLate DEF MonitorNotesPlay
  <2>4. active' = Noted(player.track)
    BY <1>26 DEF MonitorNotesPlay
  <2>5. QED
    BY <1>26, <2>1, <2>2, <2>3, <2>4, NotedPlay DEF MonitorNotesPlay, NoPlay, NoEnd, OnlyMonitor,
         NothingOpen, ActiveTyped, Typed
<1>27. CASE MonitorSwaps
  <2>1. (given.late => given'.late) /\ (given.dropped => given'.dropped)
    BY <1>27, GivenStays DEF Next, JobStep, ArmingStep, TransitionStep, EndedStep, MonitorStep
  <2>2. UNCHANGED <<player, ended, job>>
    BY <1>27, Frames
  <2>3. ~given'.late => /\ ~given.late /\ player.state = "PLAYING" /\ job.pc # "unreporting"
                          /\ ended = NoEnd /\ player.track = monitor.track
    BY <1>27, StoresAreLate DEF MonitorSwaps
  <2>4. active' = [track |-> monitor.track, runs |-> TRUE] /\ active' # NoPlay
    BY <1>27, NotedPlay DEF MonitorSwaps, Store
  <2>5. QED
    BY <1>27, <2>1, <2>2, <2>3, <2>4 DEF MonitorSwaps, NoEnd, OnlyMonitor, NothingOpen,
         ActiveTyped, Typed
<1>28. CASE MonitorNotesStop
  <2>1. (given.late => given'.late) /\ (given.dropped => given'.dropped)
    BY <1>28, GivenStays DEF Next, JobStep, ArmingStep, TransitionStep, EndedStep, MonitorStep
  <2>2. UNCHANGED <<player, ended, job>>
    BY <1>28, Frames
  <2>3. ~given'.late => ~given.late /\ player.state = "STOPPED" /\ job.pc # "unreporting"
    BY <1>28, NotesAreLate DEF MonitorNotesStop
  <2>4. QED
    BY <1>28, <2>1, <2>2, <2>3 DEF MonitorNotesStop, NoPlay, NoEnd, OnlyMonitor, NothingOpen,
         ActiveTyped, Typed
<1>29. CASE Messages
  <2>1. (given.late => given'.late) /\ (given.dropped => given'.dropped)
    BY <1>29, GivenStays DEF Next, JobStep, ArmingStep, TransitionStep, EndedStep, MonitorStep
  <2>2. UNCHANGED <<given, player, active>>
    BY <1>29, Frames
  <2>3. QED
    BY <1>29, <2>1, <2>2 DEF Messages, ReceiveSetState, NextGeneration, NoJob, Revoked, Outdated,
         NoEnd, NothingOpen, ActiveTyped, Typed, EndTyped, JobTyped, Jobs
<1>. QED
  BY <1>1, <1>2, <1>3, <1>4, <1>5, <1>6, <1>7, <1>8, <1>9, <1>10, <1>11, <1>12, <1>13, <1>14,
     <1>15, <1>16, <1>17, <1>18, <1>19, <1>20, <1>21, <1>22, <1>23, <1>24, <1>25, <1>26, <1>27,
     <1>28, <1>29, Frames DEF Next, JobStep, ArmingStep, TransitionStep, EndedStep, MonitorStep,
       vars

\* The clock of the open play agrees with the player, but for a note that is about to come.
ClockHolds ==
  ~given.late /\ active # NoPlay =>
    \/ active.runs <=> player.state = "PLAYING"
    \/ job.pc \in {"notePlaying", "notePaused", "noteStopped"}
    \/ monitor.pc \in {"notePlaying", "notePaused", "noteStopped"}

\* What is open is the current track of a live player, but for a note that is about to come.
OpenHolds ==
  ~given.late /\ active # NoPlay =>
    /\ player.state \in Live \/ job.pc = "noteStopped" \/ monitor.pc = "noteStopped"
    /\ active.track = player.track \/ transition.pc = "quality" \/ monitor.pc = "noteStopped"


\* A play that is noted in time is that of the current track, and runs.
LEMMA NotedIsHeard ==
  ASSUME Typed, NothingOpen, active' = Noted(player.track), ~given.late
  PROVE  /\ active' # NoPlay => active'.runs /\ active'.track = player.track
         /\ player.track # None => active' # NoPlay \/ MustEnd(player.track)
<1>1. CASE player.track = None
  BY <1>1, NotedPlay DEF NothingOpen
<1>2. CASE MustEnd(player.track)
  BY <1>2, NotedPlay
<1>3. CASE player.track # None /\ ~MustEnd(player.track)
  <2>1. active' = [track |-> player.track, runs |-> TRUE]
    BY <1>3, NotedPlay
  <2>2. QED
    BY <1>3, <2>1, NotedPlay
<1>4. QED
  BY <1>1, <1>2, <1>3

\* Every step keeps it: who starts or stops the player notes it.
LEMMA ClockHoldsStep ==
  ASSUME Typed, ActiveTyped, NothingOpen, ClockHolds, [Next]_vars
  PROVE  ClockHolds'
<1>1. CASE UNCHANGED <<given, player, active, job, monitor>>
  BY <1>1 DEF ClockHolds
<1>2. CASE TakePlaybackLock
  <2>1. (given.late => given'.late) /\ (given.dropped => given'.dropped)
    BY <1>2, GivenStays DEF Next, JobStep, ArmingStep, TransitionStep, EndedStep, MonitorStep
  <2>2. UNCHANGED <<given, player, active, monitor>>
    BY <1>2, Frames
  <2>3. QED
    BY <1>2, <2>1, <2>2 DEF TakePlaybackLock, NoJob, ClockHolds, NothingOpen, ActiveTyped, Typed,
         JobTyped, Jobs
<1>3. CASE Begin
  <2>1. (given.late => given'.late) /\ (given.dropped => given'.dropped)
    BY <1>3, GivenStays DEF Next, JobStep, ArmingStep, TransitionStep, EndedStep, MonitorStep
  <2>2. UNCHANGED <<active, monitor>>
    BY <1>3, Frames
  <2>3. player'.state = player.state \/ "PLAYING" \notin {player.state, player'.state}
    <3>1. CASE UNCHANGED player
      BY <3>1
    <3>2. CASE player.state \notin Live /\ Replace
      BY <3>2 DEF Replace, Live
    <3>3. CASE ~Loads /\ Finish
      BY <3>3 DEF Loads, Finish, Starts, Live, Typed, PlayerTyped
    <3>4. QED
      BY <1>3, <3>1, <3>2, <3>3 DEF Begin
  <2>4. job.pc = "begin"
    BY <1>3 DEF Begin
  <2>5. QED
    BY <2>1, <2>2, <2>3, <2>4 DEF ClockHolds
<1>4. CASE Unloaded
  <2>1. (given.late => given'.late) /\ (given.dropped => given'.dropped)
    BY <1>4, GivenStays DEF Next, JobStep, ArmingStep, TransitionStep, EndedStep, MonitorStep
  <2>2. UNCHANGED <<given, monitor>>
    BY <1>4, Frames
  <2>3. QED
    BY <1>4, <2>1, <2>2 DEF Unloaded, Silent, NoPlay, Replace, Go, OnlyLoad, ClockHolds,
         NothingOpen, ActiveTyped, Typed, PlayerTyped, JobTyped, Jobs
<1>5. CASE Unreported
  <2>1. (given.late => given'.late) /\ (given.dropped => given'.dropped)
    BY <1>5, GivenStays DEF Next, JobStep, ArmingStep, TransitionStep, EndedStep, MonitorStep
  <2>2. UNCHANGED <<given, active, monitor>>
    BY <1>5, Frames
  <2>3. QED
    BY <1>5, <2>1, <2>2 DEF Unreported, Replace, Go, OnlyLoad, ClockHolds, NothingOpen,
         ActiveTyped, Typed, PlayerTyped, JobTyped, Jobs
<1>6. CASE Loaded
  <2>1. (given.late => given'.late) /\ (given.dropped => given'.dropped)
    BY <1>6, GivenStays DEF Next, JobStep, ArmingStep, TransitionStep, EndedStep, MonitorStep
  <2>2. UNCHANGED <<given, active, monitor>>
    BY <1>6, Frames
  <2>3. job.pc = "loading" /\ player.state # "PLAYING"
    BY <1>6 DEF Loaded, NothingOpen, Live
  <2>4. player'.state # "PLAYING"
    BY <1>6, <2>3 DEF Loaded, Finish, Typed, PlayerTyped
  <2>5. QED
    BY <2>1, <2>2, <2>3, <2>4 DEF ClockHolds
<1>7. CASE Started
  <2>1. (given.late => given'.late) /\ (given.dropped => given'.dropped)
    BY <1>7, GivenStays DEF Next, JobStep, ArmingStep, TransitionStep, EndedStep, MonitorStep
  <2>2. UNCHANGED <<active, monitor>>
    BY <1>7, Frames
  <2>3. QED
    BY <1>7, <2>1, <2>2 DEF Started, Go, NoEnd, Superseded, OnlyJob, OnlyLoad, ClockHolds,
         NothingOpen, ActiveTyped, Typed, PlayerTyped, JobTyped, Jobs
<1>8. CASE Resumed
  <2>1. (given.late => given'.late) /\ (given.dropped => given'.dropped)
    BY <1>8, GivenStays DEF Next, JobStep, ArmingStep, TransitionStep, EndedStep, MonitorStep
  <2>2. UNCHANGED <<given, active, monitor>>
    BY <1>8, Frames
  <2>3. QED
    BY <1>8, <2>1, <2>2 DEF Resumed, Go, OnlyJob, OnlyLoad, ClockHolds, NothingOpen, ActiveTyped,
         Typed, PlayerTyped, JobTyped, Jobs
<1>9. CASE PlayNoted
  <2>1. (given.late => given'.late) /\ (given.dropped => given'.dropped)
    BY <1>9, GivenStays DEF Next, JobStep, ArmingStep, TransitionStep, EndedStep, MonitorStep
  <2>2. UNCHANGED <<player, monitor>>
    BY <1>9, Frames
  <2>3. ~given'.late => /\ ~given.late /\ player.state = "PLAYING"
                          /\ job.pc # "unreporting" /\ ended = NoEnd
    BY <1>9, NotesAreLate DEF PlayNoted
  <2>4. active' = Noted(player.track)
    BY <1>9 DEF PlayNoted
  <2>5. ~given'.late /\ active' # NoPlay => active'.runs /\ active'.track = player.track
    BY <2>3, <2>4, NotedIsHeard
  <2>6. job'.pc \in {"swapping", "finished"} /\ player' = player
    BY <1>9 DEF PlayNoted, OnlyJob, OnlyMonitor, Typed, JobTyped, Jobs
  <2>7. QED
    BY <2>1, <2>2, <2>3, <2>5, <2>6 DEF ClockHolds
<1>10. CASE JobSwaps
  <2>1. (given.late => given'.late) /\ (given.dropped => given'.dropped)
    BY <1>10, GivenStays DEF Next, JobStep, ArmingStep, TransitionStep, EndedStep, MonitorStep
  <2>2. UNCHANGED <<player, monitor>>
    BY <1>10, Frames
  <2>3. ~given'.late => /\ ~given.late /\ player.state = "PLAYING" /\ job.pc # "unreporting"
                          /\ ended = NoEnd /\ player.track = job.track
    BY <1>10, StoresAreLate DEF JobSwaps
  <2>4. active' = [track |-> job.track, runs |-> TRUE] /\ active' # NoPlay
    BY <1>10, NotedPlay DEF JobSwaps, Store
  <2>5. active'.runs /\ active'.track = job.track
    BY <2>4
  <2>6. QED
    BY <1>10, <2>1, <2>2, <2>3, <2>4, <2>5 DEF JobSwaps, NoEnd, Go, OnlyJob, OnlyLoad, ClockHolds,
         NothingOpen, ActiveTyped, Typed, JobTyped, Jobs
<1>11. CASE Paused
  <2>1. (given.late => given'.late) /\ (given.dropped => given'.dropped)
    BY <1>11, GivenStays DEF Next, JobStep, ArmingStep, TransitionStep, EndedStep, MonitorStep
  <2>2. UNCHANGED <<active, monitor>>
    BY <1>11, Frames
  <2>3. QED
    BY <1>11, <2>1, <2>2 DEF Paused, Go, OnlyJob, OnlyLoad, ClockHolds, NothingOpen, ActiveTyped,
         Typed, PlayerTyped, JobTyped, Jobs
<1>12. CASE PauseNoted
  <2>1. (given.late => given'.late) /\ (given.dropped => given'.dropped)
    BY <1>12, GivenStays DEF Next, JobStep, ArmingStep, TransitionStep, EndedStep, MonitorStep
  <2>2. UNCHANGED <<player, monitor>>
    BY <1>12, Frames
  <2>3. ~given'.late => ~given.late /\ player.state = "PAUSED" /\ job.pc # "unreporting"
    BY <1>12, NotesAreLate DEF PauseNoted
  <2>4. QED
    BY <1>12, <2>1, <2>2, <2>3 DEF PauseNoted, NotePaused, NoPlay, NoEnd, Go, OnlyJob, OnlyLoad,
         ClockHolds, NothingOpen, ActiveTyped, Typed, JobTyped, Jobs
<1>13. CASE Stopped
  <2>1. (given.late => given'.late) /\ (given.dropped => given'.dropped)
    BY <1>13, GivenStays DEF Next, JobStep, ArmingStep, TransitionStep, EndedStep, MonitorStep
  <2>2. UNCHANGED <<given, active, monitor>>
    BY <1>13, Frames
  <2>3. QED
    BY <1>13, <2>1, <2>2 DEF Stopped, Silent, Go, OnlyJob, OnlyLoad, ClockHolds, NothingOpen,
         ActiveTyped, Typed, PlayerTyped, JobTyped, Jobs
<1>14. CASE StopNoted
  <2>1. (given.late => given'.late) /\ (given.dropped => given'.dropped)
    BY <1>14, GivenStays DEF Next, JobStep, ArmingStep, TransitionStep, EndedStep, MonitorStep
  <2>2. UNCHANGED <<player, monitor>>
    BY <1>14, Frames
  <2>3. ~given'.late => ~given.late /\ player.state = "STOPPED" /\ job.pc # "unreporting"
    BY <1>14, NotesAreLate DEF StopNoted
  <2>4. QED
    BY <1>14, <2>1, <2>2, <2>3 DEF StopNoted, NoPlay, NoEnd, Go, OnlyJob, OnlyLoad, ClockHolds,
         NothingOpen, ActiveTyped, Typed, JobTyped, Jobs
<1>15. CASE JobEnds
  <2>1. (given.late => given'.late) /\ (given.dropped => given'.dropped)
    BY <1>15, GivenStays DEF Next, JobStep, ArmingStep, TransitionStep, EndedStep, MonitorStep
  <2>2. UNCHANGED <<given, player, active, monitor>>
    BY <1>15, Frames
  <2>3. QED
    BY <1>15, <2>1, <2>2 DEF JobEnds, NoJob, InfoChanged, AskArmLock, NoHold, Enter, Cleared,
         ClockHolds, NothingOpen, ActiveTyped, Typed, JobTyped, Jobs
<1>16. CASE BackendAdvances
  <2>1. (given.late => given'.late) /\ (given.dropped => given'.dropped)
    BY <1>16, GivenStays DEF Next, JobStep, ArmingStep, TransitionStep, EndedStep, MonitorStep
  <2>2. UNCHANGED <<active, job, monitor>>
    BY <1>16, Frames
  <2>3. QED
    BY <1>16, <2>1, <2>2 DEF BackendAdvances, Settled, NoMove, TransitionRuns, ClockHolds,
         NothingOpen, ActiveTyped, Typed, PlayerTyped
<1>17. CASE BackendEnds
  <2>1. (given.late => given'.late) /\ (given.dropped => given'.dropped)
    BY <1>17, GivenStays DEF Next, JobStep, ArmingStep, TransitionStep, EndedStep, MonitorStep
  <2>2. UNCHANGED <<given, player, job, monitor>>
    BY <1>17, Frames
  <2>3. QED
    BY <1>17, <2>1, <2>2 DEF BackendEnds, NoEnd, Settled, NoMove, Silent, EndedRuns, Cleared,
         NoPlay, ClockHolds, NothingOpen, ActiveTyped, Typed
<1>18. CASE ReleaseExternalPlayback
  <2>1. (given.late => given'.late) /\ (given.dropped => given'.dropped)
    BY <1>18, GivenStays DEF Next, JobStep, ArmingStep, TransitionStep, EndedStep, MonitorStep
  <2>2. UNCHANGED <<given, monitor>>
    BY <1>18, Frames
  <2>3. QED
    BY <1>18, <2>1, <2>2 DEF ReleaseExternalPlayback, Silent, Cleared, NoJob, NoPlay, ClockHolds,
         NothingOpen, ActiveTyped, Typed, PlayerTyped, JobTyped, Jobs
<1>19. CASE TransitionReports
  <2>1. (given.late => given'.late) /\ (given.dropped => given'.dropped)
    BY <1>19, GivenStays DEF Next, JobStep, ArmingStep, TransitionStep, EndedStep, MonitorStep
  <2>2. UNCHANGED <<player, job, monitor>>
    BY <1>19, Frames
  <2>3. ~given'.late => /\ ~given.late /\ player.state = "PLAYING"
                          /\ job.pc # "unreporting" /\ ended = NoEnd
    BY <1>19, NotesAreLate DEF TransitionReports
  <2>4. active' = Noted(player.track)
    BY <1>19 DEF TransitionReports
  <2>5. ~given'.late /\ active' # NoPlay => active'.runs /\ active'.track = player.track
    BY <2>3, <2>4, NotedIsHeard
  <2>6. transition'.pc \in {"swapping", "update"} /\ player' = player
    BY <1>19 DEF TransitionReports, OnlyJob, OnlyMonitor, Typed, MoveTyped
  <2>7. QED
    BY <2>1, <2>2, <2>3, <2>5, <2>6 DEF ClockHolds
<1>20. CASE TransitionSwaps
  <2>1. (given.late => given'.late) /\ (given.dropped => given'.dropped)
    BY <1>20, GivenStays DEF Next, JobStep, ArmingStep, TransitionStep, EndedStep, MonitorStep
  <2>2. UNCHANGED <<player, job, monitor>>
    BY <1>20, Frames
  <2>3. ~given'.late => /\ ~given.late /\ player.state = "PLAYING" /\ job.pc # "unreporting"
                          /\ ended = NoEnd /\ player.track = transition.track
    BY <1>20, StoresAreLate DEF TransitionSwaps
  <2>4. active' = [track |-> transition.track, runs |-> TRUE] /\ active' # NoPlay
    BY <1>20, NotedPlay DEF TransitionSwaps, Store
  <2>5. active'.runs /\ active'.track = transition.track
    BY <2>4
  <2>6. QED
    BY <1>20, <2>1, <2>2, <2>3, <2>4, <2>5 DEF TransitionSwaps, NoEnd, ClockHolds, NothingOpen,
         ActiveTyped, Typed
<1>21. CASE EndedDecides
  <2>1. (given.late => given'.late) /\ (given.dropped => given'.dropped)
    BY <1>21, GivenStays DEF Next, JobStep, ArmingStep, TransitionStep, EndedStep, MonitorStep
  <2>2. UNCHANGED <<active, monitor>>
    BY <1>21, Frames
  <2>3. QED
    BY <1>21, <2>1, <2>2 DEF EndedDecides, NoEnd, Superseded, NextGeneration, NoJob, Revoked,
         ClockHolds, NothingOpen, ActiveTyped, Typed, PlayerTyped, JobTyped, Jobs
<1>22. CASE MonitorWakes
  <2>1. (given.late => given'.late) /\ (given.dropped => given'.dropped)
    BY <1>22, GivenStays DEF Next, JobStep, ArmingStep, TransitionStep, EndedStep, MonitorStep
  <2>2. UNCHANGED <<given, player, active, job>>
    BY <1>22, Frames
  <2>3. QED
    BY <1>22, <2>1, <2>2 DEF MonitorWakes, OnlyMonitor, ClockHolds, NothingOpen, ActiveTyped,
         Typed, MonitorTyped
<1>23. CASE PollReturns
  <2>1. (given.late => given'.late) /\ (given.dropped => given'.dropped)
    BY <1>23, GivenStays DEF Next, JobStep, ArmingStep, TransitionStep, EndedStep, MonitorStep
  <2>2. UNCHANGED <<given, active, job>>
    BY <1>23, Frames
  <2>3. QED
    BY <1>23, <2>1, <2>2 DEF PollReturns, Sleep, OnlyMonitor, ClockHolds, NothingOpen,
         ActiveTyped, Typed, PlayerTyped, MonitorTyped
<1>24. CASE MonitorNotesPause
  <2>1. (given.late => given'.late) /\ (given.dropped => given'.dropped)
    BY <1>24, GivenStays DEF Next, JobStep, ArmingStep, TransitionStep, EndedStep, MonitorStep
  <2>2. UNCHANGED <<player, job>>
    BY <1>24, Frames
  <2>3. ~given'.late => ~given.late /\ player.state = "PAUSED" /\ job.pc # "unreporting"
    BY <1>24, NotesAreLate DEF MonitorNotesPause
  <2>4. QED
    BY <1>24, <2>1, <2>2, <2>3 DEF MonitorNotesPause, NotePaused, NoPlay, NoEnd, OnlyMonitor,
         ClockHolds, NothingOpen, ActiveTyped, Typed, MonitorTyped
<1>25. CASE PositionRead
  <2>1. (given.late => given'.late) /\ (given.dropped => given'.dropped)
    BY <1>25, GivenStays DEF Next, JobStep, ArmingStep, TransitionStep, EndedStep, MonitorStep
  <2>2. UNCHANGED <<given, player, active, job>>
    BY <1>25, Frames
  <2>3. QED
    BY <1>25, <2>1, <2>2 DEF PositionRead, PrepareNext, AskArmLock, NoHold, Enter, Cleared, Sleep,
         OnlyMonitor, ClockHolds, NothingOpen, ActiveTyped, Typed, MonitorTyped
<1>26. CASE PausedPollReturns
  <2>1. (given.late => given'.late) /\ (given.dropped => given'.dropped)
    BY <1>26, GivenStays DEF Next, JobStep, ArmingStep, TransitionStep, EndedStep, MonitorStep
  <2>2. UNCHANGED <<active, job>>
    BY <1>26, Frames
  <2>3. QED
    BY <1>26, <2>1, <2>2 DEF PausedPollReturns, Sleep, PausedSeesPlay, NoJob, PausedSeesStop,
         Confirmed, PausedCounts, OnlyMonitor, ClockHolds, NothingOpen, ActiveTyped, Typed,
         PlayerTyped, MonitorTyped
<1>27. CASE MonitorResumes
  <2>1. (given.late => given'.late) /\ (given.dropped => given'.dropped)
    BY <1>27, GivenStays DEF Next, JobStep, ArmingStep, TransitionStep, EndedStep, MonitorStep
  <2>2. UNCHANGED <<given, active, job>>
    BY <1>27, Frames
  <2>3. QED
    BY <1>27, <2>1, <2>2 DEF MonitorResumes, Sleep, OnlyMonitor, ClockHolds, NothingOpen,
         ActiveTyped, Typed, PlayerTyped, MonitorTyped
<1>28. CASE MonitorNotesPlay
  <2>1. (given.late => given'.late) /\ (given.dropped => given'.dropped)
    BY <1>28, GivenStays DEF Next, JobStep, ArmingStep, TransitionStep, EndedStep, MonitorStep
  <2>2. UNCHANGED <<player, job>>
    BY <1>28, Frames
  <2>3. ~given'.late => /\ ~given.late /\ player.state = "PLAYING"
                          /\ job.pc # "unreporting" /\ ended = NoEnd
    BY <1>28, NotesAreLate DEF MonitorNotesPlay
  <2>4. active' = Noted(player.track)
    BY <1>28 DEF MonitorNotesPlay
  <2>5. ~given'.late /\ active' # NoPlay => active'.runs /\ active'.track = player.track
    BY <2>3, <2>4, NotedIsHeard
  <2>6. monitor'.pc \in {"swapping", "sleep"} /\ player' = player
    BY <1>28 DEF MonitorNotesPlay, OnlyJob, OnlyMonitor, Typed, MonitorTyped
  <2>7. QED
    BY <2>1, <2>2, <2>3, <2>5, <2>6 DEF ClockHolds
<1>29. CASE MonitorSwaps
  <2>1. (given.late => given'.late) /\ (given.dropped => given'.dropped)
    BY <1>29, GivenStays DEF Next, JobStep, ArmingStep, TransitionStep, EndedStep, MonitorStep
  <2>2. UNCHANGED <<player, job>>
    BY <1>29, Frames
  <2>3. ~given'.late => /\ ~given.late /\ player.state = "PLAYING" /\ job.pc # "unreporting"
                          /\ ended = NoEnd /\ player.track = monitor.track
    BY <1>29, StoresAreLate DEF MonitorSwaps
  <2>4. active' = [track |-> monitor.track, runs |-> TRUE] /\ active' # NoPlay
    BY <1>29, NotedPlay DEF MonitorSwaps, Store
  <2>5. active'.runs /\ active'.track = monitor.track
    BY <2>4
  <2>6. QED
    BY <1>29, <2>1, <2>2, <2>3, <2>4, <2>5 DEF MonitorSwaps, NoEnd, OnlyMonitor, ClockHolds,
         NothingOpen, ActiveTyped, Typed, MonitorTyped
<1>30. CASE MonitorNotesStop
  <2>1. (given.late => given'.late) /\ (given.dropped => given'.dropped)
    BY <1>30, GivenStays DEF Next, JobStep, ArmingStep, TransitionStep, EndedStep, MonitorStep
  <2>2. UNCHANGED <<player, job>>
    BY <1>30, Frames
  <2>3. ~given'.late => ~given.late /\ player.state = "STOPPED" /\ job.pc # "unreporting"
    BY <1>30, NotesAreLate DEF MonitorNotesStop
  <2>4. QED
    BY <1>30, <2>1, <2>2, <2>3 DEF MonitorNotesStop, NoPlay, NoEnd, Sleep, OnlyMonitor,
         ClockHolds, NothingOpen, ActiveTyped, Typed, MonitorTyped
<1>31. CASE MonitorArmed
  <2>1. (given.late => given'.late) /\ (given.dropped => given'.dropped)
    BY <1>31, GivenStays DEF Next, JobStep, ArmingStep, TransitionStep, EndedStep, MonitorStep
  <2>2. UNCHANGED <<given, player, active, job>>
    BY <1>31, Frames
  <2>3. QED
    BY <1>31, <2>1, <2>2 DEF MonitorArmed, Sleep, OnlyMonitor, ClockHolds, NothingOpen,
         ActiveTyped, Typed, MonitorTyped
<1>32. CASE Messages
  <2>1. (given.late => given'.late) /\ (given.dropped => given'.dropped)
    BY <1>32, GivenStays DEF Next, JobStep, ArmingStep, TransitionStep, EndedStep, MonitorStep
  <2>2. UNCHANGED <<given, player, active, monitor>>
    BY <1>32, Frames
  <2>3. QED
    BY <1>32, <2>1, <2>2 DEF Messages, ReceiveSetState, NextGeneration, NoJob, Revoked,
         ClockHolds, NothingOpen, ActiveTyped, Typed, JobTyped, Jobs
<1>. QED
  BY <1>1, <1>2, <1>3, <1>4, <1>5, <1>6, <1>7, <1>8, <1>9, <1>10, <1>11, <1>12, <1>13, <1>14,
     <1>15, <1>16, <1>17, <1>18, <1>19, <1>20, <1>21, <1>22, <1>23, <1>24, <1>25, <1>26, <1>27,
     <1>28, <1>29, <1>30, <1>31, <1>32, Frames DEF Next, JobStep, ArmingStep, TransitionStep,
       EndedStep, MonitorStep, vars

\* Every step keeps it.
LEMMA OpenHoldsStep ==
  ASSUME Typed, ActiveTyped, NothingOpen, OpenHolds, [Next]_vars
  PROVE  OpenHolds'
<1>1. CASE UNCHANGED <<given, player, active, job, monitor, transition>>
  BY <1>1 DEF OpenHolds
<1>2. CASE TakePlaybackLock
  <2>1. (given.late => given'.late) /\ (given.dropped => given'.dropped)
    BY <1>2, GivenStays DEF Next, JobStep, ArmingStep, TransitionStep, EndedStep, MonitorStep
  <2>2. UNCHANGED <<given, player, active, monitor, transition>>
    BY <1>2, Frames
  <2>3. QED
    BY <1>2, <2>1, <2>2 DEF TakePlaybackLock, NoJob, OpenHolds, NothingOpen, ActiveTyped, Typed,
         JobTyped, Jobs, Live
<1>3. CASE Begin
  <2>1. (given.late => given'.late) /\ (given.dropped => given'.dropped)
    BY <1>3, GivenStays DEF Next, JobStep, ArmingStep, TransitionStep, EndedStep, MonitorStep
  <2>2. UNCHANGED <<active, monitor, transition>>
    BY <1>3, Frames
  <2>3. QED
    BY <1>3, <2>1, <2>2 DEF Begin, Go, Loads, Cleared, Replace, Finish, Starts, OnlyLoad,
         OpenHolds, NothingOpen, ActiveTyped, Typed, PlayerTyped, JobTyped, Jobs, Live
<1>4. CASE Unloaded
  <2>1. (given.late => given'.late) /\ (given.dropped => given'.dropped)
    BY <1>4, GivenStays DEF Next, JobStep, ArmingStep, TransitionStep, EndedStep, MonitorStep
  <2>2. UNCHANGED <<given, monitor, transition>>
    BY <1>4, Frames
  <2>3. QED
    BY <1>4, <2>1, <2>2 DEF Unloaded, Silent, NoPlay, Replace, Go, OnlyLoad, OpenHolds,
         NothingOpen, ActiveTyped, Typed, PlayerTyped, JobTyped, Jobs, Live
<1>5. CASE Unreported
  <2>1. (given.late => given'.late) /\ (given.dropped => given'.dropped)
    BY <1>5, GivenStays DEF Next, JobStep, ArmingStep, TransitionStep, EndedStep, MonitorStep
  <2>2. UNCHANGED <<given, active, monitor, transition>>
    BY <1>5, Frames
  <2>3. QED
    BY <1>5, <2>1, <2>2 DEF Unreported, Replace, Go, OnlyLoad, OpenHolds, NothingOpen,
         ActiveTyped, Typed, PlayerTyped, JobTyped, Jobs, Live
<1>6. CASE Loaded
  <2>1. (given.late => given'.late) /\ (given.dropped => given'.dropped)
    BY <1>6, GivenStays DEF Next, JobStep, ArmingStep, TransitionStep, EndedStep, MonitorStep
  <2>2. UNCHANGED <<given, active, monitor, transition>>
    BY <1>6, Frames
  <2>3. QED
    BY <1>6, <2>1, <2>2 DEF Loaded, Go, Finish, Starts, Cleared, OnlyJob, OnlyLoad, OpenHolds,
         NothingOpen, ActiveTyped, Typed, PlayerTyped, JobTyped, Jobs, Live
<1>7. CASE Started
  <2>1. (given.late => given'.late) /\ (given.dropped => given'.dropped)
    BY <1>7, GivenStays DEF Next, JobStep, ArmingStep, TransitionStep, EndedStep, MonitorStep
  <2>2. UNCHANGED <<active, monitor, transition>>
    BY <1>7, Frames
  <2>3. QED
    BY <1>7, <2>1, <2>2 DEF Started, Go, NoEnd, Superseded, OnlyJob, OnlyLoad, OpenHolds,
         NothingOpen, ActiveTyped, Typed, PlayerTyped, JobTyped, Jobs, Live
<1>8. CASE Resumed
  <2>1. (given.late => given'.late) /\ (given.dropped => given'.dropped)
    BY <1>8, GivenStays DEF Next, JobStep, ArmingStep, TransitionStep, EndedStep, MonitorStep
  <2>2. UNCHANGED <<given, active, monitor, transition>>
    BY <1>8, Frames
  <2>3. QED
    BY <1>8, <2>1, <2>2 DEF Resumed, Go, OnlyJob, OnlyLoad, OpenHolds, NothingOpen, ActiveTyped,
         Typed, PlayerTyped, JobTyped, Jobs, Live
<1>9. CASE PlayNoted
  <2>1. (given.late => given'.late) /\ (given.dropped => given'.dropped)
    BY <1>9, GivenStays DEF Next, JobStep, ArmingStep, TransitionStep, EndedStep, MonitorStep
  <2>2. UNCHANGED <<player, monitor, transition>>
    BY <1>9, Frames
  <2>3. ~given'.late => /\ ~given.late /\ player.state = "PLAYING"
                          /\ job.pc # "unreporting" /\ ended = NoEnd
    BY <1>9, NotesAreLate DEF PlayNoted
  <2>4. active' = Noted(player.track)
    BY <1>9 DEF PlayNoted
  <2>5. ~given'.late /\ active' # NoPlay => active'.runs /\ active'.track = player.track
    BY <2>3, <2>4, NotedIsHeard
  <2>6. job'.pc \in {"swapping", "finished"} /\ player' = player
    BY <1>9 DEF PlayNoted, OnlyJob, OnlyMonitor, Typed, JobTyped, Jobs
  <2>7. QED
    BY <2>1, <2>2, <2>3, <2>5, <2>6 DEF OpenHolds, Live
<1>10. CASE JobSwaps
  <2>1. (given.late => given'.late) /\ (given.dropped => given'.dropped)
    BY <1>10, GivenStays DEF Next, JobStep, ArmingStep, TransitionStep, EndedStep, MonitorStep
  <2>2. UNCHANGED <<player, monitor, transition>>
    BY <1>10, Frames
  <2>3. ~given'.late => /\ ~given.late /\ player.state = "PLAYING" /\ job.pc # "unreporting"
                          /\ ended = NoEnd /\ player.track = job.track
    BY <1>10, StoresAreLate DEF JobSwaps
  <2>4. active' = [track |-> job.track, runs |-> TRUE] /\ active' # NoPlay
    BY <1>10, NotedPlay DEF JobSwaps, Store
  <2>5. active'.runs /\ active'.track = job.track
    BY <2>4
  <2>6. QED
    BY <1>10, <2>1, <2>2, <2>3, <2>4, <2>5 DEF JobSwaps, NoEnd, Go, OnlyJob, OnlyLoad, OpenHolds,
         NothingOpen, ActiveTyped, Typed, JobTyped, Jobs, Live
<1>11. CASE Paused
  <2>1. (given.late => given'.late) /\ (given.dropped => given'.dropped)
    BY <1>11, GivenStays DEF Next, JobStep, ArmingStep, TransitionStep, EndedStep, MonitorStep
  <2>2. UNCHANGED <<active, monitor, transition>>
    BY <1>11, Frames
  <2>3. QED
    BY <1>11, <2>1, <2>2 DEF Paused, Go, OnlyJob, OnlyLoad, OpenHolds, NothingOpen, ActiveTyped,
         Typed, PlayerTyped, JobTyped, Jobs, Live
<1>12. CASE PauseNoted
  <2>1. (given.late => given'.late) /\ (given.dropped => given'.dropped)
    BY <1>12, GivenStays DEF Next, JobStep, ArmingStep, TransitionStep, EndedStep, MonitorStep
  <2>2. UNCHANGED <<player, monitor, transition>>
    BY <1>12, Frames
  <2>3. ~given'.late => ~given.late /\ player.state = "PAUSED" /\ job.pc # "unreporting"
    BY <1>12, NotesAreLate DEF PauseNoted
  <2>4. QED
    BY <1>12, <2>1, <2>2, <2>3 DEF PauseNoted, NotePaused, NoPlay, NoEnd, Go, OnlyJob, OnlyLoad,
         OpenHolds, NothingOpen, ActiveTyped, Typed, JobTyped, Jobs, Live
<1>13. CASE Stopped
  <2>1. (given.late => given'.late) /\ (given.dropped => given'.dropped)
    BY <1>13, GivenStays DEF Next, JobStep, ArmingStep, TransitionStep, EndedStep, MonitorStep
  <2>2. UNCHANGED <<given, active, monitor, transition>>
    BY <1>13, Frames
  <2>3. QED
    BY <1>13, <2>1, <2>2 DEF Stopped, Silent, Go, OnlyJob, OnlyLoad, OpenHolds, NothingOpen,
         ActiveTyped, Typed, PlayerTyped, JobTyped, Jobs, Live
<1>14. CASE StopNoted
  <2>1. (given.late => given'.late) /\ (given.dropped => given'.dropped)
    BY <1>14, GivenStays DEF Next, JobStep, ArmingStep, TransitionStep, EndedStep, MonitorStep
  <2>2. UNCHANGED <<player, monitor, transition>>
    BY <1>14, Frames
  <2>3. ~given'.late => ~given.late /\ player.state = "STOPPED" /\ job.pc # "unreporting"
    BY <1>14, NotesAreLate DEF StopNoted
  <2>4. QED
    BY <1>14, <2>1, <2>2, <2>3 DEF StopNoted, NoPlay, NoEnd, Go, OnlyJob, OnlyLoad, OpenHolds,
         NothingOpen, ActiveTyped, Typed, JobTyped, Jobs, Live
<1>15. CASE JobEnds
  <2>1. (given.late => given'.late) /\ (given.dropped => given'.dropped)
    BY <1>15, GivenStays DEF Next, JobStep, ArmingStep, TransitionStep, EndedStep, MonitorStep
  <2>2. UNCHANGED <<given, player, active, monitor, transition>>
    BY <1>15, Frames
  <2>3. QED
    BY <1>15, <2>1, <2>2 DEF JobEnds, NoJob, InfoChanged, AskArmLock, NoHold, Enter, Cleared,
         OpenHolds, NothingOpen, ActiveTyped, Typed, JobTyped, Jobs, Live
<1>16. CASE BackendAdvances
  <2>1. (given.late => given'.late) /\ (given.dropped => given'.dropped)
    BY <1>16, GivenStays DEF Next, JobStep, ArmingStep, TransitionStep, EndedStep, MonitorStep
  <2>2. UNCHANGED <<active, job, monitor>>
    BY <1>16, Frames
  <2>3. QED
    BY <1>16, <2>1, <2>2 DEF BackendAdvances, Settled, NoMove, TransitionRuns, OpenHolds,
         NothingOpen, ActiveTyped, Typed, PlayerTyped, MoveTyped, Live
<1>17. CASE BackendEnds
  <2>1. (given.late => given'.late) /\ (given.dropped => given'.dropped)
    BY <1>17, GivenStays DEF Next, JobStep, ArmingStep, TransitionStep, EndedStep, MonitorStep
  <2>2. UNCHANGED <<given, player, job, monitor, transition>>
    BY <1>17, Frames
  <2>3. QED
    BY <1>17, <2>1, <2>2 DEF BackendEnds, NoEnd, Settled, NoMove, Silent, EndedRuns, Cleared,
         NoPlay, OpenHolds, NothingOpen, ActiveTyped, Typed, Live
<1>18. CASE ReleaseExternalPlayback
  <2>1. (given.late => given'.late) /\ (given.dropped => given'.dropped)
    BY <1>18, GivenStays DEF Next, JobStep, ArmingStep, TransitionStep, EndedStep, MonitorStep
  <2>2. UNCHANGED <<given, monitor, transition>>
    BY <1>18, Frames
  <2>3. QED
    BY <1>18, <2>1, <2>2 DEF ReleaseExternalPlayback, Silent, Cleared, NoJob, NoPlay, OpenHolds,
         NothingOpen, ActiveTyped, Typed, PlayerTyped, JobTyped, Jobs, Live
<1>19. CASE TransitionReports
  <2>1. (given.late => given'.late) /\ (given.dropped => given'.dropped)
    BY <1>19, GivenStays DEF Next, JobStep, ArmingStep, TransitionStep, EndedStep, MonitorStep
  <2>2. UNCHANGED <<player, job, monitor>>
    BY <1>19, Frames
  <2>3. ~given'.late => /\ ~given.late /\ player.state = "PLAYING"
                          /\ job.pc # "unreporting" /\ ended = NoEnd
    BY <1>19, NotesAreLate DEF TransitionReports
  <2>4. active' = Noted(player.track)
    BY <1>19 DEF TransitionReports
  <2>5. ~given'.late /\ active' # NoPlay => active'.runs /\ active'.track = player.track
    BY <2>3, <2>4, NotedIsHeard
  <2>6. transition'.pc \in {"swapping", "update"} /\ player' = player
    BY <1>19 DEF TransitionReports, OnlyJob, OnlyMonitor, Typed, MoveTyped
  <2>7. QED
    BY <2>1, <2>2, <2>3, <2>5, <2>6 DEF OpenHolds, Live
<1>20. CASE TransitionSwaps
  <2>1. (given.late => given'.late) /\ (given.dropped => given'.dropped)
    BY <1>20, GivenStays DEF Next, JobStep, ArmingStep, TransitionStep, EndedStep, MonitorStep
  <2>2. UNCHANGED <<player, job, monitor>>
    BY <1>20, Frames
  <2>3. ~given'.late => /\ ~given.late /\ player.state = "PLAYING" /\ job.pc # "unreporting"
                          /\ ended = NoEnd /\ player.track = transition.track
    BY <1>20, StoresAreLate DEF TransitionSwaps
  <2>4. active' = [track |-> transition.track, runs |-> TRUE] /\ active' # NoPlay
    BY <1>20, NotedPlay DEF TransitionSwaps, Store
  <2>5. active'.runs /\ active'.track = transition.track
    BY <2>4
  <2>6. QED
    BY <1>20, <2>1, <2>2, <2>3, <2>4, <2>5 DEF TransitionSwaps, NoEnd, OpenHolds, NothingOpen,
         ActiveTyped, Typed, MoveTyped, Live
<1>21. CASE TransitionEnds
  <2>1. (given.late => given'.late) /\ (given.dropped => given'.dropped)
    BY <1>21, GivenStays DEF Next, JobStep, ArmingStep, TransitionStep, EndedStep, MonitorStep
  <2>2. UNCHANGED <<given, player, active, job, monitor>>
    BY <1>21, Frames
  <2>3. QED
    BY <1>21, <2>1, <2>2 DEF TransitionEnds, NoMove, PrepareNext, AskArmLock, NoHold, Enter,
         Cleared, OpenHolds, NothingOpen, ActiveTyped, Typed, MoveTyped, Live
<1>22. CASE EndedDecides
  <2>1. (given.late => given'.late) /\ (given.dropped => given'.dropped)
    BY <1>22, GivenStays DEF Next, JobStep, ArmingStep, TransitionStep, EndedStep, MonitorStep
  <2>2. UNCHANGED <<active, monitor, transition>>
    BY <1>22, Frames
  <2>3. QED
    BY <1>22, <2>1, <2>2 DEF EndedDecides, NoEnd, Superseded, NextGeneration, NoJob, Revoked,
         OpenHolds, NothingOpen, ActiveTyped, Typed, PlayerTyped, JobTyped, Jobs, Live
<1>23. CASE MonitorWakes
  <2>1. (given.late => given'.late) /\ (given.dropped => given'.dropped)
    BY <1>23, GivenStays DEF Next, JobStep, ArmingStep, TransitionStep, EndedStep, MonitorStep
  <2>2. UNCHANGED <<given, player, active, job, transition>>
    BY <1>23, Frames
  <2>3. QED
    BY <1>23, <2>1, <2>2 DEF MonitorWakes, OnlyMonitor, OpenHolds, NothingOpen, ActiveTyped,
         Typed, MonitorTyped, Live
<1>24. CASE PollReturns
  <2>1. (given.late => given'.late) /\ (given.dropped => given'.dropped)
    BY <1>24, GivenStays DEF Next, JobStep, ArmingStep, TransitionStep, EndedStep, MonitorStep
  <2>2. UNCHANGED <<given, active, job, transition>>
    BY <1>24, Frames
  <2>3. QED
    BY <1>24, <2>1, <2>2 DEF PollReturns, Sleep, OnlyMonitor, OpenHolds, NothingOpen, ActiveTyped,
         Typed, PlayerTyped, MonitorTyped, Live
<1>25. CASE MonitorNotesPause
  <2>1. (given.late => given'.late) /\ (given.dropped => given'.dropped)
    BY <1>25, GivenStays DEF Next, JobStep, ArmingStep, TransitionStep, EndedStep, MonitorStep
  <2>2. UNCHANGED <<player, job, transition>>
    BY <1>25, Frames
  <2>3. ~given'.late => ~given.late /\ player.state = "PAUSED" /\ job.pc # "unreporting"
    BY <1>25, NotesAreLate DEF MonitorNotesPause
  <2>4. QED
    BY <1>25, <2>1, <2>2, <2>3 DEF MonitorNotesPause, NotePaused, NoPlay, NoEnd, OnlyMonitor,
         OpenHolds, NothingOpen, ActiveTyped, Typed, MonitorTyped, Live
<1>26. CASE PositionRead
  <2>1. (given.late => given'.late) /\ (given.dropped => given'.dropped)
    BY <1>26, GivenStays DEF Next, JobStep, ArmingStep, TransitionStep, EndedStep, MonitorStep
  <2>2. UNCHANGED <<given, player, active, job, transition>>
    BY <1>26, Frames
  <2>3. QED
    BY <1>26, <2>1, <2>2 DEF PositionRead, PrepareNext, AskArmLock, NoHold, Enter, Cleared, Sleep,
         OnlyMonitor, OpenHolds, NothingOpen, ActiveTyped, Typed, MonitorTyped, Live
<1>27. CASE PausedPollReturns
  <2>1. (given.late => given'.late) /\ (given.dropped => given'.dropped)
    BY <1>27, GivenStays DEF Next, JobStep, ArmingStep, TransitionStep, EndedStep, MonitorStep
  <2>2. UNCHANGED <<active, job, transition>>
    BY <1>27, Frames
  <2>3. QED
    BY <1>27, <2>1, <2>2 DEF PausedPollReturns, Sleep, PausedSeesPlay, NoJob, PausedSeesStop,
         Confirmed, PausedCounts, OnlyMonitor, OpenHolds, NothingOpen, ActiveTyped, Typed,
         PlayerTyped, MonitorTyped, Live
<1>28. CASE MonitorResumes
  <2>1. (given.late => given'.late) /\ (given.dropped => given'.dropped)
    BY <1>28, GivenStays DEF Next, JobStep, ArmingStep, TransitionStep, EndedStep, MonitorStep
  <2>2. UNCHANGED <<given, active, job, transition>>
    BY <1>28, Frames
  <2>3. QED
    BY <1>28, <2>1, <2>2 DEF MonitorResumes, Sleep, OnlyMonitor, OpenHolds, NothingOpen,
         ActiveTyped, Typed, PlayerTyped, MonitorTyped, Live
<1>29. CASE MonitorNotesPlay
  <2>1. (given.late => given'.late) /\ (given.dropped => given'.dropped)
    BY <1>29, GivenStays DEF Next, JobStep, ArmingStep, TransitionStep, EndedStep, MonitorStep
  <2>2. UNCHANGED <<player, job, transition>>
    BY <1>29, Frames
  <2>3. ~given'.late => /\ ~given.late /\ player.state = "PLAYING"
                          /\ job.pc # "unreporting" /\ ended = NoEnd
    BY <1>29, NotesAreLate DEF MonitorNotesPlay
  <2>4. active' = Noted(player.track)
    BY <1>29 DEF MonitorNotesPlay
  <2>5. ~given'.late /\ active' # NoPlay => active'.runs /\ active'.track = player.track
    BY <2>3, <2>4, NotedIsHeard
  <2>6. monitor'.pc \in {"swapping", "sleep"} /\ player' = player
    BY <1>29 DEF MonitorNotesPlay, OnlyJob, OnlyMonitor, Typed, MonitorTyped
  <2>7. QED
    BY <2>1, <2>2, <2>3, <2>5, <2>6 DEF OpenHolds, Live
<1>30. CASE MonitorSwaps
  <2>1. (given.late => given'.late) /\ (given.dropped => given'.dropped)
    BY <1>30, GivenStays DEF Next, JobStep, ArmingStep, TransitionStep, EndedStep, MonitorStep
  <2>2. UNCHANGED <<player, job, transition>>
    BY <1>30, Frames
  <2>3. ~given'.late => /\ ~given.late /\ player.state = "PLAYING" /\ job.pc # "unreporting"
                          /\ ended = NoEnd /\ player.track = monitor.track
    BY <1>30, StoresAreLate DEF MonitorSwaps
  <2>4. active' = [track |-> monitor.track, runs |-> TRUE] /\ active' # NoPlay
    BY <1>30, NotedPlay DEF MonitorSwaps, Store
  <2>5. active'.runs /\ active'.track = monitor.track
    BY <2>4
  <2>6. QED
    BY <1>30, <2>1, <2>2, <2>3, <2>4, <2>5 DEF MonitorSwaps, NoEnd, OnlyMonitor, OpenHolds,
         NothingOpen, ActiveTyped, Typed, MonitorTyped, Live
<1>31. CASE MonitorNotesStop
  <2>1. (given.late => given'.late) /\ (given.dropped => given'.dropped)
    BY <1>31, GivenStays DEF Next, JobStep, ArmingStep, TransitionStep, EndedStep, MonitorStep
  <2>2. UNCHANGED <<player, job, transition>>
    BY <1>31, Frames
  <2>3. ~given'.late => ~given.late /\ player.state = "STOPPED" /\ job.pc # "unreporting"
    BY <1>31, NotesAreLate DEF MonitorNotesStop
  <2>4. QED
    BY <1>31, <2>1, <2>2, <2>3 DEF MonitorNotesStop, NoPlay, NoEnd, Sleep, OnlyMonitor, OpenHolds,
         NothingOpen, ActiveTyped, Typed, MonitorTyped, Live
<1>32. CASE MonitorArmed
  <2>1. (given.late => given'.late) /\ (given.dropped => given'.dropped)
    BY <1>32, GivenStays DEF Next, JobStep, ArmingStep, TransitionStep, EndedStep, MonitorStep
  <2>2. UNCHANGED <<given, player, active, job, transition>>
    BY <1>32, Frames
  <2>3. QED
    BY <1>32, <2>1, <2>2 DEF MonitorArmed, Sleep, OnlyMonitor, OpenHolds, NothingOpen,
         ActiveTyped, Typed, MonitorTyped, Live
<1>33. CASE Messages
  <2>1. (given.late => given'.late) /\ (given.dropped => given'.dropped)
    BY <1>33, GivenStays DEF Next, JobStep, ArmingStep, TransitionStep, EndedStep, MonitorStep
  <2>2. UNCHANGED <<given, player, active, monitor, transition>>
    BY <1>33, Frames
  <2>3. QED
    BY <1>33, <2>1, <2>2 DEF Messages, ReceiveSetState, NextGeneration, NoJob, Revoked, OpenHolds,
         NothingOpen, ActiveTyped, Typed, JobTyped, Jobs, Live
<1>. QED
  BY <1>1, <1>2, <1>3, <1>4, <1>5, <1>6, <1>7, <1>8, <1>9, <1>10, <1>11, <1>12, <1>13, <1>14,
     <1>15, <1>16, <1>17, <1>18, <1>19, <1>20, <1>21, <1>22, <1>23, <1>24, <1>25, <1>26, <1>27,
     <1>28, <1>29, <1>30, <1>31, <1>32, <1>33, Frames DEF Next, JobStep, ArmingStep,
       TransitionStep, EndedStep, MonitorStep, vars

\* A player that plays a track has a play open, but for a note, an end or a replacement
\* under way, or an item that follows.
Advancing == Advances(job) \/ \E i \in DOMAIN waiting : Advances(waiting[i])
PlayHolds ==
  ~given.late /\ ~given.dropped /\ player.state = "PLAYING" /\ player.track # None =>
    \/ active # NoPlay \/ ended # NoEnd \/ Advancing
    \/ job.pc \in {"notePlaying", "swapping", "unloading", "unreporting"}
    \/ monitor.pc \in {"notePlaying", "swapping"}
    \/ transition.pc \in {"quality", "swapping"}

\* An item that follows is played, given up (given.dropped) or replaced.
LEMMA AdvancingStays ==
  ASSUME Typed, [Next]_vars, Advancing, ~given'.dropped, player'.state = "PLAYING"
  PROVE  Advancing' \/ job'.pc = "unloading"
<1>1. CASE UNCHANGED <<job, waiting>>
  BY <1>1 DEF Advancing
<1>2. CASE TakePlaybackLock
  <2>1. waiting \in Seq(Waiting) /\ waiting # <<>>
    BY <1>2 DEF TakePlaybackLock, Typed, WaitingTyped
  <2>2. job = NoJob /\ job' = waiting[1] /\ waiting' = Tail(waiting)
    BY <1>2, <2>1 DEF TakePlaybackLock
  <2>3. \A i \in DOMAIN waiting :
          i = 1 \/ (i - 1 \in DOMAIN waiting' /\ waiting'[i - 1] = waiting[i])
    BY <2>1, <2>2
  <2>4. QED
    BY <2>2, <2>3 DEF Advancing, Advances, NoJob
<1>3. CASE Begin
  <2>1. waiting' = waiting
    BY <1>3, Frames
  <2>2. CASE Advances(job)
    <3>1. ~job.stale /\ Loads
      BY <1>3, <2>2 DEF Begin, Advances, Loads, Typed, GivenTyped, JobTyped, Jobs
    <3>2. player.state \in Live
      BY <1>3, <3>1 DEF Begin, Replace
    <3>3. job'.pc = "unloading"
      BY <1>3, <3>1, <3>2 DEF Begin, Go, Typed, JobTyped, Jobs
    <3>4. QED
      BY <3>3
  <2>3. CASE ~Advances(job)
    BY <2>1, <2>3 DEF Advancing
  <2>4. QED
    BY <2>2, <2>3
<1>4. CASE Unloaded
  <2>1. waiting' = waiting
    BY <1>4, Frames
  <2>2. ~Advances(job)
    BY <1>4 DEF Unloaded, Advances
  <2>3. QED
    BY <2>1, <2>2 DEF Advancing
<1>5. CASE Unreported
  <2>1. waiting' = waiting
    BY <1>5, Frames
  <2>2. ~Advances(job)
    BY <1>5 DEF Unreported, Advances
  <2>3. QED
    BY <2>1, <2>2 DEF Advancing
<1>6. CASE Loaded
  <2>1. waiting' = waiting
    BY <1>6, Frames
  <2>2. ~Advances(job)
    BY <1>6 DEF Loaded, Advances
  <2>3. QED
    BY <2>1, <2>2 DEF Advancing
<1>7. CASE Started
  <2>1. waiting' = waiting
    BY <1>7, Frames
  <2>2. ~Advances(job)
    BY <1>7 DEF Started, Advances
  <2>3. QED
    BY <2>1, <2>2 DEF Advancing
<1>8. CASE Resumed
  <2>1. waiting' = waiting
    BY <1>8, Frames
  <2>2. ~Advances(job)
    BY <1>8 DEF Resumed, Advances
  <2>3. QED
    BY <2>1, <2>2 DEF Advancing
<1>9. CASE PlayNoted
  <2>1. waiting' = waiting
    BY <1>9, Frames
  <2>2. ~Advances(job)
    BY <1>9 DEF PlayNoted, Advances
  <2>3. QED
    BY <2>1, <2>2 DEF Advancing
<1>10. CASE JobSwaps
  <2>1. waiting' = waiting
    BY <1>10, Frames
  <2>2. ~Advances(job)
    BY <1>10 DEF JobSwaps, Advances
  <2>3. QED
    BY <2>1, <2>2 DEF Advancing
<1>11. CASE Paused
  <2>1. waiting' = waiting
    BY <1>11, Frames
  <2>2. ~Advances(job)
    BY <1>11 DEF Paused, Advances
  <2>3. QED
    BY <2>1, <2>2 DEF Advancing
<1>12. CASE PauseNoted
  <2>1. waiting' = waiting
    BY <1>12, Frames
  <2>2. ~Advances(job)
    BY <1>12 DEF PauseNoted, Advances
  <2>3. QED
    BY <2>1, <2>2 DEF Advancing
<1>13. CASE Stopped
  <2>1. waiting' = waiting
    BY <1>13, Frames
  <2>2. ~Advances(job)
    BY <1>13 DEF Stopped, Advances
  <2>3. QED
    BY <2>1, <2>2 DEF Advancing
<1>14. CASE StopNoted
  <2>1. waiting' = waiting
    BY <1>14, Frames
  <2>2. ~Advances(job)
    BY <1>14 DEF StopNoted, Advances
  <2>3. QED
    BY <2>1, <2>2 DEF Advancing
<1>15. CASE JobEnds
  <2>1. waiting' = waiting
    BY <1>15, Frames
  <2>2. ~Advances(job)
    BY <1>15 DEF JobEnds, Advances
  <2>3. QED
    BY <2>1, <2>2 DEF Advancing
<1>16. CASE ReleaseExternalPlayback
  <2>1. player'.state = "STOPPED"
    BY <1>16 DEF ReleaseExternalPlayback, Typed, PlayerTyped
  <2>2. QED
    BY <2>1
<1>17. CASE EndedDecides
  <2>1. CASE UNCHANGED <<job, waiting>>
    BY <2>1 DEF Advancing
  <2>2. CASE ~UNCHANGED <<job, waiting>>
    <3> DEFINE j == [pc |-> "begin", want |-> "advance", track |-> next, stale |-> FALSE,
                     changed |-> FALSE]
    <3>1. NextGeneration(j) /\ next # None
      BY <1>17, <2>2 DEF EndedDecides
    <3>2. j \in Waiting
      BY <3>1 DEF Waiting, Jobs, Typed, PlayerTyped, TrackOrNone
    <3> HIDE DEF j
    <3>3. QED
      BY <3>1, <3>2, GenerationRepairs DEF Advancing
  <2>3. QED
    BY <2>1, <2>2
<1>18. CASE Messages
  <2>1. PICK want \in {"playing", "paused", "stopped", "none"}, t \in TrackOrNone,
             n \in TrackOrNone : ReceiveSetState(want, t, n)
    BY <1>18 DEF Messages, TrackOrNone
  <2> DEFINE j == [pc |-> "begin", want |-> want, track |-> t, stale |-> FALSE,
                   changed |-> n # next]
  <2>2. NextGeneration(j)
    BY <2>1 DEF ReceiveSetState
  <2>3. j \in Waiting
    BY DEF Waiting, Jobs
  <2> HIDE DEF j
  <2>4. QED
    BY <2>2, <2>3, GenerationRepairs DEF Advancing
<1>. QED
  BY <1>1, <1>2, <1>3, <1>4, <1>5, <1>6, <1>7, <1>8, <1>9, <1>10, <1>11, <1>12, <1>13, <1>14,
     <1>15, <1>16, <1>17, <1>18, Frames DEF Next, JobStep, ArmingStep, TransitionStep, EndedStep,
       MonitorStep, vars

\* Every step keeps it: what closes a play stops the player, opens another or follows an item.
LEMMA PlayHoldsStep ==
  ASSUME Typed, ActiveTyped, NothingOpen, PlayHolds, [Next]_vars
  PROVE  PlayHolds'
<1>1. CASE UNCHANGED <<given, player, active, ended, job, monitor, transition, waiting>>
  BY <1>1 DEF PlayHolds, Advancing
<1>2. CASE TakePlaybackLock
  <2>1. (given.late => given'.late) /\ (given.dropped => given'.dropped)
    BY <1>2, GivenStays DEF Next, JobStep, ArmingStep, TransitionStep, EndedStep, MonitorStep
  <2>2. UNCHANGED <<given, player, active, ended, monitor, transition>>
    BY <1>2, Frames
  <2>3. ~given'.dropped /\ player'.state = "PLAYING" /\ Advancing
        => Advancing' \/ job'.pc = "unloading"
    BY <1>2, AdvancingStays DEF Next, JobStep, ArmingStep, TransitionStep, EndedStep, MonitorStep
  <2>4. QED
    BY <2>3, <1>2, <2>1, <2>2 DEF TakePlaybackLock, NoJob, PlayHolds, NothingOpen, ActiveTyped,
         Typed, JobTyped, Jobs
<1>3. CASE Begin
  <2>1. (given.late => given'.late) /\ (given.dropped => given'.dropped)
    BY <1>3, GivenStays DEF Next, JobStep, ArmingStep, TransitionStep, EndedStep, MonitorStep
  <2>2. UNCHANGED <<active, monitor, transition>>
    BY <1>3, Frames
  <2>3. ~given'.dropped /\ player'.state = "PLAYING" /\ Advancing
        => Advancing' \/ job'.pc = "unloading"
    BY <1>3, AdvancingStays DEF Next, JobStep, ArmingStep, TransitionStep, EndedStep, MonitorStep
  <2>4. QED
    BY <2>3, <1>3, <2>1, <2>2 DEF Begin, Go, Loads, Cleared, Replace, Outdated, NoEnd, Finish,
         Starts, OnlyLoad, PlayHolds, NothingOpen, ActiveTyped, Typed, PlayerTyped, EndTyped,
         JobTyped, Jobs
<1>4. CASE Unloaded
  <2>1. (given.late => given'.late) /\ (given.dropped => given'.dropped)
    BY <1>4, GivenStays DEF Next, JobStep, ArmingStep, TransitionStep, EndedStep, MonitorStep
  <2>2. UNCHANGED <<given, monitor, transition>>
    BY <1>4, Frames
  <2>3. ~given'.dropped /\ player'.state = "PLAYING" /\ Advancing
        => Advancing' \/ job'.pc = "unloading"
    BY <1>4, AdvancingStays DEF Next, JobStep, ArmingStep, TransitionStep, EndedStep, MonitorStep
  <2>4. QED
    BY <2>3, <1>4, <2>1, <2>2 DEF Unloaded, Silent, NoPlay, Replace, Outdated, NoEnd, Go,
         OnlyLoad, PlayHolds, NothingOpen, ActiveTyped, Typed, PlayerTyped, EndTyped, JobTyped,
         Jobs
<1>5. CASE Unreported
  <2>1. (given.late => given'.late) /\ (given.dropped => given'.dropped)
    BY <1>5, GivenStays DEF Next, JobStep, ArmingStep, TransitionStep, EndedStep, MonitorStep
  <2>2. UNCHANGED <<given, active, monitor, transition>>
    BY <1>5, Frames
  <2>3. ~given'.dropped /\ player'.state = "PLAYING" /\ Advancing
        => Advancing' \/ job'.pc = "unloading"
    BY <1>5, AdvancingStays DEF Next, JobStep, ArmingStep, TransitionStep, EndedStep, MonitorStep
  <2>4. QED
    BY <2>3, <1>5, <2>1, <2>2 DEF Unreported, Replace, Outdated, NoEnd, Go, OnlyLoad, PlayHolds,
         NothingOpen, ActiveTyped, Typed, PlayerTyped, EndTyped, JobTyped, Jobs
<1>6. CASE Loaded
  <2>1. (given.late => given'.late) /\ (given.dropped => given'.dropped)
    BY <1>6, GivenStays DEF Next, JobStep, ArmingStep, TransitionStep, EndedStep, MonitorStep
  <2>2. UNCHANGED <<given, active, ended, monitor, transition>>
    BY <1>6, Frames
  <2>3. ~given'.dropped /\ player'.state = "PLAYING" /\ Advancing
        => Advancing' \/ job'.pc = "unloading"
    BY <1>6, AdvancingStays DEF Next, JobStep, ArmingStep, TransitionStep, EndedStep, MonitorStep
  <2>4. QED
    BY <2>3, <1>6, <2>1, <2>2 DEF Loaded, Go, Finish, Starts, Cleared, OnlyJob, OnlyLoad,
         PlayHolds, NothingOpen, ActiveTyped, Typed, PlayerTyped, JobTyped, Jobs
<1>7. CASE Started
  <2>1. (given.late => given'.late) /\ (given.dropped => given'.dropped)
    BY <1>7, GivenStays DEF Next, JobStep, ArmingStep, TransitionStep, EndedStep, MonitorStep
  <2>2. UNCHANGED <<active, ended, monitor, transition>>
    BY <1>7, Frames
  <2>3. ~given'.dropped /\ player'.state = "PLAYING" /\ Advancing
        => Advancing' \/ job'.pc = "unloading"
    BY <1>7, AdvancingStays DEF Next, JobStep, ArmingStep, TransitionStep, EndedStep, MonitorStep
  <2>4. QED
    BY <2>3, <1>7, <2>1, <2>2 DEF Started, Go, NoEnd, Superseded, OnlyJob, OnlyLoad, PlayHolds,
         NothingOpen, ActiveTyped, Typed, PlayerTyped, JobTyped, Jobs
<1>8. CASE Resumed
  <2>1. (given.late => given'.late) /\ (given.dropped => given'.dropped)
    BY <1>8, GivenStays DEF Next, JobStep, ArmingStep, TransitionStep, EndedStep, MonitorStep
  <2>2. UNCHANGED <<given, active, ended, monitor, transition>>
    BY <1>8, Frames
  <2>3. ~given'.dropped /\ player'.state = "PLAYING" /\ Advancing
        => Advancing' \/ job'.pc = "unloading"
    BY <1>8, AdvancingStays DEF Next, JobStep, ArmingStep, TransitionStep, EndedStep, MonitorStep
  <2>4. QED
    BY <2>3, <1>8, <2>1, <2>2 DEF Resumed, Go, OnlyJob, OnlyLoad, PlayHolds, NothingOpen,
         ActiveTyped, Typed, PlayerTyped, JobTyped, Jobs
<1>9. CASE PlayNoted
  <2>1. (given.late => given'.late) /\ (given.dropped => given'.dropped)
    BY <1>9, GivenStays DEF Next, JobStep, ArmingStep, TransitionStep, EndedStep, MonitorStep
  <2>2. UNCHANGED <<player, ended, monitor, transition>>
    BY <1>9, Frames
  <2>3. ~given'.late => /\ ~given.late /\ player.state = "PLAYING"
                          /\ job.pc # "unreporting" /\ ended = NoEnd
    BY <1>9, NotesAreLate DEF PlayNoted
  <2>4. active' = Noted(player.track)
    BY <1>9 DEF PlayNoted
  <2>5. ~given'.late /\ active' # NoPlay => active'.runs /\ active'.track = player.track
    BY <2>3, <2>4, NotedIsHeard
  <2>6. job'.pc \in {"swapping", "finished"} /\ player' = player
    BY <1>9 DEF PlayNoted, OnlyJob, OnlyMonitor, Typed, JobTyped, Jobs
  <2>7. ~given'.dropped /\ player'.state = "PLAYING" /\ Advancing
        => Advancing' \/ job'.pc = "unloading"
    BY <1>9, AdvancingStays DEF Next, JobStep, ArmingStep, TransitionStep, EndedStep, MonitorStep
  <2>8. ~given'.late /\ player.track # None => active' # NoPlay \/ MustEnd(player.track)
    BY <1>9, <2>3, NotedIsHeard DEF PlayNoted
  <2>9. MustEnd(player.track) => job'.pc = "swapping"
    BY <1>9 DEF PlayNoted, Typed, JobTyped, Jobs
  <2>10. QED
    BY <2>1, <2>2, <2>3, <2>6, <2>7, <2>8, <2>9 DEF PlayHolds
<1>10. CASE JobSwaps
  <2>1. (given.late => given'.late) /\ (given.dropped => given'.dropped)
    BY <1>10, GivenStays DEF Next, JobStep, ArmingStep, TransitionStep, EndedStep, MonitorStep
  <2>2. UNCHANGED <<player, ended, monitor, transition>>
    BY <1>10, Frames
  <2>3. ~given'.late => /\ ~given.late /\ player.state = "PLAYING" /\ job.pc # "unreporting"
                          /\ ended = NoEnd /\ player.track = job.track
    BY <1>10, StoresAreLate DEF JobSwaps
  <2>4. active' = [track |-> job.track, runs |-> TRUE] /\ active' # NoPlay
    BY <1>10, NotedPlay DEF JobSwaps, Store
  <2>5. active'.runs /\ active'.track = job.track
    BY <2>4
  <2>6. ~given'.dropped /\ player'.state = "PLAYING" /\ Advancing
        => Advancing' \/ job'.pc = "unloading"
    BY <1>10, AdvancingStays DEF Next, JobStep, ArmingStep, TransitionStep, EndedStep, MonitorStep
  <2>7. QED
    BY <2>6, <1>10, <2>1, <2>2, <2>3, <2>4, <2>5 DEF JobSwaps, NoEnd, Go, OnlyJob, OnlyLoad,
         PlayHolds, NothingOpen, ActiveTyped, Typed, JobTyped, Jobs
<1>11. CASE Paused
  <2>1. (given.late => given'.late) /\ (given.dropped => given'.dropped)
    BY <1>11, GivenStays DEF Next, JobStep, ArmingStep, TransitionStep, EndedStep, MonitorStep
  <2>2. UNCHANGED <<active, ended, monitor, transition>>
    BY <1>11, Frames
  <2>3. ~given'.dropped /\ player'.state = "PLAYING" /\ Advancing
        => Advancing' \/ job'.pc = "unloading"
    BY <1>11, AdvancingStays DEF Next, JobStep, ArmingStep, TransitionStep, EndedStep, MonitorStep
  <2>4. QED
    BY <2>3, <1>11, <2>1, <2>2 DEF Paused, Go, OnlyJob, OnlyLoad, PlayHolds, NothingOpen,
         ActiveTyped, Typed, PlayerTyped, JobTyped, Jobs
<1>12. CASE PauseNoted
  <2>1. (given.late => given'.late) /\ (given.dropped => given'.dropped)
    BY <1>12, GivenStays DEF Next, JobStep, ArmingStep, TransitionStep, EndedStep, MonitorStep
  <2>2. UNCHANGED <<player, ended, monitor, transition>>
    BY <1>12, Frames
  <2>3. ~given'.late => ~given.late /\ player.state = "PAUSED" /\ job.pc # "unreporting"
    BY <1>12, NotesAreLate DEF PauseNoted
  <2>4. ~given'.dropped /\ player'.state = "PLAYING" /\ Advancing
        => Advancing' \/ job'.pc = "unloading"
    BY <1>12, AdvancingStays DEF Next, JobStep, ArmingStep, TransitionStep, EndedStep, MonitorStep
  <2>5. QED
    BY <2>4, <1>12, <2>1, <2>2, <2>3 DEF PauseNoted, NotePaused, NoPlay, NoEnd, Go, OnlyJob,
         OnlyLoad, PlayHolds, NothingOpen, ActiveTyped, Typed, JobTyped, Jobs
<1>13. CASE Stopped
  <2>1. (given.late => given'.late) /\ (given.dropped => given'.dropped)
    BY <1>13, GivenStays DEF Next, JobStep, ArmingStep, TransitionStep, EndedStep, MonitorStep
  <2>2. UNCHANGED <<given, active, ended, monitor, transition>>
    BY <1>13, Frames
  <2>3. ~given'.dropped /\ player'.state = "PLAYING" /\ Advancing
        => Advancing' \/ job'.pc = "unloading"
    BY <1>13, AdvancingStays DEF Next, JobStep, ArmingStep, TransitionStep, EndedStep, MonitorStep
  <2>4. QED
    BY <2>3, <1>13, <2>1, <2>2 DEF Stopped, Silent, Go, OnlyJob, OnlyLoad, PlayHolds, NothingOpen,
         ActiveTyped, Typed, PlayerTyped, JobTyped, Jobs
<1>14. CASE StopNoted
  <2>1. (given.late => given'.late) /\ (given.dropped => given'.dropped)
    BY <1>14, GivenStays DEF Next, JobStep, ArmingStep, TransitionStep, EndedStep, MonitorStep
  <2>2. UNCHANGED <<player, ended, monitor, transition>>
    BY <1>14, Frames
  <2>3. ~given'.late => ~given.late /\ player.state = "STOPPED" /\ job.pc # "unreporting"
    BY <1>14, NotesAreLate DEF StopNoted
  <2>4. ~given'.dropped /\ player'.state = "PLAYING" /\ Advancing
        => Advancing' \/ job'.pc = "unloading"
    BY <1>14, AdvancingStays DEF Next, JobStep, ArmingStep, TransitionStep, EndedStep, MonitorStep
  <2>5. QED
    BY <2>4, <1>14, <2>1, <2>2, <2>3 DEF StopNoted, NoPlay, NoEnd, Go, OnlyJob, OnlyLoad,
         PlayHolds, NothingOpen, ActiveTyped, Typed, JobTyped, Jobs
<1>15. CASE JobEnds
  <2>1. (given.late => given'.late) /\ (given.dropped => given'.dropped)
    BY <1>15, GivenStays DEF Next, JobStep, ArmingStep, TransitionStep, EndedStep, MonitorStep
  <2>2. UNCHANGED <<given, player, active, ended, monitor, transition>>
    BY <1>15, Frames
  <2>3. ~given'.dropped /\ player'.state = "PLAYING" /\ Advancing
        => Advancing' \/ job'.pc = "unloading"
    BY <1>15, AdvancingStays DEF Next, JobStep, ArmingStep, TransitionStep, EndedStep, MonitorStep
  <2>4. QED
    BY <2>3, <1>15, <2>1, <2>2 DEF JobEnds, NoJob, InfoChanged, AskArmLock, NoHold, Enter,
         Cleared, PlayHolds, NothingOpen, ActiveTyped, Typed, JobTyped, Jobs
<1>16. CASE BackendAdvances
  <2>1. (given.late => given'.late) /\ (given.dropped => given'.dropped)
    BY <1>16, GivenStays DEF Next, JobStep, ArmingStep, TransitionStep, EndedStep, MonitorStep
  <2>2. UNCHANGED <<active, job, monitor>>
    BY <1>16, Frames
  <2>3. ~given'.dropped /\ player'.state = "PLAYING" /\ Advancing
        => Advancing' \/ job'.pc = "unloading"
    BY <1>16, AdvancingStays DEF Next, JobStep, ArmingStep, TransitionStep, EndedStep, MonitorStep
  <2>4. QED
    BY <2>3, <1>16, <2>1, <2>2 DEF BackendAdvances, Settled, NoMove, TransitionRuns, Outdated,
         NoEnd, PlayHolds, NothingOpen, ActiveTyped, Typed, PlayerTyped, EndTyped, MoveTyped
<1>17. CASE BackendEnds
  <2>1. (given.late => given'.late) /\ (given.dropped => given'.dropped)
    BY <1>17, GivenStays DEF Next, JobStep, ArmingStep, TransitionStep, EndedStep, MonitorStep
  <2>2. UNCHANGED <<given, player, job, monitor, transition>>
    BY <1>17, Frames
  <2>3. ~given'.dropped /\ player'.state = "PLAYING" /\ Advancing
        => Advancing' \/ job'.pc = "unloading"
    BY <1>17, AdvancingStays DEF Next, JobStep, ArmingStep, TransitionStep, EndedStep, MonitorStep
  <2>4. QED
    BY <2>3, <1>17, <2>1, <2>2 DEF BackendEnds, NoEnd, Settled, NoMove, Silent, EndedRuns,
         Cleared, NoPlay, PlayHolds, NothingOpen, ActiveTyped, Typed, EndTyped
<1>18. CASE ReleaseExternalPlayback
  <2>1. (given.late => given'.late) /\ (given.dropped => given'.dropped)
    BY <1>18, GivenStays DEF Next, JobStep, ArmingStep, TransitionStep, EndedStep, MonitorStep
  <2>2. UNCHANGED <<given, monitor, transition>>
    BY <1>18, Frames
  <2>3. ~given'.dropped /\ player'.state = "PLAYING" /\ Advancing
        => Advancing' \/ job'.pc = "unloading"
    BY <1>18, AdvancingStays DEF Next, JobStep, ArmingStep, TransitionStep, EndedStep, MonitorStep
  <2>4. QED
    BY <2>3, <1>18, <2>1, <2>2 DEF ReleaseExternalPlayback, Silent, Cleared, NoJob, Outdated,
         NoEnd, NoPlay, PlayHolds, NothingOpen, ActiveTyped, Typed, PlayerTyped, EndTyped,
         JobTyped, Jobs
<1>19. CASE TransitionReports
  <2>1. (given.late => given'.late) /\ (given.dropped => given'.dropped)
    BY <1>19, GivenStays DEF Next, JobStep, ArmingStep, TransitionStep, EndedStep, MonitorStep
  <2>2. UNCHANGED <<player, ended, job, monitor>>
    BY <1>19, Frames
  <2>3. ~given'.late => /\ ~given.late /\ player.state = "PLAYING"
                          /\ job.pc # "unreporting" /\ ended = NoEnd
    BY <1>19, NotesAreLate DEF TransitionReports
  <2>4. active' = Noted(player.track)
    BY <1>19 DEF TransitionReports
  <2>5. ~given'.late /\ active' # NoPlay => active'.runs /\ active'.track = player.track
    BY <2>3, <2>4, NotedIsHeard
  <2>6. transition'.pc \in {"swapping", "update"} /\ player' = player
    BY <1>19 DEF TransitionReports, OnlyJob, OnlyMonitor, Typed, MoveTyped
  <2>7. ~given'.dropped /\ player'.state = "PLAYING" /\ Advancing
        => Advancing' \/ job'.pc = "unloading"
    BY <1>19, AdvancingStays DEF Next, JobStep, ArmingStep, TransitionStep, EndedStep, MonitorStep
  <2>8. ~given'.late /\ player.track # None => active' # NoPlay \/ MustEnd(player.track)
    BY <1>19, <2>3, NotedIsHeard DEF TransitionReports
  <2>9. MustEnd(player.track) => transition'.pc = "swapping"
    BY <1>19 DEF TransitionReports, Typed, MoveTyped
  <2>10. QED
    BY <2>1, <2>2, <2>3, <2>6, <2>7, <2>8, <2>9 DEF PlayHolds
<1>20. CASE TransitionSwaps
  <2>1. (given.late => given'.late) /\ (given.dropped => given'.dropped)
    BY <1>20, GivenStays DEF Next, JobStep, ArmingStep, TransitionStep, EndedStep, MonitorStep
  <2>2. UNCHANGED <<player, ended, job, monitor>>
    BY <1>20, Frames
  <2>3. ~given'.late => /\ ~given.late /\ player.state = "PLAYING" /\ job.pc # "unreporting"
                          /\ ended = NoEnd /\ player.track = transition.track
    BY <1>20, StoresAreLate DEF TransitionSwaps
  <2>4. active' = [track |-> transition.track, runs |-> TRUE] /\ active' # NoPlay
    BY <1>20, NotedPlay DEF TransitionSwaps, Store
  <2>5. active'.runs /\ active'.track = transition.track
    BY <2>4
  <2>6. ~given'.dropped /\ player'.state = "PLAYING" /\ Advancing
        => Advancing' \/ job'.pc = "unloading"
    BY <1>20, AdvancingStays DEF Next, JobStep, ArmingStep, TransitionStep, EndedStep, MonitorStep
  <2>7. QED
    BY <2>6, <1>20, <2>1, <2>2, <2>3, <2>4, <2>5 DEF TransitionSwaps, NoEnd, PlayHolds,
         NothingOpen, ActiveTyped, Typed, MoveTyped
<1>21. CASE TransitionEnds
  <2>1. (given.late => given'.late) /\ (given.dropped => given'.dropped)
    BY <1>21, GivenStays DEF Next, JobStep, ArmingStep, TransitionStep, EndedStep, MonitorStep
  <2>2. UNCHANGED <<given, player, active, ended, job, monitor>>
    BY <1>21, Frames
  <2>3. ~given'.dropped /\ player'.state = "PLAYING" /\ Advancing
        => Advancing' \/ job'.pc = "unloading"
    BY <1>21, AdvancingStays DEF Next, JobStep, ArmingStep, TransitionStep, EndedStep, MonitorStep
  <2>4. QED
    BY <2>3, <1>21, <2>1, <2>2 DEF TransitionEnds, NoMove, PrepareNext, AskArmLock, NoHold, Enter,
         Cleared, PlayHolds, NothingOpen, ActiveTyped, Typed, MoveTyped
<1>22. CASE EndedDecides
  <2>1. (given.late => given'.late) /\ (given.dropped => given'.dropped)
    BY <1>22, GivenStays DEF Next, JobStep, ArmingStep, TransitionStep, EndedStep, MonitorStep
  <2>2. UNCHANGED <<active, monitor, transition>>
    BY <1>22, Frames
  <2>3. CASE Superseded
    <3>1. player' = player /\ (player.state = "PLAYING" => given'.dropped)
      BY <1>22, <2>3 DEF EndedDecides, Typed, GivenTyped
    <3>2. QED
      BY <3>1 DEF PlayHolds
  <2>4. CASE ~Superseded /\ next # None
    <3> DEFINE j == [pc |-> "begin", want |-> "advance", track |-> next, stale |-> FALSE,
                     changed |-> FALSE]
    <3>1. NextGeneration(j)
      BY <1>22, <2>4 DEF EndedDecides
    <3>2. j \in Waiting /\ Advances(j)
      BY <2>4 DEF Waiting, Jobs, Typed, PlayerTyped, TrackOrNone, Advances
    <3> HIDE DEF j
    <3>3. Advancing'
      BY <3>1, <3>2, GenerationRepairs DEF Advancing
    <3>4. QED
      BY <3>3 DEF PlayHolds
  <2>5. CASE ~Superseded /\ next = None
    <3>1. player'.state = "STOPPED"
      BY <1>22, <2>5 DEF EndedDecides
    <3>2. QED
      BY <3>1 DEF PlayHolds
  <2>6. QED
    BY <2>3, <2>4, <2>5
<1>23. CASE MonitorWakes
  <2>1. (given.late => given'.late) /\ (given.dropped => given'.dropped)
    BY <1>23, GivenStays DEF Next, JobStep, ArmingStep, TransitionStep, EndedStep, MonitorStep
  <2>2. UNCHANGED <<given, player, active, ended, job, transition>>
    BY <1>23, Frames
  <2>3. ~given'.dropped /\ player'.state = "PLAYING" /\ Advancing
        => Advancing' \/ job'.pc = "unloading"
    BY <1>23, AdvancingStays DEF Next, JobStep, ArmingStep, TransitionStep, EndedStep, MonitorStep
  <2>4. QED
    BY <2>3, <1>23, <2>1, <2>2 DEF MonitorWakes, OnlyMonitor, PlayHolds, NothingOpen, ActiveTyped,
         Typed, MonitorTyped
<1>24. CASE PollReturns
  <2>1. (given.late => given'.late) /\ (given.dropped => given'.dropped)
    BY <1>24, GivenStays DEF Next, JobStep, ArmingStep, TransitionStep, EndedStep, MonitorStep
  <2>2. UNCHANGED <<given, active, ended, job, transition>>
    BY <1>24, Frames
  <2>3. ~given'.dropped /\ player'.state = "PLAYING" /\ Advancing
        => Advancing' \/ job'.pc = "unloading"
    BY <1>24, AdvancingStays DEF Next, JobStep, ArmingStep, TransitionStep, EndedStep, MonitorStep
  <2>4. QED
    BY <2>3, <1>24, <2>1, <2>2 DEF PollReturns, Sleep, OnlyMonitor, PlayHolds, NothingOpen,
         ActiveTyped, Typed, PlayerTyped, MonitorTyped
<1>25. CASE MonitorNotesPause
  <2>1. (given.late => given'.late) /\ (given.dropped => given'.dropped)
    BY <1>25, GivenStays DEF Next, JobStep, ArmingStep, TransitionStep, EndedStep, MonitorStep
  <2>2. UNCHANGED <<player, ended, job, transition>>
    BY <1>25, Frames
  <2>3. ~given'.late => ~given.late /\ player.state = "PAUSED" /\ job.pc # "unreporting"
    BY <1>25, NotesAreLate DEF MonitorNotesPause
  <2>4. ~given'.dropped /\ player'.state = "PLAYING" /\ Advancing
        => Advancing' \/ job'.pc = "unloading"
    BY <1>25, AdvancingStays DEF Next, JobStep, ArmingStep, TransitionStep, EndedStep, MonitorStep
  <2>5. QED
    BY <2>4, <1>25, <2>1, <2>2, <2>3 DEF MonitorNotesPause, NotePaused, NoPlay, NoEnd,
         OnlyMonitor, PlayHolds, NothingOpen, ActiveTyped, Typed, MonitorTyped
<1>26. CASE PositionRead
  <2>1. (given.late => given'.late) /\ (given.dropped => given'.dropped)
    BY <1>26, GivenStays DEF Next, JobStep, ArmingStep, TransitionStep, EndedStep, MonitorStep
  <2>2. UNCHANGED <<given, player, active, ended, job, transition>>
    BY <1>26, Frames
  <2>3. ~given'.dropped /\ player'.state = "PLAYING" /\ Advancing
        => Advancing' \/ job'.pc = "unloading"
    BY <1>26, AdvancingStays DEF Next, JobStep, ArmingStep, TransitionStep, EndedStep, MonitorStep
  <2>4. QED
    BY <2>3, <1>26, <2>1, <2>2 DEF PositionRead, PrepareNext, AskArmLock, NoHold, Enter, Cleared,
         Sleep, OnlyMonitor, PlayHolds, NothingOpen, ActiveTyped, Typed, MonitorTyped
<1>27. CASE PausedPollReturns
  <2>1. (given.late => given'.late) /\ (given.dropped => given'.dropped)
    BY <1>27, GivenStays DEF Next, JobStep, ArmingStep, TransitionStep, EndedStep, MonitorStep
  <2>2. UNCHANGED <<active, ended, job, transition>>
    BY <1>27, Frames
  <2>3. ~given'.dropped /\ player'.state = "PLAYING" /\ Advancing
        => Advancing' \/ job'.pc = "unloading"
    BY <1>27, AdvancingStays DEF Next, JobStep, ArmingStep, TransitionStep, EndedStep, MonitorStep
  <2>4. QED
    BY <2>3, <1>27, <2>1, <2>2 DEF PausedPollReturns, Sleep, PausedSeesPlay, NoJob,
         PausedSeesStop, Confirmed, PausedCounts, OnlyMonitor, PlayHolds, NothingOpen,
         ActiveTyped, Typed, PlayerTyped, MonitorTyped
<1>28. CASE MonitorResumes
  <2>1. (given.late => given'.late) /\ (given.dropped => given'.dropped)
    BY <1>28, GivenStays DEF Next, JobStep, ArmingStep, TransitionStep, EndedStep, MonitorStep
  <2>2. UNCHANGED <<given, active, ended, job, transition>>
    BY <1>28, Frames
  <2>3. ~given'.dropped /\ player'.state = "PLAYING" /\ Advancing
        => Advancing' \/ job'.pc = "unloading"
    BY <1>28, AdvancingStays DEF Next, JobStep, ArmingStep, TransitionStep, EndedStep, MonitorStep
  <2>4. QED
    BY <2>3, <1>28, <2>1, <2>2 DEF MonitorResumes, Sleep, OnlyMonitor, PlayHolds, NothingOpen,
         ActiveTyped, Typed, PlayerTyped, MonitorTyped
<1>29. CASE MonitorNotesPlay
  <2>1. (given.late => given'.late) /\ (given.dropped => given'.dropped)
    BY <1>29, GivenStays DEF Next, JobStep, ArmingStep, TransitionStep, EndedStep, MonitorStep
  <2>2. UNCHANGED <<player, ended, job, transition>>
    BY <1>29, Frames
  <2>3. ~given'.late => /\ ~given.late /\ player.state = "PLAYING"
                          /\ job.pc # "unreporting" /\ ended = NoEnd
    BY <1>29, NotesAreLate DEF MonitorNotesPlay
  <2>4. active' = Noted(player.track)
    BY <1>29 DEF MonitorNotesPlay
  <2>5. ~given'.late /\ active' # NoPlay => active'.runs /\ active'.track = player.track
    BY <2>3, <2>4, NotedIsHeard
  <2>6. monitor'.pc \in {"swapping", "sleep"} /\ player' = player
    BY <1>29 DEF MonitorNotesPlay, OnlyJob, OnlyMonitor, Typed, MonitorTyped
  <2>7. ~given'.dropped /\ player'.state = "PLAYING" /\ Advancing
        => Advancing' \/ job'.pc = "unloading"
    BY <1>29, AdvancingStays DEF Next, JobStep, ArmingStep, TransitionStep, EndedStep, MonitorStep
  <2>8. ~given'.late /\ player.track # None => active' # NoPlay \/ MustEnd(player.track)
    BY <1>29, <2>3, NotedIsHeard DEF MonitorNotesPlay
  <2>9. MustEnd(player.track) => monitor'.pc = "swapping"
    BY <1>29 DEF MonitorNotesPlay, Typed, MonitorTyped
  <2>10. QED
    BY <2>1, <2>2, <2>3, <2>6, <2>7, <2>8, <2>9 DEF PlayHolds
<1>30. CASE MonitorSwaps
  <2>1. (given.late => given'.late) /\ (given.dropped => given'.dropped)
    BY <1>30, GivenStays DEF Next, JobStep, ArmingStep, TransitionStep, EndedStep, MonitorStep
  <2>2. UNCHANGED <<player, ended, job, transition>>
    BY <1>30, Frames
  <2>3. ~given'.late => /\ ~given.late /\ player.state = "PLAYING" /\ job.pc # "unreporting"
                          /\ ended = NoEnd /\ player.track = monitor.track
    BY <1>30, StoresAreLate DEF MonitorSwaps
  <2>4. active' = [track |-> monitor.track, runs |-> TRUE] /\ active' # NoPlay
    BY <1>30, NotedPlay DEF MonitorSwaps, Store
  <2>5. active'.runs /\ active'.track = monitor.track
    BY <2>4
  <2>6. ~given'.dropped /\ player'.state = "PLAYING" /\ Advancing
        => Advancing' \/ job'.pc = "unloading"
    BY <1>30, AdvancingStays DEF Next, JobStep, ArmingStep, TransitionStep, EndedStep, MonitorStep
  <2>7. QED
    BY <2>6, <1>30, <2>1, <2>2, <2>3, <2>4, <2>5 DEF MonitorSwaps, NoEnd, OnlyMonitor, PlayHolds,
         NothingOpen, ActiveTyped, Typed, MonitorTyped
<1>31. CASE MonitorNotesStop
  <2>1. (given.late => given'.late) /\ (given.dropped => given'.dropped)
    BY <1>31, GivenStays DEF Next, JobStep, ArmingStep, TransitionStep, EndedStep, MonitorStep
  <2>2. UNCHANGED <<player, ended, job, transition>>
    BY <1>31, Frames
  <2>3. ~given'.late => ~given.late /\ player.state = "STOPPED" /\ job.pc # "unreporting"
    BY <1>31, NotesAreLate DEF MonitorNotesStop
  <2>4. ~given'.dropped /\ player'.state = "PLAYING" /\ Advancing
        => Advancing' \/ job'.pc = "unloading"
    BY <1>31, AdvancingStays DEF Next, JobStep, ArmingStep, TransitionStep, EndedStep, MonitorStep
  <2>5. QED
    BY <2>4, <1>31, <2>1, <2>2, <2>3 DEF MonitorNotesStop, NoPlay, NoEnd, Sleep, OnlyMonitor,
         PlayHolds, NothingOpen, ActiveTyped, Typed, MonitorTyped
<1>32. CASE MonitorArmed
  <2>1. (given.late => given'.late) /\ (given.dropped => given'.dropped)
    BY <1>32, GivenStays DEF Next, JobStep, ArmingStep, TransitionStep, EndedStep, MonitorStep
  <2>2. UNCHANGED <<given, player, active, ended, job, transition>>
    BY <1>32, Frames
  <2>3. ~given'.dropped /\ player'.state = "PLAYING" /\ Advancing
        => Advancing' \/ job'.pc = "unloading"
    BY <1>32, AdvancingStays DEF Next, JobStep, ArmingStep, TransitionStep, EndedStep, MonitorStep
  <2>4. QED
    BY <2>3, <1>32, <2>1, <2>2 DEF MonitorArmed, Sleep, OnlyMonitor, PlayHolds, NothingOpen,
         ActiveTyped, Typed, MonitorTyped
<1>33. CASE Messages
  <2>1. (given.late => given'.late) /\ (given.dropped => given'.dropped)
    BY <1>33, GivenStays DEF Next, JobStep, ArmingStep, TransitionStep, EndedStep, MonitorStep
  <2>2. UNCHANGED <<given, player, active, monitor, transition>>
    BY <1>33, Frames
  <2>3. \E j : NextGeneration(j) /\ Outdated
    BY <1>33 DEF Messages, ReceiveSetState
  <2>4. job'.pc = job.pc /\ (ended # NoEnd => ended' # NoEnd)
    BY <2>3 DEF NextGeneration, Revoked, Outdated, NoJob, NoEnd, Typed, JobTyped, Jobs, EndTyped
  <2>5. ~given'.dropped /\ player'.state = "PLAYING" /\ Advancing
        => Advancing' \/ job'.pc = "unloading"
    BY <1>33, AdvancingStays DEF Next, JobStep, ArmingStep, TransitionStep, EndedStep, MonitorStep
  <2>6. QED
    BY <2>2, <2>4, <2>5 DEF PlayHolds
<1>. QED
  BY <1>1, <1>2, <1>3, <1>4, <1>5, <1>6, <1>7, <1>8, <1>9, <1>10, <1>11, <1>12, <1>13, <1>14,
     <1>15, <1>16, <1>17, <1>18, <1>19, <1>20, <1>21, <1>22, <1>23, <1>24, <1>25, <1>26, <1>27,
     <1>28, <1>29, <1>30, <1>31, <1>32, <1>33, Frames DEF Next, JobStep, ArmingStep,
       TransitionStep, EndedStep, MonitorStep, vars

-----------------------------------------------------------------------------
\* The inductive invariant.
GaplessInv ==
  /\ Typed /\ ArmingHolds /\ DeviceHolds /\ QueuedHolds /\ ToldHolds /\ CountHolds
  /\ ActiveTyped /\ NothingOpen /\ ClockHolds /\ OpenHolds /\ PlayHolds

\* It holds initially: nothing plays, nothing is armed and nothing is open.
LEMMA InvInit ==
  ASSUME Init
  PROVE  GaplessInv
<1>1. ArmingHolds /\ QueuedHolds
  BY DEF Init, ArmingHolds, QueuedHolds, NoHold, ArmingPcs, Silent
<1>2. DeviceHolds /\ ToldHolds
  BY DEF Init, DeviceHolds, ToldHolds, Silent
<1>3. CountHolds
  BY DEF Init, CountHolds
<1>4. ActiveTyped
  BY DEF Init, ActiveTyped, NoPlay, TrackOrNone, NoJob, NoMove
<1>5. NothingOpen /\ ClockHolds /\ OpenHolds /\ PlayHolds
  BY DEF Init, NothingOpen, ClockHolds, OpenHolds, PlayHolds, NoJob
<1>6. QED
  BY <1>1, <1>2, <1>3, <1>4, <1>5, InitTyped DEF GaplessInv

\* Every step keeps it.
LEMMA InvStep ==
  ASSUME GaplessInv, [Next]_vars
  PROVE  GaplessInv'
BY StepTyped, ArmingHoldsStep, DeviceHoldsStep, QueuedHoldsStep, ToldHoldsStep, CountHoldsStep,
   ActiveTypedStep, NothingOpenStep, ClockHoldsStep, OpenHoldsStep, PlayHoldsStep DEF GaplessInv

\* The inductive invariant of the gapless machinery holds in every reachable state.
THEOREM GaplessIsRight == Spec => []GaplessInv
<1>1. Init => GaplessInv
  BY InvInit
<1>2. GaplessInv /\ [Next]_vars => GaplessInv'
  BY InvStep
<1>. QED
  BY <1>1, <1>2, PTL DEF Spec

\* When nothing is under way nothing repairs the arming any more, and nobody is about to
\* clear the device.
LEMMA QuietArming ==
  ASSUME GaplessInv
  PROVE  ArmedFollowsApp /\ QueuedIsArmed
<1>1. ArmedFollowsApp
  <2>1. Quiet /\ ~given.dropped => ~Repaired
    BY DEF Quiet, Repaired, JobRepairs, Advances, NoJob
  <2>2. QED
    BY <2>1 DEF GaplessInv, ArmingHolds, ArmedFollowsApp
<1>2. QueuedIsArmed
  BY DEF GaplessInv, QueuedHolds, QueuedIsArmed, Quiet, NoHold, NoJob
<1>3. QED
  BY <1>1, <1>2

\* What is armed, here and on the device, is the app's next item, however SET_STATEs,
\* armings, transitions and commands overlap (_prepare_next_track_for_gapless,
\* on_next_track_info_changed).
THEOREM ArmingStaysRight == Spec => []ArmingIsRight
<1>1. GaplessInv => ArmingIsRight
  BY QuietArming, TypedIsTypeOK DEF GaplessInv, ArmingIsRight
<1>. QED
  BY <1>1, GaplessIsRight, PTL

\* The player believes in the track that is heard, and the app is told what the player has
\* (_handle_gapless_transition, state_reporter.py).
THEOREM ToldStaysHeard == Spec => []ToldIsHeard
<1>1. GaplessInv => TransitionsFollowed
  BY DEF GaplessInv, DeviceHolds, TransitionsFollowed
<1>2. GaplessInv => ReportsAreTrue
  BY DEF GaplessInv, ToldHolds, ReportsAreTrue, Quiet, NoJob
<1>3. GaplessInv => ToldIsHeard
  BY <1>1, <1>2 DEF ToldIsHeard
<1>. QED
  BY <1>3, GaplessIsRight, PTL

\* The listening history: a play is open for what is heard, and only listening counts
\* (play_reporter.py).
THEOREM HistoryStaysTrue == Spec => []HistoryIsTrue
<1>1. GaplessInv => ClockRuns
  BY DEF GaplessInv, ClockHolds, ClockRuns, Quiet, NoJob
<1>2. GaplessInv => OpenPlayIsHeard
  <2>1. Quiet => ~Advancing
    BY DEF Quiet, Advancing, Advances, NoJob
  <2>2. QED
    BY <2>1 DEF GaplessInv, OpenHolds, PlayHolds, OpenPlayIsHeard, Quiet, NoJob, NoMove
<1>3. GaplessInv => HistoryIsTrue
  BY <1>1, <1>2 DEF HistoryIsTrue
<1>. QED
  BY <1>3, GaplessIsRight, PTL

\* A paused listen is ended by the monitor only if the device has stopped: fewer failed reads
\* than confirmations do not end it (_playback_monitor_loop).
LEMMA StopsAreReal ==
  ASSUME GaplessInv, [Next]_vars, monitor.pc = "pausedPolling", monitor'.pc = "noteStopped",
         used'.bad < StopConfirmations, ~given.carried
  PROVE  backend.mode = "stopped"
<1>1. PausedPollReturns
  <2>1. monitor' # monitor
    OBVIOUS
  <2>2. ~MonitorWakes
    BY DEF MonitorWakes
  <2>3. ~PollReturns
    BY DEF PollReturns, Sleep
  <2>4. ~MonitorNotesPause
    BY DEF MonitorNotesPause
  <2>5. ~PositionRead
    BY DEF PositionRead, Sleep
  <2>6. ~MonitorResumes
    BY DEF MonitorResumes, Sleep
  <2>7. ~MonitorNotesPlay
    BY DEF MonitorNotesPlay
  <2>8. ~MonitorSwaps
    BY DEF MonitorSwaps
  <2>9. ~MonitorNotesStop
    BY DEF MonitorNotesStop, Sleep
  <2>10. ~MonitorArmed
    BY DEF MonitorArmed, Sleep
  <2>11. QED
    BY <2>1, <2>2, <2>3, <2>4, <2>5, <2>6, <2>7, <2>8, <2>9, <2>10, Frames
    DEF Next, JobStep, ArmingStep, TransitionStep, EndedStep, MonitorStep, vars
<1>2. PICK mode \in {"stopped", "playing", "paused"} :
        /\ Reads(mode)
        /\ player.state = "PAUSED" /\ mode = "stopped" /\ Confirmed
  BY <1>1 DEF PausedPollReturns, Sleep, PausedSeesPlay, PausedSeesStop, PausedCounts, GaplessInv,
       Typed, MonitorTyped
<1>3. SUFFICES ASSUME backend.mode # "stopped"
               PROVE  FALSE
  OBVIOUS
<1>4. used'.bad = used.bad + 1 /\ backend.track # None
  BY <1>2, <1>3 DEF Reads, Uses, GaplessInv, Typed, UsedTyped, BackendTyped
<1>5. monitor.stops <= used.bad
  BY <1>2, <1>4 DEF GaplessInv, CountHolds
<1>6. /\ monitor.stops \in Nat /\ used.bad \in Nat /\ StopConfirmations \in Nat
      /\ monitor.stops + 1 >= StopConfirmations
  BY <1>2, GaplessAssumption DEF Confirmed, GaplessInv, Typed, MonitorTyped, UsedTyped
<1>7. QED
  BY <1>4, <1>5, <1>6

\* The same for every step of every behaviour.
THEOREM PausedListensSurvive == Spec => PausedListenSurvives
<1>1. GaplessInv /\ [Next]_vars =>
        [/\ monitor.pc = "pausedPolling" /\ monitor'.pc = "noteStopped"
         /\ used'.bad < StopConfirmations /\ ~given.carried
         => backend.mode = "stopped"]_vars
  BY StopsAreReal
<1>. QED
  BY <1>1, GaplessIsRight, PTL DEF Spec, PausedListenSurvives
=============================================================================
