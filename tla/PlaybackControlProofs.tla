----------------------- MODULE PlaybackControlProofs -----------------------
(***************************************************************************)
(* Proofs about PlaybackControl, for all tracks, skip limits and bounds.   *)
(* The last part is the newest command: what the parts before it know      *)
(* about numbers, lock, queue and sound makes it win.                      *)
(***************************************************************************)
EXTENDS PlaybackControl, TLAPS

Item == Tracks \cup {NoTrack}
WantOrNone == {"stopped", "playing", "paused", "none"}
Pcs == {"none", "waiting", "permission", "unloading", "loading", "seeking", "announcing", "starting",
        "resuming", "pausing", "stopping", "halting", "reloading", "reporting", "skipping"}
Commands == {"apply", "stop", "reload", "advance", "restart", "skip"}
Job == [kind : Commands \cup {"none", "timeout"}, gen : Nat, track : Item, want : WantOrNone, pc : Pcs]
Player == [state : Playbacks, track : Item, loaded : BOOLEAN, skip : Item, skips : 0 .. MaxSkips]
Entry == [msg : Messages, gen : Nat, tag : {0}]
End == [pc : {"none", "created", "reporting"}, track : Item, gen : Nat, ahead : [task : Nat, job : Nat]]
Use == [messages : Nat, drops : Nat, ends : Nat, errors : Nat]
Given == [end : BOOLEAN, race : BOOLEAN, loading : BOOLEAN, failed : BOOLEAN]

\* A command in hand or in the queue; an advance has an item to advance to.
Waiter(j) == j \in Job /\ j.kind \in Commands /\ (j.kind = "advance" => j.track # NoTrack)

\* What the holder of the lock is: nobody, or a command at an await.
Holder(j) ==
  /\ j \in Job
  /\ j.pc = "none" => j = NoJob
  /\ j.kind = "advance" => j.track # NoTrack
  /\ j.pc = "permission" => j.kind = "apply"
  /\ j.pc \in {"unloading", "loading"} => j.kind \in {"apply", "advance"} /\ j.track # NoTrack

Types ==
  /\ TypeOK
  /\ Holder(job)
  /\ waiting \in Seq(Job) /\ \A i \in DOMAIN waiting : Waiter(waiting[i])
  /\ inbox \in Seq(Entry)
  /\ ended \in End /\ (ended.pc = "none" => ended = NoEnd)
  /\ goal \in [want : WantOrNone, track : Item]
  /\ used \in Use

-----------------------------------------------------------------------------
(***************************************************************************)
(* What the parts of a command between two awaits leave: types.            *)
(***************************************************************************)
\* The command goes on to an await: only its pc changes.
LEMMA GoTypes ==
  ASSUME NEW j \in Job, NEW p \in Player, NEW pc \in Pcs \ {"none"}, Go(j, p, pc),
         j.kind = "advance" => j.track # NoTrack,
         pc = "permission" => j.kind = "apply",
         pc \in {"unloading", "loading"} => j.kind \in {"apply", "advance"} /\ j.track # NoTrack
  PROVE  Holder(job') /\ player' \in Player
<1>1. /\ job' \in Job /\ job'.pc = pc /\ job'.kind = j.kind /\ job'.track = j.track
  BY DEF Go, Job
<1>2. QED
  BY <1>1 DEF Go, Holder

LEMMA DoneTypes ==
  ASSUME NEW p \in Player, Done(p)
  PROVE  Holder(job') /\ player' \in Player
BY DEF Done, Holder, NoJob, Job, Item, Pcs, WantOrNone

LEMMA StopTypes ==
  ASSUME NEW j \in Job, NEW p \in Player, j.kind = "advance" => j.track # NoTrack, BeginStop(j, p)
  PROVE  Holder(job') /\ player' \in Player
<1>1. 0 \in 0 .. MaxSkips
  BY LimitAssumption
<1>2. [p EXCEPT !.skip = NoTrack, !.skips = 0] \in Player
  BY <1>1 DEF Player, Item
<1>3. QED
  BY <1>2, GoTypes DEF BeginStop, Pcs

LEMMA StartTypes ==
  ASSUME NEW j \in Job, NEW p \in Player, j.kind = "advance" => j.track # NoTrack, BeginStart(j, p)
  PROVE  Holder(job') /\ player' \in Player
<1>1. [p EXCEPT !.state = "LOADING"] \in Player
  BY DEF Player, Playbacks
<1>2. QED
  BY <1>1, GoTypes, DoneTypes DEF BeginStart, Pcs

LEMMA FinishTypes ==
  ASSUME NEW j \in Job, NEW p \in Player, j.kind = "advance" => j.track # NoTrack, Finish(j, p)
  PROVE  Holder(job') /\ player' \in Player
<1>1. Go(j, p, "resuming") \/ Go(j, p, "pausing") \/ BeginStart(j, p) \/ BeginStop(j, p) \/ Done(p)
  BY DEF Finish
<1>2. QED
  BY <1>1, GoTypes, StartTypes, StopTypes, DoneTypes DEF Pcs

LEMMA LoadTypes ==
  ASSUME NEW j \in Job, NEW p \in Player, j.track # NoTrack, j.kind \in {"apply", "advance"}, BeginLoad(j, p)
  PROVE  Holder(job') /\ player' \in Player
BY DEF BeginLoad, Replaced, ForPlayback, NoSkip, Go, Holder, Job, Player, Playbacks, Item, Pcs, Commands

LEMMA SkipTypes ==
  ASSUME NEW j \in Job, NEW p \in Player, j.kind = "advance" => j.track # NoTrack, BeginSkipWait(j, p)
  PROVE  Holder(job') /\ player' \in Player
<1>1. CASE p.track # NoTrack /\ ~(p.skips + 1 > MaxSkips)
  <2>1. p.skips + 1 \in 0 .. MaxSkips
    BY <1>1, LimitAssumption DEF Player
  <2>2. [p EXCEPT !.skips = @ + 1, !.skip = p.track, !.state = "LOADING"] \in Player
    BY <2>1 DEF Player, Item, Playbacks
  <2>3. QED
    BY <1>1, <2>2, GoTypes DEF BeginSkipWait, Pcs
<1>2. CASE ~(p.track # NoTrack /\ ~(p.skips + 1 > MaxSkips))
  BY <1>2, StopTypes, DoneTypes DEF BeginSkipWait
<1>3. QED
  BY <1>1, <1>2

LEMMA BeginTypes ==
  ASSUME NEW j, Waiter(j), NEW p \in Player, Begin(j, p)
  PROVE  Holder(job') /\ player' \in Player
<1>1. j \in Job /\ (j.kind = "advance" => j.track # NoTrack)
  BY DEF Waiter
<1>2. NoSkip(p) \in Player /\ [p EXCEPT !.loaded = FALSE] \in Player
  BY DEF NoSkip, Player, Item
<1>3. CASE j.kind = "advance"
  BY <1>1, <1>2, <1>3, LoadTypes DEF Begin
<1>4. CASE j.kind = "skip"
  BY <1>1, <1>4, SkipTypes, DoneTypes DEF Begin
<1>5. CASE j.kind = "stop"
  BY <1>1, <1>5, StopTypes DEF Begin
<1>6. CASE j.kind = "apply"
  BY <1>1, <1>6, GoTypes DEF Begin, Pcs
<1>7. CASE j.kind = "restart"
  BY <1>1, <1>2, <1>7, StartTypes, DoneTypes DEF Begin
<1>8. CASE j.kind = "reload"
  <2>1. \A w \in {"playing", "paused"} : [j EXCEPT !.want = w] \in Job /\ [j EXCEPT !.want = w].kind = "reload"
    BY <1>1, <1>8 DEF Job, WantOrNone
  <2>2. Done(p) \/ Done([p EXCEPT !.loaded = FALSE]) \/ \E w \in {"playing", "paused"} : Go([j EXCEPT !.want = w], p, "reloading")
    BY <1>8 DEF Begin
  <2>3. QED
    BY <1>1, <1>2, <2>1, <2>2, GoTypes, DoneTypes DEF Pcs
<1>9. QED
  BY <1>3, <1>4, <1>5, <1>6, <1>7, <1>8 DEF Waiter, Commands

LEMMA EnterTypes ==
  ASSUME Types, NEW j, Waiter(j), NEW p \in Player, Enter(j, p)
  PROVE  /\ Holder(job') /\ player' \in Player
         /\ waiting' \in Seq(Job) /\ \A i \in DOMAIN waiting' : Waiter(waiting'[i])
<1>1. CASE Free
  BY <1>1, BeginTypes DEF Enter, Types
<1>2. CASE ~Free
  BY <1>2 DEF Enter, Types, Waiter
<1>3. QED
  BY <1>1, <1>2

-----------------------------------------------------------------------------
(***************************************************************************)
(* Types of the steps.                                                     *)
(***************************************************************************)
LEMMA InitTypes == Init => Types
<1> SUFFICES ASSUME Init PROVE Types
  OBVIOUS
<1>1. 0 \in 0 .. MaxSkips
  BY LimitAssumption
<1>2. TypeOK
  BY <1>1 DEF Init, HandlerInit, TypeOK, Playbacks
<1>3. Holder(job) /\ waiting = <<>> /\ inbox = <<>> /\ ended = NoEnd
  BY DEF Init, HandlerInit, Holder, NoJob, Job, Item, Pcs, WantOrNone
<1>4. ended \in End /\ goal \in [want : WantOrNone, track : Item] /\ used \in Use
  BY DEF Init, NoEnd, End, NoGoal, WantOrNone, Item, Use
<1>5. QED
  BY <1>2, <1>3, <1>4 DEF Types

\* The handler's part of Types.
HandlerTypes ==
  /\ handlerActive \in BOOLEAN /\ generation \in Nat /\ deactivation \in Nat \cup {-1}
  /\ nextInfo \in Item /\ inbox \in Seq(Entry)

LEMMA MessageTypes ==
  ASSUME NEW msg \in Messages
  PROVE  /\ msg.kind \in {"state", "active", "quality"}
         /\ msg.kind = "active" => msg.on \in BOOLEAN
         /\ msg.kind = "state" => msg.track \in Item /\ msg.next \in Item /\ msg.want \in WantOrNone
BY WantAssumption
   DEF Messages, StateMessages, OwnershipMessages, QualityMessages, Item, WantOrNone

LEMMA NoteActiveTypes ==
  ASSUME HandlerTypes, NEW on \in BOOLEAN, NoteActive(on)
  PROVE  /\ handlerActive' \in BOOLEAN /\ generation' \in Nat /\ deactivation' \in Nat \cup {-1}
         /\ nextInfo' \in Item
BY DEF HandlerTypes, NoteActive, Item

LEMMA DispatchTypes ==
  ASSUME HandlerTypes, NEW msg \in Messages, Dispatch(msg, 0)
  PROVE  HandlerTypes'
<1>1. /\ handlerActive' \in BOOLEAN /\ generation' \in Nat /\ deactivation' \in Nat \cup {-1}
      /\ nextInfo' \in Item
  BY NoteActiveTypes, MessageTypes DEF Dispatch, HandlerTypes
<1>2. inbox' = Append(inbox, [msg |-> msg, gen |-> generation', tag |-> 0])
  BY DEF Dispatch
<1>3. inbox' \in Seq(Entry)
  BY <1>1, <1>2 DEF HandlerTypes, Entry
<1>4. QED
  BY <1>1, <1>3 DEF HandlerTypes

LEMMA RunTaskTypes ==
  ASSUME HandlerTypes, RunTask
  PROVE  /\ HandlerTypes'
         /\ Head(inbox) \in Entry /\ Head(inbox).msg \in Messages
<1>1. inbox # <<>> /\ inbox' = Tail(inbox) /\ inbox \in Seq(Entry)
  BY DEF RunTask, HandlerTypes
<1>2. Head(inbox) \in Entry /\ inbox' \in Seq(Entry)
  BY <1>1
<1>3. Head(inbox).msg \in Messages
  BY <1>2 DEF Entry
<1>4. CASE IsCurrent(Head(inbox)) /\ Head(inbox).msg.kind = "active"
  <2>1. Head(inbox).msg.on \in BOOLEAN /\ NoteActive(Head(inbox).msg.on)
    BY <1>3, <1>4, MessageTypes DEF RunTask
  <2>2. QED
    BY <1>2, <1>3, <2>1, NoteActiveTypes DEF HandlerTypes
<1>5. CASE ~(IsCurrent(Head(inbox)) /\ Head(inbox).msg.kind = "active")
  <2>1. PlayerCall(Head(inbox)) = "apply" => Head(inbox).msg.kind = "state"
    BY <1>3, MessageTypes DEF PlayerCall
  <2>2. nextInfo' \in Item
    BY <1>3, <1>5, <2>1, MessageTypes DEF RunTask, HandlerTypes
  <2>3. UNCHANGED <<handlerActive, generation, deactivation>>
    BY <1>5 DEF RunTask
  <2>4. QED
    BY <1>2, <1>3, <2>2, <2>3 DEF HandlerTypes
<1>6. QED
  BY <1>4, <1>5

\* Types, part by part.
Rest ==
  /\ cmdGen \in Nat
  /\ audio \in {"silent", "playing", "paused"}
  /\ owner \in {"none", "on", "off"}
  /\ spared \in BOOLEAN /\ given \in Given
  /\ goal \in [want : WantOrNone, track : Item]
  /\ used \in Use
Lock ==
  /\ Holder(job) /\ player \in Player
  /\ waiting \in Seq(Job) /\ \A i \in DOMAIN waiting : Waiter(waiting[i])
Ending == ended \in End /\ (ended.pc = "none" => ended = NoEnd)

LEMMA TypesParts == Types <=> HandlerTypes /\ Lock /\ Ending /\ Rest
BY DEF Types, TypeOK, HandlerTypes, Lock, Ending, Rest, Item, Player, Given

LEMMA TypesPartsPrime == Types' <=> HandlerTypes' /\ Lock' /\ Ending' /\ Rest'
BY DEF Types, TypeOK, HandlerTypes, Lock, Ending, Rest, Item, Player, Given

LEMMA AheadTypes ==
  ASSUME Ending, NEW what \in {"task", "job"}, AheadOfEnd(what)
  PROVE  Ending'
BY DEF Ending, AheadOfEnd, End

LEMMA RegisterTypes ==
  ASSUME Types, NEW kind \in {"apply", "stop", "reload", "advance"}, NEW track \in Item,
         NEW want \in WantOrNone, kind = "advance" => track # NoTrack, Register(kind, track, want)
  PROVE  Lock' /\ cmdGen' \in Nat
<1>1. cmdGen \in Nat /\ player \in Player
  BY DEF Types, TypeOK, Player, Item
<1>2. Waiter(Command(kind, track, want))
  BY <1>1 DEF Waiter, Command, Job, Commands, Pcs
<1>3. Enter(Command(kind, track, want), player) /\ cmdGen' = cmdGen + 1
  BY DEF Register
<1>4. QED
  BY <1>1, <1>2, <1>3, EnterTypes DEF Lock

LEMMA InvalidationTypes ==
  ASSUME Types, Invalidation
  PROVE  player' \in Player /\ cmdGen' \in Nat
<1>1. cmdGen \in Nat /\ player \in Player
  BY DEF Types, TypeOK, Player, Item
<1>2. NoSkip(player) \in Player
  BY <1>1 DEF NoSkip, Player, Item
<1>3. QED
  BY <1>1, <1>2 DEF Invalidation

LEMMA ReceiveTypes ==
  ASSUME Types, NEW msg \in Messages, Receive(msg)
  PROVE  Types'
<1>1. HandlerTypes /\ Lock /\ Ending /\ Rest
  BY TypesParts
<1>2. HandlerTypes'
  BY <1>1, DispatchTypes DEF Receive
<1>3. Lock' /\ Ending' /\ cmdGen' \in Nat
  BY <1>1, InvalidationTypes DEF Receive, Lock, Ending
<1>4. Rest'
  <2>1. used' \in Use /\ goal' \in [want : WantOrNone, track : Item]
    BY <1>1 DEF Receive, Rest, Use, NoGoal, WantOrNone, Item
  <2>2. given' \in Given
    BY <1>1 DEF Receive, Rest, SkipForgotten, Given
  <2>3. owner' \in {"none", "on", "off"} /\ spared' \in BOOLEAN /\ audio' = audio
    BY <1>1 DEF Receive, Rest
  <2>4. QED
    BY <1>1, <1>3, <2>1, <2>2, <2>3 DEF Rest
<1>5. QED
  BY <1>2, <1>3, <1>4, TypesPartsPrime

LEMMA DropTypes ==
  ASSUME Types, Drop \/ ReleaseExternalPlayback
  PROVE  Types'
<1>1. HandlerTypes /\ Lock /\ Ending /\ Rest
  BY TypesParts
<1>2. HandlerTypes'
  <2>1. CASE Drop
    <3>1. /\ handlerActive' \in BOOLEAN /\ generation' = generation + 1
          /\ deactivation' = deactivation /\ nextInfo' = nextInfo /\ inbox' = inbox
      BY <2>1 DEF Drop, NoteDisconnected
    <3>2. QED
      BY <1>1, <3>1 DEF HandlerTypes
  <2>2. CASE ReleaseExternalPlayback
    <3>1. /\ handlerActive' \in BOOLEAN /\ generation' = generation + 1
          /\ deactivation' = deactivation /\ nextInfo' = NoTrack /\ inbox' = inbox
      BY <2>2 DEF ReleaseExternalPlayback
    <3>2. QED
      BY <1>1, <3>1 DEF HandlerTypes, Item
  <2>3. QED
    BY <2>1, <2>2
<1>3. Lock' /\ Ending' /\ cmdGen' \in Nat
  <2>1. CASE Drop
    BY <1>1, <2>1, InvalidationTypes DEF Drop, Lock, Ending
  <2>2. CASE ReleaseExternalPlayback
    <3>1. [NoSkip(player) EXCEPT !.state = "STOPPED"] \in Player
      BY <1>1 DEF Lock, NoSkip, Player, Item, Playbacks
    <3>2. QED
      BY <1>1, <2>2, <3>1 DEF ReleaseExternalPlayback, Lock, Ending, Rest
  <2>3. QED
    BY <2>1, <2>2
<1>4. Rest'
  <2>1. used' \in Use /\ goal' \in [want : WantOrNone, track : Item]
    BY <1>1 DEF Drop, ReleaseExternalPlayback, Rest, Use, NoGoal, WantOrNone, Item
  <2>2. given' \in Given
    BY <1>1 DEF Drop, ReleaseExternalPlayback, Rest, SkipForgotten, Given
  <2>3. owner' = owner /\ spared' = TRUE /\ audio' \in {audio, "silent"}
    BY DEF Drop, ReleaseExternalPlayback
  <2>4. QED
    BY <1>1, <1>3, <2>1, <2>2, <2>3 DEF Rest
<1>5. QED
  BY <1>2, <1>3, <1>4, TypesPartsPrime

LEMMA RunCommandTypes ==
  ASSUME Types, RunCommand
  PROVE  Types'
<1> DEFINE msg == Head(inbox).msg
           call == PlayerCall(Head(inbox))
<1>1. HandlerTypes /\ Lock /\ Ending /\ Rest
  BY TypesParts
<1>2. HandlerTypes' /\ msg \in Messages
  BY <1>1, RunTaskTypes DEF RunCommand
<1>3. call = "apply" => msg.track \in Item /\ msg.want \in WantOrNone
  BY <1>2, MessageTypes DEF PlayerCall
<1>4. Lock' /\ cmdGen' \in Nat
  <2>1. \/ call = "apply" /\ Register("apply", msg.track, msg.want)
        \/ Register("stop", NoTrack, "stopped")
        \/ Register("reload", NoTrack, "none")
        \/ UNCHANGED <<player, cmdGen, job, waiting>>
    BY DEF RunCommand
  <2>2. NoTrack \in Item /\ "stopped" \in WantOrNone /\ "none" \in WantOrNone
    BY DEF Item, WantOrNone
  <2>3. CASE call = "apply" /\ Register("apply", msg.track, msg.want)
    BY <1>3, <2>3, RegisterTypes
  <2>4. CASE UNCHANGED <<player, cmdGen, job, waiting>>
    BY <1>1, <2>4 DEF Lock, Rest
  <2>5. QED
    BY <2>1, <2>2, <2>3, <2>4, RegisterTypes
<1>5. Ending'
  BY <1>1, AheadTypes DEF RunCommand
<1>6. goal' \in [want : WantOrNone, track : Item] /\ spared' \in BOOLEAN
  <2>1. \/ goal' = [want |-> msg.want, track |-> msg.track] /\ call = "apply"
        \/ goal' = NoGoal
        \/ goal' = goal
    BY DEF RunCommand
  <2>2. spared' \in BOOLEAN
    BY <1>1 DEF RunCommand, Rest
  <2>3. NoGoal \in [want : WantOrNone, track : Item]
    BY DEF NoGoal, WantOrNone, Item
  <2>4. QED
    BY <1>1, <1>3, <2>1, <2>2, <2>3 DEF Rest
<1>7. Rest'
  BY <1>1, <1>4, <1>6 DEF RunCommand, Rest
<1>8. QED
  BY <1>2, <1>4, <1>5, <1>7, TypesPartsPrime

LEMMA TakeLockTypes ==
  ASSUME Types, TakeLock
  PROVE  Types'
<1>1. HandlerTypes /\ Lock /\ Ending /\ Rest
  BY TypesParts
<1>2. Waiter(Head(waiting)) /\ waiting # <<>> /\ waiting' = Tail(waiting) /\ player \in Player
  BY <1>1 DEF TakeLock, Lock
<1>3. Done(player) \/ Begin(Head(waiting), player)
  BY DEF TakeLock
<1>4. Holder(job') /\ player' \in Player
  BY <1>2, <1>3, BeginTypes, DoneTypes
<1>5. waiting' \in Seq(Job) /\ \A i \in DOMAIN waiting' : Waiter(waiting'[i])
  BY <1>1, <1>2 DEF Lock
<1>6. Lock'
  BY <1>4, <1>5 DEF Lock
<1>7. Ending'
  BY <1>1, AheadTypes DEF TakeLock
<1>8. given' \in Given
  BY <1>1 DEF TakeLock, Rest, Given
<1>9. HandlerTypes' /\ Rest'
  BY <1>1, <1>8 DEF TakeLock, HandlerTypes, handlerVars, Rest
<1>10. QED
  BY <1>6, <1>7, <1>9, TypesPartsPrime

LEMMA PermittedTypes ==
  ASSUME Types, Permitted
  PROVE  Holder(job') /\ player' \in Player
<1>1. job \in Job /\ player \in Player /\ (job.kind = "advance" => job.track # NoTrack)
  BY DEF Types, TypeOK, Holder, Player, Item
<1>2. Done(player) \/ \E stale \in BOOLEAN : BeginApply(stale)
  BY DEF Permitted
<1>3. [player EXCEPT !.skip = NoTrack, !.skips = 0] \in Player
  <2>1. 0 \in 0 .. MaxSkips
    BY LimitAssumption
  <2>2. QED
    BY <1>1, <2>1 DEF Player, Item
<1>4. ASSUME NEW stale \in BOOLEAN, BeginApply(stale)
      PROVE  Holder(job') /\ player' \in Player
  <2>1. \/ Go(job, [player EXCEPT !.skip = NoTrack, !.skips = 0], "halting")
        \/ Done(player)
        \/ job.track # NoTrack /\ BeginLoad(job, player)
        \/ Finish(job, player)
        \/ Go(job, player, "seeking")
    BY <1>4 DEF BeginApply, BeginFinish
  <2>2. job.kind = "apply"
    BY DEF Types, Permitted, Holder
  <2>3. QED
    BY <1>1, <1>3, <2>1, <2>2, GoTypes, DoneTypes, LoadTypes, FinishTypes DEF Pcs
<1>5. QED
  BY <1>1, <1>2, <1>4, DoneTypes

LEMMA LoadedTypes ==
  ASSUME Types, Loaded
  PROVE  Holder(job') /\ player' \in Player
<1> DEFINE p == [player EXCEPT !.loaded = TRUE]
           q == IF job.kind = "apply" /\ p.state = "LOADING"
                THEN [p EXCEPT !.state = "STOPPED"] ELSE p
<1>1. job \in Job /\ player \in Player /\ (job.kind = "advance" => job.track # NoTrack)
  BY DEF Types, TypeOK, Holder, Player, Item
<1>2. p \in Player
  BY <1>1 DEF Player
<1>3. q \in Player
  BY <1>2 DEF Player, Playbacks
<1>4. BeginStart(job, p) \/ BeginFinish(job, p) \/ Done(q)
  BY DEF Loaded
<1> HIDE DEF p, q
<1>5. BeginStart(job, p) \/ Finish(job, p) \/ Go(job, p, "seeking") \/ Done(q)
  BY <1>4 DEF BeginFinish
<1>6. QED
  BY <1>1, <1>2, <1>3, <1>5, GoTypes, DoneTypes, FinishTypes, StartTypes DEF Pcs

LEMMA LoadFailsTypes ==
  ASSUME Types, LoadFails
  PROVE  Lock'
<1> DEFINE p == [player EXCEPT !.state = "STOPPED"]
           skip == [job EXCEPT !.kind = "skip", !.pc = "waiting"]
<1>1. job \in Job /\ player \in Player /\ waiting \in Seq(Job)
  BY DEF Types, TypeOK, Holder, Player, Item
<1>2. \A i \in DOMAIN waiting : Waiter(waiting[i])
  BY DEF Types
<1>3. p \in Player
  BY <1>1 DEF Player, Playbacks
<1>4. Waiter(skip) /\ skip \in Job
  BY <1>1 DEF Job, Waiter, Commands, Pcs
<1>5. \/ job.kind = "apply" /\ BeginSkipWait(job, p) /\ waiting' = waiting
      \/ Done(p) /\ waiting' = waiting
      \/ Begin(skip, p) /\ waiting' = waiting
      \/ Done(p) /\ waiting' = Append(waiting, skip)
  BY DEF LoadFails
<1> HIDE DEF p, skip
<1>6. Holder(job') /\ player' \in Player
  BY <1>1, <1>3, <1>4, <1>5, BeginTypes, DoneTypes, SkipTypes
<1>7. waiting' \in Seq(Job) /\ \A i \in DOMAIN waiting' : Waiter(waiting'[i])
  <2>1. CASE waiting' = waiting
    BY <1>1, <1>2, <2>1
  <2>2. CASE waiting' = Append(waiting, skip)
    BY <1>1, <1>2, <1>4, <2>2
  <2>3. QED
    BY <1>5, <2>1, <2>2
<1>8. QED
  BY <1>6, <1>7 DEF Lock

LEMMA ReloadingTypes ==
  ASSUME Types, Reloading
  PROVE  Holder(job') /\ player' \in Player
<1> DEFINE p == [player EXCEPT !.loaded = FALSE]
           q == [p EXCEPT !.state = "STOPPED"]
<1>1. job \in Job /\ player \in Player /\ (job.kind = "advance" => job.track # NoTrack)
  BY DEF Types, TypeOK, Holder, Player, Item
<1>2. p \in Player
  BY <1>1 DEF Player
<1>3. q \in Player
  BY <1>2 DEF Player, Playbacks
<1>4. BeginStart(job, p) \/ Go(job, q, "reporting")
  BY DEF Reloading
<1> HIDE DEF p, q
<1>5. QED
  BY <1>1, <1>2, <1>3, <1>4, GoTypes, StartTypes DEF Pcs

\* The steps that end with one assignment of the player.
Plain == Unloaded \/ Announced \/ Played \/ Resumed \/ Paused \/ Stopped \/ Halted

LEMMA PlainTypes ==
  ASSUME Types, Plain
  PROVE  Holder(job') /\ player' \in Player
<1>1. job \in Job /\ player \in Player /\ (job.kind = "advance" => job.track # NoTrack)
  BY DEF Types, TypeOK, Holder, Player, Item
<1>2. CASE Unloaded
  <2>1. job.kind \in {"apply", "advance"} /\ job.track # NoTrack
    BY <1>2 DEF Unloaded, Types, Holder
  <2>2. Replaced(job, player) \in Player
    BY <1>1 DEF Replaced, Player, Playbacks, Job, Item
  <2>3. QED
    BY <1>1, <1>2, <2>1, <2>2, GoTypes DEF Unloaded, Pcs
<1>3. \A s \in Playbacks : [player EXCEPT !.state = s] \in Player
  BY <1>1 DEF Player
<1>4. CASE Announced
  <2>1. [player EXCEPT !.loaded = TRUE] \in Player /\ [player EXCEPT !.state = "ERROR"] \in Player
    BY <1>1 DEF Player, Playbacks
  <2>2. \/ Go(job, [player EXCEPT !.loaded = TRUE], "starting")
        \/ Go(job, [player EXCEPT !.state = "ERROR"], "reporting")
    BY <1>4 DEF Announced
  <2>3. QED
    BY <1>1, <2>1, <2>2, GoTypes DEF Pcs
<1>5. CASE Played
  <2>1. 0 \in 0 .. MaxSkips
    BY LimitAssumption
  <2>2. /\ [player EXCEPT !.state = "PLAYING", !.skips = 0] \in Player
        /\ [player EXCEPT !.state = "ERROR"] \in Player
    BY <1>1, <2>1 DEF Player, Playbacks
  <2>3. \/ Go(job, [player EXCEPT !.state = "PLAYING", !.skips = 0], "reporting")
        \/ Go(job, [player EXCEPT !.state = "ERROR"], "reporting")
    BY <1>5 DEF Played
  <2>4. QED
    BY <1>1, <2>2, <2>3, GoTypes DEF Pcs
<1>6. CASE Resumed \/ Paused \/ Stopped \/ Halted
  <2>1. Go(job, player, "reporting") \/ \E s \in Playbacks : Go(job, [player EXCEPT !.state = s], "reporting")
    BY <1>6 DEF Resumed, Paused, Stopped, Halted, Playbacks
  <2>2. QED
    BY <1>1, <1>3, <2>1, GoTypes DEF Pcs
<1>7. QED
  BY <1>2, <1>4, <1>5, <1>6 DEF Plain

LEMMA JobStepTypes ==
  ASSUME Types, JobStep
  PROVE  Types'
<1>1. HandlerTypes /\ Lock /\ Ending /\ Rest
  BY TypesParts
<1>2. Lock'
  <2>1. waiting' = waiting /\ Holder(job') /\ player' \in Player => Lock'
    BY <1>1 DEF Lock
  <2>2. job \in Job /\ player \in Player /\ (job.kind = "advance" => job.track # NoTrack)
    BY <1>1 DEF Lock, Holder
  <2>3. CASE Loaded
    BY <2>1, <2>3, LoadedTypes DEF Loaded, Within
  <2>4. CASE Permitted
    BY <2>1, <2>4, PermittedTypes DEF Permitted, Within
  <2>5. CASE LoadFails
    BY <2>5, LoadFailsTypes
  <2>6. CASE Sought
    BY <2>1, <2>2, <2>6, FinishTypes, DoneTypes DEF Sought, Within
  <2>7. CASE Reloading
    BY <2>1, <2>7, ReloadingTypes DEF Reloading, Within
  <2>8. CASE Plain
    BY <2>1, <2>8, PlainTypes
       DEF Plain, Unloaded, Announced, Played, Resumed, Paused, Stopped, Halted, Within
  <2>9. CASE Reported
    BY <2>1, <2>2, <2>9, DoneTypes DEF Reported, Within
  <2>10. QED
    BY <2>3, <2>4, <2>5, <2>6, <2>7, <2>8, <2>9 DEF JobStep, Plain
<1>3. Ending'
  BY <1>1, AheadTypes DEF JobStep
<1>4. HandlerTypes'
  <2>1. UNCHANGED handlerVars
    BY DEF JobStep, Loaded, Permitted, Unloaded, LoadFails, Sought, Announced, Played, Resumed,
           Paused, Stopped, Halted, Reloading, Reported, Within
  <2>2. QED
    BY <1>1, <2>1 DEF handlerVars, HandlerTypes
<1>5. audio' \in {"silent", "playing", "paused"}
  BY <1>1 DEF JobStep, Rest, Loaded, Permitted, Unloaded, LoadFails, Sought, Announced, Played,
              Resumed, Paused, Stopped, Halted, Reloading, Reported
<1>6. cmdGen' = cmdGen /\ owner' = owner /\ spared' = spared
  BY DEF JobStep, Loaded, Permitted, Unloaded, LoadFails, Sought, Announced, Played, Resumed,
         Paused, Stopped, Halted, Reloading, Reported, Within
<1>7. (goal' = goal \/ goal' = NoGoal) /\ (used' = used \/ used' = [used EXCEPT !.errors = @ + 1])
  BY DEF JobStep, Loaded, Permitted, Unloaded, LoadFails, Sought, Announced, Played, Resumed,
         Paused, Stopped, Halted, Reloading, Reported, Smooth, Trouble, Fails
<1>8. given' \in Given
  BY <1>1 DEF JobStep, Loaded, Played, Resumed, Sound, Rest, Given
<1>9. goal' \in [want : WantOrNone, track : Item] /\ used' \in Use
  BY <1>1, <1>7 DEF Rest, NoGoal, WantOrNone, Item, Use
<1>10. Rest'
  BY <1>1, <1>5, <1>6, <1>8, <1>9 DEF Rest
<1>11. QED
  BY <1>2, <1>3, <1>4, <1>10, TypesPartsPrime

LEMMA EndedContinuesTypes ==
  ASSUME Types, EndedContinues
  PROVE  Types'
<1> DEFINE restart == [NoJob EXCEPT !.kind = "restart", !.gen = cmdGen, !.track = ended.track]
           q == [player EXCEPT !.state = "STOPPED", !.track = NoTrack, !.loaded = FALSE]
<1>1. HandlerTypes /\ Lock /\ Ending /\ Rest
  BY TypesParts
<1>2. Waiter(restart)
  BY <1>1 DEF Ending, End, Rest, NoJob, Job, Waiter, Commands, Pcs, WantOrNone
<1>3. q \in Player
  BY <1>1 DEF Lock, Player, Playbacks, Item
<1>4. \/ UNCHANGED <<player, cmdGen, job, waiting, nextInfo>>
      \/ Enter(restart, player) /\ UNCHANGED <<cmdGen, nextInfo>>
      \/ nextInfo # NoTrack /\ Register("advance", nextInfo, "playing") /\ nextInfo' = NoTrack
      \/ player' = q /\ UNCHANGED <<cmdGen, job, waiting, nextInfo>>
  BY DEF EndedContinues
<1> HIDE DEF restart, q
<1>5. Lock' /\ cmdGen' \in Nat /\ nextInfo' \in Item
  <2>1. nextInfo \in Item /\ NoTrack \in Item /\ "playing" \in WantOrNone
    BY <1>1 DEF HandlerTypes, Item, WantOrNone
  <2>2. CASE nextInfo # NoTrack /\ Register("advance", nextInfo, "playing") /\ nextInfo' = NoTrack
    BY <2>1, <2>2, RegisterTypes
  <2>3. CASE Enter(restart, player) /\ UNCHANGED <<cmdGen, nextInfo>>
    <3>1. player \in Player
      BY <1>1 DEF Lock
    <3>2. Lock'
      BY <1>2, <2>3, <3>1, EnterTypes DEF Lock
    <3>3. QED
      BY <1>1, <2>1, <2>3, <3>2 DEF Rest
  <2>4. CASE UNCHANGED <<player, cmdGen, job, waiting, nextInfo>>
    BY <1>1, <2>1, <2>4 DEF Lock, Rest
  <2>5. CASE player' = q /\ UNCHANGED <<cmdGen, job, waiting, nextInfo>>
    BY <1>1, <1>3, <2>1, <2>5 DEF Lock, Rest
  <2>6. QED
    BY <1>4, <2>2, <2>3, <2>4, <2>5
<1>6. HandlerTypes'
  <2>1. UNCHANGED <<handlerActive, generation, deactivation, inbox>>
    BY DEF EndedContinues
  <2>2. QED
    BY <1>1, <1>5, <2>1 DEF HandlerTypes
<1>7. Ending'
  BY DEF EndedContinues, Ending, NoEnd, End, Item
<1>8. goal' \in [want : WantOrNone, track : Item] /\ given' \in Given
  BY <1>1 DEF EndedContinues, Rest, NoGoal, WantOrNone, Item, Given
<1>9. Rest'
  BY <1>1, <1>5, <1>8 DEF EndedContinues, Rest
<1>10. QED
  BY <1>5, <1>6, <1>7, <1>9, TypesPartsPrime

LEMMA BackendTypes ==
  ASSUME Types, TrackEnds \/ EndedStarts \/ SkipTimeout \/ PlaybackError
  PROVE  Types'
<1>1. HandlerTypes /\ Lock /\ Ending /\ Rest
  BY TypesParts
<1>2. player \in Player /\ inbox \in Seq(Entry)
  BY <1>1 DEF Lock, HandlerTypes
<1>3. CASE TrackEnds
  <2>1. used' = [used EXCEPT !.ends = @ + 1] /\ given' \in Given
    BY <1>1, <1>3 DEF TrackEnds, Rest, Given
  <2>2. used' \in Use /\ goal' \in [want : WantOrNone, track : Item]
    BY <1>1, <1>3, <2>1 DEF TrackEnds, Rest, Use, NoGoal, WantOrNone, Item
  <2>3. Ending'
    <3>1. player.track \in Item /\ Len(inbox) \in Nat
      BY <1>2 DEF Player
    <3>2. ended' = [pc |-> "created", track |-> player.track, gen |-> 0,
                    ahead |-> [task |-> Len(inbox), job |-> 1]]
      BY <1>3 DEF TrackEnds, NoEnd
    <3>3. QED
      BY <3>1, <3>2 DEF Ending, End
  <2>4. HandlerTypes' /\ Lock'
    BY <1>1, <1>3 DEF TrackEnds, HandlerTypes, handlerVars, Lock
  <2>5. Rest'
    BY <1>1, <1>3, <2>1, <2>2 DEF TrackEnds, Rest
  <2>6. QED
    BY <2>3, <2>4, <2>5, TypesPartsPrime
<1>4. CASE EndedStarts
  <2>1. Ending'
    BY <1>1, <1>4 DEF EndedStarts, Ending, NoEnd, End, Rest
  <2>2. HandlerTypes' /\ Lock' /\ Rest'
    BY <1>1, <1>4 DEF EndedStarts, HandlerTypes, handlerVars, Lock, Rest, history
  <2>3. QED
    BY <2>1, <2>2, TypesPartsPrime
<1>5. CASE SkipTimeout
  <2>1. Lock'
    <3>1. [NoSkip(player) EXCEPT !.state = "STOPPED", !.track = NoTrack, !.loaded = FALSE] \in Player
      BY <1>2 DEF NoSkip, Player, Playbacks, Item
    <3>2. Holder(job')
      BY <1>5 DEF SkipTimeout, Go, NoJob, Holder, Job, Pcs, Item, WantOrNone
    <3>3. QED
      BY <1>1, <1>5, <3>1, <3>2 DEF SkipTimeout, Go, Lock
  <2>2. goal' \in [want : WantOrNone, track : Item]
    BY <1>5 DEF SkipTimeout, NoGoal, WantOrNone, Item
  <2>3. HandlerTypes' /\ Ending'
    BY <1>1, <1>5 DEF SkipTimeout, HandlerTypes, handlerVars, Ending
  <2>4. Rest'
    BY <1>1, <1>5, <2>2 DEF SkipTimeout, Rest
  <2>5. QED
    BY <2>1, <2>3, <2>4, TypesPartsPrime
<1>6. CASE PlaybackError
  <2>1. [player EXCEPT !.state = "ERROR"] \in Player
    BY <1>2 DEF Player, Playbacks
  <2>2. goal' \in [want : WantOrNone, track : Item] /\ used' \in Use
    BY <1>1, <1>6 DEF PlaybackError, Fails, Rest, Use, NoGoal, WantOrNone, Item
  <2>3. HandlerTypes' /\ Ending' /\ Lock'
    BY <1>1, <1>6, <2>1 DEF PlaybackError, HandlerTypes, handlerVars, Ending, Lock
  <2>4. Rest'
    BY <1>1, <1>6, <2>2 DEF PlaybackError, Rest
  <2>5. QED
    BY <2>3, <2>4, TypesPartsPrime
<1>7. QED
  BY <1>3, <1>4, <1>5, <1>6

LEMMA StepTypes == Types /\ [Next]_vars => Types'
<1> SUFFICES ASSUME Types, [Next]_vars PROVE Types'
  OBVIOUS
<1>1. CASE UNCHANGED vars
  BY <1>1, TypesParts, TypesPartsPrime
     DEF vars, handlerVars, playerVars, history, HandlerTypes, Lock, Ending, Rest
<1>2. CASE Next
  BY <1>2, ReceiveTypes, DropTypes, RunCommandTypes, TakeLockTypes, JobStepTypes, BackendTypes,
     EndedContinuesTypes DEF Next
<1>3. QED
  BY <1>1, <1>2

\* Every variable keeps its type, for any tracks and any bounds: in particular the
\* player never counts more unplayable items than it may skip (player.py:57), and
\* waits for the successor of none but an item.
THEOREM PlaybackTypes == Spec => []TypeOK
<1>1. Types => TypeOK
  BY DEF Types
<1>2. QED
  BY <1>1, InitTypes, StepTypes, PTL DEF Spec

-----------------------------------------------------------------------------
(***************************************************************************)
(* The numbers of commands and messages.                                   *)
(***************************************************************************)
\* No command is newer than the newest number.
Numbers ==
  /\ job.gen <= cmdGen
  /\ \A i \in DOMAIN waiting : waiting[i].gen <= cmdGen
  /\ ended.gen <= cmdGen

\* No message is newer than the handler's generation, and a message of the current
\* generation about ownership says what the handler has noted.
Received ==
  /\ deactivation <= generation
  /\ \A i \in DOMAIN inbox :
       /\ inbox[i].gen <= generation
       /\ inbox[i].msg.kind = "active" /\ inbox[i].gen = generation
            => inbox[i].msg.on = handlerActive

\* The command is done, or goes on as what it was.
Kept(j) == job' = NoJob \/ (job'.kind = j.kind /\ job'.gen = j.gen)

LEMMA BeginKeeps ==
  ASSUME NEW j, Waiter(j), NEW p \in Player, Begin(j, p)
  PROVE  Kept(j)
<1>1. j \in Job
  BY DEF Waiter
<1>2. \A q : BeginStop(j, q) \/ BeginLoad(j, q) \/ BeginStart(j, q) \/ BeginSkipWait(j, q) => Kept(j)
  BY <1>1 DEF BeginStop, BeginLoad, BeginStart, BeginSkipWait, Go, Done, Kept, Job
<1>3. CASE j.kind \in {"stop", "advance", "restart", "skip"}
  BY <1>2, <1>3 DEF Begin, Done, Kept
<1>4. CASE j.kind \in {"apply", "reload"}
  BY <1>1, <1>4 DEF Begin, Go, Done, Kept, Job
<1>5. QED
  BY <1>3, <1>4 DEF Waiter, Commands

LEMMA FinishKeeps ==
  ASSUME NEW j \in Job, NEW p, BeginFinish(j, p) \/ Finish(j, p)
  PROVE  Kept(j)
BY DEF Job, Kept, BeginFinish, Finish, BeginStop, BeginStart, Go, Done

LEMMA LoadKeeps ==
  ASSUME NEW j \in Job, NEW p, BeginLoad(j, p)
  PROVE  Kept(j)
BY DEF Job, Kept, BeginLoad, Go

LEMMA JobStepKeeps ==
  ASSUME Types, JobStep
  PROVE  \/ Kept(job) /\ waiting' = waiting
         \/ job.kind = "advance" /\ waiting = <<>> /\ waiting' = <<>>
            /\ (job' = NoJob \/ (job'.kind = "skip" /\ job'.gen = job.gen))
         \/ /\ job.kind = "advance" /\ job' = NoJob
            /\ waiting' = Append(waiting, [job EXCEPT !.kind = "skip", !.pc = "waiting"])
<1>1. job \in Job /\ (job.kind = "advance" => job.track # NoTrack) /\ player \in Player
  BY TypesParts DEF Lock, Holder
<1>2. CASE Loaded
  <2>1. Kept(job)
    BY <1>1, <1>2, FinishKeeps DEF Loaded, BeginStart, Go, Done, Kept, Job
  <2>2. QED
    BY <1>2, <2>1 DEF Loaded, Within
<1>3. CASE Permitted
  <2>1. ASSUME NEW stale \in BOOLEAN, BeginApply(stale) PROVE Kept(job)
    BY <1>1, <2>1, FinishKeeps, LoadKeeps DEF BeginApply, Go, Done, Kept, Job
  <2>2. Kept(job)
    BY <1>3, <2>1 DEF Permitted, Done, Kept
  <2>3. QED
    BY <1>3, <2>2 DEF Permitted, Within
<1>4. CASE LoadFails
  <2> DEFINE p == [player EXCEPT !.state = "STOPPED"]
             skip == [job EXCEPT !.kind = "skip", !.pc = "waiting"]
  <2>1. CASE job.kind = "apply" /\ waiting' = waiting /\ (BeginSkipWait(job, p) \/ Done(p))
    BY <1>1, <2>1 DEF BeginSkipWait, BeginStop, Go, Done, Kept, Job
  <2>2. CASE job.kind = "advance" /\ waiting = <<>> /\ waiting' = waiting /\ Begin(skip, p)
    <3>1. Waiter(skip) /\ skip.kind = "skip" /\ skip.gen = job.gen
      BY <1>1 DEF Job, Waiter, Commands, Pcs
    <3>2. p \in Player
      BY <1>1 DEF Player, Playbacks
    <3>3. Kept(skip)
      BY <2>2, <3>1, <3>2, BeginKeeps
    <3>4. QED
      BY <2>2, <3>1, <3>3 DEF Kept
  <2>3. CASE job.kind = "advance" /\ waiting' = Append(waiting, skip) /\ Done(p)
    BY <2>3 DEF Done
  <2>4. QED
    BY <1>4, <2>1, <2>2, <2>3 DEF LoadFails
<1>5. CASE Sought
  <2>1. Kept(job)
    BY <1>1, <1>5, FinishKeeps DEF Sought, Done, Kept
  <2>2. QED
    BY <1>5, <2>1 DEF Sought, Within
<1>6. CASE Reloading \/ Reported
  BY <1>1, <1>6 DEF Reloading, Reported, Within, BeginStart, Go, Done, Kept, Job
<1>7. CASE Plain
  BY <1>1, <1>7 DEF Plain, Unloaded, Announced, Played, Resumed, Paused, Stopped, Halted, Within,
                    Go, Kept, Job
<1>8. QED
  BY <1>2, <1>3, <1>4, <1>5, <1>6, <1>7 DEF JobStep, Plain

LEMMA NumbersInit == Init => Numbers /\ Received
BY DEF Init, HandlerInit, Numbers, Received, NoJob, NoEnd

LEMMA JobNumbers ==
  /\ \A j \in Job : j.gen \in Nat
  /\ \A s \in Seq(Job) : \A i \in DOMAIN s : s[i].gen \in Nat
<1>1. \A j \in Job : j.gen \in Nat
  BY DEF Job
<1>2. \A s \in Seq(Job) : \A i \in DOMAIN s : s[i] \in Job
  OBVIOUS
<1>3. QED
  BY <1>1, <1>2

LEMMA EnterNumbers ==
  ASSUME Types, Numbers, NEW j, Waiter(j), Enter(j, player), cmdGen' \in Nat,
         cmdGen <= cmdGen', j.gen <= cmdGen'
  PROVE  job'.gen <= cmdGen' /\ \A i \in DOMAIN waiting' : waiting'[i].gen <= cmdGen'
<1>1. /\ cmdGen \in Nat /\ job \in Job /\ j \in Job /\ player \in Player /\ waiting \in Seq(Job)
  BY TypesParts DEF Rest, Lock, Holder, Waiter
<1>2. job.gen \in Nat /\ j.gen \in Nat /\ \A i \in DOMAIN waiting : waiting[i].gen \in Nat
  BY <1>1, JobNumbers
<1>3. CASE Free
  <2>1. Begin(j, player) /\ waiting' = waiting /\ waiting = <<>>
    BY <1>3 DEF Enter, Free
  <2>2. Kept(j)
    BY <1>1, <2>1, BeginKeeps
  <2>3. job'.gen <= cmdGen'
    BY <2>2 DEF Kept, NoJob
  <2>4. QED
    BY <2>1, <2>3
<1>4. CASE ~Free
  <2>1. waiting' = Append(waiting, j) /\ job' = job
    BY <1>4 DEF Enter
  <2>2. job'.gen <= cmdGen'
    BY <1>1, <1>2, <2>1 DEF Numbers
  <2>3. \A i \in DOMAIN waiting : waiting[i].gen <= cmdGen'
    BY <1>1, <1>2 DEF Numbers
  <2>4. QED
    BY <1>1, <2>1, <2>2, <2>3
<1>5. QED
  BY <1>3, <1>4

\* A step that takes a number or none and leaves the commands alone.
LEMMA NumbersGrow ==
  ASSUME Types, Numbers, Types', cmdGen <= cmdGen', UNCHANGED <<job, waiting>>,
         ended'.gen = ended.gen \/ ended'.gen <= cmdGen
  PROVE  Numbers'
<1>1. /\ cmdGen \in Nat /\ cmdGen' \in Nat /\ job \in Job /\ waiting \in Seq(Job)
      /\ ended \in End /\ ended' \in End
  BY TypesParts, TypesPartsPrime DEF Rest, Lock, Holder, Ending
<1>2. /\ job.gen \in Nat /\ ended.gen \in Nat /\ ended'.gen \in Nat
      /\ \A i \in DOMAIN waiting : waiting[i].gen \in Nat
  BY <1>1, JobNumbers DEF End
<1>3. QED
  BY <1>1, <1>2 DEF Numbers

LEMMA AheadKeeps ==
  ASSUME Types, NEW what \in {"task", "job"}, AheadOfEnd(what)
  PROVE  ended'.gen = ended.gen /\ ended'.track = ended.track /\ ended'.pc = ended.pc
BY TypesParts DEF Ending, End, AheadOfEnd

LEMMA RegisterNumbers ==
  ASSUME Types, Types', Numbers, NEW kind \in {"apply", "stop", "reload", "advance"},
         NEW track \in Item, NEW want \in WantOrNone, kind = "advance" => track # NoTrack,
         Register(kind, track, want)
  PROVE  job'.gen <= cmdGen' /\ \A i \in DOMAIN waiting' : waiting'[i].gen <= cmdGen'
<1>1. cmdGen \in Nat /\ cmdGen' \in Nat
  BY TypesParts, TypesPartsPrime DEF Rest
<1>2. Waiter(Command(kind, track, want)) /\ Command(kind, track, want).gen = cmdGen + 1
  BY <1>1 DEF Waiter, Command, Job, Commands, Pcs
<1>3. Enter(Command(kind, track, want), player) /\ cmdGen' = cmdGen + 1
  BY DEF Register
<1>4. QED
  BY <1>1, <1>2, <1>3, EnterNumbers

LEMMA NumbersStep ==
  ASSUME Types, Numbers, [Next]_vars
  PROVE  Numbers'
<1>1. Types'
  BY StepTypes
<1>2. cmdGen \in Nat /\ cmdGen' \in Nat
  BY <1>1, TypesParts, TypesPartsPrime DEF Rest
<1>3. job \in Job /\ waiting \in Seq(Job) /\ ended \in End
  BY TypesParts DEF Lock, Holder, Ending
<1>4. /\ job.gen \in Nat /\ ended.gen \in Nat
      /\ \A i \in DOMAIN waiting : waiting[i].gen \in Nat
  BY <1>3, JobNumbers DEF End
<1>5. CASE (\E msg \in Messages : Receive(msg)) \/ Drop \/ ReleaseExternalPlayback
  <2>1. cmdGen <= cmdGen' /\ UNCHANGED <<job, waiting, ended>>
    BY <1>2, <1>5 DEF Receive, Drop, ReleaseExternalPlayback, Invalidation
  <2>2. QED
    BY <1>1, <2>1, NumbersGrow
<1>6. CASE TrackEnds \/ EndedStarts \/ PlaybackError \/ UNCHANGED vars
  <2>1. cmdGen' = cmdGen /\ UNCHANGED <<job, waiting>>
    BY <1>6 DEF TrackEnds, EndedStarts, PlaybackError, vars, playerVars
  <2>2. ended'.gen = ended.gen \/ ended'.gen = 0 \/ ended'.gen = cmdGen
    BY <1>6 DEF TrackEnds, EndedStarts, PlaybackError, vars, playerVars, NoEnd
  <2>3. ended'.gen = ended.gen \/ ended'.gen <= cmdGen
    BY <1>2, <2>2
  <2>4. QED
    BY <1>1, <1>2, <2>1, <2>3, NumbersGrow
<1>7. CASE RunCommand
  <2> DEFINE msg == Head(inbox).msg
  <2>1. \/ PlayerCall(Head(inbox)) = "apply" /\ Register("apply", msg.track, msg.want)
        \/ Register("stop", NoTrack, "stopped")
        \/ Register("reload", NoTrack, "none")
        \/ UNCHANGED <<player, cmdGen, job, waiting>>
    BY <1>7 DEF RunCommand
  <2>2. ended'.gen = ended.gen
    BY <1>7, AheadKeeps DEF RunCommand
  <2>3. CASE UNCHANGED <<player, cmdGen, job, waiting>>
    BY <1>1, <1>2, <2>2, <2>3, NumbersGrow
  <2>4. CASE PlayerCall(Head(inbox)) = "apply" /\ Register("apply", msg.track, msg.want)
    <3>1. msg \in Messages
      BY <1>7, RunTaskTypes, TypesParts DEF RunCommand
    <3>2. msg.track \in Item /\ msg.want \in WantOrNone
      BY <2>4, <3>1, MessageTypes DEF PlayerCall
    <3>3. cmdGen <= cmdGen'
      BY <1>2, <2>4 DEF Register
    <3>4. QED
      BY <1>1, <1>2, <1>4, <2>2, <2>4, <3>2, <3>3, RegisterNumbers DEF Numbers
  <2>5. CASE Register("stop", NoTrack, "stopped") \/ Register("reload", NoTrack, "none")
    <3>1. NoTrack \in Item /\ "stopped" \in WantOrNone /\ "none" \in WantOrNone
      BY DEF Item, WantOrNone
    <3>2. cmdGen <= cmdGen'
      BY <1>2, <2>5 DEF Register
    <3>3. job'.gen <= cmdGen' /\ \A i \in DOMAIN waiting' : waiting'[i].gen <= cmdGen'
      BY <1>1, <2>5, <3>1, RegisterNumbers
    <3>4. QED
      BY <1>2, <1>4, <2>2, <3>2, <3>3 DEF Numbers
  <2>6. QED
    BY <2>1, <2>3, <2>4, <2>5
<1>8. CASE TakeLock
  <2>1. Waiter(Head(waiting)) /\ waiting # <<>> /\ Head(waiting) = waiting[1] /\ 1 \in DOMAIN waiting
    BY <1>8, TypesParts DEF TakeLock, Lock
  <2>2. job' = NoJob \/ Kept(Head(waiting))
    BY <1>8, <2>1, BeginKeeps, TypesParts DEF TakeLock, Done, Lock
  <2>3. job'.gen <= cmdGen
    BY <1>2, <1>4, <2>1, <2>2 DEF Kept, NoJob, Numbers
  <2>4. waiting' = Tail(waiting) /\ cmdGen' = cmdGen /\ ended'.gen = ended.gen
    BY <1>8, AheadKeeps DEF TakeLock
  <2>5. \A i \in DOMAIN waiting' : waiting'[i].gen <= cmdGen
    BY <1>3, <2>1, <2>4 DEF Numbers
  <2>6. QED
    BY <2>3, <2>4, <2>5 DEF Numbers
<1>9. CASE JobStep
  <2>1. cmdGen' = cmdGen /\ ended'.gen = ended.gen
    <3>1. cmdGen' = cmdGen
      BY <1>9 DEF JobStep, Loaded, Permitted, Unloaded, LoadFails, Sought, Announced, Played,
                  Resumed, Paused, Stopped, Halted, Reloading, Reported, Within
    <3>2. QED
      BY <1>9, <3>1, AheadKeeps DEF JobStep
  <2>2. job'.gen <= cmdGen
    BY <1>2, <1>9, JobStepKeeps DEF Numbers, Kept, NoJob
  <2>3. CASE waiting' = waiting
    BY <2>1, <2>2, <2>3 DEF Numbers
  <2>4. CASE waiting' = Append(waiting, [job EXCEPT !.kind = "skip", !.pc = "waiting"])
    <3>1. [job EXCEPT !.kind = "skip", !.pc = "waiting"].gen = job.gen
      BY <1>3 DEF Job
    <3>2. \A i \in DOMAIN waiting' : waiting'[i].gen <= cmdGen
      BY <1>3, <2>4, <3>1 DEF Numbers
    <3>3. QED
      BY <2>1, <2>2, <3>2 DEF Numbers
  <2>5. QED
    BY <1>9, <2>3, <2>4, JobStepKeeps
<1>10. CASE EndedContinues
  <2> DEFINE restart == [NoJob EXCEPT !.kind = "restart", !.gen = cmdGen, !.track = ended.track]
  <2>1. \/ UNCHANGED <<job, waiting, cmdGen>>
        \/ Enter(restart, player) /\ cmdGen' = cmdGen
        \/ nextInfo # NoTrack /\ Register("advance", nextInfo, "playing")
    BY <1>10 DEF EndedContinues
  <2>2. ended'.gen = 0
    BY <1>10 DEF EndedContinues, NoEnd
  <2>3. CASE UNCHANGED <<job, waiting, cmdGen>>
    BY <1>2, <2>2, <2>3 DEF Numbers
  <2>4. CASE Enter(restart, player) /\ cmdGen' = cmdGen
    <3>1. Waiter(restart) /\ restart.gen = cmdGen
      BY <1>2, <1>3 DEF End, NoJob, Job, Waiter, Commands, Pcs, WantOrNone
    <3> HIDE DEF restart
    <3>2. job'.gen <= cmdGen' /\ \A i \in DOMAIN waiting' : waiting'[i].gen <= cmdGen'
      BY <1>2, <2>4, <3>1, EnterNumbers
    <3>3. QED
      BY <1>2, <2>2, <3>2 DEF Numbers
  <2>5. CASE nextInfo # NoTrack /\ Register("advance", nextInfo, "playing")
    <3>1. nextInfo \in Item /\ "playing" \in WantOrNone
      BY TypesParts DEF HandlerTypes, WantOrNone
    <3>2. job'.gen <= cmdGen' /\ \A i \in DOMAIN waiting' : waiting'[i].gen <= cmdGen'
      BY <1>1, <2>5, <3>1, RegisterNumbers
    <3>3. QED
      BY <1>2, <2>2, <3>2 DEF Numbers
  <2>6. QED
    BY <2>1, <2>3, <2>4, <2>5
<1>11. CASE SkipTimeout
  <2>1. job'.gen = 0 /\ UNCHANGED <<waiting, cmdGen, ended>>
    BY <1>11 DEF SkipTimeout, Go, NoJob
  <2>2. QED
    BY <1>2, <2>1 DEF Numbers
<1>12. QED
  BY <1>5, <1>6, <1>7, <1>8, <1>9, <1>10, <1>11 DEF Next

LEMMA ReceivedStep ==
  ASSUME Types, Received, [Next]_vars
  PROVE  Received'
<1>1. HandlerTypes /\ HandlerTypes'
  BY StepTypes, TypesParts, TypesPartsPrime
<1>2. \A i \in DOMAIN inbox : inbox[i] \in Entry
  BY <1>1 DEF HandlerTypes
<1>3. CASE \E msg \in Messages : Receive(msg)
  <2>1. PICK msg \in Messages : Dispatch(msg, 0)
    BY <1>3 DEF Receive
  <2>2. inbox' = Append(inbox, [msg |-> msg, gen |-> generation', tag |-> 0])
    BY <2>1 DEF Dispatch
  <2>3. \/ generation' = generation /\ handlerActive' = handlerActive
        \/ generation' = generation + 1
    BY <1>1, <2>1 DEF Dispatch, NoteActive
  <2>4. deactivation' <= generation'
    BY <1>1, <2>1 DEF Dispatch, NoteActive, HandlerTypes, Received
  <2>5. msg.kind = "active" => msg.on = handlerActive'
    BY <2>1 DEF Dispatch, NoteActive
  <2>6. ASSUME NEW i \in DOMAIN inbox'
        PROVE  /\ inbox'[i].gen <= generation'
               /\ inbox'[i].msg.kind = "active" /\ inbox'[i].gen = generation'
                    => inbox'[i].msg.on = handlerActive'
    <3>1. CASE i = Len(inbox) + 1
      <4>1. inbox'[i] = [msg |-> msg, gen |-> generation', tag |-> 0]
        BY <1>1, <2>2, <3>1 DEF HandlerTypes
      <4>2. QED
        BY <1>1, <2>5, <4>1 DEF HandlerTypes
    <3>2. CASE i # Len(inbox) + 1
      <4>1. i \in DOMAIN inbox /\ inbox'[i] = inbox[i]
        BY <1>1, <2>2, <2>6, <3>2 DEF HandlerTypes
      <4>2. inbox[i].gen \in Nat
        BY <1>2, <4>1 DEF Entry
      <4>3. QED
        BY <1>1, <2>3, <4>1, <4>2 DEF HandlerTypes, Received
    <3>3. QED
      BY <3>1, <3>2
  <2>7. QED
    BY <2>4, <2>6 DEF Received
<1>4. CASE Drop \/ ReleaseExternalPlayback
  <2>1. generation' = generation + 1 /\ deactivation' = deactivation /\ inbox' = inbox
    BY <1>4 DEF Drop, NoteDisconnected, ReleaseExternalPlayback
  <2>2. \A i \in DOMAIN inbox : inbox[i].gen \in Nat
    BY <1>2 DEF Entry
  <2>3. QED
    BY <1>1, <2>1, <2>2 DEF HandlerTypes, Received
<1>5. CASE RunCommand
  <2>1. RunTask /\ inbox # <<>> /\ inbox' = Tail(inbox) /\ Head(inbox) = inbox[1] /\ 1 \in DOMAIN inbox
    BY <1>1, <1>5 DEF RunCommand, RunTask, HandlerTypes
  <2>2. handlerActive' = handlerActive /\ generation' = generation /\ deactivation' <= generation
    <3>1. CASE IsCurrent(Head(inbox)) /\ Head(inbox).msg.kind = "active"
      <4>1. NoteActive(Head(inbox).msg.on)
        BY <2>1, <3>1 DEF RunTask
      <4>2. Head(inbox).msg.on = handlerActive
        <5>1. Head(inbox).msg \in Messages
          BY <1>2, <2>1 DEF Entry
        <5>2. Head(inbox).msg.on \in BOOLEAN
          BY <3>1, <5>1, MessageTypes
        <5>3. QED
          BY <1>1, <2>1, <3>1, <5>2 DEF IsCurrent, Received, HandlerTypes
      <4>3. handlerActive' = handlerActive /\ generation' = generation
        BY <4>1, <4>2 DEF NoteActive
      <4>4. deactivation' = -1 \/ deactivation' = generation
        BY <4>1, <4>3 DEF NoteActive
      <4>5. QED
        BY <1>1, <4>3, <4>4 DEF HandlerTypes
    <3>2. CASE ~(IsCurrent(Head(inbox)) /\ Head(inbox).msg.kind = "active")
      BY <2>1, <3>2 DEF RunTask, Received
    <3>3. QED
      BY <3>1, <3>2
  <2>3. \A i \in DOMAIN inbox' : i + 1 \in DOMAIN inbox /\ inbox'[i] = inbox[i + 1]
    BY <1>1, <2>1 DEF HandlerTypes
  <2>4. QED
    BY <2>2, <2>3 DEF Received
<1>6. CASE TakeLock \/ JobStep \/ TrackEnds \/ EndedStarts \/ EndedContinues \/ SkipTimeout
           \/ PlaybackError \/ UNCHANGED vars
  <2>1. UNCHANGED <<handlerActive, generation, deactivation, inbox>>
    BY <1>6 DEF TakeLock, JobStep, Loaded, Permitted, Unloaded, LoadFails, Sought, Announced,
                Played, Resumed, Paused, Stopped, Halted, Reloading, Reported, Within, TrackEnds,
                EndedStarts, EndedContinues, SkipTimeout, PlaybackError, vars, handlerVars
  <2>2. QED
    BY <2>1 DEF Received
<1>7. QED
  BY <1>3, <1>4, <1>5, <1>6 DEF Next

-----------------------------------------------------------------------------
(***************************************************************************)
(* A deactivation silences the renderer.                                   *)
(***************************************************************************)
Off(entry) == entry.msg.kind = "active" /\ ~entry.msg.on

\* A queued command that starts nothing when its turn comes.
Harmless(w) == w.kind \in {"restart", "stop"} \/ w.gen < cmdGen

\* The stop is still a message, waits for the lock, or has it.
StopReceived == \E i \in DOMAIN inbox : Off(inbox[i]) /\ inbox[i].gen = generation
StopWaits ==
  /\ job.kind = "advance" => job.gen < cmdGen
  /\ \E k \in DOMAIN waiting :
       /\ waiting[k].kind = "stop" /\ waiting[k].gen = cmdGen
       /\ \A m \in DOMAIN waiting : m # k /\ waiting[m].kind = "advance" => waiting[m].gen < cmdGen
       /\ \A m \in DOMAIN waiting : m > k => Harmless(waiting[m])
StopRuns ==
  /\ job.kind = "stop" /\ job.pc = "stopping"
  /\ \A m \in DOMAIN waiting : Harmless(waiting[m])

\* ... or the speaker is silent and nothing is left to break the silence.
Silenced ==
  /\ audio = "silent" /\ player.state # "PLAYING"
  /\ job.pc \in {"none", "stopping", "reporting"}
  /\ \A m \in DOMAIN waiting : Harmless(waiting[m])

Quieting == StopReceived \/ StopWaits \/ StopRuns \/ Silenced

DeactivationInv ==
  owner = "off" /\ ~spared => ~handlerActive /\ nextInfo = NoTrack /\ Quieting

LEMMA DeactivationInit == Init => DeactivationInv
BY DEF Init, DeactivationInv

LEMMA ReceiveQuiets ==
  ASSUME Types, DeactivationInv, NEW msg \in Messages, Receive(msg)
  PROVE  DeactivationInv'
<1> SUFFICES ASSUME owner' = "off", ~spared'
             PROVE  ~handlerActive' /\ nextInfo' = NoTrack /\ Quieting'
  BY DEF DeactivationInv
<1>1. inbox \in Seq(Entry)
  BY TypesParts DEF HandlerTypes
<1>2. Dispatch(msg, 0)
  BY DEF Receive
<1>3. inbox' = Append(inbox, [msg |-> msg, gen |-> generation', tag |-> 0])
  BY <1>2 DEF Dispatch
<1>4. CASE msg.kind = "active"
  <2>1. ~msg.on
    BY <1>4 DEF Receive
  <2>2. ~handlerActive' /\ nextInfo' = NoTrack
    BY <1>2, <1>4, <2>1 DEF Dispatch, NoteActive
  <2>3. /\ Len(inbox) + 1 \in DOMAIN inbox'
        /\ inbox'[Len(inbox) + 1] = [msg |-> msg, gen |-> generation', tag |-> 0]
    BY <1>1, <1>3
  <2>4. StopReceived'
    BY <1>4, <2>1, <2>3 DEF StopReceived, Off
  <2>5. QED
    BY <2>2, <2>4 DEF Quieting
<1>5. CASE msg.kind # "active"
  <2>1. UNCHANGED <<handlerActive, generation, nextInfo>>
    BY <1>2, <1>5 DEF Dispatch
  <2>2. owner = "off" /\ ~spared /\ UNCHANGED <<player, cmdGen, job, waiting, audio>>
    BY <1>5, <2>1 DEF Receive, Invalidation
  <2>3. ~handlerActive /\ nextInfo = NoTrack /\ Quieting
    BY <2>2 DEF DeactivationInv
  <2>4. StopReceived => StopReceived'
    <3>1. \A i \in DOMAIN inbox : i \in DOMAIN inbox' /\ inbox'[i] = inbox[i]
      BY <1>1, <1>3
    <3>2. QED
      BY <2>1, <3>1 DEF StopReceived, Off
  <2>5. (StopWaits => StopWaits') /\ (StopRuns => StopRuns') /\ (Silenced => Silenced')
    BY <2>2 DEF StopWaits, StopRuns, Silenced, Harmless
  <2>6. QED
    BY <2>1, <2>3, <2>4, <2>5 DEF Quieting
<1>6. QED
  BY <1>4, <1>5

LEMMA RunCommandQuiets ==
  ASSUME Types, Numbers, Received, DeactivationInv, RunCommand
  PROVE  DeactivationInv'
<1> DEFINE call == PlayerCall(Head(inbox))
           msg == Head(inbox).msg
<1> SUFFICES ASSUME owner' = "off", ~spared'
             PROVE  ~handlerActive' /\ nextInfo' = NoTrack /\ Quieting'
  BY DEF DeactivationInv
<1>1. owner = "off" /\ ~spared /\ audio' = audio
  BY DEF RunCommand
<1>2. ~handlerActive /\ nextInfo = NoTrack /\ Quieting
  BY <1>1 DEF DeactivationInv
<1>3. /\ RunTask /\ inbox \in Seq(Entry) /\ inbox # <<>> /\ inbox' = Tail(inbox)
      /\ Head(inbox) = inbox[1] /\ 1 \in DOMAIN inbox
  BY TypesParts DEF RunCommand, RunTask, HandlerTypes
<1>4. msg \in Messages
  BY <1>3, RunTaskTypes, TypesParts
<1>5. cmdGen \in Nat /\ waiting \in Seq(Job) /\ job \in Job /\ player \in Player
  BY TypesParts DEF Rest, Lock, Holder
<1>6. call # "apply"
  BY <1>2, <1>4, MessageTypes DEF PlayerCall
<1>7. call # "volume"
  <2>1. call = "volume" => IsCurrent(Head(inbox)) /\ msg.kind = "active" /\ msg.on
    BY <1>4, MessageTypes DEF PlayerCall
  <2>2. IsCurrent(Head(inbox)) /\ msg.kind = "active" /\ msg.on => Head(inbox).gen = generation
    BY DEF IsCurrent
  <2>3. Head(inbox).gen = generation /\ msg.kind = "active" => msg.on = handlerActive
    BY <1>3 DEF Received
  <2>4. QED
    BY <1>2, <2>1, <2>2, <2>3
<1>8. ~handlerActive' /\ nextInfo' = NoTrack /\ generation' = generation
  <2>1. CASE IsCurrent(Head(inbox)) /\ msg.kind = "active"
    <3>1. msg.on \in BOOLEAN
      BY <1>4, <2>1, MessageTypes
    <3>2. ~msg.on
      BY <1>7, <2>1, <3>1 DEF PlayerCall
    <3>3. NoteActive(msg.on)
      BY <1>3, <2>1 DEF RunTask
    <3>4. QED
      BY <1>2, <3>1, <3>2, <3>3, TypesParts DEF NoteActive, HandlerTypes
  <2>2. CASE ~(IsCurrent(Head(inbox)) /\ msg.kind = "active")
    BY <1>2, <1>3, <1>6, <2>2 DEF RunTask
  <2>3. QED
    BY <2>1, <2>2
<1>9. CASE Register("stop", NoTrack, "stopped")
  <2> DEFINE stop == Command("stop", NoTrack, "stopped")
  <2>1. stop.kind = "stop" /\ stop.gen = cmdGen + 1 /\ stop \in Job
    BY <1>5 DEF Command, Job, Commands, Item, WantOrNone, Pcs
  <2>2. Enter(stop, player) /\ cmdGen' = cmdGen + 1
    BY <1>9 DEF Register
  <2> HIDE DEF stop
  <2>3. CASE Free
    <3>1. Begin(stop, player) /\ waiting' = <<>>
      BY <2>2, <2>3 DEF Enter, Free
    <3>2. job'.kind = "stop" /\ job'.pc = "stopping"
      BY <2>1, <3>1 DEF Begin, BeginStop, Go, Job
    <3>3. StopRuns'
      BY <3>1, <3>2 DEF StopRuns
    <3>4. QED
      BY <1>8, <3>3 DEF Quieting
  <2>4. CASE ~Free
    <3>1. waiting' = Append(waiting, stop) /\ job' = job
      BY <2>2, <2>4 DEF Enter
    <3>2. job'.gen < cmdGen'
      <4>1. job.gen \in Nat
        BY <1>5, JobNumbers
      <4>2. QED
        BY <1>5, <2>2, <3>1, <4>1 DEF Numbers
    <3>3. DOMAIN waiting' = 1 .. Len(waiting) + 1 /\ Len(waiting) \in Nat /\ waiting'[Len(waiting) + 1] = stop
      BY <1>5, <2>1, <3>1
    <3>4. \A m \in DOMAIN waiting' : m # Len(waiting) + 1 => waiting'[m].gen < cmdGen'
      <4>1. \A m \in DOMAIN waiting' : m # Len(waiting) + 1 => m \in DOMAIN waiting /\ waiting'[m] = waiting[m]
        BY <1>5, <2>1, <3>1
      <4>2. \A m \in DOMAIN waiting : waiting[m].gen \in Nat
        BY <1>5, JobNumbers
      <4>3. QED
        BY <1>5, <2>2, <4>1, <4>2 DEF Numbers
    <3>5. StopWaits'
      <4> DEFINE k == Len(waiting) + 1
      <4>1. k \in DOMAIN waiting' /\ waiting'[k].kind = "stop" /\ waiting'[k].gen = cmdGen'
        BY <2>1, <2>2, <3>3
      <4>2. \A m \in DOMAIN waiting' : ~(m > k)
        BY <3>3
      <4> HIDE DEF k
      <4>3. \A m \in DOMAIN waiting' : m # k => waiting'[m].gen < cmdGen'
        BY <3>4 DEF k
      <4>4. QED
        BY <3>2, <4>1, <4>2, <4>3 DEF StopWaits
    <3>6. QED
      BY <1>8, <3>5 DEF Quieting
  <2>5. QED
    BY <2>3, <2>4
<1>10. CASE ~Register("stop", NoTrack, "stopped")
  <2>1. UNCHANGED <<player, cmdGen, job, waiting>> /\ call # "stop"
    <3>1. ~(call = "reload" /\ spared' = TRUE)  \/ ~spared'
      OBVIOUS
    <3>2. QED
      BY <1>6, <1>10 DEF RunCommand
  <2>2. StopReceived => StopReceived'
    <3>1. SUFFICES ASSUME NEW i \in DOMAIN inbox, Off(inbox[i]), inbox[i].gen = generation
                   PROVE  StopReceived'
      BY DEF StopReceived
    <3>2. i # 1
      BY <1>3, <2>1, <3>1 DEF PlayerCall, IsCurrent, Off
    <3>3. i - 1 \in DOMAIN inbox' /\ inbox'[i - 1] = inbox[i]
      BY <1>3, <3>2
    <3>4. QED
      BY <1>8, <3>1, <3>3 DEF StopReceived, Off
  <2>3. (StopWaits => StopWaits') /\ (StopRuns => StopRuns') /\ (Silenced => Silenced')
    BY <1>1, <2>1 DEF StopWaits, StopRuns, Silenced, Harmless
  <2>4. QED
    BY <1>2, <1>8, <2>2, <2>3 DEF Quieting
<1>11. QED
  BY <1>9, <1>10

LEMMA TakeLockQuiets ==
  ASSUME Types, Numbers, DeactivationInv, TakeLock
  PROVE  DeactivationInv'
<1> DEFINE j == Head(waiting)
<1> SUFFICES ASSUME owner' = "off", ~spared'
             PROVE  ~handlerActive' /\ nextInfo' = NoTrack /\ Quieting'
  BY DEF DeactivationInv
<1>1. /\ UNCHANGED <<handlerActive, generation, nextInfo, inbox, cmdGen, audio, owner, spared>>
      /\ job = NoJob /\ waiting # <<>> /\ waiting' = Tail(waiting)
  BY DEF TakeLock, handlerVars
<1>2. ~handlerActive /\ nextInfo = NoTrack /\ Quieting
  BY <1>1 DEF DeactivationInv
<1>3. cmdGen \in Nat /\ waiting \in Seq(Job) /\ player \in Player
  BY TypesParts DEF Rest, Lock
<1>4. j = waiting[1] /\ 1 \in DOMAIN waiting /\ Waiter(j) /\ j \in Job /\ j.gen \in Nat
  <2>1. j = waiting[1] /\ 1 \in DOMAIN waiting
    BY <1>1, <1>3
  <2>2. QED
    BY <1>3, <2>1, JobNumbers, TypesParts DEF Lock, Waiter
<1>5. \A m \in DOMAIN waiting' : m + 1 \in DOMAIN waiting /\ m \in Nat /\ waiting'[m] = waiting[m + 1]
  BY <1>1, <1>3
<1>6. \/ Done(player) /\ j.kind \in {"apply", "stop", "reload", "advance"} /\ j.gen # cmdGen
      \/ Begin(j, player) /\ (j.kind \in {"apply", "stop", "reload", "advance"} => j.gen = cmdGen)
  BY DEF TakeLock
<1>7. StopReceived => StopReceived'
  BY <1>1 DEF StopReceived, Off
<1>8. ~StopRuns
  BY <1>1 DEF StopRuns, NoJob
<1>9. StopWaits => StopWaits' \/ StopRuns'
  <2>1. SUFFICES ASSUME NEW k \in DOMAIN waiting,
                        waiting[k].kind = "stop", waiting[k].gen = cmdGen,
                        \A m \in DOMAIN waiting : m # k /\ waiting[m].kind = "advance" => waiting[m].gen < cmdGen,
                        \A m \in DOMAIN waiting : m > k => Harmless(waiting[m])
                 PROVE  StopWaits' \/ StopRuns'
    BY DEF StopWaits
  <2>2. CASE k = 1
    <3>1. Begin(j, player) /\ j.kind = "stop"
      BY <1>4, <1>6, <2>1, <2>2
    <3>2. job'.kind = "stop" /\ job'.pc = "stopping"
      BY <1>4, <3>1 DEF Begin, BeginStop, Go, Job
    <3>3. \A m \in DOMAIN waiting' : waiting'[m].kind \in {"restart", "stop"} \/ waiting'[m].gen < cmdGen'
      BY <1>1, <1>5, <2>1, <2>2 DEF Harmless
    <3>4. QED
      BY <3>2, <3>3 DEF StopRuns, Harmless
  <2>3. CASE k # 1
    <3>1. k - 1 \in DOMAIN waiting' /\ waiting'[k - 1] = waiting[k]
      BY <1>1, <1>3, <2>1, <2>3
    <3>2. job'.kind # "advance"
      <4>1. j.kind = "advance" => j.gen # cmdGen
        BY <1>3, <1>4, <2>1, <2>3
      <4>2. CASE Begin(j, player) /\ j.kind # "advance"
        BY <1>3, <1>4, <4>2, BeginKeeps DEF Kept, NoJob
      <4>3. QED
        BY <1>6, <4>1, <4>2 DEF Done, NoJob
    <3>3. \A m \in DOMAIN waiting' : m # k - 1 /\ waiting'[m].kind = "advance" => waiting'[m].gen < cmdGen
      BY <1>5, <2>1
    <3>4. \A m \in DOMAIN waiting' : m > k - 1 => waiting'[m].kind \in {"restart", "stop"} \/ waiting'[m].gen < cmdGen'
      BY <1>1, <1>5, <2>1 DEF Harmless
    <3>5. QED
      BY <1>1, <2>1, <3>1, <3>2, <3>3, <3>4 DEF StopWaits, Harmless
  <2>4. QED
    BY <2>2, <2>3
<1>10. Silenced => Silenced'
  <2> SUFFICES ASSUME Silenced PROVE Silenced'
    OBVIOUS
  <2>1. Harmless(j) /\ player.state # "PLAYING"
    BY <1>4 DEF Silenced
  <2>2. \A m \in DOMAIN waiting' : waiting'[m].kind \in {"restart", "stop"} \/ waiting'[m].gen < cmdGen'
    BY <1>1, <1>5 DEF Silenced, Harmless
  <2>3. Done(player) \/ BeginStop(j, player)
    <3>1. CASE j.kind \in {"restart", "stop"}
      BY <1>6, <2>1, <3>1 DEF Begin
    <3>2. CASE j.gen < cmdGen /\ j.kind \notin {"restart", "stop"}
      <4>1. j.gen # cmdGen
        BY <1>3, <1>4, <3>2
      <4>2. j.kind \in {"apply", "stop", "reload", "advance"} \/ j.kind = "skip"
        BY <1>4, <3>2 DEF Waiter, Commands
      <4>3. QED
        BY <1>6, <4>1, <4>2 DEF Begin
    <3>3. QED
      BY <2>1, <3>1, <3>2 DEF Harmless
  <2>4. job'.pc \in {"none", "stopping"} /\ player'.state = player.state
    <3>1. CASE Done(player)
      BY <3>1 DEF Done, NoJob
    <3>2. CASE BeginStop(j, player)
      <4>1. [player EXCEPT !.skip = NoTrack, !.skips = 0].state = player.state
        BY <1>3 DEF Player
      <4>2. QED
        BY <1>4, <3>2, <4>1 DEF BeginStop, Go, Job
    <3>3. QED
      BY <2>3, <3>1, <3>2
  <2>5. QED
    BY <1>1, <2>1, <2>2, <2>4 DEF Silenced, Harmless
<1>11. QED
  BY <1>1, <1>2, <1>7, <1>8, <1>9, <1>10 DEF Quieting

LEMMA JobStepQuiets ==
  ASSUME Types, Numbers, DeactivationInv, JobStep
  PROVE  DeactivationInv'
<1> SUFFICES ASSUME owner' = "off", ~spared'
             PROVE  ~handlerActive' /\ nextInfo' = NoTrack /\ Quieting'
  BY DEF DeactivationInv
<1>1. UNCHANGED <<handlerVars, cmdGen, owner, spared>>
  BY DEF JobStep, Loaded, Permitted, Unloaded, LoadFails, Sought, Announced, Played, Resumed,
         Paused, Stopped, Halted, Reloading, Reported, Within
<1>2. ~handlerActive /\ nextInfo = NoTrack /\ Quieting /\ ~handlerActive' /\ nextInfo' = NoTrack
  BY <1>1 DEF DeactivationInv, handlerVars
<1>3. cmdGen \in Nat /\ waiting \in Seq(Job) /\ job \in Job /\ job.gen \in Nat
  BY TypesParts, JobNumbers DEF Rest, Lock, Holder
<1>4. StopReceived => StopReceived'
  BY <1>1 DEF StopReceived, Off, handlerVars
<1>5. StopWaits => StopWaits'
  <2>1. SUFFICES ASSUME NEW k \in DOMAIN waiting, job.kind = "advance" => job.gen < cmdGen,
                        waiting[k].kind = "stop", waiting[k].gen = cmdGen,
                        \A m \in DOMAIN waiting : m # k /\ waiting[m].kind = "advance" => waiting[m].gen < cmdGen,
                        \A m \in DOMAIN waiting : m > k => Harmless(waiting[m])
                 PROVE  StopWaits'
    BY DEF StopWaits
  <2>2. CASE Kept(job) /\ waiting' = waiting
    <3>1. job'.kind = "advance" => job'.gen < cmdGen
      BY <2>1, <2>2 DEF Kept, NoJob
    <3>2. QED
      BY <1>1, <2>1, <2>2, <3>1 DEF StopWaits, Harmless
  <2>3. CASE /\ job.kind = "advance" /\ job' = NoJob
             /\ waiting' = Append(waiting, [job EXCEPT !.kind = "skip", !.pc = "waiting"])
    <3> DEFINE skip == [job EXCEPT !.kind = "skip", !.pc = "waiting"]
    <3>1. skip.kind = "skip" /\ skip.gen < cmdGen
      BY <1>3, <2>1, <2>3 DEF Job
    <3> HIDE DEF skip
    <3>2. \A m \in DOMAIN waiting' : (m \in DOMAIN waiting /\ waiting'[m] = waiting[m]) \/ waiting'[m] = skip
      BY <1>3, <2>3 DEF skip
    <3>3. k \in DOMAIN waiting' /\ waiting'[k] = waiting[k]
      BY <1>3, <2>1, <2>3
    <3>4. \A m \in DOMAIN waiting' : m # k /\ waiting'[m].kind = "advance" => waiting'[m].gen < cmdGen
      BY <2>1, <3>1, <3>2
    <3>5. \A m \in DOMAIN waiting' : m > k => waiting'[m].kind \in {"restart", "stop"} \/ waiting'[m].gen < cmdGen'
      BY <1>1, <2>1, <3>1, <3>2 DEF Harmless
    <3>6. QED
      BY <1>1, <2>1, <2>3, <3>3, <3>4, <3>5 DEF StopWaits, NoJob, Harmless
  <2>4. QED
    BY <2>1, <2>2, <2>3, JobStepKeeps
<1>6. CASE (StopRuns \/ Silenced) /\ job.pc = "stopping"
  <2>1. Stopped
    BY <1>6 DEF JobStep, Loaded, Permitted, Unloaded, LoadFails, Sought, Announced, Played, Resumed,
                Paused, Halted, Reloading, Reported
  <2>2. audio' = "silent" /\ waiting' = waiting /\ Go(job, [player EXCEPT !.state = "STOPPED"], "reporting")
    BY <2>1 DEF Stopped, Within
  <2>3. job'.pc = "reporting" /\ player'.state = "STOPPED"
    BY <1>3, <2>2, TypesParts DEF Go, Job, Lock, Player
  <2>4. Silenced'
    BY <1>1, <1>6, <2>2, <2>3 DEF Silenced, StopRuns, Harmless
  <2>5. QED
    BY <1>2, <2>4 DEF Quieting
<1>7. CASE Silenced /\ job.pc # "stopping"
  <2>1. job.pc \in {"none", "reporting"}
    BY <1>7 DEF Silenced
  <2>2. Reported
    BY <2>1 DEF JobStep, Loaded, Permitted, Unloaded, LoadFails, Sought, Announced, Played, Resumed,
                Paused, Stopped, Halted, Reloading
  <2>3. audio' = audio /\ waiting' = waiting /\ Done(player)
    BY <2>2 DEF Reported, Within
  <2>4. Silenced'
    BY <1>1, <1>7, <2>3 DEF Silenced, Harmless, Done, NoJob
  <2>5. QED
    BY <1>2, <2>4 DEF Quieting
<1>8. QED
  BY <1>2, <1>4, <1>5, <1>6, <1>7 DEF Quieting, StopRuns

LEMMA EndedContinuesQuiets ==
  ASSUME Types, Numbers, DeactivationInv, EndedContinues
  PROVE  DeactivationInv'
<1> DEFINE restart == [NoJob EXCEPT !.kind = "restart", !.gen = cmdGen, !.track = ended.track]
           q == [player EXCEPT !.state = "STOPPED", !.track = NoTrack, !.loaded = FALSE]
<1> SUFFICES ASSUME owner' = "off", ~spared'
             PROVE  ~handlerActive' /\ nextInfo' = NoTrack /\ Quieting'
  BY DEF DeactivationInv
<1>1. UNCHANGED <<handlerActive, generation, inbox, audio, owner, spared>>
  BY DEF EndedContinues
<1>2. ~handlerActive /\ nextInfo = NoTrack /\ Quieting
  BY <1>1 DEF DeactivationInv
<1>3. player \in Player /\ cmdGen \in Nat /\ waiting \in Seq(Job)
  BY TypesParts DEF Lock, Rest
<1>4. StopReceived => StopReceived'
  BY <1>1 DEF StopReceived, Off
<1>5. restart.kind = "restart" /\ restart \in Job
  BY <1>3, TypesParts DEF Ending, End, NoJob, Job, Commands, Pcs, WantOrNone
<1>6. \/ player' \in {player, q} /\ UNCHANGED <<cmdGen, job, waiting, nextInfo>>
      \/ Enter(restart, player) /\ UNCHANGED <<cmdGen, nextInfo>>
  BY <1>2 DEF EndedContinues
<1>7. Begin(restart, player) /\ player.state # "PLAYING" => Done(player)
  BY DEF Begin, NoJob
<1> HIDE DEF restart
<1>8. CASE player' \in {player, q} /\ UNCHANGED <<cmdGen, job, waiting, nextInfo>>
  <2>1. player.state # "PLAYING" => player'.state # "PLAYING"
    BY <1>3, <1>8 DEF Player
  <2>2. (StopWaits => StopWaits') /\ (StopRuns => StopRuns') /\ (Silenced => Silenced')
    BY <1>1, <1>8, <2>1 DEF StopWaits, StopRuns, Silenced, Harmless
  <2>3. QED
    BY <1>1, <1>2, <1>4, <1>8, <2>2 DEF Quieting
<1>9. CASE Free /\ Enter(restart, player) /\ UNCHANGED <<cmdGen, nextInfo>>
  <2>1. Begin(restart, player) /\ waiting = <<>> /\ waiting' = <<>> /\ job = NoJob
    BY <1>9 DEF Enter, Free
  <2>2. ~StopWaits /\ ~StopRuns
    BY <2>1 DEF StopWaits, StopRuns, NoJob
  <2>3. Silenced => Silenced'
    BY <1>1, <1>7, <2>1 DEF Silenced, Done, NoJob
  <2>4. QED
    BY <1>1, <1>2, <1>4, <1>9, <2>2, <2>3 DEF Quieting
<1>10. CASE ~Free /\ Enter(restart, player) /\ UNCHANGED <<cmdGen, nextInfo>>
  <2>1. waiting' = Append(waiting, restart) /\ player' = player /\ job' = job
    BY <1>10 DEF Enter
  <2>2. /\ \A m \in DOMAIN waiting' : (m \in DOMAIN waiting /\ waiting'[m] = waiting[m]) \/ waiting'[m] = restart
        /\ \A m \in DOMAIN waiting : m \in DOMAIN waiting' /\ waiting'[m] = waiting[m]
    BY <1>3, <1>5, <2>1
  <2>3. (\A m \in DOMAIN waiting : Harmless(waiting[m]))
          => \A m \in DOMAIN waiting' : waiting'[m].kind \in {"restart", "stop"} \/ waiting'[m].gen < cmdGen'
    BY <1>5, <1>10, <2>2 DEF Harmless
  <2>4. (StopRuns => StopRuns') /\ (Silenced => Silenced')
    BY <1>1, <2>1, <2>3 DEF StopRuns, Silenced, Harmless
  <2>5. StopWaits => StopWaits'
    <3>1. SUFFICES ASSUME NEW k \in DOMAIN waiting, job.kind = "advance" => job.gen < cmdGen,
                          waiting[k].kind = "stop", waiting[k].gen = cmdGen,
                          \A m \in DOMAIN waiting : m # k /\ waiting[m].kind = "advance" => waiting[m].gen < cmdGen,
                          \A m \in DOMAIN waiting : m > k => Harmless(waiting[m])
                   PROVE  StopWaits'
      BY DEF StopWaits
    <3>2. k \in DOMAIN waiting' /\ waiting'[k] = waiting[k]
      BY <2>2, <3>1
    <3>3. \A m \in DOMAIN waiting' : m # k /\ waiting'[m].kind = "advance" => waiting'[m].gen < cmdGen
      BY <1>5, <2>2, <3>1
    <3>4. \A m \in DOMAIN waiting' : m > k => waiting'[m].kind \in {"restart", "stop"} \/ waiting'[m].gen < cmdGen'
      BY <1>5, <1>10, <2>2, <3>1 DEF Harmless
    <3>5. QED
      BY <1>10, <2>1, <3>1, <3>2, <3>3, <3>4 DEF StopWaits, Harmless
  <2>6. QED
    BY <1>1, <1>2, <1>4, <1>10, <2>4, <2>5 DEF Quieting
<1>11. QED
  BY <1>6, <1>8, <1>9, <1>10

LEMMA BackendQuiets ==
  ASSUME Types, DeactivationInv,
         TrackEnds \/ EndedStarts \/ SkipTimeout \/ PlaybackError \/ UNCHANGED vars
  PROVE  DeactivationInv'
<1> SUFFICES ASSUME owner' = "off", ~spared'
             PROVE  ~handlerActive' /\ nextInfo' = NoTrack /\ Quieting'
  BY DEF DeactivationInv
<1>1. UNCHANGED <<handlerActive, generation, nextInfo, inbox, owner, spared, cmdGen, waiting>>
  BY DEF TrackEnds, EndedStarts, SkipTimeout, PlaybackError, vars, handlerVars, playerVars, history
<1>2. ~handlerActive /\ nextInfo = NoTrack /\ Quieting
  BY <1>1 DEF DeactivationInv
<1>3. player \in Player
  BY TypesParts DEF Lock
<1>4. StopReceived => StopReceived'
  BY <1>1 DEF StopReceived, Off
<1>5. CASE SkipTimeout
  <2>1. job = NoJob /\ audio' = audio
    BY <1>5 DEF SkipTimeout
  <2>2. job'.kind = "timeout" /\ job'.pc = "reporting"
    BY <1>5 DEF SkipTimeout, Go, NoJob
  <2>3. player'.state = "STOPPED"
    BY <1>3, <1>5 DEF SkipTimeout, Go, NoSkip, Player
  <2>4. (StopWaits => StopWaits') /\ ~StopRuns /\ (Silenced => Silenced')
    BY <1>1, <2>1, <2>2, <2>3 DEF StopWaits, StopRuns, Silenced, Harmless, NoJob
  <2>5. QED
    BY <1>1, <1>2, <1>4, <2>4 DEF Quieting
<1>6. CASE TrackEnds \/ EndedStarts \/ PlaybackError \/ UNCHANGED vars
  <2>1. job' = job /\ (audio = "silent" => audio' = "silent")
    BY <1>6 DEF TrackEnds, EndedStarts, PlaybackError, vars, playerVars
  <2>2. player' = player \/ player' = [player EXCEPT !.state = "ERROR"]
    BY <1>6 DEF TrackEnds, EndedStarts, PlaybackError, vars, playerVars
  <2>3. player.state # "PLAYING" => player'.state # "PLAYING"
    BY <1>3, <2>2 DEF Player
  <2>4. (StopWaits => StopWaits') /\ (StopRuns => StopRuns') /\ (Silenced => Silenced')
    BY <1>1, <2>1, <2>3 DEF StopWaits, StopRuns, Silenced, Harmless
  <2>5. QED
    BY <1>1, <1>2, <1>4, <2>4 DEF Quieting
<1>7. QED
  BY <1>5, <1>6

LEMMA DeactivationStep ==
  ASSUME Types, Numbers, Received, DeactivationInv, [Next]_vars
  PROVE  DeactivationInv'
<1>1. CASE Drop \/ ReleaseExternalPlayback
  BY <1>1 DEF Drop, ReleaseExternalPlayback, DeactivationInv
<1>2. QED
  BY <1>1, ReceiveQuiets, RunCommandQuiets, TakeLockQuiets, JobStepQuiets, EndedContinuesQuiets,
     BackendQuiets DEF Next

\* Once every task has run after a deactivation, with no lost connection and no
\* quality change since, the speaker is silent: whatever commands, ends of tracks and
\* failures its stop (command_handler.py:150-160, player.py:795-807) met on the way.
THEOREM DeactivationSucceeds == Spec => []DeactivationSilences
<1> DEFINE I == Types /\ Numbers /\ Received /\ DeactivationInv
<1>1. Init => I
  BY InitTypes, NumbersInit, DeactivationInit
<1>2. I /\ [Next]_vars => I'
  BY StepTypes, NumbersStep, ReceivedStep, DeactivationStep
<1>3. I => DeactivationSilences
  <2> SUFFICES ASSUME Quiet, owner = "off", ~spared, DeactivationInv PROVE audio = "silent"
    BY DEF DeactivationSilences
  <2>1. Silenced
    BY DEF DeactivationInv, Quieting, Quiet, Free, StopReceived, StopWaits, StopRuns, NoJob
  <2>2. QED
    BY <2>1 DEF Silenced
<1> HIDE DEF I
<1>4. QED
  BY <1>1, <1>2, <1>3, PTL DEF Spec

-----------------------------------------------------------------------------
(***************************************************************************)
(* What the player is while a command is at an await.                      *)
(***************************************************************************)
\* A pending skip: its item is unplayable and current, and no command but a check of
\* the permission or the report of the item itself is under way.
Waits(pc, p) ==
  p.skip # NoTrack =>
    /\ pc \in {"none", "permission", "skipping"}
    /\ p.state \notin Live
    /\ p.track \in {NoTrack, p.skip}

\* LOADING has a reason; the awaits before and after a load know their states.
Loads(j, p, forgotten) ==
  /\ p.state = "LOADING" =>
       /\ p.track # NoTrack
       /\ \/ forgotten \/ p.skip # NoTrack
          \/ j.pc \in {"announcing", "starting", "stopping", "halting"}
          \/ j.pc = "loading" /\ ForPlayback(j)
  /\ j.pc \in {"resuming", "pausing", "seeking", "unloading", "reloading"} => p.state # "LOADING"
  /\ j.pc \in {"loading", "announcing", "starting"} => p.state \notin Live

LockInv == Waits(job.pc, player) /\ Loads(job, player, given.loading)

LEMMA StopLoads ==
  ASSUME NEW j \in Job, NEW p \in Player, NEW forgotten \in BOOLEAN,
         p.state = "LOADING" => p.track # NoTrack, BeginStop(j, p)
  PROVE  Waits(job'.pc, player') /\ Loads(job', player', forgotten)
<1>1. job'.pc = "stopping"
  BY DEF BeginStop, Go, Job
<1>2. player'.skip = NoTrack /\ player'.state = p.state /\ player'.track = p.track
  BY DEF BeginStop, Go, Player
<1>3. QED
  BY <1>1, <1>2 DEF Waits, Loads

LEMMA StartLoads ==
  ASSUME NEW j \in Job, NEW p \in Player, NEW forgotten \in BOOLEAN, p.skip = NoTrack,
         p.state = "LOADING" => p.track # NoTrack, BeginStart(j, p)
  PROVE  Waits(job'.pc, player') /\ Loads(job', player', forgotten)
<1>1. CASE p.track = NoTrack
  BY <1>1 DEF BeginStart, Done, NoJob, Waits, Loads
<1>2. CASE p.track # NoTrack
  <2>1. job'.pc = "announcing"
    BY <1>2 DEF BeginStart, Go, Job
  <2>2. player'.skip = NoTrack /\ player'.state = "LOADING" /\ player'.track = p.track
    BY <1>2 DEF BeginStart, Go, Player
  <2>3. QED
    BY <1>2, <2>1, <2>2 DEF Waits, Loads, Live
<1>3. QED
  BY <1>1, <1>2

LEMMA FinishLoads ==
  ASSUME NEW j \in Job, NEW p \in Player, NEW forgotten \in BOOLEAN, p.skip = NoTrack,
         p.state = "LOADING" => p.track # NoTrack /\ (forgotten \/ j.want = "playing"),
         BeginFinish(j, p) \/ Finish(j, p)
  PROVE  Waits(job'.pc, player') /\ Loads(job', player', forgotten)
<1>1. \A pc : Go(j, p, pc) => job'.pc = pc /\ player' = p
  BY DEF Go, Job
<1>2. CASE Go(j, p, "seeking") /\ p.state # "LOADING"
  BY <1>1, <1>2 DEF Waits, Loads
<1>3. CASE Finish(j, p)
  <2>1. CASE Go(j, p, "resuming") /\ p.state = "PAUSED"
    BY <1>1, <2>1 DEF Waits, Loads
  <2>2. CASE Go(j, p, "pausing") /\ p.state = "PLAYING"
    BY <1>1, <2>2 DEF Waits, Loads
  <2>3. CASE BeginStart(j, p) \/ BeginStop(j, p)
    BY <2>3, StartLoads, StopLoads
  <2>4. CASE Done(p) /\ ~(j.want = "playing" /\ p.state = "LOADING")
    BY <2>4 DEF Done, NoJob, Waits, Loads
  <2>5. QED
    BY <1>3, <2>1, <2>2, <2>3, <2>4 DEF Finish, Live
<1>4. QED
  BY <1>2, <1>3 DEF BeginFinish

LEMMA LoadLoads ==
  ASSUME NEW j \in Job, NEW p \in Player, NEW forgotten \in BOOLEAN, j.track # NoTrack,
         BeginLoad(j, p)
  PROVE  Waits(job'.pc, player') /\ Loads(job', player', forgotten)
<1>1. CASE p.state \in Live
  <2>1. job'.pc = "unloading"
    BY <1>1 DEF BeginLoad, Go, Job
  <2>2. player'.skip = NoTrack /\ player'.state = p.state
    BY <1>1 DEF BeginLoad, Go, NoSkip, Player
  <2>3. QED
    BY <1>1, <2>1, <2>2 DEF Waits, Loads, Live
<1>2. CASE p.state \notin Live
  <2>1. job'.pc = "loading" /\ job'.kind = j.kind /\ job'.want = j.want
    BY <1>2 DEF BeginLoad, Go, Job
  <2>2. /\ player'.skip = NoTrack /\ player'.track = j.track
        /\ player'.state = IF ForPlayback(j) THEN "LOADING" ELSE "STOPPED"
    BY <1>2 DEF BeginLoad, Go, Replaced, NoSkip, Player
  <2>3. QED
    BY <2>1, <2>2 DEF Waits, Loads, ForPlayback, Live
<1>3. QED
  BY <1>1, <1>2

LEMMA SkipLoads ==
  ASSUME NEW j \in Job, NEW p \in Player, NEW forgotten \in BOOLEAN, Waits("none", p),
         p.state = "LOADING" => p.track # NoTrack, BeginSkipWait(j, p)
  PROVE  Waits(job'.pc, player') /\ Loads(job', player', forgotten)
<1>1. CASE p.track = NoTrack
  BY <1>1 DEF BeginSkipWait, Done, NoJob, Waits, Loads
<1>2. CASE BeginStop(j, p)
  BY <1>2, StopLoads
<1>3. CASE /\ p.track # NoTrack
           /\ Go(j, [p EXCEPT !.skips = @ + 1, !.skip = p.track, !.state = "LOADING"], "skipping")
  <2>1. job'.pc = "skipping"
    BY <1>3 DEF Go, Job
  <2>2. player'.skip = p.track /\ player'.track = p.track /\ player'.state = "LOADING"
    BY <1>3 DEF Go, Player
  <2>3. QED
    BY <1>3, <2>1, <2>2 DEF Waits, Loads, Live
<1>4. QED
  BY <1>1, <1>2, <1>3 DEF BeginSkipWait

LEMMA BeginLoads ==
  ASSUME NEW j, Waiter(j), NEW p \in Player, NEW forgotten \in BOOLEAN, Waits("none", p),
         Loads(NoJob, p, forgotten), Begin(j, p)
  PROVE  Waits(job'.pc, player') /\ Loads(job', player', forgotten)
<1>1. j \in Job
  BY DEF Waiter
<1>2. p.state = "LOADING" => p.track # NoTrack
  BY DEF Loads
<1>3. \A q : q.state = p.state /\ q.skip = p.skip /\ q.track = p.track /\ Done(q)
               => Waits(job'.pc, player') /\ Loads(job', player', forgotten)
  BY DEF Done, Waits, Loads, NoJob
<1>4. CASE j.kind = "stop"
  BY <1>1, <1>2, <1>4, StopLoads DEF Begin
<1>5. CASE j.kind = "apply"
  <2>1. job'.pc = "permission" /\ player' = p
    BY <1>1, <1>5 DEF Begin, Go, Job
  <2>2. QED
    BY <2>1 DEF Waits, Loads, NoJob
<1>6. CASE j.kind = "advance"
  <2>1. NoSkip(p) \in Player /\ j.track # NoTrack
    BY <1>6 DEF NoSkip, Player, Item, Waiter
  <2>2. QED
    BY <1>1, <1>6, <2>1, LoadLoads DEF Begin
<1>7. CASE j.kind = "reload"
  <2> DEFINE q == [p EXCEPT !.loaded = FALSE]
  <2>1. q.state = p.state /\ q.skip = p.skip /\ q.track = p.track
    BY DEF Player
  <2>2. CASE p.state \in Live /\ ~Done(p)
    <3>1. job'.pc = "reloading" /\ player' = p
      BY <1>1, <1>7, <2>2 DEF Begin, Go, Job
    <3>2. QED
      BY <2>2, <3>1 DEF Waits, Loads, Live
  <2>3. CASE Done(p) \/ Done(q)
    BY <1>3, <2>1, <2>3
  <2>4. QED
    BY <1>7, <2>2, <2>3 DEF Begin
<1>8. CASE j.kind = "restart"
  <2> DEFINE q == [p EXCEPT !.loaded = FALSE]
  <2>1. q \in Player /\ q.state = p.state /\ q.skip = p.skip /\ q.track = p.track
    BY DEF Player
  <2>2. CASE p.state = "PLAYING" /\ BeginStart(j, q)
    <3>1. q.skip = NoTrack
      BY <2>1, <2>2 DEF Waits, Live
    <3> HIDE DEF q
    <3>2. QED
      BY <1>1, <1>2, <2>1, <2>2, <3>1, StartLoads
  <2>3. CASE Done(p)
    BY <1>3, <2>3
  <2>4. QED
    BY <1>8, <2>2, <2>3 DEF Begin
<1>9. CASE j.kind = "skip"
  BY <1>1, <1>2, <1>3, <1>9, SkipLoads DEF Begin
<1>10. QED
  BY <1>4, <1>5, <1>6, <1>7, <1>8, <1>9 DEF Waiter, Commands

LEMMA LockInit == Init => LockInv
BY DEF Init, LockInv, Waits, Loads, NoJob

LEMMA DoneLoads ==
  ASSUME NEW p, NEW forgotten \in BOOLEAN, Waits("none", p), Loads(NoJob, p, forgotten), Done(p)
  PROVE  Waits(job'.pc, player') /\ Loads(job', player', forgotten)
BY DEF Done, NoJob

LEMMA EnterLoads ==
  ASSUME Types, LockInv, NEW j, Waiter(j), Enter(j, player), given'.loading = given.loading
  PROVE  LockInv'
<1>1. player \in Player /\ given.loading \in BOOLEAN
  BY TypesParts DEF Lock, Rest, Given
<1>2. CASE Free
  <2>1. Begin(j, player) /\ job = NoJob /\ NoJob.pc = "none"
    BY <1>2 DEF Enter, Free, NoJob
  <2>2. QED
    BY <1>1, <2>1, BeginLoads DEF LockInv
<1>3. CASE ~Free
  BY <1>3 DEF Enter, LockInv, Waits, Loads, ForPlayback
<1>4. QED
  BY <1>2, <1>3

LEMMA PermittedLoads ==
  ASSUME Types, LockInv, Permitted
  PROVE  Waits(job'.pc, player') /\ Loads(job', player', given.loading)
<1>1. job \in Job /\ player \in Player /\ given.loading \in BOOLEAN /\ job.kind = "apply"
      /\ job.pc = "permission"
  BY TypesParts DEF Lock, Rest, Given, Holder, Permitted
<1>2. Waits("permission", player) /\ Loads(job, player, given.loading)
  BY <1>1 DEF LockInv
<1>3. Waits("none", player) /\ Loads(NoJob, player, given.loading)
  BY <1>1, <1>2 DEF Waits, Loads, NoJob
<1>4. Done(player) => Waits(job'.pc, player') /\ Loads(job', player', given.loading)
  BY <1>1, <1>3, DoneLoads
<1>5. ASSUME NEW stale \in BOOLEAN, BeginApply(stale)
      PROVE  Waits(job'.pc, player') /\ Loads(job', player', given.loading)
  <2>1. CASE Go(job, [player EXCEPT !.skip = NoTrack, !.skips = 0], "halting")
    <3>1. job'.pc = "halting" /\ player'.skip = NoTrack /\ player'.state = player.state
          /\ player'.track = player.track
      BY <1>1, <2>1 DEF Go, Job, Player
    <3>2. QED
      BY <1>2, <3>1 DEF Waits, Loads
  <2>2. CASE job.track # NoTrack /\ BeginLoad(job, player)
    BY <1>1, <2>2, LoadLoads
  <2>3. CASE player.skip = NoTrack /\ BeginFinish(job, player)
    BY <1>1, <1>2, <2>3, FinishLoads DEF Loads
  <2>4. CASE player.skip # NoTrack /\ BeginFinish(job, player) /\ ~Done(player)
             /\ ~(job.track # NoTrack /\ BeginLoad(job, player))
             /\ ~Go(job, [player EXCEPT !.skip = NoTrack, !.skips = 0], "halting")
    <3>1. player.track \in {NoTrack, player.skip}
      BY <1>2, <2>4 DEF Waits
    <3>2. QED
      BY <1>5, <2>4, <3>1 DEF BeginApply
  <2>5. QED
    BY <1>4, <1>5, <2>1, <2>2, <2>3, <2>4 DEF BeginApply
<1>6. QED
  BY <1>4, <1>5 DEF Permitted

LEMMA LoadedLoads ==
  ASSUME Types, LockInv, Loaded
  PROVE  LockInv'
<1> DEFINE p == [player EXCEPT !.loaded = TRUE]
           q == [p EXCEPT !.state = "STOPPED"]
<1>1. /\ job \in Job /\ player \in Player /\ given.loading \in BOOLEAN
      /\ job.kind \in {"apply", "advance"} /\ job.pc = "loading"
  BY TypesParts DEF Lock, Rest, Given, Holder, Loaded
<1>2. /\ p \in Player /\ p.skip = player.skip /\ p.state = player.state /\ p.track = player.track
      /\ q.skip = player.skip /\ q.state = "STOPPED"
  BY <1>1 DEF Player
<1>3. given'.loading \in BOOLEAN /\ given'.loading = (given.loading \/ (Superseded /\ job.kind = "advance"))
  BY <1>1, TypesParts DEF Loaded, Rest, Given
<1>4. player.skip = NoTrack
  BY <1>1 DEF LockInv, Waits
<1>5. player.state = "LOADING" => player.track # NoTrack /\ (given.loading \/ ForPlayback(job))
  BY <1>1, <1>4 DEF LockInv, Loads
<1>6. \/ ~Superseded /\ job.kind = "advance" /\ BeginStart(job, p)
      \/ ~Superseded /\ job.kind = "apply" /\ BeginFinish(job, p)
      \/ Superseded /\ job.kind = "apply" /\ p.state = "LOADING" /\ Done(q)
      \/ Superseded /\ (job.kind = "advance" \/ p.state # "LOADING") /\ Done(p)
  BY <1>1 DEF Loaded
<1> HIDE DEF p, q
<1>7. CASE job.kind = "advance" /\ BeginStart(job, p)
  BY <1>1, <1>2, <1>3, <1>4, <1>5, <1>7, StartLoads DEF LockInv
<1>8. CASE ~Superseded /\ job.kind = "apply" /\ BeginFinish(job, p)
  <2>1. p.state = "LOADING" => p.track # NoTrack /\ (given'.loading \/ job.want = "playing")
    BY <1>2, <1>3, <1>5, <1>8 DEF ForPlayback
  <2>2. QED
    BY <1>1, <1>2, <1>3, <1>4, <1>8, <2>1, FinishLoads DEF LockInv
<1>9. CASE Done(q)
  BY <1>2, <1>4, <1>9 DEF LockInv, Done, NoJob, Waits, Loads
<1>10. CASE Superseded /\ (job.kind = "advance" \/ p.state # "LOADING") /\ Done(p)
  BY <1>2, <1>3, <1>4, <1>5, <1>10 DEF LockInv, Done, NoJob, Waits, Loads
<1>11. QED
  BY <1>6, <1>7, <1>8, <1>9, <1>10

LEMMA LoadFailsLoads ==
  ASSUME Types, LockInv, LoadFails
  PROVE  Waits(job'.pc, player') /\ Loads(job', player', given.loading)
<1> DEFINE p == [player EXCEPT !.state = "STOPPED"]
           skip == [job EXCEPT !.kind = "skip", !.pc = "waiting"]
<1>1. /\ job \in Job /\ player \in Player /\ given.loading \in BOOLEAN /\ job.pc = "loading"
  BY TypesParts DEF Lock, Rest, Given, Holder, LoadFails
<1>2. p \in Player /\ p.skip = player.skip /\ p.state = "STOPPED"
  BY <1>1 DEF Player, Playbacks
<1>3. player.skip = NoTrack
  BY <1>1 DEF LockInv, Waits
<1>4. Waiter(skip)
  BY <1>1 DEF Job, Waiter, Commands, Pcs
<1>5. BeginSkipWait(job, p) \/ Done(p) \/ Begin(skip, p)
  BY DEF LoadFails
<1> HIDE DEF p, skip
<1>6. Waits("none", p) /\ Loads(NoJob, p, given.loading)
  BY <1>2, <1>3 DEF Waits, Loads, NoJob
<1>7. QED
  BY <1>1, <1>2, <1>4, <1>5, <1>6, SkipLoads, DoneLoads, BeginLoads

LEMMA OtherLoads ==
  ASSUME Types, LockInv, Sought \/ Reloading \/ Reported \/ Plain
  PROVE  Waits(job'.pc, player') /\ Loads(job', player', given.loading)
<1>1. job \in Job /\ player \in Player /\ given.loading \in BOOLEAN
  BY TypesParts DEF Lock, Rest, Given, Holder
<1>2. /\ \A pc : job.pc = pc /\ pc \notin {"none", "permission", "skipping"} => player.skip = NoTrack
      /\ Loads(job, player, given.loading)
  BY DEF LockInv, Waits
<1>3. \A pc, p : Go(job, p, pc) => job'.pc = pc /\ job'.kind = job.kind /\ job'.want = job.want /\ player' = p
  BY <1>1 DEF Go, Job
<1>4. CASE Sought
  <2>1. player.skip = NoTrack /\ player.state # "LOADING"
    BY <1>2, <1>4 DEF Sought, Loads
  <2>2. CASE Finish(job, player)
    BY <1>1, <2>1, <2>2, FinishLoads
  <2>3. CASE Done(player)
    BY <2>1, <2>3 DEF Done, NoJob, Waits, Loads
  <2>4. QED
    BY <1>4, <2>2, <2>3 DEF Sought
<1>5. CASE Reloading
  <2> DEFINE p == [player EXCEPT !.loaded = FALSE]
             q == [p EXCEPT !.state = "STOPPED"]
  <2>1. player.skip = NoTrack /\ player.state # "LOADING"
    BY <1>2, <1>5 DEF Reloading, Loads
  <2>2. p \in Player /\ p.skip = NoTrack /\ p.state # "LOADING" /\ q.skip = NoTrack /\ q.state = "STOPPED"
    BY <1>1, <2>1 DEF Player
  <2>3. BeginStart(job, p) \/ Go(job, q, "reporting")
    BY <1>5 DEF Reloading
  <2> HIDE DEF p, q
  <2>4. CASE BeginStart(job, p)
    BY <1>1, <2>2, <2>4, StartLoads
  <2>5. CASE Go(job, q, "reporting")
    BY <1>3, <2>2, <2>5 DEF Waits, Loads
  <2>6. QED
    BY <2>3, <2>4, <2>5
<1>6. CASE Reported
  BY <1>2, <1>6 DEF Reported, Done, NoJob, Loads, LockInv, Waits
<1>7. CASE Unloaded
  <2>1. /\ job'.pc = "loading" /\ job'.kind = job.kind /\ job'.want = job.want
        /\ player' = Replaced(job, player)
    BY <1>3, <1>7 DEF Unloaded
  <2>2. player.skip = NoTrack /\ job.track # NoTrack
    BY <1>2, <1>7 DEF Unloaded, Types, Holder
  <2>3. /\ player'.skip = NoTrack /\ player'.track = job.track
        /\ player'.state = IF ForPlayback(job) THEN "LOADING" ELSE "STOPPED"
    BY <1>1, <2>1, <2>2 DEF Replaced, Player
  <2>4. QED
    BY <2>1, <2>2, <2>3 DEF Waits, Loads, ForPlayback, Live
<1>8. CASE Announced
  <2>1. player.skip = NoTrack /\ player.state \notin Live /\ (player.state = "LOADING" => player.track # NoTrack)
    BY <1>2, <1>8 DEF Announced, Loads
  <2>2. CASE Go(job, [player EXCEPT !.loaded = TRUE], "starting")
    <3>1. job'.pc = "starting" /\ player'.state = player.state /\ player'.skip = player.skip
          /\ player'.track = player.track
      BY <1>1, <1>3, <2>2 DEF Player
    <3>2. QED
      BY <2>1, <3>1 DEF Waits, Loads
  <2>3. CASE Go(job, [player EXCEPT !.state = "ERROR"], "reporting")
    <3>1. job'.pc = "reporting" /\ player'.state = "ERROR" /\ player'.skip = player.skip
      BY <1>1, <1>3, <2>3 DEF Player
    <3>2. QED
      BY <2>1, <3>1 DEF Waits, Loads
  <2>4. QED
    BY <1>8, <2>2, <2>3 DEF Announced
<1>9. CASE Played \/ Resumed \/ Paused \/ Stopped \/ Halted
  <2>1. player.skip = NoTrack
    BY <1>2, <1>9 DEF Played, Resumed, Paused, Stopped, Halted
  <2>2. job'.pc = "reporting" /\ player'.skip = NoTrack /\ player'.state # "LOADING"
    <3>1. CASE Resumed /\ Go(job, player, "reporting")
      BY <1>2, <1>3, <2>1, <3>1 DEF Resumed, Loads
    <3>2. CASE \E s \in Playbacks \ {"LOADING"} : Go(job, [player EXCEPT !.state = s], "reporting")
      BY <1>1, <1>3, <2>1, <3>2 DEF Player
    <3>3. CASE Go(job, [player EXCEPT !.state = "PLAYING", !.skips = 0], "reporting")
      <4> DEFINE q == [player EXCEPT !.state = "PLAYING", !.skips = 0]
      <4>1. q.skip = player.skip /\ q.state = "PLAYING"
        BY <1>1 DEF Player
      <4>2. Go(job, q, "reporting")
        BY <3>3
      <4> HIDE DEF q
      <4>3. QED
        BY <1>3, <2>1, <4>1, <4>2
    <3>4. QED
      BY <1>9, <3>1, <3>2, <3>3 DEF Played, Resumed, Paused, Stopped, Halted, Playbacks
  <2>3. QED
    BY <2>2 DEF Waits, Loads
<1>10. QED
  BY <1>4, <1>5, <1>6, <1>7, <1>8, <1>9 DEF Plain

LEMMA LockStep ==
  ASSUME Types, LockInv, [Next]_vars
  PROVE  LockInv'
<1>1. job \in Job /\ player \in Player /\ given \in Given
  BY TypesParts DEF Lock, Rest, Holder
<1>2. CASE JobStep
  <2>1. CASE Loaded
    BY <2>1, LoadedLoads
  <2>2. CASE /\ given'.loading = given.loading
             /\ Permitted \/ LoadFails \/ Sought \/ Reloading \/ Reported \/ Plain
    BY <2>2, PermittedLoads, LoadFailsLoads, OtherLoads DEF LockInv
  <2>3. CASE Played \/ Resumed
    <3>1. given'.loading = given.loading
      BY <1>1, <2>3 DEF Played, Resumed, Sound, Given
    <3>2. QED
      BY <2>2, <2>3, <3>1 DEF Plain
  <2>4. QED
    BY <1>2, <2>1, <2>2, <2>3 DEF JobStep, Plain
<1>3. CASE TakeLock
  <2>1. job = NoJob /\ NoJob.pc = "none" /\ given'.loading = given.loading
    BY <1>1, <1>3 DEF TakeLock, NoJob, Given
  <2>2. Waits("none", player) /\ Loads(NoJob, player, given.loading) /\ given.loading \in BOOLEAN
    BY <1>1, <2>1 DEF LockInv, Given
  <2>3. Done(player) \/ Begin(Head(waiting), player)
    BY <1>3 DEF TakeLock
  <2>4. Waiter(Head(waiting))
    BY <1>3, TypesParts DEF TakeLock, Lock
  <2>5. QED
    BY <1>1, <2>1, <2>2, <2>3, <2>4, DoneLoads, BeginLoads DEF LockInv
<1>4. CASE RunCommand
  <2> DEFINE msg == Head(inbox).msg
  <2>1. \/ PlayerCall(Head(inbox)) = "apply" /\ Register("apply", msg.track, msg.want)
        \/ Register("stop", NoTrack, "stopped")
        \/ Register("reload", NoTrack, "none")
        \/ UNCHANGED <<player, job>>
    BY <1>4 DEF RunCommand
  <2>2. given' = given
    BY <1>4 DEF RunCommand
  <2>3. msg \in Messages
    BY <1>4, RunTaskTypes, TypesParts DEF RunCommand
  <2>4. PlayerCall(Head(inbox)) = "apply" => msg.track \in Item /\ msg.want \in WantOrNone
    BY <2>3, MessageTypes DEF PlayerCall
  <2>5. ASSUME NEW kind \in {"apply", "stop", "reload"}, NEW track \in Item, NEW want \in WantOrNone,
               Register(kind, track, want)
        PROVE  LockInv'
    <3>1. Waiter(Command(kind, track, want))
      BY TypesParts DEF Rest, Waiter, Command, Job, Commands, Pcs
    <3>2. QED
      BY <2>2, <2>5, <3>1, EnterLoads DEF Register
  <2>6. NoTrack \in Item /\ "stopped" \in WantOrNone /\ "none" \in WantOrNone
    BY DEF Item, WantOrNone
  <2>7. CASE UNCHANGED <<player, job>>
    BY <2>2, <2>7 DEF LockInv, Waits, Loads, ForPlayback
  <2>8. CASE PlayerCall(Head(inbox)) = "apply" /\ Register("apply", msg.track, msg.want)
    BY <2>4, <2>5, <2>8
  <2>9. QED
    BY <2>1, <2>5, <2>6, <2>7, <2>8
<1>5. CASE EndedContinues
  <2> DEFINE restart == [NoJob EXCEPT !.kind = "restart", !.gen = cmdGen, !.track = ended.track]
             q == [player EXCEPT !.state = "STOPPED", !.track = NoTrack, !.loaded = FALSE]
  <2>1. \/ UNCHANGED <<player, job>>
        \/ Enter(restart, player)
        \/ nextInfo # NoTrack /\ Register("advance", nextInfo, "playing")
        \/ player' = q /\ job' = job
    BY <1>5 DEF EndedContinues
  <2>2. given'.loading = given.loading
    BY <1>1, <1>5 DEF EndedContinues, Given
  <2>3. CASE UNCHANGED <<player, job>>
    BY <2>2, <2>3 DEF LockInv, Waits, Loads, ForPlayback
  <2>4. CASE player' = q /\ job' = job
    <3>1. player'.skip = player.skip /\ player'.state = "STOPPED" /\ player'.track = NoTrack
      BY <1>1, <2>4 DEF Player
    <3>2. QED
      BY <2>4, <3>1 DEF LockInv, Waits, Loads, Live
  <2>5. Waiter(restart)
    BY TypesParts DEF Rest, Ending, End, NoJob, Job, Waiter, Commands, Pcs, WantOrNone
  <2> HIDE DEF restart, q
  <2>6. CASE Enter(restart, player)
    BY <2>2, <2>5, <2>6, EnterLoads
  <2>7. CASE nextInfo # NoTrack /\ Register("advance", nextInfo, "playing")
    <3>1. Waiter(Command("advance", nextInfo, "playing"))
      BY <2>7, TypesParts DEF Rest, HandlerTypes, Waiter, Command, Job, Commands, Pcs, WantOrNone
    <3>2. QED
      BY <2>2, <2>7, <3>1, EnterLoads DEF Register
  <2>8. QED
    BY <2>1, <2>3, <2>4, <2>6, <2>7
<1>6. CASE (\E msg \in Messages : Receive(msg)) \/ Drop
  <2>1. Invalidation /\ SkipForgotten /\ job' = job
    BY <1>6 DEF Receive, Drop
  <2>2. CASE player' = player
    <3>1. given'.loading = given.loading
      BY <1>1, <2>1, <2>2 DEF SkipForgotten, Given
    <3>2. QED
      BY <2>1, <2>2, <3>1 DEF LockInv, Waits, Loads, ForPlayback
  <2>3. CASE player' = NoSkip(player)
    <3>1. player'.skip = NoTrack /\ player'.state = player.state /\ player'.track = player.track
      BY <1>1, <2>3 DEF NoSkip, Player
    <3>2. player.skip # NoTrack => given'.loading
      BY <1>1, <2>1, <3>1 DEF SkipForgotten, Given
    <3>3. player.skip = NoTrack => given'.loading = given.loading
      BY <1>1, <2>1 DEF SkipForgotten, Given
    <3>4. CASE player.skip # NoTrack
      BY <2>1, <3>1, <3>2, <3>4 DEF LockInv, Waits, Loads
    <3>5. CASE player.skip = NoTrack
      BY <2>1, <3>1, <3>3, <3>5 DEF LockInv, Waits, Loads, ForPlayback
    <3>6. QED
      BY <3>4, <3>5
  <2>4. QED
    BY <2>1, <2>2, <2>3 DEF Invalidation
<1>7. CASE ReleaseExternalPlayback
  <2>1. job' = job /\ player'.skip = NoTrack /\ player'.state = "STOPPED"
    BY <1>1, <1>7 DEF ReleaseExternalPlayback, NoSkip, Player
  <2>2. QED
    BY <2>1 DEF LockInv, Waits, Loads, Live
<1>8. CASE TrackEnds \/ EndedStarts \/ UNCHANGED vars
  <2>1. UNCHANGED <<player, job>> /\ given'.loading = given.loading
    BY <1>1, <1>8 DEF TrackEnds, EndedStarts, vars, playerVars, history, Given
  <2>2. QED
    BY <2>1 DEF LockInv, Waits, Loads, ForPlayback
<1>9. CASE SkipTimeout
  <2>1. player'.skip = NoTrack /\ player'.state = "STOPPED" /\ job'.pc = "reporting"
    BY <1>1, <1>9 DEF SkipTimeout, Go, NoSkip, NoJob, Player
  <2>2. QED
    BY <2>1 DEF LockInv, Waits, Loads
<1>10. CASE PlaybackError
  <2>1. player'.skip = player.skip /\ player'.state = "ERROR" /\ player'.track = player.track /\ job' = job
    BY <1>1, <1>10 DEF PlaybackError, Player
  <2>2. QED
    BY <2>1 DEF LockInv, Waits, Loads, Live
<1>11. QED
  BY <1>2, <1>3, <1>4, <1>5, <1>6, <1>7, <1>8, <1>9, <1>10 DEF Next

-----------------------------------------------------------------------------
(***************************************************************************)
(* The newest command is one command.                                      *)
(***************************************************************************)
\* It carries the newest number and gives up if it finds a newer one.
Current(j) == j.gen = cmdGen /\ j.kind \in {"apply", "stop", "reload", "advance", "skip"}
OneCurrent ==
  /\ Current(job) => \A m \in DOMAIN waiting : ~Current(waiting[m])
  /\ \A m, n \in DOMAIN waiting : Current(waiting[m]) /\ Current(waiting[n]) => m = n

\* An advance whose load failed has given the lock back: nothing plays until its
\* second call has it again.
SkipWaits ==
  \A m \in DOMAIN waiting : waiting[m].kind = "skip" /\ waiting[m].gen = cmdGen =>
    player.state \notin Live /\ job.pc \in {"none", "reporting"}

QueueInv == OneCurrent /\ SkipWaits

LEMMA QueueInit == Init => QueueInv
BY DEF Init, QueueInv, OneCurrent, SkipWaits

LEMMA RegisterQueue ==
  ASSUME Types, Numbers, NEW kind \in {"apply", "stop", "reload", "advance"}, NEW track \in Item,
         NEW want \in WantOrNone, kind = "advance" => track # NoTrack, Register(kind, track, want)
  PROVE  QueueInv'
<1> DEFINE j == Command(kind, track, want)
<1>1. /\ cmdGen \in Nat /\ job.gen \in Nat /\ waiting \in Seq(Job)
      /\ \A m \in DOMAIN waiting : waiting[m].gen \in Nat
  BY TypesParts, JobNumbers DEF Rest, Lock, Holder
<1>2. j \in Job /\ j.gen = cmdGen + 1 /\ j.kind = kind
  BY <1>1 DEF Command, Job, Commands, Pcs
<1>3. Enter(j, player) /\ cmdGen' = cmdGen + 1
  BY DEF Register
<1> HIDE DEF j
<1>4. job.gen # cmdGen' /\ \A m \in DOMAIN waiting : waiting[m].gen # cmdGen'
  BY <1>1, <1>3 DEF Numbers
<1>5. CASE Free
  BY <1>3, <1>5 DEF Enter, Free, QueueInv, OneCurrent, SkipWaits
<1>6. CASE ~Free
  <2>1. waiting' = Append(waiting, j) /\ job' = job /\ player' = player
    BY <1>3, <1>6 DEF Enter
  <2>2. \A m \in DOMAIN waiting' : \/ m = Len(waiting) + 1 /\ waiting'[m] = j
                                   \/ m \in DOMAIN waiting /\ waiting'[m] = waiting[m]
    BY <1>1, <1>2, <2>1
  <2>3. QED
    BY <1>2, <1>4, <2>1, <2>2 DEF QueueInv, OneCurrent, SkipWaits, Current
<1>7. QED
  BY <1>5, <1>6

LEMMA TakeLockQueue ==
  ASSUME Types, QueueInv, TakeLock
  PROVE  QueueInv'
<1> DEFINE j == Head(waiting)
<1>1. cmdGen' = cmdGen /\ job = NoJob /\ waiting # <<>> /\ waiting' = Tail(waiting)
  BY DEF TakeLock
<1>2. cmdGen \in Nat /\ waiting \in Seq(Job) /\ player \in Player
  BY TypesParts DEF Rest, Lock
<1>3. j = waiting[1] /\ 1 \in DOMAIN waiting /\ Waiter(j) /\ j \in Job
  <2>1. j = waiting[1] /\ 1 \in DOMAIN waiting
    BY <1>1, <1>2
  <2>2. QED
    BY <1>2, <2>1, TypesParts DEF Lock, Waiter
<1>4. \A m \in DOMAIN waiting' : m + 1 \in DOMAIN waiting /\ m \in Nat /\ m + 1 # 1 /\ waiting'[m] = waiting[m + 1]
  BY <1>1, <1>2
<1>5. \/ Done(player) /\ j.kind \in {"apply", "stop", "reload", "advance"} /\ j.gen # cmdGen
      \/ Begin(j, player) /\ (j.kind \in {"apply", "stop", "reload", "advance"} => j.gen = cmdGen)
  BY DEF TakeLock
<1>6. job' = NoJob \/ (job'.kind = j.kind /\ job'.gen = j.gen)
  BY <1>2, <1>3, <1>5, BeginKeeps DEF Kept, Done
<1> HIDE DEF j
<1>7. OneCurrent'
  <2>1. \A m, n \in DOMAIN waiting' : Current(waiting[m + 1]) /\ Current(waiting[n + 1]) => m = n
    BY <1>4 DEF QueueInv, OneCurrent
  <2>2. \A m \in DOMAIN waiting' : Current(waiting[m + 1]) => ~Current(j)
    BY <1>3, <1>4 DEF QueueInv, OneCurrent
  <2>3. QED
    BY <1>1, <1>4, <1>6, <2>1, <2>2 DEF OneCurrent, Current, NoJob
<1>8. SkipWaits'
  <2>1. SUFFICES ASSUME NEW m \in DOMAIN waiting', waiting'[m].kind = "skip", waiting'[m].gen = cmdGen
                 PROVE  player'.state \notin Live /\ job'.pc \in {"none", "reporting"}
    BY <1>1 DEF SkipWaits
  <2>2. Current(waiting[m + 1]) /\ m + 1 \in DOMAIN waiting /\ m + 1 # 1
    BY <1>4, <2>1 DEF Current
  <2>3. ~Current(j) /\ player.state \notin Live
    BY <1>3, <1>4, <2>1, <2>2 DEF QueueInv, OneCurrent, SkipWaits
  <2>4. Done(player)
    <3>1. CASE j.kind = "restart"
      BY <1>5, <2>3, <3>1 DEF Begin, Live
    <3>2. CASE j.gen # cmdGen /\ j.kind # "restart"
      BY <1>3, <1>5, <3>2 DEF Begin, Waiter, Commands
    <3>3. QED
      BY <1>3, <2>3, <3>1, <3>2 DEF Waiter, Commands, Current
  <2>5. QED
    BY <2>3, <2>4 DEF Done, NoJob
<1>9. QED
  BY <1>7, <1>8 DEF QueueInv

LEMMA JobStepQueue ==
  ASSUME Types, Numbers, QueueInv, JobStep
  PROVE  QueueInv'
<1>1. cmdGen' = cmdGen
  BY DEF JobStep, Loaded, Permitted, Unloaded, LoadFails, Sought, Announced, Played, Resumed,
         Paused, Stopped, Halted, Reloading, Reported, Within
<1>2. job \in Job /\ waiting \in Seq(Job) /\ player \in Player
  BY TypesParts DEF Lock, Holder
<1>3. CASE waiting' = waiting /\ Kept(job)
  <2>1. OneCurrent'
    BY <1>1, <1>3 DEF QueueInv, OneCurrent, Current, Kept, NoJob
  <2>2. SkipWaits'
    <3>1. SUFFICES ASSUME NEW m \in DOMAIN waiting, waiting[m].kind = "skip", waiting[m].gen = cmdGen
                   PROVE  player'.state \notin Live /\ job'.pc \in {"none", "reporting"}
      BY <1>1, <1>3 DEF SkipWaits
    <3>2. player.state \notin Live /\ job.pc \in {"none", "reporting"}
      BY <3>1 DEF QueueInv, SkipWaits
    <3>3. Reported
      BY <3>2 DEF JobStep, Loaded, Permitted, Unloaded, LoadFails, Sought, Announced, Played,
                  Resumed, Paused, Stopped, Halted, Reloading
    <3>4. QED
      BY <3>2, <3>3 DEF Reported, Done, NoJob
  <2>3. QED
    BY <2>1, <2>2 DEF QueueInv
<1>4. CASE waiting = <<>> /\ waiting' = <<>>
  BY <1>4 DEF QueueInv, OneCurrent, SkipWaits
<1>5. CASE /\ job.kind = "advance" /\ job' = NoJob
           /\ waiting' = Append(waiting, [job EXCEPT !.kind = "skip", !.pc = "waiting"])
  <2> DEFINE skip == [job EXCEPT !.kind = "skip", !.pc = "waiting"]
  <2>1. skip \in Job /\ skip.kind = "skip" /\ skip.gen = job.gen
    BY <1>2 DEF Job, Commands, Pcs
  <2> HIDE DEF skip
  <2>2. \A m \in DOMAIN waiting' : \/ m = Len(waiting) + 1 /\ waiting'[m] = skip
                                   \/ m \in DOMAIN waiting /\ waiting'[m] = waiting[m]
    BY <1>2, <1>5, <2>1 DEF skip
  <2>3. Current(skip) => Current(job)
    BY <1>5, <2>1 DEF Current
  <2>4. OneCurrent'
    BY <1>1, <1>5, <2>2, <2>3 DEF QueueInv, OneCurrent, Current, NoJob
  <2>5. LoadFails
    <3>1. ASSUME waiting' = waiting PROVE FALSE
      <4>1. Len(waiting') = Len(waiting) + 1
        BY <1>2, <1>5, <2>1 DEF skip
      <4>2. Len(waiting) \in Nat
        BY <1>2
      <4>3. QED
        BY <3>1, <4>1, <4>2
    <3>2. QED
      BY <3>1 DEF JobStep, Loaded, Permitted, Unloaded, Sought, Announced, Played, Resumed, Paused,
                  Stopped, Halted, Reloading, Reported, Within
  <2>6. player'.state = "STOPPED"
    <3>1. \/ /\ Begin([job EXCEPT !.kind = "skip", !.pc = "waiting"],
                   [player EXCEPT !.state = "STOPPED"])
             /\ waiting = <<>> /\ waiting' = waiting
          \/ Done([player EXCEPT !.state = "STOPPED"])
      BY <1>5, <2>5 DEF LoadFails
    <3>2. waiting = <<>> /\ waiting' = waiting => FALSE
      BY <1>2, <1>5, <2>1 DEF skip
    <3>3. QED
      BY <1>2, <3>1, <3>2 DEF Done, Player
  <2>7. QED
    BY <1>5, <2>4, <2>6 DEF QueueInv, SkipWaits, Live, NoJob
<1>6. QED
  BY <1>3, <1>4, <1>5, JobStepKeeps

LEMMA QueueStep ==
  ASSUME Types, Numbers, QueueInv, [Next]_vars
  PROVE  QueueInv'
<1>1. /\ cmdGen \in Nat /\ job.gen \in Nat /\ waiting \in Seq(Job) /\ player \in Player
      /\ \A m \in DOMAIN waiting : waiting[m].gen \in Nat
  BY TypesParts, JobNumbers DEF Rest, Lock, Holder
<1>2. ASSUME UNCHANGED <<job, waiting, cmdGen>>, player'.state \in Live => player.state \in Live
      PROVE  QueueInv'
  BY <1>2 DEF QueueInv, OneCurrent, SkipWaits, Current
<1>3. ASSUME UNCHANGED <<job, waiting>>, cmdGen' \in Nat, cmdGen' > cmdGen
      PROVE  QueueInv'
  <2>1. job.gen # cmdGen' /\ \A m \in DOMAIN waiting : waiting[m].gen # cmdGen'
    BY <1>1, <1>3 DEF Numbers
  <2>2. QED
    BY <1>3, <2>1 DEF QueueInv, OneCurrent, SkipWaits, Current
<1>4. CASE (\E msg \in Messages : Receive(msg)) \/ Drop
  <2>1. Invalidation /\ UNCHANGED <<job, waiting>>
    BY <1>4 DEF Receive, Drop
  <2>2. CASE cmdGen' = cmdGen + 1
    BY <1>1, <1>3, <2>1, <2>2
  <2>3. CASE UNCHANGED <<cmdGen, player>>
    BY <1>2, <2>1, <2>3
  <2>4. QED
    BY <2>1, <2>2, <2>3 DEF Invalidation
<1>5. CASE ReleaseExternalPlayback
  <2>1. UNCHANGED <<job, waiting>> /\ cmdGen' = cmdGen + 2
    BY <1>5 DEF ReleaseExternalPlayback
  <2>2. QED
    BY <1>1, <1>3, <2>1
<1>6. CASE RunCommand
  <2> DEFINE msg == Head(inbox).msg
  <2>1. \/ PlayerCall(Head(inbox)) = "apply" /\ Register("apply", msg.track, msg.want)
        \/ Register("stop", NoTrack, "stopped")
        \/ Register("reload", NoTrack, "none")
        \/ UNCHANGED <<player, cmdGen, job, waiting>>
    BY <1>6 DEF RunCommand
  <2>2. msg \in Messages
    BY <1>6, RunTaskTypes, TypesParts DEF RunCommand
  <2>3. PlayerCall(Head(inbox)) = "apply" => msg.track \in Item /\ msg.want \in WantOrNone
    BY <2>2, MessageTypes DEF PlayerCall
  <2>4. NoTrack \in Item /\ "stopped" \in WantOrNone /\ "none" \in WantOrNone
    BY DEF Item, WantOrNone
  <2>5. CASE PlayerCall(Head(inbox)) = "apply" /\ Register("apply", msg.track, msg.want)
    BY <2>3, <2>5, RegisterQueue
  <2>6. CASE UNCHANGED <<player, cmdGen, job, waiting>>
    BY <1>2, <2>6
  <2>7. QED
    BY <2>1, <2>4, <2>5, <2>6, RegisterQueue
<1>7. CASE EndedContinues
  <2> DEFINE restart == [NoJob EXCEPT !.kind = "restart", !.gen = cmdGen, !.track = ended.track]
             q == [player EXCEPT !.state = "STOPPED", !.track = NoTrack, !.loaded = FALSE]
  <2>1. \/ UNCHANGED <<player, cmdGen, job, waiting>>
        \/ Enter(restart, player) /\ cmdGen' = cmdGen
        \/ nextInfo # NoTrack /\ Register("advance", nextInfo, "playing")
        \/ player' = q /\ UNCHANGED <<cmdGen, job, waiting>>
    BY <1>7 DEF EndedContinues
  <2>2. q.state = "STOPPED"
    BY <1>1 DEF Player
  <2>3. restart.kind = "restart" /\ restart \in Job
    BY <1>1, TypesParts DEF Ending, End, NoJob, Job, Commands, Pcs, WantOrNone
  <2> HIDE DEF restart, q
  <2>4. CASE UNCHANGED <<player, cmdGen, job, waiting>>
    BY <1>2, <2>4
  <2>5. CASE player' = q /\ UNCHANGED <<cmdGen, job, waiting>>
    BY <1>2, <2>2, <2>5 DEF Live
  <2>6. CASE nextInfo # NoTrack /\ Register("advance", nextInfo, "playing")
    <3>1. nextInfo \in Item /\ "playing" \in WantOrNone
      BY TypesParts DEF HandlerTypes, WantOrNone
    <3>2. QED
      BY <2>6, <3>1, RegisterQueue
  <2>7. CASE Free /\ Enter(restart, player) /\ cmdGen' = cmdGen
    BY <2>7 DEF Enter, Free, QueueInv, OneCurrent, SkipWaits
  <2>8. CASE ~Free /\ Enter(restart, player) /\ cmdGen' = cmdGen
    <3>1. waiting' = Append(waiting, restart) /\ job' = job /\ player' = player
      BY <2>8 DEF Enter
    <3>2. \A m \in DOMAIN waiting' : \/ m = Len(waiting) + 1 /\ waiting'[m] = restart
                                     \/ m \in DOMAIN waiting /\ waiting'[m] = waiting[m]
      BY <1>1, <2>3, <3>1
    <3>3. QED
      BY <2>3, <2>8, <3>1, <3>2 DEF QueueInv, OneCurrent, SkipWaits, Current
  <2>9. QED
    BY <2>1, <2>4, <2>5, <2>6, <2>7, <2>8
<1>8. CASE SkipTimeout
  <2>1. job'.kind = "timeout" /\ job'.pc = "reporting" /\ waiting' = waiting /\ cmdGen' = cmdGen
    BY <1>8 DEF SkipTimeout, Go, NoJob
  <2>2. player'.state = "STOPPED"
    BY <1>1, <1>8 DEF SkipTimeout, Go, NoSkip, Player
  <2>3. QED
    BY <2>1, <2>2 DEF QueueInv, OneCurrent, SkipWaits, Current, Live
<1>9. CASE TrackEnds \/ EndedStarts \/ PlaybackError \/ UNCHANGED vars
  <2>1. UNCHANGED <<job, waiting, cmdGen>>
    BY <1>9 DEF TrackEnds, EndedStarts, PlaybackError, vars, playerVars
  <2>2. player' = player \/ player' = [player EXCEPT !.state = "ERROR"]
    BY <1>9 DEF TrackEnds, EndedStarts, PlaybackError, vars, playerVars
  <2>3. player'.state \in Live => player.state \in Live
    BY <1>1, <2>2 DEF Player, Live
  <2>4. QED
    BY <1>2, <2>1, <2>3
<1>10. QED
  BY <1>4, <1>5, <1>6, <1>7, <1>8, <1>9, TakeLockQueue, JobStepQueue DEF Next

-----------------------------------------------------------------------------
(***************************************************************************)
(* What the player reports is what the speaker does.                       *)
(***************************************************************************)
\* While a command is at pc, p is the player and a the speaker: what is heard is
\* PLAYING, what is PLAYING is heard unless the end of a track is being handled or was
\* dropped, or a play failed (`told'), and whatever plays, has played or is to be played
\* is the current item.
Sounds(pc, p, a, told) ==
  /\ a = "playing" => p.state = "PLAYING" \/ pc = "unloading"
  /\ told /\ pc # "unloading" /\ p.state = "PLAYING" => a = "playing"
  /\ \/ p.state \in Live \/ a = "playing" \/ p.skip # NoTrack
     \/ pc \in {"halting", "announcing", "starting", "resuming", "pausing", "reloading"}
     => p.track # NoTrack

\* The end of a track that came while nothing was under way still finds it so, unless
\* a command was given in the meantime; until then nothing is asked of the player.
EndFound ==
  /\ ended.pc = "created" => ended.ahead.task = 0
  /\ ended.pc = "created" \/ (ended.pc = "reporting" /\ ended.gen = cmdGen)
       => Free /\ audio = "silent" /\ player.skip = NoTrack /\ goal = NoGoal

NoRestart == \A i \in DOMAIN waiting : waiting[i].kind # "restart"

Told == ended = NoEnd /\ ~given.end /\ ~given.failed
AudibleInv == ~given.race => Sounds(job.pc, player, audio, Told) /\ EndFound /\ NoRestart

Audios == {"silent", "playing", "paused"}

LEMMA StopSounds ==
  ASSUME NEW j \in Job, NEW p \in Player, NEW a \in Audios, NEW told \in BOOLEAN,
         Sounds("none", p, a, told), BeginStop(j, p)
  PROVE  Sounds(job'.pc, player', a, told)
<1>1. job'.pc = "stopping"
  BY DEF BeginStop, Go, Job
<1>2. player'.skip = NoTrack /\ player'.state = p.state /\ player'.track = p.track
  BY DEF BeginStop, Go, Player
<1>3. QED
  BY <1>1, <1>2 DEF Sounds

LEMMA StartSounds ==
  ASSUME NEW j \in Job, NEW p \in Player, NEW a \in Audios, NEW told \in BOOLEAN,
         a # "playing", p.track # NoTrack \/ Sounds("none", p, a, told), BeginStart(j, p)
  PROVE  Sounds(job'.pc, player', a, told)
<1>1. CASE p.track = NoTrack
  BY <1>1 DEF BeginStart, Done, NoJob, Sounds
<1>2. CASE p.track # NoTrack
  <2>1. job'.pc = "announcing"
    BY <1>2 DEF BeginStart, Go, Job
  <2>2. player'.state = "LOADING" /\ player'.track = p.track
    BY <1>2 DEF BeginStart, Go, Player
  <2>3. QED
    BY <1>2, <2>1, <2>2 DEF Sounds, Live
<1>3. QED
  BY <1>1, <1>2

LEMMA FinishSounds ==
  ASSUME NEW j \in Job, NEW p \in Player, NEW a \in Audios, NEW told \in BOOLEAN,
         Sounds("none", p, a, told), BeginFinish(j, p) \/ Finish(j, p)
  PROVE  Sounds(job'.pc, player', a, told)
<1>1. \A pc : Go(j, p, pc) => job'.pc = pc /\ player' = p
  BY DEF Go, Job
<1>2. CASE Go(j, p, "seeking")
  BY <1>1, <1>2 DEF Sounds
<1>3. CASE Finish(j, p)
  <2>1. CASE (Go(j, p, "resuming") /\ p.state = "PAUSED") \/ (Go(j, p, "pausing") /\ p.state = "PLAYING")
    BY <1>1, <2>1 DEF Sounds, Live
  <2>2. CASE BeginStart(j, p) /\ p.state \notin Live
    BY <2>2, StartSounds DEF Sounds, Live
  <2>3. CASE BeginStop(j, p)
    BY <2>3, StopSounds
  <2>4. CASE Done(p)
    BY <2>4 DEF Done, NoJob
  <2>5. QED
    BY <1>3, <2>1, <2>2, <2>3, <2>4 DEF Finish
<1>4. QED
  BY <1>2, <1>3 DEF BeginFinish

\* A load says LOADING or STOPPED at once, or silences the speaker first.
LEMMA LoadSounds ==
  ASSUME NEW j \in Job, NEW p \in Player, NEW a \in Audios, NEW told \in BOOLEAN,
         Sounds("none", p, a, told), j.track # NoTrack, BeginLoad(j, p)
  PROVE  Sounds(job'.pc, player', a, TRUE)
<1>1. CASE p.state \in Live
  <2>1. job'.pc = "unloading"
    BY <1>1 DEF BeginLoad, Go, Job
  <2>2. player'.skip = NoTrack /\ player'.state = p.state /\ player'.track = p.track
    BY <1>1 DEF BeginLoad, Go, NoSkip, Player
  <2>3. QED
    BY <1>1, <2>1, <2>2 DEF Sounds
<1>2. CASE p.state \notin Live
  <2>1. job'.pc = "loading"
    BY <1>2 DEF BeginLoad, Go, Job
  <2>2. /\ player'.skip = NoTrack /\ player'.track = j.track
        /\ player'.state \in {"LOADING", "STOPPED"}
    BY <1>2 DEF BeginLoad, Go, Replaced, NoSkip, Player
  <2>3. QED
    BY <1>2, <2>1, <2>2 DEF Sounds, Live
<1>3. QED
  BY <1>1, <1>2

LEMMA SkipSounds ==
  ASSUME NEW j \in Job, NEW p \in Player, NEW a \in Audios, NEW told \in BOOLEAN,
         Sounds("none", p, a, told), a # "playing", BeginSkipWait(j, p)
  PROVE  Sounds(job'.pc, player', a, told)
<1>1. CASE Done(p)
  BY <1>1 DEF Done, NoJob
<1>2. CASE BeginStop(j, p)
  BY <1>2, StopSounds
<1>3. CASE /\ p.track # NoTrack
           /\ Go(j, [p EXCEPT !.skips = @ + 1, !.skip = p.track, !.state = "LOADING"], "skipping")
  <2>1. job'.pc = "skipping"
    BY <1>3 DEF Go, Job
  <2>2. player'.track = p.track /\ player'.state = "LOADING"
    BY <1>3 DEF Go, Player
  <2>3. QED
    BY <1>3, <2>1, <2>2 DEF Sounds, Live
<1>4. QED
  BY <1>1, <1>2, <1>3 DEF BeginSkipWait

LEMMA BeginSounds ==
  ASSUME NEW j, Waiter(j), NEW p \in Player, NEW a \in Audios, NEW told \in BOOLEAN,
         Sounds("none", p, a, told), j.kind # "restart",
         j.kind = "skip" /\ j.gen = cmdGen => p.state \notin Live,
         Begin(j, p)
  PROVE  Sounds(job'.pc, player', a, told)
<1>1. j \in Job
  BY DEF Waiter
<1>2. CASE j.kind = "stop"
  BY <1>1, <1>2, StopSounds DEF Begin
<1>3. CASE j.kind = "apply"
  <2>1. job'.pc = "permission" /\ player' = p
    BY <1>1, <1>3 DEF Begin, Go, Job
  <2>2. QED
    BY <2>1 DEF Sounds
<1>4. CASE j.kind = "advance"
  <2> DEFINE q == NoSkip(p)
  <2>1. q \in Player /\ j.track # NoTrack
    BY <1>4 DEF NoSkip, Player, Item, Waiter
  <2>2. Sounds("none", q, a, told)
    BY DEF NoSkip, Player, Sounds
  <2>3. BeginLoad(j, q)
    BY <1>4 DEF Begin
  <2> HIDE DEF q
  <2>4. Sounds(job'.pc, player', a, TRUE)
    BY <1>1, <2>1, <2>2, <2>3, LoadSounds
  <2>5. QED
    BY <2>4 DEF Sounds
<1>5. CASE j.kind = "reload"
  <2> DEFINE q == [p EXCEPT !.loaded = FALSE]
  <2>1. Sounds("none", q, a, told)
    BY DEF Player, Sounds
  <2>2. CASE p.state \in Live /\ ~Done(p)
    <3>1. job'.pc = "reloading" /\ player' = p
      BY <1>1, <1>5, <2>2 DEF Begin, Go, Job
    <3>2. QED
      BY <2>2, <3>1 DEF Sounds
  <2>3. CASE Done(p)
    BY <2>3 DEF Done, NoJob
  <2>4. Done(p) \/ Done(q) \/ (p.state \in Live /\ ~Done(p))
    BY <1>5 DEF Begin
  <2> HIDE DEF q
  <2>5. CASE Done(q)
    BY <2>1, <2>5 DEF Done, NoJob
  <2>6. QED
    BY <2>2, <2>3, <2>4, <2>5
<1>6. CASE j.kind = "skip"
  <2>1. CASE Done(p)
    BY <2>1 DEF Done, NoJob
  <2>2. CASE j.gen = cmdGen /\ BeginSkipWait(j, p)
    <3>1. a # "playing"
      BY <1>6, <2>2 DEF Sounds, Live
    <3>2. QED
      BY <1>1, <2>2, <3>1, SkipSounds
  <2>3. QED
    BY <1>6, <2>1, <2>2 DEF Begin
<1>7. QED
  BY <1>2, <1>3, <1>4, <1>5, <1>6 DEF Waiter, Commands

\* The repetition of a track that has just ended.
LEMMA RestartSounds ==
  ASSUME NEW j, Waiter(j), NEW p \in Player, NEW a \in Audios, NEW told \in BOOLEAN,
         Sounds("none", p, a, told), a # "playing", j.kind = "restart", p.track = j.track,
         Begin(j, p)
  PROVE  Sounds(job'.pc, player', a, TRUE)
<1>1. j \in Job
  BY DEF Waiter
<1> DEFINE q == [p EXCEPT !.loaded = FALSE]
<1>2. q \in Player /\ q.track = p.track
  BY DEF Player
<1>3. CASE p.state = "PLAYING"
  <2>1. q.track # NoTrack
    BY <1>2, <1>3 DEF Sounds, Live
  <2>2. BeginStart(j, q)
    BY <1>3 DEF Begin
  <2> HIDE DEF q
  <2>3. QED
    BY <1>1, <1>2, <2>1, <2>2, StartSounds
<1>4. CASE p.state # "PLAYING"
  <2>1. Done(p)
    BY <1>4 DEF Begin
  <2>2. QED
    BY <1>4, <2>1 DEF Done, NoJob, Sounds
<1>5. QED
  BY <1>3, <1>4

-----------------------------------------------------------------------------
\* The steps of the holder of the lock.
LEMMA PermittedSounds ==
  ASSUME Types, LockInv, Permitted, NEW told \in BOOLEAN, Sounds(job.pc, player, audio, told)
  PROVE  Sounds(job'.pc, player', audio', told)
<1>1. /\ job \in Job /\ player \in Player /\ audio \in Audios /\ job.pc = "permission"
      /\ audio' = audio
  BY TypesParts DEF Lock, Rest, Holder, Permitted, Audios
<1>2. Sounds("none", player, audio, told)
  BY <1>1 DEF Sounds
<1>3. Waits("permission", player)
  BY <1>1 DEF LockInv
<1>4. CASE Done(player)
  BY <1>1, <1>2, <1>4 DEF Done, NoJob
<1>5. ASSUME NEW stale \in BOOLEAN, BeginApply(stale)
      PROVE  Sounds(job'.pc, player', audio, told)
  <2>1. CASE player.skip # NoTrack /\ Go(job, [player EXCEPT !.skip = NoTrack, !.skips = 0], "halting")
    <3>1. job'.pc = "halting" /\ player'.skip = NoTrack /\ player'.state = player.state
          /\ player'.track = player.track
      BY <1>1, <2>1 DEF Go, Job, Player
    <3>2. QED
      BY <1>2, <2>1, <3>1 DEF Sounds
  <2>2. CASE job.track # NoTrack /\ BeginLoad(job, player)
    <3>1. Sounds(job'.pc, player', audio, TRUE)
      BY <1>1, <1>2, <2>2, LoadSounds
    <3>2. QED
      BY <3>1 DEF Sounds
  <2>3. CASE BeginFinish(job, player)
    BY <1>1, <1>2, <2>3, FinishSounds
  <2>4. QED
    BY <1>4, <1>1, <1>5, <2>1, <2>2, <2>3 DEF BeginApply
<1>6. QED
  BY <1>1, <1>4, <1>5 DEF Permitted

LEMMA LoadedSounds ==
  ASSUME Types, LockInv, Loaded \/ LoadFails, NEW told \in BOOLEAN,
         Sounds(job.pc, player, audio, told)
  PROVE  Sounds(job'.pc, player', audio', told)
<1> DEFINE p == [player EXCEPT !.loaded = TRUE]
           q == [p EXCEPT !.state = "STOPPED"]
           r == [player EXCEPT !.state = "STOPPED"]
           skip == [job EXCEPT !.kind = "skip", !.pc = "waiting"]
<1>1. /\ job \in Job /\ player \in Player /\ audio \in Audios /\ job.pc = "loading"
      /\ audio' = audio
  BY TypesParts DEF Lock, Rest, Holder, Loaded, LoadFails, Audios
<1>2. audio # "playing" /\ player.skip = NoTrack
  BY <1>1 DEF LockInv, Waits, Loads, Sounds, Live
<1>3. /\ p \in Player /\ q \in Player /\ r \in Player
      /\ p.track = player.track /\ p.skip = NoTrack /\ p.state = player.state
      /\ q.skip = NoTrack /\ q.state = "STOPPED" /\ r.skip = NoTrack /\ r.state = "STOPPED"
  BY <1>1, <1>2 DEF Player, Playbacks
<1>4. Waiter(skip) /\ skip.kind = "skip"
  BY <1>1 DEF Job, Waiter, Commands, Pcs
<1>5. \/ BeginStart(job, p) \/ BeginFinish(job, p) \/ Done(p) \/ Done(q)
      \/ BeginSkipWait(job, r) \/ Done(r) \/ Begin(skip, r)
  BY DEF Loaded, LoadFails
<1> HIDE DEF p, q, r, skip
<1>6. Sounds("none", p, audio, told) /\ Sounds("none", q, audio, told) /\ Sounds("none", r, audio, told)
  BY <1>1, <1>2, <1>3 DEF Sounds, Live
<1>7. CASE BeginStart(job, p) \/ BeginFinish(job, p)
  BY <1>1, <1>2, <1>3, <1>6, <1>7, StartSounds, FinishSounds
<1>8. CASE Done(p) \/ Done(q) \/ Done(r)
  BY <1>1, <1>6, <1>8 DEF Done, NoJob
<1>9. CASE BeginSkipWait(job, r)
  BY <1>1, <1>2, <1>3, <1>6, <1>9, SkipSounds
<1>10. CASE Begin(skip, r)
  BY <1>1, <1>3, <1>4, <1>6, <1>10, BeginSounds DEF Live
<1>11. QED
  BY <1>5, <1>7, <1>8, <1>9, <1>10

LEMMA OtherSounds ==
  ASSUME Types, LockInv, NEW told \in BOOLEAN, Sounds(job.pc, player, audio, told),
         Sought \/ Reloading \/ Reported \/ Unloaded \/ Announced \/ Paused \/ Stopped \/ Halted
  PROVE  Sounds(job'.pc, player', audio', told)
<1>1. job \in Job /\ player \in Player /\ audio \in Audios
  BY TypesParts DEF Lock, Rest, Holder, Audios
<1>2. \A pc, p : Go(job, p, pc) => job'.pc = pc /\ player' = p
  BY <1>1 DEF Go, Job
<1>3. CASE Sought
  <2>1. Sounds("none", player, audio, told) /\ audio' = audio
    BY <1>3 DEF Sought, Sounds
  <2>2. CASE Finish(job, player)
    BY <1>1, <2>1, <2>2, FinishSounds
  <2>3. CASE Done(player)
    BY <2>1, <2>3 DEF Done, NoJob
  <2>4. QED
    BY <1>3, <2>2, <2>3 DEF Sought
<1>4. CASE Reloading
  <2> DEFINE p == [player EXCEPT !.loaded = FALSE]
             q == [p EXCEPT !.state = "STOPPED"]
  <2>1. player.skip = NoTrack /\ player.track # NoTrack /\ audio' = "silent"
    BY <1>4 DEF Reloading, LockInv, Waits, Sounds
  <2>2. p \in Player /\ p.track # NoTrack /\ q.skip = NoTrack /\ q.state = "STOPPED"
    BY <1>1, <2>1 DEF Player
  <2>3. BeginStart(job, p) \/ Go(job, q, "reporting")
    BY <1>4 DEF Reloading
  <2> HIDE DEF p, q
  <2>4. CASE BeginStart(job, p)
    BY <1>1, <2>1, <2>2, <2>4, StartSounds DEF Audios
  <2>5. CASE Go(job, q, "reporting")
    BY <1>2, <2>1, <2>2, <2>5 DEF Sounds, Live
  <2>6. QED
    BY <2>3, <2>4, <2>5
<1>5. CASE Reported
  BY <1>5 DEF Reported, Done, NoJob, Sounds
<1>6. CASE Unloaded
  <2>1. job'.pc = "loading" /\ player' = Replaced(job, player) /\ audio' = "silent"
    BY <1>2, <1>6 DEF Unloaded
  <2>2. player.skip = NoTrack
    BY <1>6 DEF Unloaded, LockInv, Waits
  <2>3. player'.skip = NoTrack /\ player'.state \in {"LOADING", "STOPPED"}
    BY <1>1, <2>1, <2>2 DEF Replaced, Player
  <2>4. QED
    BY <2>1, <2>3 DEF Sounds, Live
<1>7. CASE Announced
  <2>1. player.skip = NoTrack /\ player.state \notin Live /\ player.track # NoTrack /\ audio' = audio
        /\ audio # "playing"
    BY <1>7 DEF Announced, LockInv, Waits, Loads, Sounds, Live
  <2>2. CASE Go(job, [player EXCEPT !.loaded = TRUE], "starting")
    <3>1. job'.pc = "starting" /\ player'.state = player.state /\ player'.track = player.track
      BY <1>1, <1>2, <2>2 DEF Player
    <3>2. QED
      BY <2>1, <3>1 DEF Sounds, Live
  <2>3. CASE Go(job, [player EXCEPT !.state = "ERROR"], "reporting")
    <3>1. job'.pc = "reporting" /\ player'.state = "ERROR" /\ player'.track = player.track
      BY <1>1, <1>2, <2>3 DEF Player
    <3>2. QED
      BY <2>1, <3>1 DEF Sounds, Live
  <2>4. QED
    BY <1>7, <2>2, <2>3 DEF Announced
<1>8. CASE Paused
  <2> DEFINE p == [player EXCEPT !.state = "PAUSED"]
  <2>1. player.track # NoTrack /\ audio' # "playing"
    BY <1>1, <1>8 DEF Paused, Sounds
  <2>2. p.state = "PAUSED" /\ p.track = player.track
    BY <1>1 DEF Player
  <2>3. Go(job, p, "reporting")
    BY <1>8 DEF Paused
  <2> HIDE DEF p
  <2>4. QED
    BY <1>2, <2>1, <2>2, <2>3 DEF Sounds
<1>9. CASE Stopped \/ Halted
  <2>1. player.skip = NoTrack /\ audio' = "silent" /\ (Halted => player.track # NoTrack)
    BY <1>9 DEF Stopped, Halted, LockInv, Waits, Sounds
  <2>2. \E s \in {"STOPPED", "PAUSED"} : /\ Go(job, [player EXCEPT !.state = s], "reporting")
                                         /\ s = "PAUSED" => Halted
    BY <1>9 DEF Stopped, Halted
  <2>3. /\ job'.pc = "reporting" /\ player'.skip = NoTrack /\ player'.track = player.track
        /\ player'.state \in {"STOPPED", "PAUSED"} /\ (player'.state = "PAUSED" => Halted)
    BY <1>1, <1>2, <2>1, <2>2 DEF Player
  <2>4. QED
    BY <2>1, <2>3 DEF Sounds, Live
<1>10. QED
  BY <1>3, <1>4, <1>5, <1>6, <1>7, <1>8, <1>9

\* A play or a resume that is told of is heard, or changed nothing.
LEMMA PlayedSounds ==
  ASSUME Types, LockInv, Played \/ Resumed, NEW told \in BOOLEAN, NEW tells \in BOOLEAN,
         Sounds(job.pc, player, audio, told),
         tells => ~given'.failed /\ (given' = given => told)
  PROVE  Sounds(job'.pc, player', audio', tells)
<1>1. job \in Job /\ player \in Player /\ audio \in Audios /\ given \in Given
  BY TypesParts DEF Lock, Rest, Holder, Audios
<1>2. \A pc, p : Go(job, p, pc) => job'.pc = pc /\ player' = p
  BY <1>1 DEF Go, Job
<1>3. CASE Played
  <2> DEFINE p == [player EXCEPT !.state = "PLAYING", !.skips = 0]
             q == [player EXCEPT !.state = "ERROR"]
  <2>1. player.track # NoTrack /\ audio # "playing"
    BY <1>3 DEF Played, LockInv, Loads, Sounds, Live
  <2>2. p.state = "PLAYING" /\ p.track = player.track /\ q.state = "ERROR" /\ q.track = player.track
    BY <1>1 DEF Player
  <2>3. \/ Go(job, p, "reporting") /\ audio' = "playing"
        \/ Go(job, p, "reporting") /\ given'.failed
        \/ Go(job, q, "reporting") /\ audio' = audio
    BY <1>1, <1>3 DEF Played, Sound, Given
  <2> HIDE DEF p, q
  <2>4. QED
    BY <1>2, <2>1, <2>2, <2>3 DEF Sounds
<1>4. CASE Resumed
  <2> DEFINE p == [player EXCEPT !.state = "PLAYING"]
  <2>1. player.track # NoTrack /\ job.pc = "resuming"
    BY <1>4 DEF Resumed, Sounds
  <2>2. p.state = "PLAYING" /\ p.track = player.track
    BY <1>1 DEF Player
  <2>3. \/ Go(job, p, "reporting") /\ audio' = "playing"
        \/ Go(job, p, "reporting") /\ given'.failed
        \/ Go(job, player, "reporting") /\ audio' = audio /\ given' = given
    BY <1>1, <1>4 DEF Resumed, Sound, Given
  <2> HIDE DEF p
  <2>4. QED
    BY <1>2, <2>1, <2>2, <2>3 DEF Sounds
<1>5. QED
  BY <1>3, <1>4

LEMMA AudibleInit == Init => AudibleInv
BY DEF Init, HandlerInit, AudibleInv, Told, Sounds, EndFound, NoRestart, NoJob, NoEnd, Live

LEMMA ToldIsBoolean == Told \in BOOLEAN
BY DEF Told

\* A command reaches the lock: everything but a repetition keeps its sound.
LEMMA EnterSounds ==
  ASSUME Types, NoRestart, NEW j, Waiter(j), j.kind \notin {"restart", "skip"}, Enter(j, player),
         NEW told \in BOOLEAN, Sounds(job.pc, player, audio, told)
  PROVE  Sounds(job'.pc, player', audio, told) /\ NoRestart'
<1>1. player \in Player /\ audio \in Audios /\ waiting \in Seq(Job) /\ j \in Job
  BY TypesParts DEF Lock, Rest, Audios, Waiter
<1>2. CASE Free
  <2>1. Begin(j, player) /\ job.pc = "none" /\ waiting' = waiting
    BY <1>2 DEF Enter, Free, NoJob
  <2>2. QED
    BY <1>1, <2>1, BeginSounds DEF NoRestart
<1>3. CASE ~Free
  <2>1. waiting' = Append(waiting, j) /\ job' = job /\ player' = player
    BY <1>3 DEF Enter
  <2>2. \A m \in DOMAIN waiting' : \/ waiting'[m] = j
                                   \/ m \in DOMAIN waiting /\ waiting'[m] = waiting[m]
    BY <1>1, <2>1
  <2>3. QED
    BY <2>1, <2>2 DEF NoRestart
<1>4. QED
  BY <1>2, <1>3

LEMMA RunCommandAudible ==
  ASSUME Types, Numbers, AudibleInv, RunCommand
  PROVE  AudibleInv'
<1> DEFINE msg == Head(inbox).msg
<1> SUFFICES ASSUME ~given.race
             PROVE  Sounds(job'.pc, player', audio', Told') /\ EndFound' /\ NoRestart'
  BY DEF RunCommand, AudibleInv
<1>1. Sounds(job.pc, player, audio, Told) /\ EndFound /\ NoRestart
  BY DEF AudibleInv
<1>2. audio' = audio /\ given' = given /\ cmdGen \in Nat /\ ended \in End
  BY TypesParts DEF RunCommand, Rest, Ending
<1>3. ended' = ended /\ ended.pc # "created" /\ (Told' <=> Told)
  <2>1. ended.gen \in Nat /\ ended.ahead.task \in Nat
    BY <1>2 DEF End
  <2>2. ended' = ended /\ ended.pc # "created"
    BY <1>1, <2>1 DEF RunCommand, AheadOfEnd, EndFound
  <2>3. QED
    BY <1>2, <2>2 DEF Told
<1>4. \/ PlayerCall(Head(inbox)) = "apply" /\ Register("apply", msg.track, msg.want)
      \/ Register("stop", NoTrack, "stopped")
      \/ Register("reload", NoTrack, "none")
      \/ UNCHANGED <<player, cmdGen, job, waiting, goal>>
  BY DEF RunCommand
<1>5. ASSUME NEW kind \in {"apply", "stop", "reload"}, NEW track \in Item, NEW want \in WantOrNone,
             Register(kind, track, want)
      PROVE  Sounds(job'.pc, player', audio', Told') /\ EndFound' /\ NoRestart'
  <2> DEFINE j == Command(kind, track, want)
  <2>1. Waiter(j) /\ j.kind = kind
    BY <1>2 DEF Waiter, Command, Job, Commands, Pcs
  <2>2. Enter(j, player) /\ cmdGen' = cmdGen + 1
    BY <1>5 DEF Register
  <2> HIDE DEF j
  <2>3. Sounds(job'.pc, player', audio, Told) /\ NoRestart'
    BY <1>1, <2>1, <2>2, EnterSounds, ToldIsBoolean
  <2>4. EndFound'
    <3>1. ended.gen \in Nat
      BY <1>2 DEF End
    <3>2. ended.gen # cmdGen'
      BY <1>2, <2>2, <3>1 DEF Numbers
    <3>3. QED
      BY <1>3, <3>2 DEF EndFound
  <2>5. QED
    BY <1>2, <1>3, <2>3, <2>4 DEF Sounds
<1>6. CASE UNCHANGED <<player, cmdGen, job, waiting, goal>>
  <2>1. Sounds(job'.pc, player', audio', Told')
    BY <1>1, <1>2, <1>3, <1>6 DEF Sounds
  <2>2. QED
    BY <1>1, <1>2, <1>3, <1>6, <2>1 DEF EndFound, NoRestart, Free
<1>7. msg \in Messages
  BY RunTaskTypes, TypesParts DEF RunCommand
<1>8. PlayerCall(Head(inbox)) = "apply" => msg.track \in Item /\ msg.want \in WantOrNone
  BY <1>7, MessageTypes DEF PlayerCall
<1>9. NoTrack \in Item /\ "stopped" \in WantOrNone /\ "none" \in WantOrNone
  BY DEF Item, WantOrNone
<1>10. CASE PlayerCall(Head(inbox)) = "apply" /\ Register("apply", msg.track, msg.want)
  BY <1>5, <1>8, <1>10
<1>11. QED
  BY <1>4, <1>5, <1>6, <1>9, <1>10

LEMMA TakeLockAudible ==
  ASSUME Types, QueueInv, AudibleInv, TakeLock
  PROVE  AudibleInv'
<1> DEFINE j == Head(waiting)
<1>1. given \in Given /\ player \in Player /\ audio \in Audios /\ waiting \in Seq(Job)
  BY TypesParts DEF Lock, Rest, Audios
<1> SUFFICES ASSUME ~given'.race
             PROVE  Sounds(job'.pc, player', audio', Told') /\ EndFound' /\ NoRestart'
  BY DEF AudibleInv
<1>2. ~given.race
  BY <1>1 DEF TakeLock, Given
<1>3. Sounds(job.pc, player, audio, Told) /\ EndFound /\ NoRestart
  BY <1>2 DEF AudibleInv
<1>4. /\ audio' = audio /\ cmdGen' = cmdGen /\ job = NoJob /\ waiting # <<>>
      /\ waiting' = Tail(waiting)
  BY DEF TakeLock
<1>5. ended' = ended /\ EndFound'
  BY <1>3, <1>4 DEF EndFound, Free, TakeLock, AheadOfEnd
<1>6. j = waiting[1] /\ 1 \in DOMAIN waiting
  BY <1>1, <1>4
<1>7. Waiter(j) /\ j.kind # "restart"
  BY <1>3, <1>6, TypesParts DEF Lock, NoRestart
<1>8. j.kind = "skip" /\ j.gen = cmdGen => player.state \notin Live
  BY <1>6 DEF QueueInv, SkipWaits
<1>9. (Done(player) \/ Begin(j, player)) /\ (Told' => Told)
  <2>1. Done(player) \/ Begin(j, player)
    BY DEF TakeLock
  <2>2. (given'.end = FALSE => given.end = FALSE) /\ given'.failed = given.failed
    BY <1>1 DEF TakeLock, Given
  <2>3. QED
    BY <1>1, <1>5, <2>1, <2>2 DEF Told, TakeLock, Given
<1>10. Sounds("none", player, audio, Told)
  BY <1>3, <1>4 DEF NoJob
<1> HIDE DEF j
<1>11. Sounds(job'.pc, player', audio, Told)
  <2>1. CASE Done(player)
    BY <1>10, <2>1 DEF Done, NoJob
  <2>2. CASE Begin(j, player)
    BY <1>1, <1>7, <1>8, <1>10, <2>2, BeginSounds, ToldIsBoolean
  <2>3. QED
    BY <1>9, <2>1, <2>2
<1>12. NoRestart'
  <2>1. \A m \in DOMAIN waiting' : m + 1 \in DOMAIN waiting /\ waiting'[m] = waiting[m + 1]
    BY <1>1, <1>4
  <2>2. QED
    BY <1>3, <2>1 DEF NoRestart
<1>13. QED
  BY <1>4, <1>5, <1>9, <1>11, <1>12, ToldIsBoolean DEF Sounds

\* Only a holder of the lock has steps of its own.
LEMMA JobStepWorks ==
  ASSUME JobStep
  PROVE  job # NoJob
<1>1. NoJob.pc = "none"
  BY DEF NoJob
<1>2. CASE Loaded \/ Played \/ Resumed
  BY <1>1, <1>2 DEF Loaded, Played, Resumed
<1>3. CASE Permitted \/ Unloaded \/ LoadFails \/ Sought \/ Announced
  BY <1>1, <1>3 DEF Permitted, Unloaded, LoadFails, Sought, Announced
<1>4. CASE Paused \/ Stopped \/ Halted \/ Reloading \/ Reported
  BY <1>1, <1>4 DEF Paused, Stopped, Halted, Reloading, Reported
<1>5. QED
  BY <1>2, <1>3, <1>4 DEF JobStep

LEMMA JobStepAudible ==
  ASSUME Types, LockInv, AudibleInv, JobStep
  PROVE  AudibleInv'
<1>1. given \in Given /\ player \in Player /\ job \in Job /\ waiting \in Seq(Job)
  BY TypesParts DEF Lock, Rest, Holder
<1> SUFFICES ASSUME ~given'.race
             PROVE  Sounds(job'.pc, player', audio', Told') /\ EndFound' /\ NoRestart'
  BY DEF AudibleInv
<1>2. ~given.race
  BY <1>1 DEF JobStep, Loaded, Played, Resumed, Sound, Given
<1>3. Sounds(job.pc, player, audio, Told) /\ EndFound /\ NoRestart
  BY <1>2 DEF AudibleInv
<1>4. cmdGen' = cmdGen
  BY DEF JobStep, Loaded, Permitted, Unloaded, LoadFails, Sought, Announced, Played, Resumed,
         Paused, Stopped, Halted, Reloading, Reported, Within
<1>5. job # NoJob
  BY JobStepWorks
<1>6. ended' = ended /\ EndFound'
  BY <1>3, <1>4, <1>5 DEF EndFound, Free, JobStep, AheadOfEnd
<1>7. Sounds(job'.pc, player', audio', Told')
  <2>1. given'.end = given.end /\ Told' \in BOOLEAN
    BY <1>1 DEF JobStep, Loaded, Played, Resumed, Sound, Given, Told
  <2>2. given'.failed = given.failed => (Told' => Told)
    BY <1>6, <2>1 DEF Told
  <2>3. CASE Played \/ Resumed
    <3>1. Told' => ~given'.failed /\ (given' = given => Told)
      BY <2>2 DEF Told
    <3>2. QED
      BY <1>3, <2>1, <2>3, <3>1, PlayedSounds, ToldIsBoolean
  <2>4. CASE ~(Played \/ Resumed)
    <3>1. given'.failed = given.failed
      BY <1>1, <2>4 DEF JobStep, Loaded, Given
    <3>2. Sounds(job'.pc, player', audio', Told)
      <4>1. CASE Permitted
        BY <1>3, <4>1, PermittedSounds, ToldIsBoolean
      <4>2. CASE Loaded \/ LoadFails
        BY <1>3, <4>2, LoadedSounds, ToldIsBoolean
      <4>3. CASE Sought \/ Reloading \/ Reported \/ Unloaded \/ Announced \/ Paused \/ Stopped \/ Halted
        BY <1>3, <4>3, OtherSounds, ToldIsBoolean
      <4>4. QED
        BY <2>4, <4>1, <4>2, <4>3 DEF JobStep
    <3>3. QED
      BY <2>2, <3>1, <3>2 DEF Sounds
  <2>5. QED
    BY <2>3, <2>4
<1>8. NoRestart'
  <2>1. CASE waiting' = waiting
    BY <1>3, <2>1 DEF NoRestart
  <2>2. CASE waiting' = Append(waiting, [job EXCEPT !.kind = "skip", !.pc = "waiting"])
    <3> DEFINE skip == [job EXCEPT !.kind = "skip", !.pc = "waiting"]
    <3>1. skip \in Job /\ skip.kind = "skip"
      BY <1>1 DEF Job, Commands, Pcs
    <3> HIDE DEF skip
    <3>2. \A m \in DOMAIN waiting' : \/ waiting'[m] = skip
                                     \/ m \in DOMAIN waiting /\ waiting'[m] = waiting[m]
      BY <1>1, <2>2, <3>1 DEF skip
    <3>3. QED
      BY <1>3, <3>1, <3>2 DEF NoRestart
  <2>3. QED
    BY <2>1, <2>2, JobStepKeeps
<1>9. QED
  BY <1>6, <1>7, <1>8

LEMMA EndedContinuesAudible ==
  ASSUME Types, LockInv, AudibleInv, EndedContinues
  PROVE  AudibleInv'
<1> DEFINE restart == [NoJob EXCEPT !.kind = "restart", !.gen = cmdGen, !.track = ended.track]
           advance == Command("advance", nextInfo, "playing")
           q == [player EXCEPT !.state = "STOPPED", !.track = NoTrack, !.loaded = FALSE]
<1>1. /\ given \in Given /\ player \in Player /\ audio \in Audios /\ cmdGen \in Nat
      /\ nextInfo \in Item /\ ended \in End
  BY TypesParts DEF Lock, Rest, Audios, HandlerTypes, Ending
<1> SUFFICES ASSUME ~given'.race
             PROVE  Sounds(job'.pc, player', audio', Told') /\ EndFound' /\ NoRestart'
  BY DEF AudibleInv
<1>2. ~given.race
  <2>1. given'.race = given.race
    BY <1>1 DEF EndedContinues, Given
  <2>2. QED
    BY <2>1
<1>3. Sounds(job.pc, player, audio, Told) /\ EndFound /\ NoRestart
  BY <1>2 DEF AudibleInv
<1>4. CASE EndedIsStale
  <2>1. UNCHANGED <<player, job, waiting, audio>> /\ given'.end /\ ended' = NoEnd
    BY <1>1, <1>4 DEF EndedContinues, Given
  <2>2. EndFound' /\ NoRestart'
    BY <1>3, <2>1 DEF EndFound, NoEnd, NoRestart
  <2>3. Sounds(job.pc, player, audio, FALSE) /\ ~Told'
    BY <1>3, <2>1 DEF Sounds, Told
  <2>4. QED
    BY <2>1, <2>2, <2>3 DEF Sounds
<1> SUFFICES ASSUME ~EndedIsStale
             PROVE  Sounds(job'.pc, player', audio', Told') /\ EndFound' /\ NoRestart'
  BY <1>4
<1>5. Free /\ audio = "silent" /\ player.skip = NoTrack /\ audio' = "silent" /\ ended' = NoEnd
      /\ ended.track = player.track
  BY <1>3 DEF EndFound, EndedIsStale, EndedContinues
<1>6. EndFound'
  BY <1>5 DEF EndFound, NoEnd
<1>7. Sounds("none", player, audio, Told) /\ job.pc = "none" /\ waiting = <<>>
  BY <1>3, <1>5 DEF Free, NoJob
<1>8. Waiter(restart) /\ restart.kind = "restart" /\ restart.track = player.track
  BY <1>1, <1>5 DEF End, NoJob, Job, Waiter, Commands, Pcs, WantOrNone
<1>9. nextInfo # NoTrack => Waiter(advance) /\ advance.kind = "advance" /\ advance.track = nextInfo
  BY <1>1 DEF Waiter, Command, Job, Commands, Pcs, WantOrNone
<1>10. \/ Enter(restart, player)
       \/ nextInfo # NoTrack /\ Enter(advance, player)
       \/ player' = q /\ job' = job /\ waiting' = waiting
  BY DEF EndedContinues, Register
<1>11. q.state = "STOPPED" /\ q.skip = NoTrack
  BY <1>1, <1>5 DEF Player
<1> HIDE DEF restart, advance, q
<1>12. \/ Begin(restart, player) /\ waiting' = waiting
       \/ nextInfo # NoTrack /\ Begin(advance, player) /\ waiting' = waiting
       \/ player' = q /\ job' = job /\ waiting' = waiting
  BY <1>5, <1>10 DEF Enter
<1>13. NoRestart'
  BY <1>7, <1>12 DEF NoRestart
<1>14. Sounds(job'.pc, player', "silent", TRUE)
  <2>1. CASE Begin(restart, player)
    BY <1>1, <1>5, <1>7, <1>8, <2>1, RestartSounds, ToldIsBoolean DEF Audios
  <2>2. CASE nextInfo # NoTrack /\ Begin(advance, player)
    <3> DEFINE p == NoSkip(player)
    <3>1. p \in Player /\ p.state = player.state /\ p.skip = NoTrack /\ p.track = player.track
      BY <1>1 DEF NoSkip, Player, Item
    <3>2. Sounds("none", p, audio, Told)
      BY <1>7, <3>1 DEF Sounds
    <3>3. BeginLoad(advance, p)
      BY <1>9, <2>2 DEF Begin
    <3>4. advance \in Job
      BY <1>9, <2>2 DEF Waiter
    <3> HIDE DEF p
    <3>5. QED
      BY <1>1, <1>5, <1>9, <2>2, <3>1, <3>2, <3>3, <3>4, LoadSounds, ToldIsBoolean
  <2>3. CASE player' = q /\ job' = job
    BY <1>7, <1>11, <2>3 DEF Sounds, Live
  <2>4. QED
    BY <1>12, <2>1, <2>2, <2>3
<1>15. QED
  BY <1>5, <1>6, <1>13, <1>14 DEF Sounds

LEMMA ServerAudible ==
  ASSUME Types, Numbers, AudibleInv,
         (\E msg \in Messages : Receive(msg)) \/ Drop \/ ReleaseExternalPlayback
  PROVE  AudibleInv'
<1>1. /\ given \in Given /\ player \in Player /\ audio \in Audios /\ cmdGen \in Nat
      /\ ended \in End
  BY TypesParts DEF Lock, Rest, Audios, Ending
<1>2. /\ UNCHANGED <<job, waiting, ended>> /\ given'.end = given.end /\ given'.race = given.race
      /\ given'.failed = given.failed
  BY <1>1 DEF Receive, Drop, ReleaseExternalPlayback, SkipForgotten, Given
<1>9. Told' <=> Told
  BY <1>2 DEF Told
<1> SUFFICES ASSUME ~given.race
             PROVE  Sounds(job.pc, player', audio', Told) /\ EndFound' /\ NoRestart'
  BY <1>2, <1>9 DEF AudibleInv
<1>3. Sounds(job.pc, player, audio, Told) /\ EndFound /\ NoRestart
  BY DEF AudibleInv
<1>4. \/ player'.state = player.state /\ audio' = audio
      \/ player'.state = "STOPPED" /\ audio' = "silent"
  BY <1>1 DEF Receive, Drop, ReleaseExternalPlayback, Invalidation, NoSkip, Player
<1>5. player'.track = player.track /\ player'.skip \in {NoTrack, player.skip}
  BY <1>1 DEF Receive, Drop, ReleaseExternalPlayback, Invalidation, NoSkip, Player
<1>6. Sounds(job.pc, player', audio', Told)
  BY <1>3, <1>4, <1>5 DEF Sounds, Live
<1>7. EndFound'
  <2>1. cmdGen' \in {cmdGen, cmdGen + 1, cmdGen + 2}
    BY DEF Receive, Drop, ReleaseExternalPlayback, Invalidation
  <2>2. ended.gen \in Nat /\ ended.gen <= cmdGen
    BY <1>1 DEF End, Numbers
  <2>3. ended.gen = cmdGen' => cmdGen' = cmdGen
    BY <1>1, <2>1, <2>2
  <2>4. audio = "silent" => audio' = "silent"
    BY <1>4
  <2>5. goal = NoGoal => goal' = NoGoal
    BY DEF Receive, Drop, ReleaseExternalPlayback
  <2>6. QED
    BY <1>2, <1>3, <1>5, <2>3, <2>4, <2>5 DEF EndFound, Free
<1>8. QED
  BY <1>2, <1>3, <1>6, <1>7 DEF NoRestart

LEMMA BackendAudible ==
  ASSUME Types, LockInv, AudibleInv,
         TrackEnds \/ EndedStarts \/ SkipTimeout \/ PlaybackError \/ UNCHANGED vars
  PROVE  AudibleInv'
<1>1. given \in Given /\ player \in Player /\ audio \in Audios /\ inbox \in Seq(Entry)
  BY TypesParts DEF Lock, Rest, Audios, HandlerTypes
<1> SUFFICES ASSUME ~given'.race
             PROVE  Sounds(job'.pc, player', audio', Told') /\ EndFound' /\ NoRestart'
  BY DEF AudibleInv
<1>2. ~given.race
  BY <1>1 DEF TrackEnds, EndedStarts, SkipTimeout, PlaybackError, vars, history, Given
<1>3. Sounds(job.pc, player, audio, Told) /\ EndFound /\ NoRestart
  BY <1>2 DEF AudibleInv
<1>11. given'.end = given.end /\ given'.failed = given.failed
  BY <1>1 DEF TrackEnds, EndedStarts, SkipTimeout, PlaybackError, vars, history, Given
<1>4. waiting' = waiting /\ NoRestart'
  BY <1>3 DEF TrackEnds, EndedStarts, SkipTimeout, PlaybackError, vars, playerVars, NoRestart
<1>5. CASE TrackEnds
  <2>1. Free /\ inbox = <<>>
    BY <1>1, <1>5 DEF TrackEnds, Given
  <2>2. audio = "playing" /\ audio' = "silent" /\ UNCHANGED <<job, player, cmdGen>> /\ goal' = NoGoal
    BY <1>5 DEF TrackEnds
  <2>3. player.state = "PLAYING"
    BY <1>3, <2>1, <2>2 DEF Sounds, Free, NoJob
  <2>4. player.skip = NoTrack
    BY <2>3 DEF LockInv, Waits, Live
  <2>5. ended'.pc = "created" /\ ended'.ahead.task = 0 /\ ended' # NoEnd
    BY <1>5, <2>1 DEF TrackEnds, NoEnd
  <2>6. Sounds(job.pc, player, "silent", FALSE)
    BY <1>3 DEF Sounds
  <2>7. EndFound' /\ Free'
    BY <1>4, <2>1, <2>2, <2>4, <2>5 DEF EndFound, Free
  <2>8. QED
    BY <1>4, <2>2, <2>5, <2>6, <2>7 DEF Told
<1>6. CASE EndedStarts
  <2>1. ended.pc = "created" /\ ended'.pc = "reporting" /\ ended' # NoEnd /\ ended # NoEnd
    <3>1. NoEnd.pc = "none"
      BY DEF NoEnd
    <3>2. ended.pc = "created" /\ ended'.pc = "reporting"
      BY <1>6 DEF EndedStarts, NoEnd
    <3>3. QED
      BY <3>1, <3>2
  <2>2. UNCHANGED <<job, player, audio, cmdGen, goal>>
    BY <1>6 DEF EndedStarts, history
  <2>3. ~Told' /\ Sounds(job.pc, player, audio, FALSE)
    BY <1>3, <2>1 DEF Told, Sounds
  <2>5. EndFound'
    BY <1>3, <1>4, <2>1, <2>2 DEF EndFound, Free
  <2>4. QED
    BY <1>4, <2>2, <2>3, <2>5 DEF Sounds
<1>7. CASE SkipTimeout
  <2>1. player.skip # NoTrack /\ job = NoJob /\ UNCHANGED <<audio, ended, cmdGen>>
    BY <1>7 DEF SkipTimeout
  <2>2. player'.skip = NoTrack /\ player'.state = "STOPPED" /\ job'.pc = "reporting"
    BY <1>1, <1>7 DEF SkipTimeout, Go, NoSkip, NoJob, Player
  <2>3. audio # "playing"
    BY <1>3, <2>1 DEF Sounds, LockInv, Waits, Live, NoJob
  <2>4. Sounds(job'.pc, player', audio', Told')
    BY <1>11, <2>1, <2>2, <2>3 DEF Sounds, Live
  <2>5. EndFound'
    BY <1>3, <1>7, <2>1 DEF EndFound, SkipTimeout
  <2>6. QED
    BY <1>4, <2>4, <2>5
<1>8. CASE PlaybackError
  <2>1. audio # "silent" /\ audio' = "silent" /\ UNCHANGED <<job, ended, cmdGen>>
    BY <1>8 DEF PlaybackError
  <2>2. player'.state = "ERROR" /\ player'.track = player.track /\ player'.skip = player.skip
    BY <1>1, <1>8 DEF PlaybackError, Player
  <2>3. Sounds(job.pc, player', "silent", Told)
    BY <1>3, <2>2 DEF Sounds, Live
  <2>4. EndFound'
    BY <1>3, <1>8, <2>1 DEF EndFound, PlaybackError
  <2>6. Told' <=> Told
    BY <1>11, <2>1 DEF Told
  <2>5. QED
    BY <1>4, <2>1, <2>3, <2>4, <2>6
<1>9. CASE UNCHANGED vars
  BY <1>3, <1>4, <1>9, <1>11 DEF vars, playerVars, history, EndFound, Free, Told
<1>10. QED
  BY <1>5, <1>6, <1>7, <1>8, <1>9

LEMMA AudibleStep ==
  ASSUME Types, Numbers, LockInv, QueueInv, AudibleInv, [Next]_vars
  PROVE  AudibleInv'
BY ServerAudible, RunCommandAudible, TakeLockAudible, JobStepAudible, EndedContinuesAudible,
   BackendAudible DEF Next

\* Once the commands have run, what is heard is PLAYING, and PLAYING is heard unless the
\* last play or resume failed and the backend returned as if it had not (player.py:
\* 1293-1306, 1612-1616), both unless the end of a track was dropped or came amid
\* commands; and LOADING waits for the successor of an unavailable item, unless an
\* advance gave its load up: so far what the state reporter tells the server
\* (player.py:1479-1540, 1410-1480) is what the speaker does.
THEOREM ReportsAreAudible == Spec => []StateIsAudible
<1> DEFINE I == Types /\ Numbers /\ LockInv /\ QueueInv /\ AudibleInv
<1>1. Init => I
  BY InitTypes, NumbersInit, LockInit, QueueInit, AudibleInit
<1>2. I /\ [Next]_vars => I'
  BY StepTypes, NumbersStep, LockStep, QueueStep, AudibleStep
<1>3. I => StateIsAudible
  <2> SUFFICES ASSUME Quiet, LockInv, AudibleInv
               PROVE  /\ ~given.end /\ ~given.race =>
                           /\ audio = "playing" => player.state = "PLAYING"
                           /\ player.state = "PLAYING" => audio = "playing" \/ given.failed
                      /\ player.state = "LOADING" /\ ~given.loading => player.skip # NoTrack
    BY DEF StateIsAudible
  <2>1. job.pc = "none" /\ ended = NoEnd
    BY DEF Quiet, Free, NoJob
  <2>2. ~given.end /\ ~given.race =>
          /\ audio = "playing" => player.state = "PLAYING"
          /\ player.state = "PLAYING" => audio = "playing" \/ given.failed
    BY <2>1 DEF AudibleInv, Sounds, Told
  <2>3. player.state = "LOADING" /\ ~given.loading => player.skip # NoTrack
    BY <2>1 DEF LockInv, Loads
  <2>4. QED
    BY <2>2, <2>3
<1> HIDE DEF I
<1>4. QED
  BY <1>1, <1>2, <1>3, PTL DEF Spec

-----------------------------------------------------------------------------
(***************************************************************************)
(* What is PLAYING is heard, even after an end amid commands, as long as   *)
(* the speaker is told of what follows the end.                            *)
(***************************************************************************)
\* The track's repetition or its successor waits for the lock.
Follows(w, p) == w.kind = "advance" \/ (w.kind = "restart" /\ w.track = p.track)

HeardInv ==
  Told /\ job.pc # "unloading" /\ player.state = "PLAYING" /\ player.track # NoTrack =>
    audio = "playing" \/ \E m \in DOMAIN waiting : Follows(waiting[m], player)

\* The command leaves the player PLAYING only as it found it.
PlaysOn(p) ==
  player'.state = "PLAYING" /\ job'.pc # "unloading" =>
    p.state = "PLAYING" /\ player'.track = p.track

LEMMA StopPlaysOn ==
  ASSUME NEW j \in Job, NEW p \in Player, BeginStop(j, p)
  PROVE  PlaysOn(p)
BY DEF BeginStop, Go, Player, PlaysOn

LEMMA StartPlaysOn ==
  ASSUME NEW j \in Job, NEW p \in Player, BeginStart(j, p)
  PROVE  PlaysOn(p) /\ (player'.state = "PLAYING" => p.track = NoTrack)
BY DEF BeginStart, Go, Done, Player, PlaysOn

LEMMA LoadPlaysOn ==
  ASSUME NEW j \in Job, NEW p \in Player, BeginLoad(j, p)
  PROVE  PlaysOn(p) /\ (player'.state = "PLAYING" => job'.pc = "unloading")
<1>1. CASE p.state \in Live
  BY <1>1 DEF BeginLoad, Go, Job, PlaysOn
<1>2. CASE p.state \notin Live
  BY <1>2 DEF BeginLoad, Go, Replaced, NoSkip, Player, PlaysOn
<1>3. QED
  BY <1>1, <1>2

LEMMA FinishPlaysOn ==
  ASSUME NEW j \in Job, NEW p \in Player, BeginFinish(j, p) \/ Finish(j, p)
  PROVE  PlaysOn(p)
<1>1. \A pc : Go(j, p, pc) => PlaysOn(p)
  BY DEF Go, PlaysOn
<1>2. Done(p) => PlaysOn(p)
  BY DEF Done, PlaysOn
<1>3. BeginStop(j, p) \/ BeginStart(j, p) => PlaysOn(p)
  BY StopPlaysOn, StartPlaysOn
<1>4. QED
  BY <1>1, <1>2, <1>3 DEF BeginFinish, Finish

LEMMA SkipPlaysOn ==
  ASSUME NEW j \in Job, NEW p \in Player, BeginSkipWait(j, p)
  PROVE  PlaysOn(p)
<1>1. CASE Done(p)
  BY <1>1 DEF Done, PlaysOn
<1>2. CASE BeginStop(j, p)
  BY <1>2, StopPlaysOn
<1>3. CASE Go(j, [p EXCEPT !.skips = @ + 1, !.skip = p.track, !.state = "LOADING"], "skipping")
  BY <1>3 DEF Go, Player, PlaysOn
<1>4. QED
  BY <1>1, <1>2, <1>3 DEF BeginSkipWait

\* What follows an end does not leave it so: it plays, or finds another state.
LEMMA BeginPlaysOn ==
  ASSUME NEW j, Waiter(j), NEW p \in Player, Begin(j, p)
  PROVE  /\ PlaysOn(p)
         /\ Follows(j, p) /\ p.track # NoTrack => player'.state # "PLAYING" \/ job'.pc = "unloading"
<1>1. j \in Job
  BY DEF Waiter
<1>2. CASE j.kind = "stop"
  BY <1>1, <1>2, StopPlaysOn DEF Begin, Follows
<1>3. CASE j.kind = "apply"
  BY <1>3 DEF Begin, Follows, Go, PlaysOn
<1>4. CASE j.kind = "advance"
  <2> DEFINE q == NoSkip(p)
  <2>1. q \in Player /\ q.state = p.state /\ q.track = p.track
    BY DEF NoSkip, Player, Item
  <2>2. BeginLoad(j, q)
    BY <1>4 DEF Begin
  <2> HIDE DEF q
  <2>3. PlaysOn(q) /\ (player'.state = "PLAYING" => job'.pc = "unloading")
    BY <1>1, <2>1, <2>2, LoadPlaysOn
  <2>4. QED
    BY <2>1, <2>3 DEF PlaysOn
<1>5. CASE j.kind = "reload"
  <2> DEFINE q == [p EXCEPT !.loaded = FALSE]
  <2>1. Done(p) \/ (p.state \notin Live /\ Done(q)) \/ player' = p
    BY <1>5 DEF Begin, Go
  <2>2. q.state = p.state
    BY DEF Player
  <2> HIDE DEF q
  <2>3. QED
    BY <1>5, <2>1, <2>2 DEF Done, PlaysOn, Follows, Live
<1>6. CASE j.kind = "restart"
  <2> DEFINE q == [p EXCEPT !.loaded = FALSE]
  <2>1. q \in Player /\ q.state = p.state /\ q.track = p.track
    BY DEF Player
  <2>2. \/ p.track = j.track /\ p.state = "PLAYING" /\ BeginStart(j, q)
        \/ ~(p.track = j.track /\ p.state = "PLAYING") /\ Done(p)
    BY <1>6 DEF Begin
  <2> HIDE DEF q
  <2>3. CASE BeginStart(j, q)
    <3>1. PlaysOn(q) /\ (player'.state = "PLAYING" => q.track = NoTrack)
      BY <1>1, <2>1, <2>3, StartPlaysOn
    <3>2. QED
      BY <2>1, <3>1 DEF PlaysOn
  <2>4. CASE ~(p.track = j.track /\ p.state = "PLAYING") /\ Done(p)
    BY <1>6, <2>4 DEF Done, PlaysOn, Follows
  <2>5. QED
    BY <2>2, <2>3, <2>4
<1>7. CASE j.kind = "skip"
  <2>1. Done(p) \/ BeginSkipWait(j, p)
    BY <1>7 DEF Begin
  <2>2. QED
    BY <1>1, <1>7, <2>1, SkipPlaysOn DEF Done, PlaysOn, Follows
<1>8. QED
  BY <1>2, <1>3, <1>4, <1>5, <1>6, <1>7 DEF Waiter, Commands

-----------------------------------------------------------------------------
\* A command reaches the lock.
LEMMA EnterHeard ==
  ASSUME Types, HeardInv, NEW j, Waiter(j), Enter(j, player), audio' = audio, Told' => Told
  PROVE  HeardInv'
<1>1. player \in Player /\ waiting \in Seq(Job) /\ j \in Job
  BY TypesParts DEF Lock, Waiter
<1>2. CASE Free
  <2>1. Begin(j, player) /\ job.pc = "none" /\ waiting' = waiting /\ waiting = <<>>
    BY <1>2 DEF Enter, Free, NoJob
  <2>2. PlaysOn(player)
    BY <1>1, <2>1, BeginPlaysOn
  <2>3. QED
    BY <2>1, <2>2 DEF HeardInv, PlaysOn
<1>3. CASE ~Free
  <2>1. waiting' = Append(waiting, j) /\ job' = job /\ player' = player
    BY <1>3 DEF Enter
  <2>2. \A m \in DOMAIN waiting : m \in DOMAIN waiting' /\ waiting'[m] = waiting[m]
    BY <1>1, <2>1
  <2>3. QED
    BY <2>1, <2>2 DEF HeardInv
<1>4. QED
  BY <1>2, <1>3

LEMMA TakeLockHeard ==
  ASSUME Types, HeardInv, TakeLock
  PROVE  HeardInv'
<1> DEFINE j == Head(waiting)
<1>1. given \in Given /\ player \in Player /\ waiting \in Seq(Job) /\ Ending
  BY TypesParts DEF Lock, Rest
<1>2. /\ audio' = audio /\ job = NoJob /\ waiting # <<>> /\ waiting' = Tail(waiting)
      /\ AheadOfEnd("job")
  BY DEF TakeLock
<1>3. j = waiting[1] /\ 1 \in DOMAIN waiting
  BY <1>1, <1>2
<1>4. Waiter(j)
  BY <1>3, TypesParts DEF Lock
<1>5. \/ Done(player) /\ (j.kind = "advance" => given'.end)
                      /\ j.kind # "restart" /\ (given.end => given'.end)
                      /\ given'.failed = given.failed
      \/ Begin(j, player) /\ given' = given
  BY <1>1 DEF TakeLock, Given
<1>6. ended' = NoEnd => ended = NoEnd
  BY <1>1, <1>2 DEF AheadOfEnd, Ending, End, NoEnd
<1>7. Told' => Told
  BY <1>5, <1>6 DEF Told
<1>8. \A m \in DOMAIN waiting : m = 1 \/ (m - 1 \in DOMAIN waiting' /\ waiting'[m - 1] = waiting[m])
  BY <1>1, <1>2
<1> HIDE DEF j
<1>9. CASE ~Begin(j, player)
  <2>1. CASE j.kind \in {"advance", "restart"}
    BY <1>5, <1>9, <2>1 DEF HeardInv, Told
  <2>2. CASE j.kind \notin {"advance", "restart"}
    <3>1. player' = player /\ job.pc = "none"
      BY <1>2, <1>5, <1>9 DEF Done, NoJob
    <3>2. QED
      BY <1>2, <1>3, <1>7, <1>8, <2>2, <3>1 DEF HeardInv, Follows
  <2>3. QED
    BY <2>1, <2>2
<1>10. CASE Begin(j, player)
  <2>1. /\ PlaysOn(player)
        /\ Follows(j, player) /\ player.track # NoTrack =>
             player'.state # "PLAYING" \/ job'.pc = "unloading"
    BY <1>1, <1>4, <1>10, BeginPlaysOn
  <2>2. job.pc = "none"
    BY <1>2 DEF NoJob
  <2>3. SUFFICES ASSUME Told', job'.pc # "unloading", player'.state = "PLAYING",
                        player'.track # NoTrack
                 PROVE  \/ audio = "playing"
                        \/ \E m \in DOMAIN waiting' : Follows(waiting'[m], player')
    BY <1>2 DEF HeardInv
  <2>4. player.state = "PLAYING" /\ player'.track = player.track /\ ~Follows(j, player)
    BY <2>1, <2>3 DEF PlaysOn
  <2>5. CASE audio # "playing"
    <3>1. PICK m \in DOMAIN waiting : Follows(waiting[m], player)
      BY <1>7, <2>2, <2>3, <2>4, <2>5 DEF HeardInv
    <3>2. m # 1
      BY <1>3, <2>4, <3>1
    <3>3. QED
      BY <1>8, <2>4, <3>1, <3>2 DEF Follows
  <2>6. QED
    BY <2>5
<1>11. QED
  BY <1>9, <1>10

\* The steps of the holder of the lock that let what plays play on.
LEMMA QuietStepsPlayOn ==
  ASSUME Types, Permitted \/ Loaded \/ LoadFails \/ Sought \/ Announced \/ Reported
  PROVE  PlaysOn(player) /\ audio' = audio
<1>1. job \in Job /\ player \in Player
  BY TypesParts DEF Lock, Holder
<1>2. \A pc, p : Go(job, p, pc) \/ Done(p) => player' = p
  BY DEF Go, Done
<1>3. \A pc : Go(job, player, pc) \/ Done(player) => PlaysOn(player)
  BY <1>2 DEF PlaysOn
<1>4. CASE Permitted
  <2>1. ASSUME NEW stale \in BOOLEAN, BeginApply(stale) PROVE PlaysOn(player)
    <3>1. CASE Go(job, [player EXCEPT !.skip = NoTrack, !.skips = 0], "halting")
      BY <1>1, <1>2, <3>1 DEF Player, PlaysOn
    <3>2. CASE BeginLoad(job, player)
      BY <1>1, <3>2, LoadPlaysOn
    <3>3. CASE BeginFinish(job, player)
      BY <1>1, <3>3, FinishPlaysOn
    <3>4. QED
      BY <1>3, <2>1, <3>1, <3>2, <3>3 DEF BeginApply
  <2>2. QED
    BY <1>3, <1>4, <2>1 DEF Permitted
<1>5. CASE Loaded
  <2> DEFINE p == [player EXCEPT !.loaded = TRUE]
             q == [p EXCEPT !.state = "STOPPED"]
  <2>1. p \in Player /\ p.state = player.state /\ p.track = player.track /\ q.state = "STOPPED"
    BY <1>1 DEF Player
  <2>2. BeginStart(job, p) \/ BeginFinish(job, p) \/ Done(p) \/ Done(q)
    BY <1>5 DEF Loaded
  <2> HIDE DEF p, q
  <2>3. PlaysOn(p) \/ player'.state = "STOPPED"
    BY <1>1, <1>2, <2>1, <2>2, StartPlaysOn, FinishPlaysOn DEF PlaysOn
  <2>4. QED
    BY <1>5, <2>1, <2>3 DEF PlaysOn, Loaded
<1>6. CASE LoadFails
  <2> DEFINE r == [player EXCEPT !.state = "STOPPED"]
             skip == [job EXCEPT !.kind = "skip", !.pc = "waiting"]
  <2>1. r \in Player /\ r.state = "STOPPED"
    BY <1>1 DEF Player, Playbacks
  <2>2. skip \in Job /\ Waiter(skip)
    BY <1>1 DEF Job, Waiter, Commands, Pcs
  <2>3. BeginSkipWait(job, r) \/ Done(r) \/ Begin(skip, r)
    BY <1>6 DEF LoadFails
  <2> HIDE DEF r, skip
  <2>4. PlaysOn(r)
    BY <1>1, <1>2, <2>1, <2>2, <2>3, SkipPlaysOn, BeginPlaysOn DEF PlaysOn
  <2>5. QED
    BY <1>6, <2>1, <2>4 DEF PlaysOn, LoadFails
<1>7. CASE Sought
  BY <1>1, <1>3, <1>7, FinishPlaysOn DEF Sought
<1>8. CASE Announced
  <2> DEFINE p == [player EXCEPT !.loaded = TRUE]
             q == [player EXCEPT !.state = "ERROR"]
  <2>1. p.state = player.state /\ p.track = player.track /\ q.state = "ERROR"
    BY <1>1 DEF Player
  <2>2. (player' = p \/ player' = q) /\ audio' = audio
    BY <1>8 DEF Announced, Go
  <2> HIDE DEF p, q
  <2>3. QED
    BY <2>1, <2>2 DEF PlaysOn
<1>9. CASE Reported
  BY <1>3, <1>9 DEF Reported
<1>10. QED
  BY <1>4, <1>5, <1>6, <1>7, <1>8, <1>9 DEF Permitted, Sought, Reported

LEMMA JobStepHeard ==
  ASSUME Types, HeardInv, JobStep
  PROVE  HeardInv'
<1>1. /\ job \in Job /\ player \in Player /\ waiting \in Seq(Job) /\ given \in Given /\ Ending
  BY TypesParts DEF Lock, Holder, Rest
<1>2. given'.failed = given.failed => (Told' => Told)
  <2>1. given'.end = given.end /\ AheadOfEnd("job")
    BY <1>1 DEF JobStep, Loaded, Played, Resumed, Sound, Given
  <2>2. ended' = NoEnd => ended = NoEnd
    BY <1>1, <2>1 DEF AheadOfEnd, Ending, End, NoEnd
  <2>3. QED
    BY <2>1, <2>2 DEF Told
<1>3. \A m \in DOMAIN waiting : m \in DOMAIN waiting' /\ waiting'[m] = waiting[m]
  <2>1. \/ waiting' = waiting
        \/ waiting' = Append(waiting, [job EXCEPT !.kind = "skip", !.pc = "waiting"])
    BY JobStepKeeps
  <2>2. QED
    BY <1>1, <2>1
<1>4. CASE Permitted \/ Loaded \/ LoadFails \/ Sought \/ Announced \/ Reported
  <2>1. PlaysOn(player) /\ audio' = audio /\ job.pc \notin {"unloading", "starting", "resuming"}
    BY <1>4, QuietStepsPlayOn
       DEF Permitted, Loaded, LoadFails, Sought, Announced, Reported
  <2>2. given'.failed = given.failed
    BY <1>1, <2>1 DEF JobStep, Loaded, Played, Resumed, Given
  <2>3. QED
    BY <1>2, <1>3, <2>1, <2>2 DEF HeardInv, PlaysOn, Follows
<1>5. CASE Unloaded \/ Paused \/ Stopped \/ Halted
  <2>1. player'.state # "PLAYING"
    BY <1>1, <1>5 DEF Unloaded, Paused, Stopped, Halted, Go, Replaced, Player
  <2>2. QED
    BY <2>1 DEF HeardInv
<1>6. CASE Played \/ Resumed
  <2>1. \/ audio' = "playing"
        \/ given'.failed
        \/ player'.state = "ERROR"
        \/ job.pc = "resuming" /\ player' = player /\ audio' = audio /\ given' = given
    BY <1>1, <1>6 DEF Played, Resumed, Sound, Given, Go, Player
  <2>2. ~Told' \/ ~given'.failed
    BY DEF Told
  <2>3. QED
    BY <1>2, <1>3, <2>1, <2>2 DEF HeardInv, Follows
<1>7. CASE Reloading
  <2> DEFINE p == [player EXCEPT !.loaded = FALSE]
             q == [p EXCEPT !.state = "STOPPED"]
  <2>1. p \in Player /\ q.state = "STOPPED"
    BY <1>1 DEF Player
  <2>2. BeginStart(job, p) \/ player' = q
    BY <1>7 DEF Reloading, Go
  <2> HIDE DEF p, q
  <2>3. CASE BeginStart(job, p)
    <3>1. PlaysOn(p) /\ (player'.state = "PLAYING" => p.track = NoTrack)
      BY <1>1, <2>1, <2>3, StartPlaysOn
    <3>2. QED
      BY <3>1 DEF HeardInv, PlaysOn
  <2>4. QED
    BY <2>1, <2>2, <2>3 DEF HeardInv
<1>8. QED
  BY <1>4, <1>5, <1>6, <1>7 DEF JobStep

LEMMA EndedContinuesHeard ==
  ASSUME Types, EndedContinues
  PROVE  HeardInv'
<1> DEFINE restart == [NoJob EXCEPT !.kind = "restart", !.gen = cmdGen, !.track = ended.track]
           advance == Command("advance", nextInfo, "playing")
<1>1. /\ given \in Given /\ player \in Player /\ waiting \in Seq(Job) /\ cmdGen \in Nat
      /\ nextInfo \in Item /\ ended \in End
  BY TypesParts DEF Lock, Rest, HandlerTypes, Ending
<1>2. Waiter(restart) /\ restart.kind = "restart" /\ restart.track = ended.track
  BY <1>1 DEF End, NoJob, Job, Waiter, Commands, Pcs, WantOrNone
<1>3. nextInfo # NoTrack => Waiter(advance) /\ advance.kind = "advance"
  BY <1>1 DEF Waiter, Command, Job, Commands, Pcs, WantOrNone
<1>4. \/ given'.end
      \/ ended.track = player.track /\ Enter(restart, player)
      \/ nextInfo # NoTrack /\ Enter(advance, player)
      \/ player'.state = "STOPPED"
  BY <1>1 DEF EndedContinues, EndedIsStale, Register, Given, Player
<1> HIDE DEF restart, advance
<1>5. ASSUME NEW j, Waiter(j), Follows(j, player), Enter(j, player)
      PROVE  HeardInv'
  <2>1. CASE Free
    <3>1. Begin(j, player)
      BY <1>5, <2>1 DEF Enter
    <3>2. /\ PlaysOn(player)
          /\ player.track # NoTrack => player'.state # "PLAYING" \/ job'.pc = "unloading"
      BY <1>1, <1>5, <3>1, BeginPlaysOn
    <3>3. QED
      BY <3>2 DEF HeardInv, PlaysOn
  <2>2. CASE ~Free
    <3>1. waiting' = Append(waiting, j) /\ player' = player /\ j \in Job
      BY <1>5, <2>2 DEF Enter, Waiter
    <3>2. Len(waiting) + 1 \in DOMAIN waiting' /\ waiting'[Len(waiting) + 1] = j
      BY <1>1, <3>1
    <3>3. QED
      BY <1>5, <3>1, <3>2 DEF HeardInv
  <2>3. QED
    BY <2>1, <2>2
<1>6. CASE given'.end \/ player'.state = "STOPPED"
  BY <1>6 DEF HeardInv, Told
<1>7. QED
  BY <1>2, <1>3, <1>4, <1>5, <1>6 DEF Follows

LEMMA HeardStep ==
  ASSUME Types, HeardInv, [Next]_vars
  PROVE  HeardInv'
<1>1. /\ player \in Player /\ given \in Given /\ Ending /\ cmdGen \in Nat
  BY TypesParts DEF Lock, Rest
<1>2. CASE (\E msg \in Messages : Receive(msg)) \/ Drop
  <2>1. /\ UNCHANGED <<job, waiting, ended, audio>> /\ given'.end = given.end
        /\ given'.failed = given.failed
        /\ player'.state = player.state /\ player'.track = player.track
    BY <1>1, <1>2 DEF Receive, Drop, SkipForgotten, Invalidation, NoSkip, Given, Player
  <2>2. QED
    BY <2>1 DEF HeardInv, Told, Follows
<1>3. CASE ReleaseExternalPlayback \/ SkipTimeout \/ PlaybackError
  <2>1. player'.state # "PLAYING"
    BY <1>1, <1>3 DEF ReleaseExternalPlayback, SkipTimeout, PlaybackError, Go, NoSkip, Player
  <2>2. QED
    BY <2>1 DEF HeardInv
<1>4. CASE TrackEnds \/ EndedStarts
  <2>1. ended'.pc # "none"
    BY <1>4 DEF TrackEnds, EndedStarts, NoEnd
  <2>2. QED
    BY <2>1 DEF HeardInv, Told, NoEnd
<1>5. CASE UNCHANGED vars
  BY <1>5 DEF vars, playerVars, history, HeardInv, Told
<1>6. CASE RunCommand
  <2> DEFINE msg == Head(inbox).msg
  <2>1. audio' = audio /\ given' = given /\ AheadOfEnd("task")
    BY <1>6 DEF RunCommand
  <2>2. ended' = NoEnd => ended = NoEnd
    BY <1>1, <2>1 DEF AheadOfEnd, Ending, End, NoEnd
  <2>3. Told' => Told
    BY <2>1, <2>2 DEF Told
  <2>4. \/ PlayerCall(Head(inbox)) = "apply" /\ Register("apply", msg.track, msg.want)
        \/ Register("stop", NoTrack, "stopped")
        \/ Register("reload", NoTrack, "none")
        \/ UNCHANGED <<player, job, waiting>>
    BY <1>6 DEF RunCommand
  <2>5. ASSUME NEW kind \in {"apply", "stop", "reload"}, NEW track \in Item,
               NEW want \in WantOrNone, Register(kind, track, want)
        PROVE  HeardInv'
    <3> DEFINE j == Command(kind, track, want)
    <3>1. Waiter(j) /\ Enter(j, player)
      BY <1>1, <2>5 DEF Register, Waiter, Command, Job, Commands, Pcs
    <3> HIDE DEF j
    <3>2. QED
      BY <2>1, <2>3, <3>1, EnterHeard
  <2>6. CASE UNCHANGED <<player, job, waiting>>
    BY <2>1, <2>3, <2>6 DEF HeardInv
  <2>7. msg \in Messages
    BY <1>6, RunTaskTypes, TypesParts DEF RunCommand
  <2>8. PlayerCall(Head(inbox)) = "apply" => msg.track \in Item /\ msg.want \in WantOrNone
    BY <2>7, MessageTypes DEF PlayerCall
  <2>9. NoTrack \in Item /\ "stopped" \in WantOrNone /\ "none" \in WantOrNone
    BY DEF Item, WantOrNone
  <2>10. QED
    BY <2>4, <2>5, <2>6, <2>8, <2>9
<1>7. QED
  BY <1>2, <1>3, <1>4, <1>5, <1>6, TakeLockHeard, JobStepHeard, EndedContinuesHeard DEF Next

-----------------------------------------------------------------------------
(***************************************************************************)
(* Where the newest SET_STATE is: it waits for the lock, has it, or has    *)
(* been carried out.                                                       *)
(***************************************************************************)
Mine(j) == j.kind = "apply" /\ j.gen = cmdGen /\ j.want = goal.want /\ j.track = goal.track

\* It will find that it is stale.
Behind(w) == w.gen < cmdGen /\ w.kind \notin {"restart", "advance"}

\* It does not repeat the pending skip.
NotEcho(p) ==
  p.skip = NoTrack \/ goal.want \in {"paused", "stopped"} \/ goal.track \notin {NoTrack, p.skip}

\* The player has the item asked for; a pause after an end amid commands may not get it.
OnItem(p) == goal.track # NoTrack => p.track = goal.track
OnPausedItem(p) == goal.want # "paused" \/ ~given.race => OnItem(p)

Reached(p, a) ==
  /\ goal.want = "stopped" => a = "silent" /\ p.state = "STOPPED"
  /\ goal.want # "stopped" => OnPausedItem(p)
  /\ goal.want = "playing" /\ p.track # NoTrack /\ Told => a = "playing"
  /\ goal.want = "paused" /\ ~given.race => a # "playing"

\* What each await of the command has done of it.
Toward(pc, p, a) ==
  \/ pc = "permission" /\ NotEcho(p)
  \/ pc = "unloading"
  \/ pc = "loading" /\ p.track = goal.track
  \/ pc = "seeking" /\ OnItem(p)
  \/ pc \in {"stopping", "halting"} /\ goal.want = "stopped"
  \/ pc \in {"pausing", "halting"} /\ goal.want = "paused" /\ OnPausedItem(p)
  \/ pc \in {"resuming", "announcing", "starting"} /\ goal.want = "playing" /\ OnItem(p)
  \/ pc = "reporting" /\ Reached(p, a)

AllBehind == \A m \in DOMAIN waiting : Behind(waiting[m])

GoalWaits ==
  /\ NotEcho(player)
  /\ \E k \in DOMAIN waiting :
       Mine(waiting[k]) /\ \A m \in DOMAIN waiting : m > k => Behind(waiting[m])
GoalRuns == Mine(job) /\ AllBehind /\ Toward(job.pc, player, audio)
GoalReached == job = NoJob /\ AllBehind /\ Reached(player, audio)

GoalInv == goal # NoGoal => GoalWaits \/ GoalRuns \/ GoalReached

-----------------------------------------------------------------------------
\* A step that leaves the goal as it was, and what is told no better, unless it is heard.
Steady ==
  /\ UNCHANGED <<cmdGen, goal>>
  /\ given'.race <=> given.race
  /\ Told' => Told \/ audio' = "playing"

LEMMA SteadyToward ==
  ASSUME Steady
  PROVE  /\ Reached(player', audio') => Reached(player, audio)'
         /\ Toward(job'.pc, player', audio') => Toward(job.pc, player, audio)'
         /\ NotEcho(player') => NotEcho(player)'
         /\ Mine(job') => Mine(job)'
<1>1. /\ OnItem(player') <=> OnItem(player)'
      /\ OnPausedItem(player') <=> OnPausedItem(player)'
      /\ NotEcho(player') <=> NotEcho(player)'
      /\ Mine(job') <=> Mine(job)'
  BY DEF Steady, OnItem, OnPausedItem, NotEcho, Mine
<1>2. Reached(player', audio') => Reached(player, audio)'
  BY <1>1 DEF Steady, Reached
<1>3. QED
  BY <1>1, <1>2 DEF Steady, Toward

LEMMA SteadyBehind ==
  ASSUME Steady, waiting' = waiting
  PROVE  AllBehind' <=> AllBehind
BY DEF Steady, AllBehind, Behind

\* Nothing happened that concerns the command.
LEMMA GoalUntouched ==
  ASSUME GoalInv, Steady, UNCHANGED <<player, job, waiting, audio>>
  PROVE  GoalInv'
<1>1. GoalWaits => GoalWaits'
  BY DEF Steady, GoalWaits, NotEcho, Mine, Behind
<1>2. GoalRuns => GoalRuns'
  BY SteadyToward, SteadyBehind DEF GoalRuns
<1>3. GoalReached => GoalReached'
  BY SteadyToward, SteadyBehind DEF GoalReached
<1>4. QED
  BY <1>1, <1>2, <1>3 DEF GoalInv, Steady

-----------------------------------------------------------------------------
(***************************************************************************)
(* The parts of the command itself.                                        *)
(***************************************************************************)
\* After a part of it: the command goes on, or is done and what it asked for is there.
Advanced(a) ==
  \/ Mine(job') /\ Toward(job'.pc, player', a)
  \/ job' = NoJob /\ Reached(player', a)

LEMMA GoMine ==
  ASSUME NEW j \in Job, Mine(j), NEW p, NEW pc, Go(j, p, pc)
  PROVE  Mine(job') /\ job'.pc = pc /\ player' = p
BY DEF Go, Job, Mine

LEMMA FinishAdvances ==
  ASSUME NEW j \in Job, NEW p \in Player, NEW a \in Audios, Mine(j), OnItem(p),
         Told /\ p.state = "PLAYING" /\ p.track # NoTrack => a = "playing",
         ~given.race /\ a = "playing" => p.state = "PLAYING",
         BeginFinish(j, p) \/ Finish(j, p)
  PROVE  Advanced(a)
<1>1. \A q, pc : Go(j, q, pc) => Mine(job') /\ job'.pc = pc /\ player' = q
  BY GoMine
<1>2. j.want = goal.want /\ OnPausedItem(p)
  BY DEF Mine, OnPausedItem
<1>3. CASE Go(j, p, "seeking")
  BY <1>1, <1>3 DEF Advanced, Toward
<1>4. CASE j.want = "playing" /\ Go(j, p, "resuming")
  BY <1>1, <1>2, <1>4 DEF Advanced, Toward
<1>5. CASE j.want = "playing" /\ BeginStart(j, p)
  <2>1. CASE p.track = NoTrack
    <3>1. job' = NoJob /\ player' = p
      BY <1>5, <2>1 DEF BeginStart, Done
    <3>2. Reached(p, a)
      BY <1>2, <1>5, <2>1 DEF Reached
    <3>3. QED
      BY <3>1, <3>2 DEF Advanced
  <2>2. CASE p.track # NoTrack
    <3> DEFINE q == [p EXCEPT !.state = "LOADING"]
    <3>1. Go(j, q, "announcing")
      BY <1>5, <2>2 DEF BeginStart
    <3>2. OnItem(q)
      BY DEF OnItem, Player
    <3> HIDE DEF q
    <3>3. QED
      BY <1>1, <1>2, <1>5, <3>1, <3>2 DEF Advanced, Toward
  <2>3. QED
    BY <2>1, <2>2
<1>6. CASE j.want = "paused" /\ Go(j, p, "pausing")
  BY <1>1, <1>2, <1>6 DEF Advanced, Toward
<1>7. CASE j.want = "stopped" /\ BeginStop(j, p)
  BY <1>1, <1>2, <1>7 DEF BeginStop, Advanced, Toward
<1>8. CASE /\ Done(p) /\ j.want # "stopped"
           /\ j.want = "playing" => p.state = "PLAYING"
           /\ j.want = "paused" => p.state # "PLAYING"
  <2>1. job' = NoJob /\ player' = p
    BY <1>8 DEF Done
  <2>2. Reached(p, a)
    BY <1>2, <1>8 DEF Reached
  <2>3. QED
    BY <2>1, <2>2 DEF Advanced
<1>9. QED
  BY <1>3, <1>4, <1>5, <1>6, <1>7, <1>8 DEF BeginFinish, Finish, Live

\* What the command knows of the sound when it is under way.
Knows(p, a) ==
  /\ Told /\ p.state = "PLAYING" /\ p.track # NoTrack => a = "playing"
  /\ ~given.race /\ a = "playing" => p.state = "PLAYING"

LEMMA RunsKnowing ==
  ASSUME HeardInv, AudibleInv, AllBehind, job.pc # "unloading"
  PROVE  Knows(player, audio)
<1>1. \A m \in DOMAIN waiting : ~Follows(waiting[m], player)
  BY DEF AllBehind, Behind, Follows
<1>2. QED
  BY <1>1 DEF HeardInv, AudibleInv, Sounds, Knows

LEMMA PermittedAdvances ==
  ASSUME Types, LockInv, AudibleInv, HeardInv, GoalRuns, Permitted, goal' # NoGoal
  PROVE  Advanced(audio')
<1>1. /\ job \in Job /\ player \in Player /\ audio \in Audios /\ cmdGen \in Nat
      /\ job.pc = "permission" /\ audio' = audio
  BY TypesParts DEF Lock, Rest, Holder, Permitted, Audios
<1>2. /\ Mine(job) /\ NotEcho(player) /\ Knows(player, audio)
      /\ job.want = goal.want /\ job.track = goal.track
  BY <1>1, RunsKnowing DEF GoalRuns, Toward, Mine
<1>3. BeginApply(FALSE)
  BY <1>2 DEF Permitted, Superseded, Mine
<1>4. \A q, pc : Go(job, q, pc) => Mine(job') /\ job'.pc = pc /\ player' = q
  BY <1>1, <1>2, GoMine
<1>5. player.skip # NoTrack => /\ player.track \in {NoTrack, player.skip}
                               /\ ~given.race => player.track # NoTrack
  BY DEF LockInv, Waits, AudibleInv, Sounds
<1> DEFINE q == [player EXCEPT !.skip = NoTrack, !.skips = 0]
<1>6. q.track = player.track
  BY <1>1 DEF Player
<1>7. CASE /\ player.skip # NoTrack /\ job.want \in {"paused", "stopped"}
           /\ job.want = "stopped" \/ job.track \in {NoTrack, player.skip}
           /\ Go(job, q, "halting")
  <2>1. job.want = "paused" => OnPausedItem(q)
    BY <1>2, <1>5, <1>6, <1>7 DEF OnPausedItem, OnItem
  <2> HIDE DEF q
  <2>2. QED
    BY <1>2, <1>4, <1>7, <2>1 DEF Advanced, Toward
<1>8. CASE job.track # NoTrack /\ BeginLoad(job, player)
  <2>1. CASE player.state \in Live
    BY <1>4, <1>8, <2>1 DEF BeginLoad, Advanced, Toward
  <2>2. CASE player.state \notin Live
    <3>1. Go(job, Replaced(job, NoSkip(player)), "loading")
      BY <1>8, <2>2 DEF BeginLoad
    <3>2. Replaced(job, NoSkip(player)).track = job.track
      BY <1>1 DEF Replaced, NoSkip, Player
    <3>3. QED
      BY <1>2, <1>4, <3>1, <3>2 DEF Advanced, Toward
  <2>3. QED
    BY <2>1, <2>2
<1>9. CASE OnItem(player) /\ BeginFinish(job, player)
  BY <1>1, <1>2, <1>9, FinishAdvances DEF Knows
<1>10. \/ /\ player.skip # NoTrack /\ job.want \in {"paused", "stopped"}
          /\ job.want = "stopped" \/ job.track \in {NoTrack, player.skip}
          /\ Go(job, q, "halting")
       \/ job.track # NoTrack /\ BeginLoad(job, player)
       \/ OnItem(player) /\ BeginFinish(job, player)
  BY <1>2, <1>3 DEF BeginApply, NotEcho, OnItem
<1>11. QED
  BY <1>7, <1>8, <1>9, <1>10

LEMMA LoadedAdvances ==
  ASSUME Types, LockInv, AudibleInv, HeardInv, GoalRuns, Loaded \/ Sought
  PROVE  Advanced(audio')
<1> DEFINE p == [player EXCEPT !.loaded = TRUE]
<1>1. /\ job \in Job /\ player \in Player /\ audio \in Audios /\ audio' = audio
      /\ job.pc \in {"loading", "seeking"}
  BY TypesParts DEF Lock, Rest, Holder, Loaded, Sought, Audios
<1>2. /\ Mine(job) /\ OnItem(player) /\ Knows(player, audio) /\ job.kind = "apply" /\ ~Superseded
  BY <1>1, RunsKnowing DEF GoalRuns, Toward, Mine, OnItem, Superseded
<1>3. p \in Player /\ p.state = player.state /\ p.track = player.track
  BY <1>1 DEF Player
<1>4. BeginFinish(job, p) \/ Finish(job, player)
  BY <1>2 DEF Loaded, Sought
<1>5. OnItem(p) /\ Knows(p, audio)
  BY <1>2, <1>3 DEF OnItem, Knows
<1> HIDE DEF p
<1>6. QED
  BY <1>1, <1>2, <1>3, <1>4, <1>5, FinishAdvances DEF Knows

LEMMA OtherAdvances ==
  ASSUME Types, GoalRuns, Unloaded \/ Announced \/ Played \/ Resumed \/ Paused \/ Stopped \/ Halted,
         goal' # NoGoal
  PROVE  Advanced(audio')
<1>1. job \in Job /\ player \in Player /\ audio \in Audios
  BY TypesParts DEF Lock, Rest, Holder, Audios
<1>2. Mine(job) /\ job.want = goal.want /\ job.track = goal.track /\ Toward(job.pc, player, audio)
  BY DEF GoalRuns, Mine
<1>3. \A q, pc : Go(job, q, pc) => Mine(job') /\ job'.pc = pc /\ player' = q
  BY <1>1, <1>2, GoMine
<1>4. CASE Unloaded
  <2>1. Replaced(job, player).track = job.track
    BY <1>1 DEF Replaced, Player
  <2>2. QED
    BY <1>2, <1>3, <1>4, <2>1 DEF Unloaded, Advanced, Toward
<1>5. CASE Announced
  <2> DEFINE p == [player EXCEPT !.loaded = TRUE]
  <2>1. Go(job, p, "starting") /\ goal.want = "playing" /\ OnItem(player)
    BY <1>2, <1>5 DEF Announced, Trouble, Toward
  <2>2. OnItem(p)
    BY <1>1, <2>1 DEF Player, OnItem
  <2> HIDE DEF p
  <2>3. QED
    BY <1>3, <2>1, <2>2 DEF Advanced, Toward
<1>6. CASE Played \/ Resumed
  <2>1. goal.want = "playing" /\ OnItem(player) /\ audio' = "playing"
    BY <1>2, <1>6 DEF Played, Resumed, Trouble, Toward
  <2>2. PICK p \in {[player EXCEPT !.state = "PLAYING", !.skips = 0],
                    [player EXCEPT !.state = "PLAYING"]} : Go(job, p, "reporting")
    BY <1>6 DEF Played, Resumed, Trouble
  <2>3. p.track = player.track
    BY <1>1 DEF Player
  <2>4. Reached(p, "playing")
    BY <2>1, <2>3 DEF Reached, OnItem, OnPausedItem
  <2>5. QED
    BY <1>3, <2>1, <2>2, <2>4 DEF Advanced, Toward
<1>7. CASE Paused
  <2> DEFINE p == [player EXCEPT !.state = "PAUSED"]
  <2>1. Go(job, p, "reporting") /\ goal.want = "paused" /\ OnPausedItem(player)
        /\ audio' # "playing"
    BY <1>1, <1>2, <1>7 DEF Paused, Toward
  <2>2. p.track = player.track
    BY <1>1 DEF Player
  <2> HIDE DEF p
  <2>3. Reached(p, audio')
    BY <2>1, <2>2 DEF Reached, OnPausedItem, OnItem
  <2>4. QED
    BY <1>3, <2>1, <2>3 DEF Advanced, Toward
<1>8. CASE Stopped \/ Halted
  <2>1. /\ audio' = "silent"
        /\ goal.want = "stopped" \/ (goal.want = "paused" /\ OnPausedItem(player))
    BY <1>2, <1>8 DEF Stopped, Halted, Toward
  <2>2. PICK s \in {"STOPPED", "PAUSED"} : /\ Go(job, [player EXCEPT !.state = s], "reporting")
                                           /\ goal.want = "stopped" => s = "STOPPED"
    BY <1>2, <1>8, <2>1 DEF Stopped, Halted
  <2> DEFINE p == [player EXCEPT !.state = s]
  <2>3. p.track = player.track /\ p.state = s
    BY <1>1 DEF Player
  <2>4. Go(job, p, "reporting")
    BY <2>2
  <2> HIDE DEF p
  <2>5. Reached(p, "silent")
    BY <2>1, <2>2, <2>3 DEF Reached, OnPausedItem, OnItem
  <2>6. QED
    BY <1>3, <2>1, <2>4, <2>5 DEF Advanced, Toward
<1>9. QED
  BY <1>4, <1>5, <1>6, <1>7, <1>8

\* The command's own steps.
LEMMA JobStepRuns ==
  ASSUME Types, LockInv, AudibleInv, HeardInv, GoalRuns, JobStep, goal' # NoGoal
  PROVE  Advanced(audio') /\ waiting' = waiting
<1>1. Mine(job) /\ job.kind = "apply" /\ Toward(job.pc, player, audio)
  BY DEF GoalRuns, Mine
<1>2. waiting' = waiting
  BY <1>1, JobStepKeeps
<1>3. CASE Reported
  <2>1. job' = NoJob /\ player' = player /\ audio' = audio /\ Reached(player, audio)
    BY <1>1, <1>3 DEF Reported, Done, Toward
  <2>2. QED
    BY <1>2, <2>1 DEF Advanced
<1>4. ~LoadFails /\ ~Reloading
  BY <1>1 DEF LoadFails, Trouble, Reloading, Toward
<1>5. QED
  BY <1>2, <1>3, <1>4, PermittedAdvances, LoadedAdvances, OtherAdvances DEF JobStep

-----------------------------------------------------------------------------
(***************************************************************************)
(* While the command waits, an older one is under way.                     *)
(***************************************************************************)
\* No pending skip comes about.
NoNewSkip(p) == player'.skip \in {NoTrack, p.skip}

LEMMA FinishSkipsNothing ==
  ASSUME NEW j \in Job, NEW p \in Player,
         BeginFinish(j, p) \/ Finish(j, p) \/ BeginLoad(j, p) \/ BeginStart(j, p) \/ BeginStop(j, p)
  PROVE  NoNewSkip(p)
<1>1. BeginStop(j, p) \/ BeginStart(j, p) => NoNewSkip(p)
  BY DEF BeginStop, BeginStart, Go, Done, Player, NoNewSkip
<1>2. BeginLoad(j, p) => NoNewSkip(p)
  BY DEF BeginLoad, Go, Replaced, NoSkip, Player, NoNewSkip
<1>3. \A pc : Go(j, p, pc) \/ Done(p) => NoNewSkip(p)
  BY DEF Go, Done, NoNewSkip
<1>4. QED
  BY <1>1, <1>2, <1>3 DEF BeginFinish, Finish

LEMMA BeginSkipsNothing ==
  ASSUME NEW j, Waiter(j), NEW p \in Player, Begin(j, p), j.kind = "skip" => j.gen # cmdGen
  PROVE  NoNewSkip(p)
<1>1. j \in Job
  BY DEF Waiter
<1> DEFINE q == NoSkip(p)
           r == [p EXCEPT !.loaded = FALSE]
<1>2. q \in Player /\ q.skip = NoTrack /\ r \in Player /\ r.skip = p.skip
  BY DEF NoSkip, Player, Item
<1>3. \A pc : Go(j, p, pc) \/ Done(p) \/ Done(r) => NoNewSkip(p)
  BY <1>2 DEF Go, Done, NoNewSkip
<1>4. \/ BeginStop(j, p) \/ BeginLoad(j, q) \/ BeginStart(j, r)
      \/ player' = p \/ player' = r
  BY DEF Begin, Go, Done, Waiter, Commands
<1> HIDE DEF q, r
<1>5. QED
  BY <1>1, <1>2, <1>4, FinishSkipsNothing DEF NoNewSkip

LEMMA JobStepSkipsNothing ==
  ASSUME Types, JobStep, ~LoadFails
  PROVE  NoNewSkip(player)
<1>1. job \in Job /\ player \in Player
  BY TypesParts DEF Lock, Holder
<1>2. \A q : (\E pc : Go(job, q, pc)) \/ Done(q) => player' = q
  BY DEF Go, Done
<1> DEFINE p == [player EXCEPT !.loaded = TRUE]
           q == [p EXCEPT !.state = "STOPPED"]
           r == [player EXCEPT !.loaded = FALSE]
<1>3. /\ p \in Player /\ p.skip = player.skip /\ q.skip = player.skip
      /\ r \in Player /\ r.skip = player.skip
  BY <1>1 DEF Player
<1>4. CASE Permitted
  <2>1. ASSUME NEW stale \in BOOLEAN, BeginApply(stale) PROVE NoNewSkip(player)
    <3>1. CASE Go(job, [player EXCEPT !.skip = NoTrack, !.skips = 0], "halting")
      BY <1>1, <3>1 DEF Go, Player, NoNewSkip
    <3>2. CASE Done(player)
      BY <3>2 DEF Done, NoNewSkip
    <3>3. QED
      BY <1>1, <2>1, <3>1, <3>2, FinishSkipsNothing DEF BeginApply
  <2>2. QED
    BY <1>4, <2>1 DEF Permitted, Done, NoNewSkip
<1>5. CASE Loaded
  <2>1. BeginStart(job, p) \/ BeginFinish(job, p) \/ player' = p \/ player' = q
    BY <1>5 DEF Loaded, Done
  <2> HIDE DEF p, q, r
  <2>2. QED
    BY <1>1, <1>3, <2>1, FinishSkipsNothing DEF NoNewSkip
<1>6. CASE Sought
  BY <1>1, <1>6, FinishSkipsNothing DEF Sought, Done, NoNewSkip
<1>7. CASE Reloading
  <2>1. BeginStart(job, r) \/ player' = [r EXCEPT !.state = "STOPPED"]
    BY <1>7 DEF Reloading, Go
  <2>2. [r EXCEPT !.state = "STOPPED"].skip = r.skip
    BY <1>3 DEF Player
  <2> HIDE DEF p, q, r
  <2>3. QED
    BY <1>1, <1>3, <2>1, <2>2, FinishSkipsNothing DEF NoNewSkip
<1>8. CASE Reported \/ Unloaded \/ Announced \/ Played \/ Resumed \/ Paused \/ Stopped \/ Halted
  BY <1>1, <1>8 DEF Reported, Unloaded, Announced, Played, Resumed, Paused, Stopped, Halted,
                    Go, Done, Replaced, Player, NoNewSkip
<1>9. QED
  BY <1>4, <1>5, <1>6, <1>7, <1>8 DEF JobStep

\* The end's task comes no nearer to being done by what runs before it.
LEMMA AheadTold ==
  ASSUME Ending, NEW what \in {"task", "job"}, AheadOfEnd(what),
         given.end => given'.end, given.failed => given'.failed
  PROVE  Told' => Told
<1>1. ended' = NoEnd => ended = NoEnd
  BY DEF AheadOfEnd, Ending, End, NoEnd
<1>2. QED
  BY <1>1 DEF Told

LEMMA JobStepSteady ==
  ASSUME Types, JobStep, goal' # NoGoal
  PROVE  Steady
<1>1. given \in Given /\ Ending
  BY TypesParts DEF Rest
<1>2. given'.end = given.end /\ given'.race = given.race /\ AheadOfEnd("job")
  BY <1>1 DEF JobStep, Loaded, Played, Resumed, Sound, Given
<1>3. cmdGen' = cmdGen /\ goal' = goal
  BY DEF JobStep, Permitted, Loaded, Unloaded, LoadFails, Sought, Announced, Played, Resumed, Paused,
         Stopped, Halted, Reloading, Reported, Within, Smooth, Trouble
<1>4. given'.failed = given.failed \/ audio' = "playing"
  BY <1>1 DEF JobStep, Loaded, Played, Resumed, Trouble, Given
<1>5. given'.failed = given.failed => (Told' => Told)
  BY <1>1, <1>2, AheadTold
<1>6. QED
  BY <1>2, <1>3, <1>4, <1>5 DEF Steady

LEMMA JobStepGoal ==
  ASSUME Types, Numbers, LockInv, QueueInv, AudibleInv, HeardInv, GoalInv, JobStep
  PROVE  GoalInv'
<1> SUFFICES ASSUME goal' # NoGoal
             PROVE  GoalWaits' \/ GoalRuns' \/ GoalReached'
  BY DEF GoalInv
<1>1. Steady /\ goal # NoGoal
  BY JobStepSteady DEF Steady
<1>2. job # NoJob /\ job \in Job /\ waiting \in Seq(Job) /\ cmdGen \in Nat
  BY TypesParts, JobStepWorks DEF Lock, Holder, Rest
<1>3. CASE GoalRuns
  <2>1. Advanced(audio') /\ waiting' = waiting
    BY <1>3, JobStepRuns
  <2>2. AllBehind'
    BY <1>1, <1>3, <2>1, SteadyBehind DEF GoalRuns
  <2>3. QED
    BY <1>1, <2>1, <2>2, SteadyToward DEF Advanced, GoalRuns, GoalReached
<1>4. CASE GoalWaits
  <2>1. PICK k \in DOMAIN waiting :
          Mine(waiting[k]) /\ \A m \in DOMAIN waiting : m > k => Behind(waiting[m])
    BY <1>4 DEF GoalWaits
  <2>2. Current(waiting[k]) /\ ~Current(job)
    BY <2>1 DEF Current, Mine, QueueInv, OneCurrent
  <2> DEFINE skip == [job EXCEPT !.kind = "skip", !.pc = "waiting"]
  <2>3. CASE waiting' = waiting
    <3>1. ~LoadFails \/ Done([player EXCEPT !.state = "STOPPED"])
      <4>1. waiting # <<>>
        BY <1>2
      <4>2. job.kind = "apply" => Superseded
        BY <2>2 DEF Current, Superseded
      <4>3. QED
        BY <4>1, <4>2 DEF LoadFails
    <3>2. NoNewSkip(player)
      <4>1. player \in Player
        BY TypesParts DEF Lock
      <4>2. QED
        BY <3>1, <4>1, JobStepSkipsNothing DEF Done, Player, NoNewSkip
    <3>3. NotEcho(player')
      BY <1>4, <3>2 DEF GoalWaits, NotEcho, NoNewSkip
    <3>4. GoalWaits'
      BY <1>1, <2>1, <2>3, <3>3 DEF GoalWaits, NotEcho, Mine, Behind, Steady
    <3>5. QED
      BY <3>4
  <2>4. CASE job.kind = "advance" /\ waiting' = Append(waiting, skip)
    <3>1. skip \in Job /\ skip.kind = "skip" /\ skip.gen = job.gen
      BY <1>2 DEF Job, Commands, Pcs
    <3>2. job.gen < cmdGen
      <4>1. job.gen # cmdGen /\ job.gen <= cmdGen /\ job.gen \in Nat
        BY <1>2, <2>2, <2>4 DEF Current, Numbers, Job
      <4>2. QED
        BY <1>2, <4>1
    <3>3. Behind(skip)
      BY <3>1, <3>2 DEF Behind
    <3> HIDE DEF skip
    <3>4. /\ k \in DOMAIN waiting' /\ waiting'[k] = waiting[k]
          /\ \A m \in DOMAIN waiting' : \/ waiting'[m] = skip
                                        \/ m \in DOMAIN waiting /\ waiting'[m] = waiting[m]
      BY <1>2, <2>4, <3>1
    <3>5. NotEcho(player')
      <4>1. waiting' # waiting
        BY <1>2, <2>4, <3>1
      <4>2. LoadFails /\ Done([player EXCEPT !.state = "STOPPED"])
        BY <4>1 DEF JobStep, Loaded, Permitted, Unloaded, Sought, Announced, Played, Resumed, Paused,
                    Stopped, Halted, Reloading, Reported, Within, LoadFails
      <4>3. player'.skip = player.skip
        BY <4>2, TypesParts DEF Lock, Done, Player
      <4>4. QED
        BY <1>4, <4>3 DEF GoalWaits, NotEcho
    <3>6. \A m \in DOMAIN waiting' : m > k => Behind(waiting'[m])
      BY <2>1, <3>3, <3>4
    <3>7. GoalWaits'
      BY <1>1, <2>1, <3>4, <3>5, <3>6 DEF GoalWaits, NotEcho, Mine, Behind, Steady
    <3>8. QED
      BY <3>7
  <2>5. QED
    BY <2>3, <2>4, JobStepKeeps
<1>5. QED
  BY <1>1, <1>2, <1>3, <1>4 DEF GoalInv, GoalReached

-----------------------------------------------------------------------------
(***************************************************************************)
(* The lock passes on, and what the other actors do.                       *)
(***************************************************************************)
LEMMA TakeLockGoal ==
  ASSUME Types, QueueInv, GoalInv, TakeLock
  PROVE  GoalInv'
<1> DEFINE j == Head(waiting)
<1> SUFFICES ASSUME goal' # NoGoal
             PROVE  GoalWaits' \/ GoalRuns' \/ GoalReached'
  BY DEF GoalInv
<1>1. given \in Given /\ player \in Player /\ waiting \in Seq(Job) /\ Ending /\ cmdGen \in Nat
  BY TypesParts DEF Lock, Rest
<1>2. /\ audio' = audio /\ job = NoJob /\ waiting # <<>> /\ waiting' = Tail(waiting)
      /\ goal' = goal /\ cmdGen' = cmdGen /\ AheadOfEnd("job")
  BY DEF TakeLock
<1>3. /\ given'.race = given.race /\ (given.end => given'.end)
      /\ given'.failed = given.failed
  BY <1>1 DEF TakeLock, Given
<1>4. Steady
  BY <1>1, <1>2, <1>3, AheadTold DEF Steady
<1>5. j = waiting[1] /\ 1 \in DOMAIN waiting
  BY <1>1, <1>2
<1>6. Waiter(j) /\ j \in Job
  BY <1>5, TypesParts DEF Lock, Waiter
<1>7. /\ \A m \in DOMAIN waiting' :
              m + 1 > 1 /\ m + 1 \in DOMAIN waiting /\ waiting'[m] = waiting[m + 1]
      /\ \A m \in DOMAIN waiting :
              m = 1 \/ (m - 1 \in DOMAIN waiting' /\ waiting'[m - 1] = waiting[m])
      /\ DOMAIN waiting \subseteq Nat /\ DOMAIN waiting' \subseteq Nat
  BY <1>1, <1>2
<1>8. IF j.kind \in {"apply", "stop", "reload", "advance"} /\ j.gen # cmdGen
      THEN Done(player) ELSE Begin(j, player)
  BY DEF TakeLock
<1> HIDE DEF j
<1>9. CASE GoalReached
  <2>1. Behind(j)
    BY <1>5, <1>9 DEF GoalReached, AllBehind
  <2>2. j.gen # cmdGen
    BY <1>1, <1>6, <2>1 DEF Behind, Job
  <2>3. Done(player)
    BY <1>6, <1>8, <2>1, <2>2 DEF Behind, Begin, Waiter, Commands
  <2>4. AllBehind'
    BY <1>2, <1>7, <1>9 DEF GoalReached, AllBehind, Behind
  <2>5. QED
    BY <1>2, <1>4, <1>9, <2>3, <2>4, SteadyToward DEF Done, GoalReached
<1>10. CASE GoalWaits
  <2>1. PICK k \in DOMAIN waiting :
          Mine(waiting[k]) /\ \A m \in DOMAIN waiting : m > k => Behind(waiting[m])
    BY <1>10 DEF GoalWaits
  <2>2. CASE k = 1
    <3>1. Mine(j)
      BY <1>5, <2>1, <2>2
    <3>2. Go(j, player, "permission")
      BY <1>8, <3>1 DEF Mine, Begin
    <3>3. Mine(job') /\ job'.pc = "permission" /\ player' = player
      BY <1>6, <3>1, <3>2, GoMine
    <3>4. \A m \in DOMAIN waiting' : Behind(waiting'[m])
      BY <1>7, <2>1, <2>2
    <3>5. AllBehind'
      BY <1>2, <3>4 DEF AllBehind, Behind
    <3>6. Toward(job'.pc, player', audio')
      BY <1>10, <3>3 DEF GoalWaits, Toward
    <3>7. QED
      BY <1>4, <3>3, <3>5, <3>6, SteadyToward DEF GoalRuns
  <2>3. CASE k # 1
    <3>1. k - 1 \in DOMAIN waiting' /\ waiting'[k - 1] = waiting[k]
      BY <1>7, <2>3
    <3>2. \A m \in DOMAIN waiting' : m > k - 1 => Behind(waiting'[m])
      <4>1. SUFFICES ASSUME NEW m \in DOMAIN waiting', m > k - 1 PROVE Behind(waiting'[m])
        OBVIOUS
      <4>2. m + 1 \in DOMAIN waiting /\ waiting'[m] = waiting[m + 1] /\ m \in Nat /\ k \in Nat
        BY <1>7
      <4>3. m + 1 > k
        BY <4>1, <4>2
      <4>4. QED
        BY <2>1, <4>2, <4>3
    <3>3. ~Current(j)
      BY <1>5, <2>1, <2>3 DEF QueueInv, OneCurrent, Current, Mine
    <3>4. NoNewSkip(player)
      <4>1. CASE Done(player)
        BY <4>1 DEF Done, NoNewSkip
      <4>2. CASE Begin(j, player)
        <5>1. j.kind = "skip" => j.gen # cmdGen
          BY <3>3 DEF Current
        <5>2. QED
          BY <1>1, <1>6, <4>2, <5>1, BeginSkipsNothing
      <4>3. QED
        BY <1>8, <4>1, <4>2
    <3>5. NotEcho(player')
      BY <1>10, <3>4 DEF GoalWaits, NotEcho, NoNewSkip
    <3>6. GoalWaits'
      <4>1. Mine(waiting'[k - 1])
        BY <2>1, <3>1
      <4>2. QED
        BY <1>2, <3>1, <3>2, <3>5, <4>1 DEF GoalWaits, NotEcho, Mine, Behind
    <3>7. QED
      BY <3>6
  <2>4. QED
    BY <2>2, <2>3
<1>11. ~GoalRuns
  BY <1>2 DEF GoalRuns, Mine, NoJob
<1>12. QED
  BY <1>2, <1>9, <1>10, <1>11 DEF GoalInv

LEMMA RunCommandGoal ==
  ASSUME Types, GoalInv, RunCommand
  PROVE  GoalInv'
<1> DEFINE msg == Head(inbox).msg
           j == Command("apply", msg.track, msg.want)
<1>1. /\ given \in Given /\ player \in Player /\ waiting \in Seq(Job) /\ Ending /\ cmdGen \in Nat
  BY TypesParts DEF Lock, Rest
<1>2. audio' = audio /\ given' = given /\ AheadOfEnd("task")
  BY DEF RunCommand
<1>3. Told' => Told
  BY <1>1, <1>2, AheadTold
<1>4. CASE goal' = NoGoal
  BY <1>4 DEF GoalInv
<1>5. CASE UNCHANGED <<player, cmdGen, job, waiting, goal>>
  BY <1>2, <1>3, <1>5, GoalUntouched DEF Steady
<1>6. CASE /\ PlayerCall(Head(inbox)) = "apply" /\ ~Echoes(msg)
           /\ Register("apply", msg.track, msg.want)
           /\ goal' = [want |-> msg.want, track |-> msg.track]
  <2>1. msg \in Messages
    BY RunTaskTypes, TypesParts DEF RunCommand
  <2>2. msg.track \in Item /\ msg.want \in WantOrNone
    BY <1>6, <2>1, MessageTypes DEF PlayerCall
  <2>3. j \in Job /\ j.kind = "apply" /\ j.gen = cmdGen + 1 /\ j.want = msg.want
        /\ j.track = msg.track
    BY <1>1, <2>2 DEF Command, Job, Commands, Pcs
  <2>4. cmdGen' = cmdGen + 1 /\ Enter(j, player) /\ goal'.want = msg.want /\ goal'.track = msg.track
    BY <1>6 DEF Register
  <2>5. player.skip = NoTrack \/ msg.want \in {"paused", "stopped"}
        \/ msg.track \notin {NoTrack, player.skip}
    BY <1>6 DEF Echoes
  <2> HIDE DEF j, msg
  <2>6. CASE Free
    <3>1. Go(j, player, "permission") /\ waiting' = waiting /\ waiting = <<>>
      BY <2>3, <2>4, <2>6 DEF Enter, Begin, Free
    <3>2. /\ job'.kind = "apply" /\ job'.gen = cmdGen' /\ job'.want = goal'.want
          /\ job'.track = goal'.track /\ job'.pc = "permission" /\ player' = player
      BY <2>3, <2>4, <3>1 DEF Go, Job
    <3>3. GoalRuns'
      BY <2>4, <2>5, <3>1, <3>2 DEF GoalRuns, Mine, AllBehind, Toward, NotEcho
    <3>4. QED
      BY <3>3 DEF GoalInv
  <2>7. CASE ~Free
    <3>1. waiting' = Append(waiting, j) /\ player' = player
      BY <2>4, <2>7 DEF Enter
    <3> DEFINE k == Len(waiting) + 1
    <3>2. k \in DOMAIN waiting' /\ waiting'[k] = j /\ \A m \in DOMAIN waiting' : ~(m > k)
      BY <1>1, <2>3, <3>1
    <3> HIDE DEF k
    <3>3. GoalWaits'
      BY <2>3, <2>4, <2>5, <3>1, <3>2 DEF GoalWaits, Mine, NotEcho
    <3>4. QED
      BY <3>3 DEF GoalInv
  <2>8. QED
    BY <2>6, <2>7
<1>7. QED
  BY <1>4, <1>5, <1>6 DEF RunCommand

LEMMA EndedContinuesGoal ==
  ASSUME Types, AudibleInv, GoalInv, EndedContinues
  PROVE  GoalInv'
<1>1. given \in Given
  BY TypesParts DEF Rest
<1> SUFFICES ASSUME goal' # NoGoal PROVE GoalInv'
  BY DEF GoalInv
<1>2. goal' = goal /\ ~given.race /\ ended.pc = "reporting"
  BY DEF EndedContinues
<1>3. ended.gen # cmdGen
  BY <1>2 DEF AudibleInv, EndFound
<1>4. /\ UNCHANGED <<player, cmdGen, job, waiting, audio>>
      /\ given'.end /\ given'.race = given.race
  BY <1>1, <1>3 DEF EndedContinues, EndedIsStale, Given
<1>5. QED
  BY <1>2, <1>4, GoalUntouched DEF Steady, Told

LEMMA GoalStep ==
  ASSUME Types, Numbers, LockInv, QueueInv, AudibleInv, HeardInv, GoalInv, [Next]_vars
  PROVE  GoalInv'
<1>1. given \in Given
  BY TypesParts DEF Rest
<1>2. CASE \E msg \in Messages : Receive(msg)
  <2>1. /\ UNCHANGED <<job, waiting, ended, audio>>
        /\ given'.end = given.end /\ given'.race = given.race
        /\ given'.failed = given.failed
        /\ goal' # NoGoal => UNCHANGED <<goal, cmdGen, player>>
    BY <1>1, <1>2 DEF Receive, SkipForgotten, Invalidation, Given
  <2>2. CASE goal' = NoGoal
    BY <2>2 DEF GoalInv
  <2>3. CASE goal' # NoGoal
    BY <2>1, <2>3, GoalUntouched DEF Steady, Told
  <2>4. QED
    BY <2>2, <2>3
<1>3. CASE Drop \/ ReleaseExternalPlayback \/ TrackEnds \/ SkipTimeout \/ PlaybackError
  BY <1>3 DEF Drop, ReleaseExternalPlayback, TrackEnds, SkipTimeout, PlaybackError, GoalInv
<1>4. CASE EndedStarts
  <2>1. ended'.pc = "reporting" /\ UNCHANGED <<player, cmdGen, job, waiting, audio, goal, given>>
    BY <1>4 DEF EndedStarts, history, NoEnd
  <2>2. ~Told'
    BY <2>1 DEF Told, NoEnd
  <2>3. QED
    BY <2>1, <2>2, GoalUntouched DEF Steady
<1>5. CASE UNCHANGED vars
  BY <1>5, GoalUntouched DEF vars, playerVars, history, Steady, Told
<1>6. QED
  BY <1>2, <1>3, <1>4, <1>5, RunCommandGoal, TakeLockGoal, JobStepGoal, EndedContinuesGoal DEF Next

\* The newest SET_STATE wins as a unit (apply_remote_state, player.py:466-607): whatever
\* command or end of a track it found half done, once everything has run the speaker does
\* what it asked for.
THEOREM NewestWins == Spec => []NewestCommandWins
<1> DEFINE I == /\ Types /\ Numbers /\ LockInv /\ QueueInv /\ AudibleInv
                /\ HeardInv /\ GoalInv
<1>1. Init => I
  <2>1. Init => HeardInv /\ GoalInv
    BY DEF Init, HeardInv, GoalInv
  <2>2. QED
    BY <2>1, InitTypes, NumbersInit, LockInit, QueueInit, AudibleInit
<1>2. I /\ [Next]_vars => I'
  BY StepTypes, NumbersStep, LockStep, QueueStep, AudibleStep, HeardStep, GoalStep
<1>3. I => NewestCommandWins
  <2> SUFFICES ASSUME GoalInv, Quiet, goal # NoGoal
               PROVE  NewestCommandWins
    BY DEF NewestCommandWins
  <2>1. job = NoJob /\ waiting = <<>> /\ ended = NoEnd
    BY DEF Quiet, Free
  <2>2. Reached(player, audio)
    BY <2>1 DEF GoalInv, GoalWaits, GoalRuns, GoalReached, Mine, NoJob
  <2>3. QED
    BY <2>1, <2>2 DEF NewestCommandWins, Reached, OnPausedItem, OnItem, Told
<1> HIDE DEF I
<1>4. QED
  BY <1>1, <1>2, <1>3, PTL DEF Spec
=============================================================================
