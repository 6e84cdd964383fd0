------------------------------ MODULE Lifecycle ------------------------------
(***************************************************************************)
(* app.py with the start, set-up and stop of speaker.py: which speakers    *)
(* run, for which login and from which configuration.                      *)
(*                                                                         *)
(* Everything between two awaits is one step.  What awaits is a coroutine  *)
(* of its own: the validation of the saved token, the requests of the web  *)
(* UI (several may be under way) and the retries of speakers that did not  *)
(* start.  Each holds the Speaker objects it starts or stops until these   *)
(* are done.  A speaker's start takes hold of its ports only when it       *)
(* succeeds, so two speakers of one name never run together; why a start   *)
(* fails otherwise (a renderer that is off) is left open.  Names stand for *)
(* their slugs, and an edit keeps the name.                                *)
(*                                                                         *)
(* given records what the code does not defend against, so that the        *)
(* properties can say what holds otherwise.                                *)
(***************************************************************************)
EXTENDS Naturals, Sequences, FiniteSets, SequencesExt

CONSTANTS
  Names,          \* the names of speakers
  Saved,          \* the names in the configuration at the start
  Speakers,       \* Speaker objects, reused when the program drops them
  Requests,       \* requests of the web UI under way at once
  Retries,        \* retry tasks at once
  None,
  MaxRequests,    \* bound: requests
  MaxFailures,    \* bound: starts, validations and set-ups that fail
  MaxSelections   \* bound: connects by the app

ASSUME LifecycleAssumption ==
  /\ Saved \subseteq Names /\ None \notin Speakers \cup Retries
  /\ IsFiniteSet(Names) /\ IsFiniteSet(Speakers) /\ IsFiniteSet(Retries)
  /\ MaxRequests \in Nat /\ MaxFailures \in Nat /\ MaxSelections \in Nat

VARIABLES
  app,        \* new, then up (the web server runs), then stopping and stopped
  config,     \* _config.speakers: the version configured for a name, or 0
  api,        \* _api_client and auth_state: none, or the login it is for
  speaker,    \* the Speaker objects
  listed,     \* _speakers
  validator,  \* _validate_saved_token: what it starts, whether it is _auth_retry_task, and
              \* first_attempt_done
  request,    \* the handlers of the web UI
  retrier,    \* the tasks of _retry_speaker
  retries,    \* _speaker_retry_tasks
  used,       \* how much of each bound has been used
  given       \* history: what happened that the code does not defend against

authVars == <<app, api, validator>>
retryVars == <<retrier, retries>>
vars == <<authVars, config, speaker, listed, request, retryVars, used, given>>

Unused == [name |-> None, ver |-> 0, phase |-> "unused", link |-> "none"]
Idle == [kind |-> "none", pc |-> "idle", name |-> None, ver |-> 0, holds |-> {}, at |-> 0,
         waits |-> FALSE]
NoRetry == [name |-> None, ver |-> 0, pc |-> "idle", holds |-> {}]

Init ==
  /\ app = "new" /\ config = [n \in Names |-> IF n \in Saved THEN 1 ELSE 0] /\ api = "none"
  /\ speaker = [s \in Speakers |-> Unused] /\ listed = <<>>
  /\ validator = [pc |-> "none", holds |-> {}, tracked |-> FALSE, first |-> FALSE]
  /\ request = [r \in Requests |-> Idle]
  /\ retrier = [t \in Retries |-> NoRetry] /\ retries = [n \in Names |-> None]
  /\ used = [request |-> 0, failure |-> 0, selection |-> 0] /\ given = {}

Uses(what, max) == used[what] < max /\ used' = [used EXCEPT ![what] = @ + 1]

-----------------------------------------------------------------------------
(* Speaker objects.                                                            *)

Configured == {n \in Names : config[n] # 0}
NamesOf(ls) == {speaker[s].name : s \in ToSet(ls)}
Done(holds) == \A s \in holds : speaker[s].phase \notin {"starting", "stopping"}
Up(holds) == {s \in holds : speaker[s].phase = "up"}
Doubled(ups) == IF \E s \in ups : speaker[s].name \in NamesOf(listed) THEN {"doubled"} ELSE {}

\* Speakers is large enough: new objects for the names, one each.
NewFor(names) ==
  CHOOSE f \in [names -> {s \in Speakers : speaker[s].phase = "unused"}] :
    \A m, n \in names : f[m] = f[n] => m = n
Enough(names) ==
  Cardinality(names) <= Cardinality({s \in Speakers : speaker[s].phase = "unused"})

\* Their starts begin, each with the version its configuration has.
Starting(f, new, version) ==
  [s \in Speakers |->
     IF \E n \in DOMAIN new : new[n] = s
     THEN LET n == CHOOSE n \in DOMAIN new : new[n] = s
          IN  [name |-> n, ver |-> version[n], phase |-> "starting", link |-> "none"]
     ELSE f[s]]

\* Speaker.stop begins: it waits for nothing that a set-up does, and comes late for one under way.
Stopping(holds) ==
  [s \in Speakers |-> IF s \in holds THEN [speaker[s] EXCEPT !.phase = "stopping"]
                                     ELSE speaker[s]]
Late(holds) == IF \E s \in holds : speaker[s].link = "setting" THEN {"late"} ELSE {}

\* What the coroutines hold, and what the program knows of.
Holds == validator.holds \cup (UNION {request[r].holds : r \in Requests})
           \cup (UNION {retrier[t].holds : t \in Retries})
Known == ToSet(listed) \cup Holds

\* A Speaker that is down is gone when nothing refers to it after the step.
Dropped(f) ==
  [s \in Speakers |-> IF f[s].phase = "down" /\ f[s].link = "none" /\ s \notin Known'
                      THEN Unused ELSE f[s]]

\* Another speaker that runs has the ports.
PortsTaken(s) == \E o \in Speakers : speaker[o].name = speaker[s].name /\ speaker[o].phase = "up"

\* What a stop may leave of a link: a manager made after the stop has passed it stays.
Left(s) == IF speaker[s].link = "on" THEN {"none", "on"} ELSE {speaker[s].link}

StartSucceeds(s) ==
  /\ speaker[s].phase = "starting" /\ ~PortsTaken(s)
  /\ speaker' = [speaker EXCEPT ![s].phase = "up"]
  /\ UNCHANGED <<authVars, config, listed, request, retryVars, used, given>>

\* start stops what it had started, and says so.
StartFails(s) ==
  /\ speaker[s].phase = "starting"
  /\ \/ Uses("failure", MaxFailures)
     \/ PortsTaken(s) /\ UNCHANGED used
  /\ \E link \in Left(s) :
       /\ speaker' = [speaker EXCEPT ![s].phase = "down", ![s].link = link]
       /\ given' = given \cup (IF link = "none" THEN {} ELSE {"late"})
  /\ UNCHANGED <<authVars, config, listed, request, retryVars>>

\* mutant: the manager is stopped only when the whole set-up was done before.
StopEndsHalf(s) ==
  /\ speaker[s].phase = "stopping" /\ speaker' = [speaker EXCEPT ![s].phase = "down"]
  /\ UNCHANGED <<authVars, config, listed, request, retryVars, used, given>>

StopEnds(s) ==
  /\ speaker[s].phase = "stopping"
  /\ \E link \in Left(s) :
       /\ link = "on" => "late" \in given
       /\ speaker' = [speaker EXCEPT ![s].phase = "down", ![s].link = link]
  /\ UNCHANGED <<authVars, config, listed, request, retryVars, used, given>>

\* The app selects a speaker: its set-up runs as a task that nothing tracks.  A speaker that has
\* its WebSocket manager only gets the tokens.  Discovery serves while the end of the start is
\* awaited and nearly to the end of a stop, and nobody asks whether the speaker runs.
AppConnects(s) ==
  /\ \/ speaker[s].phase = "starting" /\ ~PortsTaken(s)
     \/ speaker[s].phase \in {"up", "stopping"}
  /\ speaker[s].link = "none" /\ Uses("selection", MaxSelections)
  /\ speaker' = [speaker EXCEPT ![s].link = "setting"]
  /\ given' = given \cup (IF speaker[s].phase = "stopping" THEN {"late"} ELSE {})
  /\ UNCHANGED <<authVars, config, listed, request, retryVars>>

\* The manager is there and runs, also when the reporter or the player does not start.
SetupEnds(s) ==
  /\ speaker[s].link = "setting" /\ speaker' = [speaker EXCEPT ![s].link = "on"]
  /\ UNCHANGED <<authVars, config, listed, request, retryVars, used, given>>

-----------------------------------------------------------------------------
(* Retries.                                                                    *)

\* _schedule_speaker_retry for speakers that did not start, unless a task is at it.
Schedule(failed) ==
  LET news == {s \in failed : retries[speaker[s].name] = None}
      free == {t \in Retries : retrier[t].pc = "idle"}
  IN  /\ Cardinality(news) <= Cardinality(free)
      /\ LET f == CHOOSE f \in [news -> free] : \A x, y \in news : f[x] = f[y] => x = y
         IN  /\ retrier' = [t \in Retries |->
                   IF \E s \in news : f[s] = t
                   THEN LET s == CHOOSE s \in news : f[s] = t
                        IN  [name |-> speaker[s].name, ver |-> speaker[s].ver, pc |-> "sleep",
                             holds |-> {}]
                   ELSE retrier[t]]
             /\ retries' = [n \in Names |->
                   IF \E s \in news : speaker[s].name = n
                   THEN f[CHOOSE s \in news : speaker[s].name = n] ELSE retries[n]]

\* The tasks of these names are cancelled: one that sleeps is gone, one that starts a speaker
\* stops it.
Cancelled(names) == {retries[n] : n \in names} \ {None}
Halted(tasks) == UNION {retrier[t].holds : t \in tasks}
\* mutant: they only leave the table.
CancelRetriesUntracks(names) ==
  retries' = [n \in Names |-> IF n \in names THEN None ELSE retries[n]] /\ UNCHANGED retrier

CancelRetries(names) ==
  /\ retries' = [n \in Names |-> IF n \in names THEN None ELSE retries[n]]
  /\ retrier' = [t \in Retries |->
        IF t \notin Cancelled(names) THEN retrier[t]
        ELSE IF retrier[t].pc = "sleep" THEN NoRetry ELSE [retrier[t] EXCEPT !.pc = "stopping"]]

\* The end of a retry task: it takes its name out of the table, whichever task is there.
Ends(t) ==
  /\ retrier' = [retrier EXCEPT ![t] = NoRetry]
  /\ retries' = [retries EXCEPT ![retrier[t].name] = None]
  /\ given' = given \cup Doubled(IF retrier[t].pc = "starting" THEN retrier[t].holds ELSE {})
              \cup (IF retries[retrier[t].name] \in {t, None} THEN {} ELSE {"untracked"})

RetryWakes(t) ==
  /\ retrier[t].pc = "sleep"
  /\ IF api = "none" THEN Ends(t) /\ UNCHANGED speaker
     ELSE LET n == retrier[t].name
          IN  /\ Enough({n})
              /\ LET new == NewFor({n})
                 IN  /\ speaker' = Starting(speaker, new, [m \in {n} |-> retrier[t].ver])
                     /\ retrier' = [retrier EXCEPT ![t].pc = "starting", ![t].holds = {new[n]}]
              /\ UNCHANGED <<retries, given>>
  /\ UNCHANGED <<authVars, config, listed, request, used>>

\* mutant: it tries once.
RetryStartedOnce(t) ==
  /\ retrier[t].pc = "starting" /\ Done(retrier[t].holds)
  /\ UNCHANGED <<authVars, config, request, used>>
  /\ listed' = listed \o SetToSeq(Up(retrier[t].holds)) /\ Ends(t)
  /\ speaker' = Dropped(speaker)

RetryStarted(t) ==
  /\ retrier[t].pc = "starting" /\ Done(retrier[t].holds)
  /\ UNCHANGED <<authVars, config, request, used>>
  /\ IF Up(retrier[t].holds) # {}
     THEN listed' = listed \o SetToSeq(retrier[t].holds) /\ Ends(t)
     ELSE /\ retrier' = [retrier EXCEPT ![t].pc = "sleep", ![t].holds = {}]
          /\ UNCHANGED <<listed, retries, given>>
  /\ speaker' = Dropped(speaker)

RetryStopped(t) ==
  /\ retrier[t].pc = "stopping" /\ Done(retrier[t].holds)
  /\ UNCHANGED <<authVars, config, listed, request, used>>
  /\ Ends(t) /\ speaker' = Dropped(speaker)

-----------------------------------------------------------------------------
(* Start-up and the validation of the saved token.                             *)

\* The task is over; start need not wait for it any more.
Over == [pc |-> "done", holds |-> {}, tracked |-> FALSE, first |-> TRUE]

\* start: the web server is up; a token in the configuration or the cache is validated.
Boot(token) ==
  /\ app = "new" /\ app' = "up"
  /\ validator' = IF token THEN [validator EXCEPT !.pc = "asks", !.tracked = TRUE] ELSE Over
  /\ UNCHANGED <<config, api, speaker, listed, request, retryVars, used, given>>

\* _start_speakers: what is configured and not listed is started.
ToStart == Configured \ NamesOf(listed)

ValidationSucceeds ==
  /\ validator.pc = "asks" /\ api' = "saved" /\ Enough(ToStart)
  /\ LET new == NewFor(ToStart)
     IN  /\ speaker' = Starting(speaker, new, config)
         /\ validator' = [validator EXCEPT !.pc = "starting", !.holds = {new[n] : n \in ToStart}]
  /\ UNCHANGED <<app, config, listed, request, retryVars, used, given>>

\* Qobuz rejects the token, or cannot be reached: then it is asked again later.
ValidationFails ==
  /\ validator.pc = "asks" /\ Uses("failure", MaxFailures)
  /\ validator' \in {Over, [validator EXCEPT !.pc = "sleep", !.first = TRUE]}
  /\ UNCHANGED <<app, config, api, speaker, listed, request, retryVars, given>>

\* A login through the web UI may have come in between.
ValidationWakes ==
  /\ validator.pc = "sleep"
  /\ validator' = IF api # "none" THEN Over ELSE [validator EXCEPT !.pc = "asks"]
  /\ UNCHANGED <<app, config, api, speaker, listed, request, retryVars, used, given>>

\* The starts are over: the speakers that are up are listed, the others retried.
Collects(holds) ==
  /\ listed' = listed \o SetToSeq(Up(holds)) /\ Schedule(holds \ Up(holds))
  /\ given' = given \cup Doubled(Up(holds))

ValidatorStarted ==
  /\ validator.pc = "starting" /\ Done(validator.holds)
  /\ Collects(validator.holds) /\ validator' = Over
  /\ UNCHANGED <<app, config, api, request, used>>
  /\ speaker' = Dropped(speaker)

\* Cancelled in the middle of the starts, it stops all of them first.
ValidatorStopped ==
  /\ validator.pc = "stopping" /\ Done(validator.holds)
  /\ validator' = Over
  /\ UNCHANGED <<app, config, api, listed, request, retryVars, used, given>>
  /\ speaker' = Dropped(speaker)

\* mutant: the starts under way are left alone.
CancelValidationForgets ==
  validator' = (IF validator.tracked THEN Over ELSE validator) /\ UNCHANGED speaker

\* mutant: it goes on.
CancelValidationUntracks ==
  /\ validator' = [validator EXCEPT !.tracked = FALSE, !.pc = IF @ = "asks" THEN @ ELSE "done"]
  /\ UNCHANGED speaker

\* _cancel_auth_retry
CancelValidation ==
  IF validator.tracked /\ validator.pc = "starting"
  THEN /\ speaker' = Stopping(validator.holds)
       /\ validator' = [validator EXCEPT !.pc = "stopping", !.tracked = FALSE]
  ELSE validator' = (IF validator.tracked THEN Over ELSE validator) /\ UNCHANGED speaker

-----------------------------------------------------------------------------
(* Requests of the web UI, and the shutdown.                                   *)

Under(kinds) == {r \in Requests : request[r].kind \in kinds}
StartKinds == {"login", "add", "edit"}
StopKinds == {"logout", "shutdown"}

\* Whether somebody other than a retry is about to start a speaker of that name.
Awaited(n) ==
  \/ \E r \in Under(StartKinds) : request[r].name = n
  \/ \E s \in validator.holds \cup UNION {request[r].holds : r \in Under(StartKinds)} :
       speaker[s].name = n

\* What a new request crosses: all speakers are stopped while some are started, or a speaker is
\* changed while one of that name is started.
Crosses(kind, n) ==
  (IF \/ kind \in StartKinds /\ Under(StopKinds) # {}
      \/ kind \in StopKinds /\ Under(StartKinds \cup StopKinds) # {}
      \/ kind \in {"edit", "remove"} /\ Awaited(n)
   THEN {"crossed"} ELSE {})

\* The handler of a request begins; the web server serves until the very end.
Accepts(r, kind) ==
  /\ app \in {"up", "stopping"} /\ Under({"none"}) # {}
  /\ r = CHOOSE free \in Requests : request[free].kind = "none"
  /\ IF kind = "shutdown" THEN UNCHANGED used ELSE Uses("request", MaxRequests)
Handles(r, kind, n, pc, holds) ==
  request' = [request EXCEPT ![r] = [Idle EXCEPT !.kind = kind, !.name = n, !.pc = pc,
                                                 !.holds = holds]]
Answered(r) == request' = [request EXCEPT ![r] = Idle]

\* _cancel_auth_retry, which waits for the end of the task it cancels.
CancelsFirst(r, kind) ==
  /\ Accepts(r, kind) /\ CancelValidation
  /\ request' = [request EXCEPT ![r] = [Idle EXCEPT !.kind = kind, !.pc = "cancelling",
                                                    !.waits = validator.tracked]]
  /\ given' = given \cup Crosses(kind, None)
                    \cup (IF validator.tracked THEN Late(validator.holds) ELSE {})
  /\ UNCHANGED <<api, config, listed, retryVars>>
Resumes(r, kind) ==
  /\ request[r].kind = kind /\ request[r].pc = "cancelling"
  /\ request[r].waits => validator.pc = "done"

\* _on_auth_token
Login(r) == CancelsFirst(r, "login") /\ UNCHANGED app

\* The login stands; speakers are started unless there are any.
LoggedIn(r) ==
  /\ Resumes(r, "login") /\ api' = "web"
  /\ IF listed # <<>>
     THEN /\ Answered(r) /\ UNCHANGED speaker
          /\ given' = given \cup (IF \A n \in ToStart : Awaited(n) \/ retries[n] # None
                                  THEN {} ELSE {"partial"})
     ELSE /\ Enough(ToStart)
          /\ LET new == NewFor(ToStart)
             IN  /\ speaker' = Starting(speaker, new, config)
                 /\ Handles(r, "login", None, "starting", {new[n] : n \in ToStart})
          /\ UNCHANGED given
  /\ UNCHANGED <<app, validator, config, listed, retryVars, used>>

LoginStarted(r) ==
  /\ request[r].kind = "login" /\ request[r].pc = "starting" /\ Done(request[r].holds)
  /\ Collects(request[r].holds) /\ Answered(r)
  /\ UNCHANGED <<authVars, config, used>>
  /\ speaker' = Dropped(speaker)

\* _on_logout, and stop once start has returned.
Logout(r) == CancelsFirst(r, "logout") /\ UNCHANGED app
Shutdown(r) ==
  /\ app = "up" /\ validator.first /\ app' = "stopping" /\ CancelsFirst(r, "shutdown")

\* The login is forgotten; or the web server stops.
Finishes(r) ==
  /\ IF request[r].kind = "logout" THEN api' = "none" /\ UNCHANGED app
     ELSE app' = "stopped" /\ UNCHANGED api
  /\ Answered(r) /\ UNCHANGED validator

\* _stop_speakers: the retries are cancelled, and what is listed is stopped and then forgotten.
StopsAll(r) ==
  /\ \E kind \in StopKinds : Resumes(r, kind)
  /\ CancelRetries(Names)
  /\ LET all == ToSet(listed) \cup Halted(Cancelled(Names))
     IN  speaker' = Stopping(all) /\ given' = given \cup Late(all)
  /\ IF listed = <<>> THEN Finishes(r)
     ELSE /\ request' = [request EXCEPT ![r].pc = "stopping", ![r].holds = ToSet(listed)]
          /\ UNCHANGED authVars
  /\ UNCHANGED <<config, listed, used>>

StoppedAll(r) ==
  /\ request[r].kind \in StopKinds /\ request[r].pc = "stopping" /\ Done(request[r].holds)
  /\ listed' = <<>> /\ Finishes(r)
  /\ UNCHANGED <<config, retryVars, used, given>>
  /\ speaker' = Dropped(speaker)

\* _on_add_speaker: a new name; the configuration is saved before the start.
AddSpeaker(r, n) ==
  /\ Accepts(r, "add") /\ config[n] = 0 /\ api # "none" /\ Enough({n})
  /\ config' = [config EXCEPT ![n] = used'.request + 1]
  /\ LET new == NewFor({n})
     IN  speaker' = Starting(speaker, new, config') /\ Handles(r, "add", n, "starting", {new[n]})
  /\ given' = given \cup Crosses("add", n)
  /\ UNCHANGED <<authVars, listed, retryVars>>

Added(r) ==
  /\ request[r].kind = "add" /\ Done(request[r].holds)
  /\ Collects(request[r].holds) /\ Answered(r)
  /\ UNCHANGED <<authVars, config, used>>
  /\ speaker' = Dropped(speaker)

\* The place of a name in _speakers, or 0.
PlaceOf(n) ==
  LET places == {i \in DOMAIN listed : speaker[listed[i]].name = n}
  IN  IF places = {} THEN 0 ELSE CHOOSE i \in places : \A j \in places : i <= j

\* The new speaker is started; without a login the request fails here.
Restarts(r, n, ver, at, f) ==
  IF api = "none" THEN Answered(r) /\ speaker' = f
  ELSE /\ Enough({n})
       /\ LET new == NewFor({n})
          IN  /\ speaker' = Starting(f, new, [m \in {n} |-> ver])
              /\ request' = [request EXCEPT ![r] =
                   [kind |-> "edit", pc |-> "starting", name |-> n, ver |-> ver,
                    holds |-> {new[n]}, at |-> at, waits |-> FALSE]]

\* _on_edit_speaker: saved first; the retry of the old configuration is cancelled, the speaker that
\* is listed is stopped.
EditSpeaker(r, n) ==
  /\ Accepts(r, "edit") /\ config[n] # 0
  /\ config' = [config EXCEPT ![n] = used'.request + 1]
  /\ CancelRetries({n})
  /\ LET old == IF PlaceOf(n) = 0 THEN {} ELSE {listed[PlaceOf(n)]}
         all == old \cup Halted(Cancelled({n}))
     IN  /\ given' = given \cup Crosses("edit", n) \cup Late(all)
         /\ IF old = {} THEN Restarts(r, n, config'[n], 0, Stopping(all))
            ELSE /\ speaker' = Stopping(all)
                 /\ request' = [request EXCEPT ![r] =
                      [kind |-> "edit", pc |-> "stopping", name |-> n, ver |-> config'[n],
                       holds |-> old, at |-> PlaceOf(n), waits |-> FALSE]]
  /\ UNCHANGED <<authVars, listed>>

EditStopped(r) ==
  /\ request[r].kind = "edit" /\ request[r].pc = "stopping" /\ Done(request[r].holds)
  /\ Restarts(r, request[r].name, request[r].ver, request[r].at, speaker)
  /\ UNCHANGED <<authVars, config, listed, retryVars, used, given>>

\* mutant: it is appended as well.
EditedTwice(r) ==
  /\ request[r].kind = "edit" /\ request[r].pc = "starting" /\ Done(request[r].holds)
  /\ LET at == request[r].at
         new == CHOOSE s \in request[r].holds : TRUE
     IN  /\ listed' = Append(IF at \in DOMAIN listed THEN [listed EXCEPT ![at] = new] ELSE listed,
                             new)
         /\ given' = given \cup (IF speaker[new].phase = "up" THEN {} ELSE {"unretried"})
  /\ Answered(r)
  /\ UNCHANGED <<authVars, config, retryVars, used>>
  /\ speaker' = Dropped(speaker)

\* It takes the place that the old one had, whether it is up or not; the place may be gone.
Edited(r) ==
  /\ request[r].kind = "edit" /\ request[r].pc = "starting" /\ Done(request[r].holds)
  /\ LET at == request[r].at
         new == CHOOSE s \in request[r].holds : TRUE
     IN  /\ listed' = IF at = 0 THEN Append(listed, new)
                      ELSE IF at \in DOMAIN listed THEN [listed EXCEPT ![at] = new] ELSE listed
         /\ given' = given \cup (IF speaker[new].phase = "up" THEN {} ELSE {"unretried"})
                           \cup Doubled(IF at = 0 THEN {new} ELSE {})
  /\ Answered(r)
  /\ UNCHANGED <<authVars, config, retryVars, used>>
  /\ speaker' = Dropped(speaker)

\* _on_remove_speaker
RemoveSpeaker(r, n) ==
  /\ Accepts(r, "remove") /\ config[n] # 0
  /\ config' = [config EXCEPT ![n] = 0]
  /\ CancelRetries({n})
  /\ LET old == IF PlaceOf(n) = 0 THEN {} ELSE {listed[PlaceOf(n)]}
         all == old \cup Halted(Cancelled({n}))
     IN  /\ listed' = IF old = {} THEN listed ELSE RemoveAt(listed, PlaceOf(n))
         /\ speaker' = Stopping(all) /\ Handles(r, "remove", n, "stopping", old)
         /\ given' = given \cup Crosses("remove", n) \cup Late(all)
              \cup (IF old # {} /\ \E o \in Requests : request[o].at # 0 THEN {"shifted"} ELSE {})
  /\ UNCHANGED authVars

Removed(r) ==
  /\ request[r].kind = "remove" /\ Done(request[r].holds)
  /\ Answered(r)
  /\ UNCHANGED <<authVars, config, listed, retryVars, used, given>>
  /\ speaker' = Dropped(speaker)

-----------------------------------------------------------------------------

Asked(r) ==
  \/ Login(r) \/ Logout(r) \/ Shutdown(r)
  \/ \E n \in Names : AddSpeaker(r, n) \/ EditSpeaker(r, n) \/ RemoveSpeaker(r, n)
Continues(r) ==
  \/ LoggedIn(r) \/ LoginStarted(r) \/ StopsAll(r) \/ StoppedAll(r) \/ Added(r)
  \/ EditStopped(r) \/ Edited(r) \/ Removed(r)
Validates ==
  \/ ValidationSucceeds \/ ValidationFails \/ ValidationWakes \/ ValidatorStarted
  \/ ValidatorStopped
Retried(t) == RetryWakes(t) \/ RetryStarted(t) \/ RetryStopped(t)
Settles(s) == StartSucceeds(s) \/ StartFails(s) \/ StopEnds(s)

Next ==
  \/ \E token \in BOOLEAN : Boot(token)
  \/ Validates
  \/ \E r \in Requests : Asked(r) \/ Continues(r)
  \/ \E t \in Retries : Retried(t)
  \/ \E s \in Speakers : Settles(s) \/ AppConnects(s) \/ SetupEnds(s)

Spec == Init /\ [][Next]_vars

\* Coroutines run when what they await is over; starts, stops and requests to Qobuz end.
FairSpec ==
  /\ Spec /\ WF_vars(Validates)
  /\ \A r \in Requests : WF_vars(Continues(r))
  /\ \A t \in Retries : WF_vars(Retried(t))
  /\ \A s \in Speakers : WF_vars(Settles(s))

-----------------------------------------------------------------------------
(* Properties.                                                                 *)

Orderly == given \cap {"crossed", "shifted", "doubled", "untracked"} = {}

TypeOK ==
  /\ app \in {"new", "up", "stopping", "stopped"} /\ api \in {"none", "saved", "web"}
  /\ config \in [Names -> 0 .. MaxRequests + 1]
  /\ speaker \in [Speakers -> [name : Names \cup {None}, ver : 0 .. MaxRequests + 1,
                               phase : {"unused", "starting", "up", "stopping", "down"},
                               link : {"none", "setting", "on"}]]
  /\ ToSet(listed) \subseteq Speakers /\ IsInjective(listed)
  /\ validator.pc \in {"none", "asks", "sleep", "starting", "stopping", "done"}
  /\ \A r \in Requests : request[r].pc \in {"idle", "cancelling", "starting", "stopping"}
  /\ \A t \in Retries : retrier[t].pc \in {"idle", "sleep", "starting", "stopping"}
  /\ retries \in [Names -> Retries \cup {None}] /\ Holds \subseteq Speakers

\* A speaker that runs or starts is known to the program: listed, or in the hands of a coroutine
\* that lists or stops it, also when that is cancelled (app.py:_start_speakers, _retry_speaker).
NothingIsLost ==
  Orderly =>
    \A s \in Speakers : speaker[s].phase \in {"starting", "up"} => s \in Known

\* What is listed and runs does so from the newest configuration of its name: no retry or edit
\* brings back an older one, and nothing that was removed (app.py:_on_edit_speaker).
NewestConfiguration ==
  Orderly =>
    \A s \in ToSet(listed) \ Holds :
      speaker[s].phase = "up" => speaker[s].ver = config[speaker[s].name]

\* Once a logout or the shutdown is done no speaker runs and none is about to (app.py:_on_logout).
LogoutSilences ==
  /\ Orderly
  /\ api = "none" \/ app = "stopped"
  /\ \A r \in Requests : request[r].kind = "none"
  => \A s \in Speakers \ (validator.holds \cup Halted(Retries)) :
       speaker[s].phase \notin {"starting", "up"}

\* The validation of the saved token never replaces a login made in the web UI, nor undoes a logout
\* (app.py:_cancel_auth_retry).
WebLoginWins == [][api' = "saved" /\ api # "saved" => api = "none" /\ validator.tracked]_vars

\* A speaker that is stopped, or whose start failed, is off line, unless its set-up was under way
\* or the app connected meanwhile (speaker.py:stop).
OfflineWhenStopped ==
  "late" \notin given =>
    \A s \in Speakers :
      speaker[s].link # "none" => speaker[s].phase \in {"starting", "up", "stopping"}

\* While somebody is logged in, every configured speaker comes up in the end, however often it
\* could not be started (app.py:_retry_speaker).
Wanted(n) == app = "up" /\ api # "none" /\ config[n] # 0 /\ given \subseteq {"late"}
ComesUp ==
  \A n \in Names :
    Wanted(n) ~> \/ ~Wanted(n)
                 \/ \E s \in ToSet(listed) : speaker[s].name = n /\ speaker[s].phase = "up"

\* Whatever runs is known and configured so (_start_speakers, _on_edit_speaker, _retry_speaker);
\* with the types.
SpeakersAreKnown == TypeOK /\ NothingIsLost /\ NewestConfiguration

\* What was stopped, alone or by a logout, neither runs nor is on line (_stop_speakers, Speaker.stop).
StoppedIsSilent == LogoutSilences /\ OfflineWhenStopped
=============================================================================
