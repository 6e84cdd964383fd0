----------------------------- MODULE DlnaProofs -----------------------------
(***************************************************************************)
(* Proofs about DlnaBackend, for all URLs and bounds.                      *)
(***************************************************************************)
EXTENDS DlnaBackend, SequenceTheorems, TLAPS

UrlOrNone == Urls \cup {None}
Kinds == {"pause", "resume", "stop"}
PlayPcs == {"clearQueue", "addUri", "playQueue", "setUri", "setUriAgain", "playUri",
            "playUriAgain", "reset"}
Pcs == {"none", "checking", "released", "sent", "done", "setting", "removing"} \cup PlayPcs
Tasks == [kind : {"none", "play", "set", "clear", "select", "check"} \cup Kinds, pc : Pcs,
          url : UrlOrNone, expected : UrlOrNone, saw : Uris, nr : Nat]

\* The types, by what changes together.
Minds ==
  [current : UrlOrNone, next : UrlOrNone, nr : Nat, external : BOOLEAN, starting : BOOLEAN,
   grace : BOOLEAN, state : Modes, gapless : BOOLEAN]
Polls ==
  [pc : {"sleep", "checking", "asked", "served", "looking", "locating"},
   expected : UrlOrNone, saw : Uris, state : Modes, grace : BOOLEAN]
Devices ==
  [uri : Uris, mode : Modes, loading : UrlOrNone, next : UrlOrNone, queue : Seq(Urls), pos : Nat]
Givens ==
  [falseEnd : BOOLEAN, falseTakeover : BOOLEAN, cut : BOOLEAN, misread : BOOLEAN,
   crossed : BOOLEAN, late : BOOLEAN, orphaned : BOOLEAN, half : BOOLEAN, resent : BOOLEAN,
   slow : BOOLEAN]

MineTyped == mine \in Minds
PollTyped == poll \in Polls
TasksTyped == cmd \in Tasks /\ arm \in Tasks /\ ask \in Tasks
DeviceTyped ==
  /\ sonos \in BOOLEAN /\ device \in Devices
  /\ device.pos <= Len(device.queue)
HistoryTyped == due \in BOOLEAN /\ given \in Givens
Typed == MineTyped /\ PollTyped /\ TasksTyped /\ DeviceTyped /\ HistoryTyped

\* A sequence without its i-th element.
LEMMA Removed ==
  ASSUME NEW s \in Seq(Urls), NEW i \in 1 .. Len(s)
  PROVE  /\ RemoveAt(s, i) \in Seq(Urls) /\ Len(RemoveAt(s, i)) = Len(s) - 1
         /\ \A j \in 1 .. Len(s) - 1 : RemoveAt(s, i)[j] = IF j < i THEN s[j] ELSE s[j + 1]
<1> DEFINE a == SubSeq(s, 1, i - 1)
           b == SubSeq(s, i + 1, Len(s))
<1>1. /\ a \in Seq(Urls) /\ Len(a) = i - 1 /\ \A j \in 1 .. i - 1 : a[j] = s[j]
      /\ b \in Seq(Urls) /\ Len(b) = Len(s) - i
      /\ \A j \in 1 .. Len(s) - i : b[j] = s[i + j]
  BY SubSeqProperties
<1>2. RemoveAt(s, i) = a \o b
  BY DEF RemoveAt
<1> HIDE DEF a, b
<1>3. /\ a \o b \in Seq(Urls) /\ Len(a \o b) = Len(a) + Len(b)
      /\ \A j \in 1 .. Len(a) + Len(b) :
           (a \o b)[j] = IF j <= Len(a) THEN a[j] ELSE b[j - Len(a)]
  BY <1>1, ConcatProperties
<1>4. /\ Len(a \o b) = Len(s) - 1
      /\ \A j \in 1 .. Len(s) - 1 : (a \o b)[j] = IF j < i THEN s[j] ELSE s[j + 1]
  BY <1>1, <1>3
<1>5. QED
  BY <1>2, <1>3, <1>4

\* What another source than ours, and a track of ours, look like.
LEMMA VerdictIs ==
  ASSUME NEW t
  PROVE  /\ Verdict(t) = "foreign" =>
              Asks /\ t.expected = mine.current /\ t.saw \notin {None, mine.current, mine.next}
              /\ ~mine.grace
         /\ Verdict(t) = "ours" =>
              Asks /\ t.expected = mine.current /\ t.saw \in {mine.current, mine.next} \ {None}
  BY DEF Verdict

\* What the backend remembers keeps its type,
LEMMA MindsKept ==
  ASSUME NEW m \in Minds
  PROVE  /\ Unarmed(m) \in Minds /\ StartsPlaying(m) \in Minds /\ Selected(m) \in Minds
         /\ [m EXCEPT !.next = None] \in Minds
         /\ \A s \in Modes : [m EXCEPT !.state = s] \in Minds
         /\ [Unarmed(m) EXCEPT !.external = TRUE] \in Minds
<1>1. Unarmed(m) \in Minds
  BY DEF Unarmed, Minds, UrlOrNone
<1>2. StartsPlaying(m) \in Minds
  BY <1>1 DEF StartsPlaying, Minds
<1>3. Selected(m) \in Minds
  BY DEF Selected, Minds, UrlOrNone
<1>4. \A s \in Modes : [m EXCEPT !.state = s] \in Minds
  BY DEF Minds
<1>5. [m EXCEPT !.next = None] \in Minds
  BY DEF Minds, UrlOrNone
<1>6. [Unarmed(m) EXCEPT !.external = TRUE] \in Minds
  BY <1>1 DEF Minds
<1>. QED
  BY <1>1, <1>2, <1>3, <1>4, <1>5, <1>6

\* What plays next is a URL or nothing.
LEMMA UpcomingTyped ==
  ASSUME DeviceTyped
  PROVE  /\ Upcoming \in UrlOrNone
         /\ sonos /\ Upcoming # None => device.pos \in 1 .. Len(device.queue) - 1
  BY DlnaAssumption DEF DeviceTyped, Devices, UrlOrNone, Upcoming

\* A command that goes on asks nothing any more.
LEMMA Going ==
  ASSUME TasksTyped, NEW pc \in Pcs, CmdGoes(pc)
  PROVE  /\ cmd' \in Tasks
         /\ cmd'.kind = cmd.kind /\ cmd'.pc = pc /\ cmd'.url = cmd.url /\ cmd'.expected = None
         /\ cmd'.saw = None
<1> DEFINE a == [Idle EXCEPT !.kind = cmd.kind]
           b == [a EXCEPT !.pc = pc]
<1>1. Idle \in Tasks /\ Idle.expected = None /\ Idle.saw = None
  BY DEF Idle, Tasks, UrlOrNone, Pcs, Uris
<1>2. a \in Tasks /\ a.kind = cmd.kind /\ a.expected = None /\ a.saw = None
  BY <1>1 DEF TasksTyped, Tasks
<1>3. b \in Tasks /\ b.kind = cmd.kind /\ b.pc = pc /\ b.expected = None /\ b.saw = None
  BY <1>2 DEF Tasks
<1>4. cmd' = [b EXCEPT !.url = cmd.url]
  BY DEF CmdGoes
<1> HIDE DEF a, b
<1>5. /\ cmd' \in Tasks /\ cmd'.kind = cmd.kind /\ cmd'.pc = pc /\ cmd'.url = cmd.url
      /\ cmd'.expected = None /\ cmd'.saw = None
  BY <1>3, <1>4 DEF TasksTyped, Tasks
<1>6. QED
  BY <1>5

\* What each step leaves alone.
LEMMA Frames ==
  /\ (\E u \in Urls : Play(u)) => UNCHANGED <<sonos, poll, arm, ask, device, due, given>>
  /\ (\E u \in Urls : SetNextTrack(u)) => UNCHANGED <<sonos, mine, poll, cmd, ask, device, due,
       given>>
  /\ PlayChecked => UNCHANGED <<sonos, poll, arm, ask, device, used, due>>
  /\ QueueCleared => UNCHANGED <<sonos, mine, poll, arm, ask, due>>
  /\ UriAdded => UNCHANGED <<sonos, mine, poll, arm, ask, due>>
  /\ QueuePlayed => UNCHANGED <<sonos, poll, arm, ask>>
  /\ UriSet => UNCHANGED <<sonos, poll, arm, ask, due>>
  /\ UriPlayed => UNCHANGED <<sonos, poll, arm, ask>>
  /\ TransportReset => UNCHANGED <<sonos, mine, poll, arm, ask, due>>
  /\ (\E kind \in {"pause", "resume", "stop"} : Command(kind)) => UNCHANGED <<sonos, poll, arm,
       ask, device, due>>
  /\ CommandChecked => UNCHANGED <<sonos, poll, arm, ask, device, used, due>>
  /\ CommandDone => UNCHANGED <<sonos, mine, poll, arm, ask>>
  /\ CommandTold => UNCHANGED <<sonos, poll, arm, ask, device, used, due>>
  /\ SetNextChecked => UNCHANGED <<sonos, poll, cmd, ask, device, used, due>>
  /\ NextSet => UNCHANGED <<sonos, poll, cmd, ask, due>>
  /\ ClearNextTrack => UNCHANGED <<sonos, poll, cmd, ask, device, due>>
  /\ ClearNextChecked => UNCHANGED <<sonos, poll, cmd, ask, device, used, due>>
  /\ NextRemoved => UNCHANGED <<sonos, poll, cmd, ask, due>>
  /\ (\E kind \in {"select", "check"} : Ask(kind)) => UNCHANGED <<sonos, poll, cmd, arm, device,
       due, given>>
  /\ AskAnswered => UNCHANGED <<sonos, poll, cmd, arm, device, used, due>>
  /\ PollWakes => UNCHANGED <<sonos, mine, cmd, arm, ask, device, due, given>>
  /\ PollChecked => UNCHANGED <<sonos, cmd, arm, ask, device, used, due>>
  /\ StatusServed => UNCHANGED <<sonos, mine, cmd, arm, ask, device, due>>
  /\ StatusReturned => UNCHANGED <<sonos, cmd, arm, ask, device>>
  /\ TrackLooked => UNCHANGED <<sonos, cmd, arm, ask, device>>
  /\ GraceEnds => UNCHANGED <<sonos, poll, cmd, arm, ask, device, used, due>>
  /\ Loaded => UNCHANGED <<sonos, mine, poll, cmd, arm, ask, used, given>>
  /\ Advances => UNCHANGED <<sonos, mine, poll, cmd, arm, ask, due, given>>
  /\ Ends => UNCHANGED <<sonos, mine, poll, cmd, arm, ask, given>>
  /\ ForeignTakes => UNCHANGED <<sonos, mine, poll, cmd, arm, ask>>
  /\ (\E m \in {"PLAYING", "PAUSED", "STOPPED"} : HandsOn(m)) => UNCHANGED <<sonos, mine, poll,
       cmd, arm, ask, given>>
<1>1. (\E u \in Urls : Play(u)) => UNCHANGED <<sonos, poll, arm, ask, device, due, given>>
  BY DEF Play, Checks, FirstRequest, OnlyCmd, StartsPlaying
<1>2. (\E u \in Urls : SetNextTrack(u)) => UNCHANGED <<sonos, mine, poll, cmd, ask, device, due,
       given>>
  BY DEF SetNextTrack, OnlyArm
<1>3. PlayChecked => UNCHANGED <<sonos, poll, arm, ask, device, used, due>>
  BY DEF PlayChecked, Answered, CmdGoes, FirstRequest, OnlyCmd, StartsPlaying, TakeOver, Notes
<1>4. QueueCleared => UNCHANGED <<sonos, mine, poll, arm, ask, due>>
  BY DEF QueueCleared, Answered, CmdGoes, Crosses, Fails, OnlyCmd, Notes, Happens
<1>5. UriAdded => UNCHANGED <<sonos, mine, poll, arm, ask, due>>
  BY DEF UriAdded, Adds, CmdGoes, Fails, Notes, OnlyCmd, Answered, Happens
<1>6. QueuePlayed => UNCHANGED <<sonos, poll, arm, ask>>
  BY DEF QueuePlayed, Answered, Crosses, GivesUp, OnlyCmd, Succeeds, Notes, Fails, Happens
<1>7. UriSet => UNCHANGED <<sonos, poll, arm, ask, due>>
  BY DEF UriSet, Answered, CmdGoes, Crosses, Fails, GivesUp, OnlyCmd, Notes, Happens
<1>8. UriPlayed => UNCHANGED <<sonos, poll, arm, ask>>
  BY DEF UriPlayed, Answered, CmdGoes, Crosses, Fails, GivesUp, OnlyCmd, Succeeds, Notes, Happens
<1>9. TransportReset => UNCHANGED <<sonos, mine, poll, arm, ask, due>>
  BY DEF TransportReset, Answered, CmdGoes, Crosses, Fails, OnlyCmd, Notes, Happens
<1>10. (\E kind \in {"pause", "resume", "stop"} : Command(kind)) => UNCHANGED <<sonos, poll, arm,
       ask, device, due>>
  BY DEF Command, Checks, OnlyCmd, Orphans, Stops, Notes
<1>11. CommandChecked => UNCHANGED <<sonos, poll, arm, ask, device, used, due>>
  BY DEF CommandChecked, Answered, CmdGoes, OnlyCmd, Orphans, Stops, TakeOver, Notes
<1>12. CommandDone => UNCHANGED <<sonos, mine, poll, arm, ask>>
  BY DEF CommandDone, Answered, CmdGoes, Crosses, Fails, OnlyCmd, Notes, Happens
<1>13. CommandTold => UNCHANGED <<sonos, poll, arm, ask, device, used, due>>
  BY DEF CommandTold, Answered, Notes, OnlyCmd
<1>14. SetNextChecked => UNCHANGED <<sonos, poll, cmd, ask, device, used, due>>
  BY DEF SetNextChecked, Answered, OnlyArm, TakeOver, Notes
<1>15. NextSet => UNCHANGED <<sonos, poll, cmd, ask, due>>
  BY DEF NextSet, Adds, Answered, Fails, Notes, OnlyArm, Happens
<1>16. ClearNextTrack => UNCHANGED <<sonos, poll, cmd, ask, device, due>>
  BY DEF ClearNextTrack, Forgets, OnlyArm, Orphans, Notes
<1>17. ClearNextChecked => UNCHANGED <<sonos, poll, cmd, ask, device, used, due>>
  BY DEF ClearNextChecked, Answered, Forgets, OnlyArm, TakeOver, Orphans, Notes
<1>18. NextRemoved => UNCHANGED <<sonos, poll, cmd, ask, due>>
  BY DEF NextRemoved, Answered, Fails, Forgets, OnlyArm, Happens, Orphans, Notes
<1>19. (\E kind \in {"select", "check"} : Ask(kind)) => UNCHANGED <<sonos, poll, cmd, arm, device,
       due, given>>
  BY DEF Ask, OnlyAsk
<1>20. AskAnswered => UNCHANGED <<sonos, poll, cmd, arm, device, used, due>>
  BY DEF AskAnswered, Answered, Notes, OnlyAsk, TakeOver
<1>21. PollWakes => UNCHANGED <<sonos, mine, cmd, arm, ask, device, due, given>>
  BY DEF PollWakes, OnlyPoll, PollAsks
<1>22. PollChecked => UNCHANGED <<sonos, cmd, arm, ask, device, used, due>>
  BY DEF PollChecked, Answered, OnlyPoll, Sleeps, TakeOver, Notes
<1>23. StatusServed => UNCHANGED <<sonos, mine, cmd, arm, ask, device, due>>
  BY DEF StatusServed, Answered, Fails, OnlyPoll, Happens
<1>24. StatusReturned => UNCHANGED <<sonos, cmd, arm, ask, device>>
  BY DEF StatusReturned, Answered, Changed, OnlyPoll, PollAsks, Sleeps
<1>25. TrackLooked => UNCHANGED <<sonos, cmd, arm, ask, device>>
  BY DEF TrackLooked, Answered, Changed, OnlyPoll, PollAsks, Sleeps
<1>26. GraceEnds => UNCHANGED <<sonos, poll, cmd, arm, ask, device, used, due>>
  BY DEF GraceEnds
<1>27. Loaded => UNCHANGED <<sonos, mine, poll, cmd, arm, ask, used, given>>
  BY DEF Loaded, Answered, OnlyDevice
<1>28. Advances => UNCHANGED <<sonos, mine, poll, cmd, arm, ask, due, given>>
  BY DEF Advances, Happens, OnlyDevice
<1>29. Ends => UNCHANGED <<sonos, mine, poll, cmd, arm, ask, given>>
  BY DEF Ends, Happens, OnlyDevice
<1>30. ForeignTakes => UNCHANGED <<sonos, mine, poll, cmd, arm, ask>>
  BY DEF ForeignTakes, Crosses, Happens, OnlyDevice, Notes
<1>31. (\E m \in {"PLAYING", "PAUSED", "STOPPED"} : HandsOn(m)) => UNCHANGED <<sonos, mine, poll,
       cmd, arm, ask, given>>
  BY DEF HandsOn, Happens, OnlyDevice
<1>. QED
  BY <1>1, <1>2, <1>3, <1>4, <1>5, <1>6, <1>7, <1>8, <1>9, <1>10, <1>11, <1>12, <1>13, <1>14,
     <1>15, <1>16, <1>17, <1>18, <1>19, <1>20, <1>21, <1>22, <1>23, <1>24, <1>25, <1>26, <1>27,
     <1>28, <1>29, <1>30, <1>31

\* A step, field by field.
MineIs(current, next, nr, external, starting, grace, state) ==
  /\ mine'.current = current /\ mine'.next = next /\ mine'.nr = nr
  /\ mine'.external = external /\ mine'.starting = starting /\ mine'.grace = grace
  /\ mine'.state = state
DeviceIs(uri, mode, loading, next, queue, pos) ==
  /\ device'.uri = uri /\ device'.mode = mode /\ device'.loading = loading
  /\ device'.next = next /\ device'.queue = queue /\ device'.pos = pos
CmdIs(kind, pc, url, expected, saw) ==
  /\ cmd'.kind = kind /\ cmd'.pc = pc /\ cmd'.url = url /\ cmd'.expected = expected
  /\ cmd'.saw = saw
ArmIs(kind, pc, url, expected, saw, nr) ==
  /\ arm'.kind = kind /\ arm'.pc = pc /\ arm'.url = url /\ arm'.expected = expected
  /\ arm'.saw = saw /\ arm'.nr = nr
AskIs(kind, pc, expected, saw) ==
  ask'.kind = kind /\ ask'.pc = pc /\ ask'.expected = expected /\ ask'.saw = saw
PollIs(pc, expected, saw, state, grace) ==
  /\ poll'.pc = pc /\ poll'.expected = expected /\ poll'.saw = saw /\ poll'.state = state
  /\ poll'.grace = grace

\* The same, of what several steps do.
StartsNow == MineIs(mine.current, None, 0, mine.external, TRUE, mine.grace, mine.state)
TakesOver == MineIs(mine.current, None, 0, TRUE, mine.starting, mine.grace, mine.state)
Forgotten ==
  /\ MineIs(mine.current, None, 0, mine.external, mine.starting, mine.grace, mine.state)
  /\ mine.next # None => given'.orphaned
StopForgets(kind) ==
  \/ kind # "stop" /\ mine' = mine
  \/ kind = "stop" /\ Forgotten
Succeeded == MineIs(cmd.url, mine.next, mine.nr, FALSE, FALSE, TRUE, "PLAYING") /\ ~due'
HalfWay ==
  /\ given'.half
  /\ MineIs(mine.current, mine.next, mine.nr, mine.external, FALSE, mine.grace, mine.state)
  /\ device' = device /\ due' = due /\ CmdIs("none", "none", None, None, None)
Released ==
  /\ mine.external
  /\ MineIs(None, mine.next, mine.nr, FALSE, mine.starting, mine.grace, mine.state)
Crossed == poll.pc \in {"asked", "served", "looking"} => given'.crossed
PollSleeps == PollIs("sleep", None, None, poll.state, poll'.grace)
ChangedTo(s, inGrace) ==
  LET stopped == mine.state = "PLAYING" /\ s = "STOPPED"
  IN  /\ MineIs(mine.current, IF stopped THEN None ELSE mine.next, mine.nr, mine.external,
                mine.starting, mine.grace, IF stopped /\ inGrace THEN mine.state ELSE s)
      /\ due' <=> due /\ (~stopped \/ inGrace)
      /\ stopped /\ mine.next # None => given'.orphaned
      /\ given'.falseEnd => given.falseEnd \/ (stopped /\ ~inGrace /\ ~due /\ ~given.slow)

\* The answer to a question, and what it means.
Answer(saw) == saw \in {None, device.uri}
ForeignSeen(t) ==
  /\ Asks /\ t.expected = mine.current /\ t.saw \notin {None, mine.current, mine.next}
  /\ ~mine.grace
Ours(t) ==
  /\ Asks /\ t.expected = mine.current /\ t.saw \in {mine.current, mine.next}
  /\ t.saw # None

\* What the model's operators assign, field by field.
LEMMA MineAssigned ==
  ASSUME MineTyped
  PROVE  /\ mine' = Unarmed(mine) =>
              MineIs(mine.current, None, 0, mine.external, mine.starting, mine.grace, mine.state)
         /\ mine' = StartsPlaying(mine) => StartsNow
         /\ mine' = [Unarmed(mine) EXCEPT !.external = TRUE] => TakesOver
         /\ mine' = Selected(mine) => mine' = mine \/ Released
         /\ mine' = [Unarmed(mine) EXCEPT !.current = mine.next, !.grace = TRUE] =>
              MineIs(mine.next, None, 0, mine.external, mine.starting, TRUE, mine.state)
<1> DEFINE m == Unarmed(mine)
           x == [m EXCEPT !.external = TRUE]
<1>1. /\ m \in Minds /\ m.current = mine.current /\ m.next = None /\ m.nr = 0
      /\ m.external = mine.external /\ m.starting = mine.starting /\ m.grace = mine.grace
      /\ m.state = mine.state
  BY DEF MineTyped, Minds, Unarmed, UrlOrNone
<1> HIDE DEF m
<1>2. /\ x \in Minds /\ x.current = mine.current /\ x.next = None /\ x.nr = 0 /\ x.external
      /\ x.starting = mine.starting /\ x.grace = mine.grace /\ x.state = mine.state
  BY <1>1 DEF Minds
<1> HIDE DEF x
<1>3. mine' = m =>
        MineIs(mine.current, None, 0, mine.external, mine.starting, mine.grace, mine.state)
  BY <1>1 DEF MineIs
<1>4. mine' = [m EXCEPT !.starting = TRUE] => StartsNow
  BY <1>1 DEF Minds, MineIs, StartsNow
<1>5. mine' = x => TakesOver
  BY <1>2 DEF MineIs, TakesOver, Minds
<1>6. mine' = Selected(mine) => mine' = mine \/ Released
  BY DEF MineTyped, Minds, Selected, MineIs, Released
<1>7. mine' = [m EXCEPT !.current = mine.next, !.grace = TRUE] =>
        MineIs(mine.next, None, 0, mine.external, mine.starting, TRUE, mine.state)
  BY <1>1 DEF Minds, MineIs
<1>8. QED
  BY <1>3, <1>4, <1>5, <1>6, <1>7 DEF m, x, StartsPlaying

\* The command of the player, field by field.
LEMMA CmdAssigned ==
  /\ \A pc \in Pcs : TasksTyped /\ CmdGoes(pc) => CmdIs(cmd.kind, pc, cmd.url, None, None)
  /\ \A kind, u, saw : cmd' = Asking(kind, u, saw) =>
        CmdIs(kind, "checking", u, mine.current, cmd'.saw) /\ cmd'.saw = saw
  /\ \A u \in Urls : cmd' = [Idle EXCEPT !.kind = "play", !.pc = FirstRequest, !.url = u] =>
        CmdIs("play", FirstRequest, u, None, None)
  /\ cmd' = Idle => CmdIs("none", "none", None, None, None)
<1>1. \A pc \in Pcs : TasksTyped /\ CmdGoes(pc) => CmdIs(cmd.kind, pc, cmd.url, None, None)
  BY Going DEF CmdIs
<1>2. \A kind, u, saw : cmd' = Asking(kind, u, saw) =>
        CmdIs(kind, "checking", u, mine.current, cmd'.saw) /\ cmd'.saw = saw
  BY DEF Asking, CmdIs
<1>3. \A u \in Urls : cmd' = [Idle EXCEPT !.kind = "play", !.pc = FirstRequest, !.url = u] =>
        CmdIs("play", FirstRequest, u, None, None)
  BY DEF Idle, CmdIs
<1>4. cmd' = Idle => CmdIs("none", "none", None, None, None)
  BY DEF Idle, CmdIs
<1>. QED
  BY <1>1, <1>2, <1>3, <1>4

\* What goes wrong is noted,
LEMMA GivenNoted ==
  ASSUME HistoryTyped, NEW wrong \in BOOLEAN
  PROVE  /\ Notes("crossed", wrong) /\ wrong => given'.crossed
         /\ Notes("orphaned", wrong) /\ wrong => given'.orphaned
         /\ Notes("late", wrong) /\ wrong => given'.late
         /\ Notes("resent", wrong) /\ wrong => given'.resent
  BY DEF HistoryTyped, Givens, Notes

\* also when a request crosses a status that is being read.
LEMMA CrossesNoted ==
  ASSUME HistoryTyped, Crosses
  PROVE  Crossed
  BY GivenNoted DEF Crosses, Crossed

\* Sequences of URLs.
LEMMA UrlSeqs ==
  /\ <<>> \in Seq(Urls) /\ Len(<<>>) = 0
  /\ \A q \in Seq(Urls) : q # <<>> => q[1] \in Urls /\ Len(q) >= 1
  /\ \A q \in Seq(Urls), u \in Urls : Append(q, u) \in Seq(Urls) /\ Len(Append(q, u)) = Len(q) + 1
  /\ \A q \in Seq(Urls), u \in Urls :
       q \o <<u, u>> \in Seq(Urls) /\ Len(q \o <<u, u>>) = Len(q) + 2
<1>1. \A q \in Seq(Urls), u \in Urls :
       q \o <<u, u>> \in Seq(Urls) /\ Len(q \o <<u, u>>) = Len(q) + 2
  <2> TAKE q \in Seq(Urls), u \in Urls
  <2>1. <<u, u>> \in Seq(Urls) /\ Len(<<u, u>>) = 2
    OBVIOUS
  <2>2. QED
    BY <2>1, ConcatProperties
<1>2. QED
  BY <1>1

\* The renderer: a queue, a URI and the queue's entry are of their types.
LEMMA DeviceAssigned ==
  ASSUME DeviceTyped, NEW u \in UrlOrNone, NEW p \in Nat, NEW q \in Seq(Urls), NEW m \in Modes
  PROVE  /\ device' = Loads(u, p) =>
              /\ device' \in Devices
              /\ DeviceIs(device.uri, "LOADING", u, device.next, device.queue, p)
         /\ device' = [device EXCEPT !.queue = q] =>
              /\ device' \in Devices
              /\ DeviceIs(device.uri, device.mode, device.loading, device.next, q, device.pos)
         /\ device' = [device EXCEPT !.queue = q, !.mode = m, !.pos = p] =>
              /\ device' \in Devices
              /\ DeviceIs(device.uri, m, device.loading, device.next, q, p)
         /\ device' = [device EXCEPT !.queue = q, !.pos = p, !.mode = m] =>
              /\ device' \in Devices
              /\ DeviceIs(device.uri, m, device.loading, device.next, q, p)
         /\ device' = [device EXCEPT !.loading = u, !.next = None, !.pos = p, !.mode = m] =>
              /\ device' \in Devices
              /\ DeviceIs(device.uri, m, u, None, device.queue, p)
<1>1. device' = Loads(u, p) =>
        /\ device' \in Devices
        /\ DeviceIs(device.uri, "LOADING", u, device.next, device.queue, p)
  BY DEF DeviceTyped, Devices, Loads, Modes, DeviceIs
<1>2. device' = [device EXCEPT !.queue = q] =>
        /\ device' \in Devices
        /\ DeviceIs(device.uri, device.mode, device.loading, device.next, q, device.pos)
  BY DEF DeviceTyped, Devices, DeviceIs
<1>3. device' = [device EXCEPT !.queue = q, !.mode = m, !.pos = p] =>
        /\ device' \in Devices
        /\ DeviceIs(device.uri, m, device.loading, device.next, q, p)
  BY DEF DeviceTyped, Devices, DeviceIs
<1>4. device' = [device EXCEPT !.queue = q, !.pos = p, !.mode = m] =>
        /\ device' \in Devices
        /\ DeviceIs(device.uri, m, device.loading, device.next, q, p)
  BY DEF DeviceTyped, Devices, DeviceIs
<1>5. device' = [device EXCEPT !.loading = u, !.next = None, !.pos = p, !.mode = m] =>
        /\ device' \in Devices
        /\ DeviceIs(device.uri, m, u, None, device.queue, p)
  BY DEF DeviceTyped, Devices, DeviceIs, UrlOrNone
<1>. QED
  BY <1>1, <1>2, <1>3, <1>4, <1>5

\* What a note adds.
LEMMA Noted ==
  ASSUME HistoryTyped, NEW wrong \in BOOLEAN,
         NEW what \in {"falseTakeover", "crossed", "late", "orphaned", "resent"}, Notes(what, wrong)
  PROVE  /\ given' \in Givens /\ (given'[what] <=> given[what] \/ wrong)
         /\ \A f \in DOMAIN given : f # what => given'[f] = given[f]
  BY DEF HistoryTyped, Givens, Notes

\* A URL is queued once, or more if the request was sent again.
LEMMA Added ==
  ASSUME DeviceTyped, NEW n \in 1 .. 2, NEW u \in Urls, Adds(n, u)
  PROVE  /\ device' \in Devices /\ Len(device'.queue) = Len(device.queue) + n
         /\ DeviceIs(device.uri, device.mode, device.loading, device.next, device'.queue,
                     device.pos)
         /\ n = 1 => device'.queue = Append(device.queue, u)
<1> DEFINE q == IF n = 1 THEN Append(device.queue, u) ELSE device.queue \o <<u, u>>
<1>1. q \in Seq(Urls) /\ Len(q) = Len(device.queue) + n
  BY UrlSeqs DEF DeviceTyped, Devices
<1>2. device' = [device EXCEPT !.queue = q]
  BY DEF Adds
<1>3. n = 1 => q = Append(device.queue, u)
  OBVIOUS
<1> HIDE DEF q
<1>4. QED
  BY <1>1, <1>2, <1>3, DeviceAssigned DEF DeviceTyped, Devices, DeviceIs

\* A takeover, and what is forgotten.
LEMMA TakenOver ==
  ASSUME MineTyped, NEW t, Verdict(t) = "foreign", TakeOver(t)
  PROVE  ForeignSeen(t) /\ TakesOver
  BY VerdictIs, MineAssigned DEF TakeOver, ForeignSeen

\* What is forgotten, by clear_next_track and by stop.
LEMMA WasForgotten ==
  ASSUME MineTyped, HistoryTyped
  PROVE  /\ Forgets => Forgotten
         /\ \A kind : mine' = Stops(kind) /\ (IF kind = "stop" THEN Orphans ELSE UNCHANGED given)
              => StopForgets(kind)
<1>1. Orphans /\ mine.next # None => given'.orphaned
  BY GivenNoted DEF Orphans
<1>2. mine' = Unarmed(mine) /\ Orphans => Forgotten
  BY <1>1, MineAssigned DEF Forgotten
<1>3. QED
  BY <1>2 DEF Forgets, Stops, StopForgets

\* The shape of the tasks: what each may be suspended at.
CmdShape ==
  /\ cmd.kind \in {"none", "play"} \cup Kinds
  /\ cmd.kind = "none" => cmd.pc = "none"
  /\ cmd.kind = "play" => cmd.url \in Urls /\ cmd.pc \in {"checking"} \cup PlayPcs
  /\ cmd.kind \in Kinds => cmd.pc \in {"checking", "sent", "done"}
  /\ cmd.pc \in {"clearQueue", "addUri", "playQueue"} => sonos
  /\ cmd.pc # "checking" => cmd.saw = None
ArmShape ==
  /\ arm.kind \in {"none", "set", "clear"}
  /\ arm.kind = "none" => arm.pc = "none"
  /\ arm.kind = "set" => arm.pc \in {"checking", "setting"}
  /\ arm.kind = "set" => arm.url \in Urls /\ arm.expected \in Urls \ {arm.url}
  /\ arm.kind = "clear" => sonos /\ arm.pc \in {"checking", "removing"}
  /\ arm.pc # "checking" => arm.saw = None
PollShape ==
  /\ poll.pc \in {"sleep", "asked", "served"} => poll.saw = None
  /\ poll.pc \in {"sleep", "asked", "served", "looking"} => poll.expected = None
  /\ poll.pc = "looking" => poll.state = "PLAYING"
MineShape ==
  /\ mine.starting <=> cmd.kind = "play" /\ cmd.pc # "checking"
  /\ mine.external => ~mine.starting /\ mine.current # None
Shape == CmdShape /\ ArmShape /\ PollShape /\ MineShape

\* The first request of play.
LEMMA FirstIs ==
  /\ FirstRequest \in PlayPcs /\ FirstRequest \in {"clearQueue", "setUri"}
  /\ FirstRequest = "clearQueue" => sonos
  BY DEF FirstRequest, PlayPcs

\* What Play does.
LEMMA PlayDoes ==
  ASSUME Typed, NEW u \in Urls, Play(u)
  PROVE  /\ cmd = Idle /\ ~mine.external
         /\ \/ /\ Asks /\ mine' = mine /\ Answer(cmd'.saw)
               /\ CmdIs("play", "checking", u, mine.current, cmd'.saw)
            \/ ~Asks /\ StartsNow /\ CmdIs("play", FirstRequest, u, None, None)
<1>1. CASE Asks
  <2>1. PICK saw \in Uris : Reads(saw, Spent("tasks")) /\ cmd' = Asking("play", u, saw)
    BY <1>1 DEF Play, Checks
  <2>2. CmdIs("play", "checking", u, mine.current, cmd'.saw) /\ cmd'.saw = saw
    BY <2>1, CmdAssigned
  <2>3. QED
    BY <1>1, <2>1, <2>2 DEF Play, Reads, Answer
<1>2. CASE ~Asks
  BY <1>2, CmdAssigned, MineAssigned DEF Typed, Play
<1>3. QED
  BY <1>1, <1>2

\* What SetNextTrack does.
LEMMA SetNextTrackDoes ==
  ASSUME Typed, NEW u \in Urls, SetNextTrack(u)
  PROVE  /\ arm = Idle /\ mine.state = "PLAYING" /\ u # mine.current /\ Asks
         /\ ArmIs("set", "checking", u, mine.current, arm'.saw, 0)
         /\ Answer(arm'.saw)
  BY DEF Typed, TasksTyped, Tasks, SetNextTrack, Asking, Idle, OnlyArm, Reads, ArmIs, Answer

\* What PlayChecked does.
LEMMA PlayCheckedDoes ==
  ASSUME Typed, PlayChecked
  PROVE  /\ cmd.kind = "play" /\ cmd.pc = "checking"
         /\ \/ ForeignSeen(cmd) /\ TakesOver /\ CmdIs("none", "none", None, None, None)
            \/ mine' = mine /\ CmdIs("none", "none", None, None, None)
            \/ ~mine.external /\ StartsNow /\ CmdIs("play", FirstRequest, cmd.url, None, None)
<1>1. FirstRequest \in Pcs
  BY DEF FirstRequest, Pcs, PlayPcs
<1>2. QED
  BY <1>1, TakenOver, MineAssigned, CmdAssigned DEF Typed, PlayChecked

\* What QueueCleared does.
LEMMA QueueClearedDoes ==
  ASSUME Typed, QueueCleared
  PROVE  /\ cmd.pc = "clearQueue"
         /\ \/ /\ CmdIs(cmd.kind, "addUri", cmd.url, None, None) /\ Crossed
               /\ DeviceIs(device.uri, IF device.pos = 0 THEN device.mode ELSE "STOPPED",
                    device.loading, device.next, <<>>, 0)
            \/ CmdIs(cmd.kind, "setUri", cmd.url, None, None) /\ device' = device
  BY  DEF Typed, TasksTyped, Tasks, DeviceTyped, Devices, HistoryTyped, Givens, QueueCleared,
       CmdGoes, Crosses, OnlyCmd, Idle, Notes, DeviceIs, CmdIs, Crossed

\* What UriAdded does.
LEMMA UriAddedDoes ==
  ASSUME Typed, CmdShape, UriAdded
  PROVE  /\ cmd.pc = "addUri"
         /\ \/ /\ CmdIs(cmd.kind, "playQueue", cmd.url, None, None)
               /\ DeviceIs(device.uri, device.mode, device.loading, device.next, device'.queue,
                           device.pos)
               /\ given'.resent \/ device'.queue = Append(device.queue, cmd.url)
            \/ CmdIs(cmd.kind, "setUri", cmd.url, None, None) /\ device' = device
<1>0. cmd.url \in Urls
  BY DEF CmdShape, Kinds, UriAdded
<1>1. ASSUME NEW n \in 1 .. 2, Adds(n, cmd.url), Notes("resent", n = 2), CmdGoes("playQueue")
      PROVE  /\ CmdIs(cmd.kind, "playQueue", cmd.url, None, None)
             /\ DeviceIs(device.uri, device.mode, device.loading, device.next, device'.queue,
                         device.pos)
             /\ given'.resent \/ device'.queue = Append(device.queue, cmd.url)
  <2>1. n = 2 => given'.resent
    BY <1>1, GivenNoted DEF Typed
  <2>2. CmdIs(cmd.kind, "playQueue", cmd.url, None, None)
    BY <1>1, CmdAssigned DEF Typed, Pcs, PlayPcs
  <2>3. /\ DeviceIs(device.uri, device.mode, device.loading, device.next, device'.queue,
                    device.pos)
        /\ n = 1 => device'.queue = Append(device.queue, cmd.url)
    BY <1>0, <1>1, Added DEF Typed
  <2>4. QED
    BY <2>1, <2>2, <2>3
<1>2. QED
  BY <1>1, CmdAssigned DEF Typed, UriAdded, Pcs, PlayPcs

\* How play ends.
LEMMA GaveUp ==
  ASSUME MineTyped, HistoryTyped, GivesUp
  PROVE  HalfWay
  BY CmdAssigned DEF MineTyped, Minds, HistoryTyped, Givens, GivesUp, HalfWay, MineIs

\* Play succeeds.
LEMMA HasSucceeded ==
  ASSUME MineTyped, Succeeds
  PROVE  Succeeded
  BY DEF MineTyped, Minds, Succeeds, Succeeded, MineIs

\* What QueuePlayed does.
LEMMA QueuePlayedDoes ==
  ASSUME Typed, QueuePlayed
  PROVE  /\ cmd.pc = "playQueue"
         /\ \/ /\ CmdIs("none", "none", None, None, None) /\ Crossed /\ Succeeded
               /\ device.queue # <<>>
               /\ DeviceIs(device.uri, "LOADING", device.queue[1], device.next, device.queue, 1)
            \/ HalfWay
<1>1. device.queue # <<>> => device.queue[1] \in UrlOrNone
  BY UrlSeqs DEF Typed, DeviceTyped, Devices, UrlOrNone
<1>2. ASSUME device.queue # <<>>, device' = Loads(device.queue[1], 1)
      PROVE  DeviceIs(device.uri, "LOADING", device.queue[1], device.next, device.queue, 1)
  BY <1>1, <1>2 DEF Typed, DeviceTyped, Devices, Loads, DeviceIs
<1>3. QED
  BY <1>2, CmdAssigned, GaveUp, HasSucceeded, CrossesNoted DEF Typed, QueuePlayed

\* What UriSet does.
LEMMA UriSetDoes ==
  ASSUME Typed, UriSet
  PROVE  /\ cmd.pc \in {"setUri", "setUriAgain"}
         /\ \/ /\ mine' = mine /\ Crossed
               /\ \E pc \in {"playUri", "playUriAgain"} : CmdIs(cmd.kind, pc, cmd.url, None, None)
               /\ DeviceIs(device.uri, "STOPPED", cmd.url, None, device.queue, 0)
            \/ mine' = mine /\ device' = device /\ CmdIs(cmd.kind, "reset", cmd.url, None, None)
            \/ HalfWay
<1>1. CASE Answered /\ CmdGoes(IF cmd.pc = "setUri" THEN "playUri" ELSE "playUriAgain")
           /\ device' = [device EXCEPT !.loading = cmd.url, !.next = None, !.pos = 0,
                                       !.mode = "STOPPED"]
           /\ Crosses /\ UNCHANGED <<mine, due>>
  <2>1. DeviceIs(device.uri, "STOPPED", cmd.url, None, device.queue, 0)
    BY <1>1 DEF Typed, DeviceTyped, Devices, DeviceIs
  <2>2. \E pc \in {"playUri", "playUriAgain"} : CmdIs(cmd.kind, pc, cmd.url, None, None)
    BY <1>1, CmdAssigned DEF Typed, Pcs, PlayPcs
  <2>3. QED
    BY <1>1, <2>1, <2>2, CrossesNoted DEF Typed, UriSet
<1>2. QED
  BY <1>1, CmdAssigned, GaveUp DEF Typed, UriSet, Pcs, PlayPcs

\* What UriPlayed does.
LEMMA UriPlayedDoes ==
  ASSUME Typed, UriPlayed
  PROVE  /\ cmd.pc \in {"playUri", "playUriAgain"}
         /\ \/ /\ CmdIs("none", "none", None, None, None) /\ Crossed /\ Succeeded
               /\ \/ /\ device.loading = None
                     /\ DeviceIs(device.uri, "PLAYING", None, device.next, device.queue,
                                 device.pos)
                  \/ /\ device.loading # None
                     /\ DeviceIs(device.uri, "LOADING", device.loading, device.next,
                                 device.queue, 0)
            \/ /\ mine' = mine /\ device' = device /\ due' = due
               /\ CmdIs(cmd.kind, "reset", cmd.url, None, None)
            \/ HalfWay
<1>1. ASSUME device' = IF device.loading = None THEN [device EXCEPT !.mode = "PLAYING"]
                       ELSE Loads(device.loading, 0)
      PROVE  \/ /\ device.loading = None
                /\ DeviceIs(device.uri, "PLAYING", None, device.next, device.queue, device.pos)
             \/ /\ device.loading # None
                /\ DeviceIs(device.uri, "LOADING", device.loading, device.next, device.queue, 0)
  BY <1>1 DEF Typed, DeviceTyped, Devices, Loads, DeviceIs
<1>2. QED
  BY <1>1, CmdAssigned, GaveUp, HasSucceeded, CrossesNoted DEF Typed, UriPlayed, Pcs, PlayPcs

\* What TransportReset does.
LEMMA TransportResetDoes ==
  ASSUME Typed, TransportReset
  PROVE  /\ cmd.pc = "reset" /\ CmdIs(cmd.kind, "setUriAgain", cmd.url, None, None)
         /\ \/ Crossed /\ DeviceIs(device.uri, "STOPPED", device.loading, device.next,
                  device.queue, device.pos)
            \/ device' = device
  BY  DEF Typed, TasksTyped, Tasks, DeviceTyped, Devices, HistoryTyped, Givens, TransportReset,
       CmdGoes, Crosses, OnlyCmd, Idle, Notes, DeviceIs, CmdIs, Crossed

\* What Command does.
LEMMA CommandDoes ==
  ASSUME Typed, NEW kind \in {"pause", "resume", "stop"}, Command(kind)
  PROVE  /\ cmd = Idle
         /\ kind = "pause" => mine.state = "PLAYING"
         /\ kind = "resume" => mine.state = "PAUSED"
         /\ \/ /\ Asks /\ mine' = mine /\ Answer(cmd'.saw)
               /\ CmdIs(kind, "checking", None, mine.current, cmd'.saw)
            \/ ~Asks /\ cmd' = cmd /\ StopForgets(kind)
<1>1. CASE Asks
  <2>1. PICK saw \in Uris : Reads(saw, Spent("tasks")) /\ cmd' = Asking(kind, None, saw)
    BY <1>1 DEF Command, Checks
  <2>2. CmdIs(kind, "checking", None, mine.current, cmd'.saw) /\ cmd'.saw = saw
    BY <2>1, CmdAssigned
  <2>3. QED
    BY <1>1, <2>1, <2>2 DEF Command, Reads, Answer
<1>2. CASE ~Asks
  BY <1>2, WasForgotten DEF Typed, Command
<1>3. QED
  BY <1>1, <1>2

\* What CommandChecked does.
LEMMA CommandCheckedDoes ==
  ASSUME Typed, CommandChecked
  PROVE  /\ cmd.kind \in Kinds /\ cmd.pc = "checking"
         /\ \/ ForeignSeen(cmd) /\ TakesOver /\ CmdIs("none", "none", None, None, None)
            \/ StopForgets(cmd.kind) /\ Ours(cmd) /\ CmdIs(cmd.kind, "sent", cmd.url, None, None)
            \/ StopForgets(cmd.kind) /\ CmdIs("none", "none", None, None, None)
<1>1. "sent" \in Pcs /\ (Verdict(cmd) = "ours" => Ours(cmd))
  BY VerdictIs DEF Pcs, Ours
<1>2. QED
  BY <1>1, TakenOver, WasForgotten, CmdAssigned DEF Typed, CommandChecked, Kinds

\* What CommandDone does.
LEMMA CommandDoneDoes ==
  ASSUME Typed, CommandDone
  PROVE  /\ cmd.pc = "sent"
         /\ \/ /\ CmdIs(cmd.kind, "done", cmd.url, None, None) /\ Crossed /\ ~due' /\ ~Refused
               /\ DeviceIs(device.uri, Mode(cmd.kind), device.loading, device.next, device.queue,
                    device.pos)
            \/ CmdIs("none", "none", None, None, None) /\ device' = device /\ due' = due
<1>1. "done" \in Pcs
  BY DEF Pcs
<1>2. device' = [device EXCEPT !.mode = Mode(cmd.kind)] =>
        DeviceIs(device.uri, Mode(cmd.kind), device.loading, device.next, device.queue, device.pos)
  BY DEF Typed, DeviceTyped, Devices, DeviceIs
<1>3. QED
  BY <1>1, <1>2, CmdAssigned, CrossesNoted DEF Typed, CommandDone

\* What CommandTold does.
LEMMA CommandToldDoes ==
  ASSUME Typed, CommandTold
  PROVE  /\ cmd.pc = "done" /\ CmdIs("none", "none", None, None, None)
         /\ MineIs(mine.current, mine.next, mine.nr, mine.external, mine.starting, IF cmd.kind \in
               {"pause", "resume"} THEN mine.grace ELSE FALSE, IF cmd.kind = "pause" THEN "PAUSED"
               ELSE IF cmd.kind = "resume" THEN "PLAYING" ELSE "STOPPED")
         /\ poll.pc # "sleep" \/ arm # Idle \/ ask # Idle => given'.crossed
  BY  DEF Typed, MineTyped, Minds, TasksTyped, Tasks, HistoryTyped, Givens, CommandTold, Idle,
       Notes, OnlyCmd, MineIs, CmdIs

\* What SetNextChecked does.
LEMMA SetNextCheckedDoes ==
  ASSUME Typed, SetNextChecked
  PROVE  /\ arm.kind = "set" /\ arm.pc = "checking"
         /\ \/ ForeignSeen(arm) /\ TakesOver /\ ArmIs("none", "none", None, None, None, 0)
            \/ mine' = mine /\ ArmIs("none", "none", None, None, None, 0)
            \/ /\ mine' = mine /\ Ours(arm) /\ ~Queued(arm.url)
               /\ ArmIs("set", "setting", arm.url, arm.expected, None, arm.nr)
<1>1. arm' = Idle => ArmIs("none", "none", None, None, None, 0)
  BY DEF Idle, ArmIs
<1>2. arm.kind = "set" /\ arm' = [arm EXCEPT !.pc = "setting", !.saw = None] =>
        ArmIs("set", "setting", arm.url, arm.expected, None, arm.nr)
  BY DEF Typed, TasksTyped, Tasks, ArmIs
<1>3. Verdict(arm) = "ours" => Ours(arm)
  BY VerdictIs DEF Ours
<1>4. QED
  BY <1>1, <1>2, <1>3, TakenOver DEF Typed, SetNextChecked

\* What NextSet does.
LEMMA NextSetDoes ==
  ASSUME Typed, ArmShape, NextSet
  PROVE  /\ arm.kind = "set" /\ arm.pc = "setting" /\ ArmIs("none", "none", None, None, None, 0)
         /\ \/ /\ ~sonos /\ (Overtaken => given'.late)
               /\ DeviceIs(device.uri, device.mode, device.loading, arm.url, device.queue,
                           device.pos)
               /\ MineIs(mine.current, arm.url, mine.nr, mine.external, mine.starting, mine.grace,
                         mine.state)
            \/ /\ sonos /\ (Overtaken => given'.late)
               /\ Upcoming \notin {None, arm.url} => given'.orphaned
               /\ DeviceIs(device.uri, device.mode, device.loading, device.next, device'.queue,
                           device.pos)
               /\ MineIs(mine.current, arm.url, mine'.nr, mine.external, mine.starting,
                         mine.grace, mine.state)
               /\ \/ given'.resent
                  \/ /\ device'.queue = Append(device.queue, arm.url)
                     /\ mine'.nr = Len(device.queue) + 1
            \/ /\ device' = device
               /\ MineIs(mine.current, mine.next, mine.nr, mine.external, mine.starting,
                         mine.grace, mine.state)
<1>0. arm.url \in Urls
  BY DEF ArmShape, NextSet
<1>1. ASSUME ~sonos, device' = [device EXCEPT !.next = arm.url],
             mine' = [mine EXCEPT !.next = arm.url], Notes("late", Overtaken)
      PROVE  /\ Overtaken => given'.late
             /\ DeviceIs(device.uri, device.mode, device.loading, arm.url, device.queue,
                         device.pos)
             /\ MineIs(mine.current, arm.url, mine.nr, mine.external, mine.starting, mine.grace,
                       mine.state)
  <2>1. Overtaken => given'.late
    BY <1>1 DEF Typed, HistoryTyped, Givens, Notes
  <2>2. QED
    BY <1>1, <2>1 DEF Typed, DeviceTyped, Devices, MineTyped, Minds, DeviceIs, MineIs
<1>2. ASSUME sonos, NEW n \in 1 .. 2, Adds(n, arm.url),
             mine' = [mine EXCEPT !.next = arm.url, !.nr = Len(device.queue) + n],
             given' = [given EXCEPT !.late = @ \/ Overtaken, !.resent = @ \/ n = 2,
                                    !.orphaned = @ \/ Upcoming \notin {None, arm.url}]
      PROVE  /\ Overtaken => given'.late
             /\ Upcoming \notin {None, arm.url} => given'.orphaned
             /\ DeviceIs(device.uri, device.mode, device.loading, device.next, device'.queue,
                         device.pos)
             /\ MineIs(mine.current, arm.url, mine'.nr, mine.external, mine.starting, mine.grace,
                       mine.state)
             /\ \/ given'.resent
                \/ /\ device'.queue = Append(device.queue, arm.url)
                   /\ mine'.nr = Len(device.queue) + 1
  <2>1. /\ Overtaken => given'.late
        /\ Upcoming \notin {None, arm.url} => given'.orphaned
        /\ n = 2 => given'.resent
    BY <1>2 DEF Typed, HistoryTyped, Givens
  <2>2. /\ mine'.nr = Len(device.queue) + n
        /\ MineIs(mine.current, arm.url, mine'.nr, mine.external, mine.starting, mine.grace,
                  mine.state)
    BY <1>2 DEF Typed, MineTyped, Minds, MineIs
  <2>3. QED
    BY <1>0, <1>2, <2>1, <2>2, Added DEF Typed
<1>3. /\ arm' = Idle => ArmIs("none", "none", None, None, None, 0)
      /\ mine' \in {mine, [mine EXCEPT !.gapless = FALSE]} =>
           MineIs(mine.current, mine.next, mine.nr, mine.external, mine.starting, mine.grace,
                  mine.state)
  BY DEF Typed, MineTyped, Minds, Idle, ArmIs, MineIs
<1>4. QED
  BY <1>1, <1>2, <1>3 DEF NextSet

\* What ClearNextTrack does.
LEMMA ClearNextTrackDoes ==
  ASSUME Typed, ClearNextTrack
  PROVE  /\ arm = Idle
         /\ \/ /\ sonos /\ Asks /\ mine' = mine /\ Answer(arm'.saw)
               /\ ArmIs("clear", "checking", None, mine.current, arm'.saw, 0)
            \/ Forgotten /\ arm' = arm
<1>1. \A saw \in Uris : arm' = Asking("clear", None, saw) =>
        ArmIs("clear", "checking", None, mine.current, arm'.saw, 0) /\ arm'.saw = saw
  BY DEF Asking, ArmIs
<1>2. QED
  BY <1>1, WasForgotten DEF Typed, ClearNextTrack, Reads, Answer

\* What ClearNextChecked does.
LEMMA ClearNextCheckedDoes ==
  ASSUME Typed, ClearNextChecked
  PROVE  /\ arm.kind = "clear" /\ arm.pc = "checking"
         /\ \/ ForeignSeen(arm) /\ TakesOver /\ ArmIs("none", "none", None, None, None, 0)
            \/ Forgotten /\ ArmIs("none", "none", None, None, None, 0)
            \/ mine' = mine /\ Ours(arm) /\ ArmIs("clear", "removing", None, None, None, mine.nr)
<1>1. arm' = Idle => ArmIs("none", "none", None, None, None, 0)
  BY DEF Idle, ArmIs
<1>2. arm' = [Idle EXCEPT !.kind = "clear", !.pc = "removing", !.nr = mine.nr] =>
        ArmIs("clear", "removing", None, None, None, mine.nr)
  BY DEF Idle, ArmIs
<1>3. Verdict(arm) = "ours" => Ours(arm)
  BY VerdictIs DEF Ours
<1>4. QED
  BY <1>1, <1>2, <1>3, TakenOver, WasForgotten DEF Typed, ClearNextChecked

\* What NextRemoved does.
LEMMA NextRemovedDoes ==
  ASSUME Typed, NextRemoved
  PROVE  /\ arm.pc = "removing" /\ ArmIs("none", "none", None, None, None, 0)
         /\ \/ /\ arm.nr \in 1 .. Len(device.queue)
               /\ MineIs(mine.current, None, 0, mine.external, mine.starting, mine.grace,
                         mine.state)
               /\ DeviceIs(device.uri, IF arm.nr = device.pos THEN "STOPPED" ELSE device.mode,
                           device.loading, device.next, RemoveAt(device.queue, arm.nr),
                           IF arm.nr = device.pos THEN 0
                           ELSE IF arm.nr < device.pos THEN device.pos - 1 ELSE device.pos)
               /\ arm.nr = device.pos => given'.cut
               /\ device.uri # mine.current => given'.orphaned
            \/ Forgotten /\ device' = device
<1>1. arm' = Idle => ArmIs("none", "none", None, None, None, 0)
  BY DEF Idle, ArmIs
<1>2. DOMAIN device.queue = 1 .. Len(device.queue)
  BY DEF Typed, DeviceTyped, Devices
<1>3. ASSUME given' = [given EXCEPT !.cut = @ \/ arm.nr = device.pos,
                                    !.orphaned = @ \/ device.uri # mine.current]
      PROVE  /\ arm.nr = device.pos => given'.cut
             /\ device.uri # mine.current => given'.orphaned
  BY <1>3 DEF Typed, HistoryTyped, Givens
<1>4. ASSUME device' = [device EXCEPT
                         !.queue = RemoveAt(@, arm.nr),
                         !.mode = IF arm.nr = device.pos THEN "STOPPED" ELSE @,
                         !.pos = IF arm.nr = @ THEN 0 ELSE IF arm.nr < @ THEN @ - 1 ELSE @]
      PROVE  DeviceIs(device.uri, IF arm.nr = device.pos THEN "STOPPED" ELSE device.mode,
                      device.loading, device.next, RemoveAt(device.queue, arm.nr),
                      IF arm.nr = device.pos THEN 0
                      ELSE IF arm.nr < device.pos THEN device.pos - 1 ELSE device.pos)
  BY <1>4 DEF Typed, DeviceTyped, Devices, DeviceIs
<1>5. QED
  BY <1>1, <1>2, <1>3, <1>4, MineAssigned, WasForgotten DEF Typed, NextRemoved

\* What Ask does.
LEMMA AskDoes ==
  ASSUME Typed, NEW kind \in {"select", "check"}, Ask(kind)
  PROVE  /\ ask = Idle
         /\ \/ /\ Asks /\ mine' = mine /\ Answer(ask'.saw)
               /\ AskIs(kind, "checking", mine.current, ask'.saw)
            \/ ask' = ask /\ (mine' = mine \/ Released)
<1>1. \A saw \in Uris : ask' = Asking(kind, None, saw) =>
        AskIs(kind, "checking", mine.current, ask'.saw) /\ ask'.saw = saw
  BY DEF Asking, AskIs
<1>2. QED
  BY <1>1, MineAssigned DEF Typed, Ask, Reads, Answer

\* What AskAnswered does.
LEMMA AskAnsweredDoes ==
  ASSUME Typed, AskAnswered
  PROVE  /\ ask # Idle
         /\ \/ AskIs("none", "none", None, None)
            \/ AskIs("select", "released", None, None)
         /\ \/ ForeignSeen(ask) /\ TakesOver
            \/ mine' = mine
            \/ Released
<1>1. /\ Idle.kind = "none" /\ Idle.pc = "none" /\ Idle.expected = None /\ Idle.saw = None
      /\ LET r == [Idle EXCEPT !.kind = "select", !.pc = "released"]
         IN  /\ r.kind = "select" /\ r.pc = "released" /\ r.expected = None
             /\ r.saw = None
  BY DEF Idle
<1>2. Verdict(ask) = "foreign" /\ TakeOver(ask) => ForeignSeen(ask) /\ TakesOver
  BY TakenOver DEF Typed
<1>3. mine' = Selected(mine) => mine' = mine \/ Released
  BY MineAssigned DEF Typed
<1>4. QED
  BY <1>1, <1>2, <1>3 DEF AskAnswered, AskIs

\* What PollWakes does.
LEMMA PollWakesDoes ==
  ASSUME Typed, PollWakes
  PROVE  /\ poll.pc = "sleep" /\ Asks /\ PollIs("checking", mine.current, poll'.saw, poll.state,
               poll.grace)
         /\ Answer(poll'.saw)
  BY DEF Typed, PollTyped, Polls, PollWakes, OnlyPoll, PollAsks, Reads, PollIs, Answer

\* What PollChecked does.
LEMMA PollCheckedDoes ==
  ASSUME Typed, PollChecked
  PROVE  /\ poll.pc \in {"checking", "locating"}
         /\ \/ ForeignSeen(poll) /\ TakesOver /\ PollSleeps
            \/ mine' = mine /\ PollSleeps
            \/ mine' = mine /\ PollIs("asked", None, None, poll.state, poll.grace)
<1>1. poll.pc \in {"checking", "locating"}
  BY DEF PollChecked
<1>2. ASSUME Verdict(poll) = "foreign", TakeOver(poll), Sleeps
      PROVE  ForeignSeen(poll) /\ TakesOver /\ PollSleeps
  BY <1>2, TakenOver DEF Typed, PollTyped, Polls, Sleeps, PollIs, PollSleeps
<1>3. ASSUME Sleeps PROVE PollSleeps
  BY <1>3 DEF Typed, PollTyped, Polls, Sleeps, PollIs, PollSleeps
<1>4. ASSUME poll' = [poll EXCEPT !.pc = "asked", !.expected = None, !.saw = None]
      PROVE  PollIs("asked", None, None, poll.state, poll.grace)
  BY <1>4 DEF Typed, PollTyped, Polls, PollIs
<1>5. QED
  BY <1>1, <1>2, <1>3, <1>4 DEF PollChecked

\* What StatusServed does.
LEMMA StatusServedDoes ==
  ASSUME Typed, StatusServed
  PROVE  /\ poll.pc = "asked" /\ PollIs("served", poll.expected, poll.saw, poll'.state,
               poll.grace)
         /\ \/ /\ (poll'.state = device.mode \/ (device.loading # None /\ poll'.state =
                    "STOPPED"))
               /\ (cmd.pc = "done" \/ mine.starting \/ device.uri = Foreign => given'.crossed)
            \/ given'.misread /\ poll'.state = "STOPPED"
  BY DEF Typed, PollTyped, Polls, HistoryTyped, Givens, StatusServed, OnlyPoll, PollIs

\* What StatusReturned does.
LEMMA StatusReturnedDoes ==
  ASSUME Typed, StatusReturned
  PROVE  /\ poll.pc = "served"
         /\ \/ /\ poll.state = "PLAYING" /\ mine.next # None /\ mine' = mine /\ due' = due
               /\ Answer(poll'.saw) /\ PollIs("looking", poll.expected, poll'.saw, poll.state,
                    mine.grace)
            \/ /\ (poll.state # "PLAYING" \/ mine.next = None) /\ ChangedTo(poll.state,
                    mine.grace)
               /\ PollSleeps \/ (Asks /\ Answer(poll'.saw) /\ PollIs("locating", mine.current,
                    poll'.saw, poll.state, poll.grace))
  BY  DEF Typed, MineTyped, Minds, PollTyped, Polls, HistoryTyped, Givens, StatusReturned,
       Changed, OnlyPoll, PollAsks, Reads, Sleeps, MineIs, PollIs, PollSleeps, ChangedTo, Answer

\* What TrackLooked does.
LEMMA TrackLookedDoes ==
  ASSUME Typed, TrackLooked
  PROVE  /\ poll.pc = "looking"
         /\ \/ /\ poll.saw # None /\ poll.saw = mine.next /\ PollSleeps /\ due' = due
               /\ MineIs(mine.next, None, 0, mine.external, mine.starting, TRUE, mine.state)
            \/ /\ ~(poll.saw # None /\ poll.saw = mine.next) /\ ChangedTo("PLAYING", poll.grace)
               /\ PollSleeps \/ (Asks /\ Answer(poll'.saw) /\ PollIs("locating", mine.current,
                    poll'.saw, poll.state, FALSE))
  BY  DEF Typed, MineTyped, Minds, PollTyped, Polls, HistoryTyped, Givens, TrackLooked, Changed,
       OnlyPoll, PollAsks, Sleeps, Unarmed, Reads, MineIs, PollIs, PollSleeps, ChangedTo, Answer

\* What GraceEnds does.
LEMMA GraceEndsDoes ==
  ASSUME Typed, GraceEnds
  PROVE  /\ mine.grace
         /\ MineIs(mine.current, mine.next, mine.nr, mine.external, mine.starting, FALSE,
                   mine.state)
         /\ ~given'.slow =>
              /\ device.loading = None
              /\ \A t \in {cmd, arm, ask} : t.saw \in {None, Foreign, mine.current, device.uri}
              /\ poll.saw \in {None, Foreign, mine.current, device.uri}
              /\ poll.pc = "served" => poll.state = device.mode
<1>1. mine.grace /\ mine' = [mine EXCEPT !.grace = FALSE]
  BY DEF GraceEnds
<1>2. given'.slow <=> Unsettled
  BY DEF GraceEnds, Typed, HistoryTyped, Givens, Unsettled
<1>3. ~Unsettled =>
        /\ device.loading = None
        /\ \A t \in {cmd, arm, ask, poll} : t.saw \in {None, Foreign, mine.current, device.uri}
        /\ poll.pc = "served" => poll.state = device.mode
  BY DEF Unsettled
<1>4. QED
  BY <1>1, <1>2, <1>3 DEF Typed, MineTyped, Minds, MineIs

\* What Loaded does.
LEMMA LoadedDoes ==
  ASSUME Typed, Loaded
  PROVE  /\ device.loading # None /\ ~due'
         /\ DeviceIs(device.loading, IF device.mode = "LOADING" THEN "PLAYING" ELSE device.mode,
               None, device.next, device.queue, device.pos)
  BY DEF Typed, DeviceTyped, Devices, HistoryTyped, Givens, Loaded, OnlyDevice, DeviceIs

\* What Advances does.
LEMMA AdvancesDoes ==
  ASSUME Typed, Advances
  PROVE  /\ device.mode = "PLAYING" /\ device.loading = None /\ Upcoming # None
         /\ \/ sonos /\ DeviceIs(Upcoming, device.mode, device.loading, device.next, device.queue,
                  device.pos + 1)
            \/ ~sonos /\ DeviceIs(Upcoming, device.mode, device.loading, None, device.queue,
                  device.pos)
  BY DEF Typed, DeviceTyped, Devices, Advances, OnlyDevice, DeviceIs

\* What Ends does.
LEMMA EndsDoes ==
  ASSUME Typed, Ends
  PROVE  /\ device.mode = "PLAYING" /\ device.uri \in Urls /\ device.loading = None /\ Upcoming =
               None
         /\ due' /\ DeviceIs(device.uri, "STOPPED", device.loading, device.next, device.queue,
               device.pos)
  BY DEF Typed, DeviceTyped, Devices, HistoryTyped, Givens, Ends, OnlyDevice, DeviceIs

\* What ForeignTakes does.
LEMMA ForeignTakesDoes ==
  ASSUME Typed, ForeignTakes
  PROVE  /\ ~due' /\ Crossed /\ DeviceIs(Foreign, "PLAYING", None, None, device.queue, 0)
  BY  DEF Typed, DeviceTyped, Devices, HistoryTyped, Givens, ForeignTakes, Crosses, OnlyDevice,
       Notes, DeviceIs, Crossed

\* What HandsOn does.
LEMMA HandsOnDoes ==
  ASSUME Typed, NEW m \in {"PLAYING", "PAUSED", "STOPPED"}, HandsOn(m)
  PROVE  /\ device.mode \in {"PLAYING", "PAUSED"} /\ DeviceIs(device.uri, m, device.loading,
               device.next, device.queue, device.pos)
         /\ due' <=> m = "STOPPED" /\ device.uri \in Urls
  BY DEF Typed, DeviceTyped, Devices, HistoryTyped, Givens, HandsOn, OnlyDevice, DeviceIs

\* Every step keeps the type of mine,
LEMMA StepMine ==
  ASSUME Typed, [Next]_vars
  PROVE  MineTyped'
<1>0. /\ mine \in Minds /\ cmd.url \in UrlOrNone /\ arm.url \in UrlOrNone /\ poll.state \in Modes
      /\ Len(device.queue) \in Nat
  BY DEF Typed, MineTyped, TasksTyped, Tasks, PollTyped, Polls, DeviceTyped, Devices
<1>1. CASE UNCHANGED <<mine>>
  BY <1>1, <1>0 DEF MineTyped, Minds, UrlOrNone, Modes
<1>2. ASSUME NEW u \in Urls, Play(u) PROVE MineTyped'
  BY <1>2, <1>0, MindsKept DEF MineTyped, Play
<1>3. CASE PlayChecked
  BY <1>3, <1>0, MindsKept DEF MineTyped, PlayChecked, TakeOver
<1>4. CASE QueuePlayed
  BY <1>4, <1>0 DEF MineTyped, Minds, UrlOrNone, Modes, QueuePlayed, GivesUp, Succeeds
<1>5. CASE UriSet
  BY <1>5, <1>0 DEF MineTyped, Minds, UrlOrNone, Modes, UriSet, GivesUp
<1>6. CASE UriPlayed
  BY <1>6, <1>0 DEF MineTyped, Minds, UrlOrNone, Modes, UriPlayed, GivesUp, Succeeds
<1>7. ASSUME NEW kind \in {"pause", "resume", "stop"}, Command(kind) PROVE MineTyped'
  BY <1>7, <1>0, MindsKept DEF MineTyped, Command, Stops
<1>8. CASE CommandChecked
  BY <1>8, <1>0, MindsKept DEF MineTyped, CommandChecked, Stops, TakeOver
<1>9. CASE CommandTold
  BY <1>9, <1>0 DEF MineTyped, Minds, UrlOrNone, Modes, CommandTold
<1>10. CASE SetNextChecked
  BY <1>10, <1>0, MindsKept DEF MineTyped, SetNextChecked, TakeOver
<1>11. CASE NextSet
  <2>1. CASE \E n \in 1 .. 2 : mine' = [mine EXCEPT !.next = arm.url, !.nr = Len(device.queue) + n]
    <3>1. PICK n \in 1 .. 2 : mine' = [mine EXCEPT !.next = arm.url, !.nr = Len(device.queue) + n]
      BY <2>1
    <3>2. Len(device.queue) + n \in Nat
      BY <1>0
    <3>3. QED
      BY <1>0, <3>1, <3>2 DEF MineTyped, Minds
  <2>2. CASE mine' \in {[mine EXCEPT !.next = arm.url], [mine EXCEPT !.gapless = FALSE], mine}
    BY <1>0, <2>2 DEF MineTyped, Minds
  <2>3. QED
    BY <1>11, <2>1, <2>2 DEF NextSet
<1>12. CASE ClearNextTrack
  BY <1>12, <1>0, MindsKept DEF MineTyped, ClearNextTrack, Forgets
<1>13. CASE ClearNextChecked
  BY <1>13, <1>0, MindsKept DEF MineTyped, ClearNextChecked, Forgets, TakeOver
<1>14. CASE NextRemoved
  BY <1>14, <1>0, MindsKept DEF MineTyped, NextRemoved, Forgets
<1>15. ASSUME NEW kind \in {"select", "check"}, Ask(kind) PROVE MineTyped'
  BY <1>15, <1>0, MindsKept DEF MineTyped, Ask
<1>16. CASE AskAnswered
  BY <1>16, <1>0, MindsKept DEF MineTyped, AskAnswered, TakeOver
<1>17. CASE PollChecked
  BY <1>17, <1>0, MindsKept DEF MineTyped, PollChecked, TakeOver
<1>18. CASE StatusReturned
  BY <1>18, <1>0 DEF MineTyped, Minds, UrlOrNone, Modes, StatusReturned, Changed
<1>19. CASE TrackLooked
  <2>1. CASE poll.saw # None /\ poll.saw = mine.next
    <3>1. mine' = [Unarmed(mine) EXCEPT !.current = mine.next, !.grace = TRUE]
      BY <1>19, <2>1 DEF TrackLooked
    <3>2. Unarmed(mine) \in Minds /\ mine.next \in UrlOrNone
      BY <1>0, MindsKept DEF Minds
    <3>3. QED
      BY <3>1, <3>2 DEF MineTyped, Minds
  <2>2. CASE ~(poll.saw # None /\ poll.saw = mine.next)
    BY <1>0, <1>19, <2>2, MindsKept DEF MineTyped, Modes, TrackLooked, Changed
  <2>3. QED
    BY <2>1, <2>2
<1>20. CASE GraceEnds
  BY <1>20, <1>0 DEF MineTyped, Minds, UrlOrNone, Modes, GraceEnds
<1>. QED
  BY <1>1, <1>2, <1>3, <1>4, <1>5, <1>6, <1>7, <1>8, <1>9, <1>10, <1>11, <1>12, <1>13, <1>14,
     <1>15, <1>16, <1>17, <1>18, <1>19, <1>20, Frames DEF Next, vars

\* what the poll loop holds its type,
LEMMA StepPoll ==
  ASSUME Typed, [Next]_vars
  PROVE  PollTyped'
<1>0. /\ poll \in Polls /\ mine.current \in UrlOrNone
      /\ device.mode \in Modes /\ mine.grace \in BOOLEAN
  BY DEF Typed, MineTyped, Minds, PollTyped, DeviceTyped, Devices
<1>1. CASE UNCHANGED <<poll>>
  BY <1>1, <1>0 DEF PollTyped, Polls, UrlOrNone, Modes, Uris
<1>2. CASE PollWakes
  BY <1>2, <1>0 DEF PollTyped, Polls, UrlOrNone, Modes, Uris, PollWakes, PollAsks
<1>3. CASE PollChecked
  BY <1>3, <1>0 DEF PollTyped, Polls, UrlOrNone, Modes, Uris, PollChecked, Sleeps
<1>4. CASE StatusServed
  BY <1>4, <1>0 DEF PollTyped, Polls, UrlOrNone, Modes, Uris, StatusServed
<1>5. CASE StatusReturned
  BY <1>5, <1>0 DEF PollTyped, Polls, UrlOrNone, Modes, Uris, StatusReturned, PollAsks, Sleeps
<1>6. CASE TrackLooked
  BY <1>6, <1>0 DEF PollTyped, Polls, UrlOrNone, Modes, Uris, TrackLooked, PollAsks, Sleeps,
       Unarmed
<1>. QED
  BY <1>1, <1>2, <1>3, <1>4, <1>5, <1>6, Frames DEF Next, vars

\* the command its,
LEMMA StepCmd ==
  ASSUME Typed, [Next]_vars
  PROVE  cmd' \in Tasks
<1>0. /\ cmd \in Tasks /\ arm \in Tasks /\ ask \in Tasks
      /\ mine.current \in UrlOrNone /\ mine.nr \in Nat
      /\ None \in Uris /\ TasksTyped /\ Idle \in Tasks
  BY DEF Typed, MineTyped, Minds, TasksTyped, Uris, Idle, Tasks, UrlOrNone, Pcs
<1>1. CASE UNCHANGED <<cmd>>
  BY <1>1, <1>0 DEF Tasks, Kinds, Pcs, PlayPcs, UrlOrNone
<1>2. ASSUME NEW u \in Urls, Play(u) PROVE cmd' \in Tasks
  <2>1. CASE \E saw \in Uris : cmd' = Asking("play", u, saw)
    BY <1>0, <2>1 DEF Asking, Tasks, Pcs, UrlOrNone
  <2>2. CASE cmd' = [Idle EXCEPT !.kind = "play", !.pc = FirstRequest, !.url = u]
    <3>1. FirstRequest \in Pcs /\ u \in UrlOrNone
      BY DEF FirstRequest, Pcs, PlayPcs, UrlOrNone
    <3>2. QED
      BY <1>0, <2>2, <3>1 DEF Tasks
  <2>3. QED
    BY <1>2, <2>1, <2>2 DEF Play, Checks
<1>3. CASE PlayChecked
  BY <1>3, <1>0, Going DEF Pcs, PlayPcs, PlayChecked, FirstRequest
<1>4. CASE QueueCleared
  BY <1>4, <1>0, Going DEF Pcs, PlayPcs, QueueCleared
<1>5. CASE UriAdded
  BY <1>5, <1>0, Going DEF Pcs, PlayPcs, UriAdded
<1>6. CASE QueuePlayed
  BY <1>6, <1>0, Going DEF Pcs, PlayPcs, QueuePlayed, GivesUp
<1>7. CASE UriSet
  BY <1>7, <1>0, Going DEF Pcs, PlayPcs, UriSet, GivesUp
<1>8. CASE UriPlayed
  BY <1>8, <1>0, Going DEF Pcs, PlayPcs, UriPlayed, GivesUp
<1>9. CASE TransportReset
  BY <1>9, <1>0, Going DEF Pcs, PlayPcs, TransportReset
<1>10. ASSUME NEW kind \in {"pause", "resume", "stop"}, Command(kind) PROVE cmd' \in Tasks
  BY <1>10, <1>0 DEF Tasks, Kinds, Pcs, PlayPcs, UrlOrNone, Command, Checks, Idle, Asking
<1>11. CASE CommandChecked
  BY <1>11, <1>0, Going DEF Pcs, PlayPcs, CommandChecked
<1>12. CASE CommandDone
  BY <1>12, <1>0, Going DEF Pcs, PlayPcs, CommandDone
<1>13. CASE CommandTold
  BY <1>13, <1>0 DEF Tasks, Kinds, Pcs, PlayPcs, UrlOrNone, CommandTold, Idle
<1>. QED
  BY <1>1, <1>2, <1>3, <1>4, <1>5, <1>6, <1>7, <1>8, <1>9, <1>10, <1>11, <1>12, <1>13, Frames
    DEF Next, vars

\* the arming its,
LEMMA StepArm ==
  ASSUME Typed, [Next]_vars
  PROVE  arm' \in Tasks
<1>0. /\ cmd \in Tasks /\ arm \in Tasks /\ ask \in Tasks
      /\ mine.current \in UrlOrNone /\ mine.nr \in Nat
      /\ None \in Uris /\ TasksTyped /\ Idle \in Tasks
  BY DEF Typed, MineTyped, Minds, TasksTyped, Uris, Idle, Tasks, UrlOrNone, Pcs
<1>1. CASE UNCHANGED <<arm>>
  BY <1>1, <1>0 DEF Tasks, Kinds, Pcs, PlayPcs, UrlOrNone
<1>2. ASSUME NEW u \in Urls, SetNextTrack(u) PROVE arm' \in Tasks
  BY <1>2, <1>0 DEF Tasks, Kinds, Pcs, PlayPcs, UrlOrNone, SetNextTrack, Asking, Idle
<1>3. CASE SetNextChecked
  BY <1>3, <1>0 DEF Tasks, Kinds, Pcs, PlayPcs, UrlOrNone, SetNextChecked, Idle
<1>4. CASE NextSet
  BY <1>4, <1>0 DEF Tasks, Kinds, Pcs, PlayPcs, UrlOrNone, NextSet, Idle
<1>5. CASE ClearNextTrack
  BY <1>5, <1>0 DEF Tasks, Kinds, Pcs, PlayPcs, UrlOrNone, ClearNextTrack, Asking, Idle
<1>6. CASE ClearNextChecked
  BY <1>6, <1>0 DEF Tasks, Kinds, Pcs, PlayPcs, UrlOrNone, ClearNextChecked, Idle
<1>7. CASE NextRemoved
  BY <1>7, <1>0 DEF Tasks, Kinds, Pcs, PlayPcs, UrlOrNone, NextRemoved, Idle
<1>. QED
  BY <1>1, <1>2, <1>3, <1>4, <1>5, <1>6, <1>7, Frames DEF Next, vars

\* the question its,
LEMMA StepAsk ==
  ASSUME Typed, [Next]_vars
  PROVE  ask' \in Tasks
<1>0. /\ cmd \in Tasks /\ arm \in Tasks /\ ask \in Tasks
      /\ mine.current \in UrlOrNone /\ mine.nr \in Nat
      /\ None \in Uris /\ TasksTyped /\ Idle \in Tasks
  BY DEF Typed, MineTyped, Minds, TasksTyped, Uris, Idle, Tasks, UrlOrNone, Pcs
<1>1. CASE UNCHANGED <<ask>>
  BY <1>1, <1>0 DEF Tasks, Kinds, Pcs, PlayPcs, UrlOrNone
<1>2. ASSUME NEW kind \in {"select", "check"}, Ask(kind) PROVE ask' \in Tasks
  BY <1>2, <1>0 DEF Tasks, Kinds, Pcs, PlayPcs, UrlOrNone, Ask, Asking, Idle
<1>3. CASE AskAnswered
  BY <1>3, <1>0 DEF Tasks, Kinds, Pcs, PlayPcs, UrlOrNone, AskAnswered, Idle
<1>. QED
  BY <1>1, <1>2, <1>3, Frames DEF Next, vars
\* Every step keeps the shape of the command,
LEMMA StepCmdShape ==
  ASSUME Typed, Shape, [Next]_vars
  PROVE  CmdShape'
<1>0. /\ None \notin Urls /\ Typed /\ CmdShape /\ ArmShape /\ PollShape /\ MineShape
  BY DlnaAssumption DEF Shape
<1>1. CASE UNCHANGED <<sonos, cmd>>
  BY <1>1, <1>0 DEF CmdShape, Kinds, PlayPcs
<1>2. ASSUME NEW u \in Urls, Play(u) PROVE CmdShape'
  <2>1. CASE CmdIs("play", "checking", u, mine.current, cmd'.saw)
    BY <2>1 DEF CmdShape, CmdIs, Kinds
  <2>2. CASE CmdIs("play", FirstRequest, u, None, None)
    <3>1. sonos' = sonos
      BY <1>2, Frames
    <3>2. QED
      BY <2>2, <3>1, FirstIs DEF CmdShape, CmdIs, Kinds
  <2>3. QED
    BY <1>0, <1>2, <2>1, <2>2, PlayDoes
<1>3. CASE PlayChecked
  <2>1. CASE CmdIs("none", "none", None, None, None)
    BY <2>1 DEF CmdShape, CmdIs, Kinds, PlayPcs
  <2>2. CASE CmdIs("play", FirstRequest, cmd.url, None, None)
    <3>1. sonos' = sonos /\ cmd.url \in Urls
      BY <1>0, <1>3, Frames, PlayCheckedDoes DEF CmdShape
    <3>2. QED
      BY <2>2, <3>1, FirstIs DEF CmdShape, CmdIs, Kinds
  <2>3. QED
    BY <1>0, <1>3, <2>1, <2>2, PlayCheckedDoes
<1>4. CASE QueueCleared
  BY <1>0, <1>4, QueueClearedDoes, Frames DEF CmdShape, Kinds, PlayPcs, DeviceIs, CmdIs, Crossed
<1>5. CASE UriAdded
  BY <1>0, <1>5, UriAddedDoes, Frames DEF CmdShape, Kinds, PlayPcs, DeviceIs, CmdIs
<1>6. CASE QueuePlayed
  BY <1>0, <1>6, QueuePlayedDoes, Frames DEF CmdShape, Kinds, PlayPcs, MineIs, DeviceIs, CmdIs,
       Succeeded, HalfWay, Crossed
<1>7. CASE UriSet
  BY <1>0, <1>7, UriSetDoes, Frames DEF CmdShape, Kinds, PlayPcs, MineIs, DeviceIs, CmdIs,
       HalfWay, Crossed
<1>8. CASE UriPlayed
  BY <1>0, <1>8, UriPlayedDoes, Frames DEF CmdShape, Kinds, PlayPcs, MineIs, DeviceIs, CmdIs,
       Succeeded, HalfWay, Crossed
<1>9. CASE TransportReset
  BY <1>0, <1>9, TransportResetDoes, Frames DEF CmdShape, Kinds, PlayPcs, DeviceIs, CmdIs, Crossed
<1>10. ASSUME NEW kind \in {"pause", "resume", "stop"}, Command(kind) PROVE CmdShape'
  BY <1>0, <1>10, CommandDoes, Frames DEF CmdShape, Kinds, PlayPcs, MineIs, CmdIs, Forgotten,
       StopForgets, Answer, Idle
<1>11. CASE CommandChecked
  BY <1>0, <1>11, CommandCheckedDoes, Frames DEF CmdShape, Kinds, PlayPcs, MineIs, CmdIs,
       TakesOver, Forgotten, StopForgets, ForeignSeen, Ours
<1>12. CASE CommandDone
  BY <1>0, <1>12, CommandDoneDoes, Frames DEF CmdShape, Kinds, PlayPcs, DeviceIs, CmdIs, Crossed
<1>13. CASE CommandTold
  BY <1>0, <1>13, CommandToldDoes, Frames DEF CmdShape, Kinds, PlayPcs, MineIs, CmdIs, Idle
<1>. QED
  BY <1>1, <1>2, <1>3, <1>4, <1>5, <1>6, <1>7, <1>8, <1>9, <1>10, <1>11, <1>12, <1>13, Frames
    DEF Next, vars

\* of the arming,
LEMMA StepArmShape ==
  ASSUME Typed, Shape, [Next]_vars
  PROVE  ArmShape'
<1>0. /\ None \notin Urls /\ Typed /\ CmdShape /\ ArmShape /\ PollShape /\ MineShape
  BY DlnaAssumption DEF Shape
<1>1. CASE UNCHANGED <<sonos, arm>>
  BY <1>1, <1>0 DEF ArmShape
<1>2. ASSUME NEW u \in Urls, SetNextTrack(u) PROVE ArmShape'
  BY <1>0, <1>2, SetNextTrackDoes, Frames DEF ArmShape, ArmIs, Answer, Asks, Typed, MineTyped,
       Minds, UrlOrNone, Idle
<1>3. CASE SetNextChecked
  BY <1>0, <1>3, SetNextCheckedDoes, Frames DEF ArmShape, MineIs, ArmIs, TakesOver, ForeignSeen,
       Ours, Idle
<1>4. CASE NextSet
  BY <1>0, <1>4, NextSetDoes, Frames DEF ArmShape, MineIs, DeviceIs, ArmIs, Idle
<1>5. CASE ClearNextTrack
  BY <1>0, <1>5, ClearNextTrackDoes, Frames DEF ArmShape, MineIs, ArmIs, Forgotten, Answer, Asks,
       Idle
<1>6. CASE ClearNextChecked
  <2>1. arm.kind = "clear" /\ sonos /\ sonos' = sonos /\ arm.pc = "checking"
    BY <1>0, <1>6, ClearNextCheckedDoes, Frames DEF ArmShape
  <2>2. ArmIs("none", "none", None, None, None, 0) => ArmShape'
    BY <2>1 DEF ArmIs, ArmShape
  <2>3. ArmIs("clear", "removing", None, None, None, mine.nr) => ArmShape'
    BY <2>1 DEF ArmIs, ArmShape
  <2>4. QED
    BY <1>0, <1>6, <2>2, <2>3, ClearNextCheckedDoes
<1>7. CASE NextRemoved
  BY <1>0, <1>7, NextRemovedDoes, Frames DEF ArmShape, MineIs, DeviceIs, ArmIs, Forgotten, Idle
<1>. QED
  BY <1>1, <1>2, <1>3, <1>4, <1>5, <1>6, <1>7, Frames DEF Next, vars

\* of the poll loop,
LEMMA StepPollShape ==
  ASSUME Typed, Shape, [Next]_vars
  PROVE  PollShape'
<1>0. /\ None \notin Urls /\ Typed /\ CmdShape /\ ArmShape /\ PollShape /\ MineShape
  BY DlnaAssumption DEF Shape
<1>1. CASE UNCHANGED <<poll>>
  BY <1>1, <1>0 DEF PollShape
<1>2. CASE PollWakes
  BY <1>0, <1>2, PollWakesDoes, Frames DEF PollShape, PollIs, Answer
<1>3. CASE PollChecked
  BY <1>0, <1>3, PollCheckedDoes, Frames DEF PollShape, MineIs, PollIs, TakesOver, PollSleeps,
       ForeignSeen
<1>4. CASE StatusServed
  BY <1>0, <1>4, StatusServedDoes, Frames DEF PollShape, PollIs
<1>5. CASE StatusReturned
  BY <1>0, <1>5, StatusReturnedDoes, Frames DEF PollShape, MineIs, PollIs, PollSleeps, ChangedTo,
       Answer
<1>6. CASE TrackLooked
  BY <1>0, <1>6, TrackLookedDoes, Frames DEF PollShape, MineIs, PollIs, PollSleeps, ChangedTo,
       Answer
<1>. QED
  BY <1>1, <1>2, <1>3, <1>4, <1>5, <1>6, Frames DEF Next, vars

\* and of what the backend remembers.
LEMMA StepMineShape ==
  ASSUME Typed, Shape, [Next]_vars
  PROVE  MineShape'
<1>0. /\ None \notin Urls /\ Typed /\ CmdShape /\ ArmShape /\ PollShape /\ MineShape
  BY DlnaAssumption DEF Shape
<1>1. CASE UNCHANGED <<mine, cmd>>
  BY <1>1, <1>0 DEF MineShape, CmdShape, Kinds, PlayPcs
<1>2. ASSUME NEW u \in Urls, Play(u) PROVE MineShape'
  <2>1. ~mine.external /\ cmd.kind = "none" /\ cmd.pc = "none"
    BY <1>0, <1>2, PlayDoes DEF Idle
  <2>2. CASE CmdIs("play", "checking", u, mine.current, cmd'.saw) /\ mine' = mine
    BY <1>0, <2>1, <2>2 DEF MineShape, CmdIs, Kinds
  <2>3. CASE CmdIs("play", FirstRequest, u, None, None) /\ StartsNow
    BY <1>0, <2>1, <2>3, FirstIs DEF MineShape, CmdIs, Kinds, StartsNow, MineIs
  <2>4. QED
    BY <1>0, <1>2, <2>2, <2>3, PlayDoes
<1>3. CASE PlayChecked
  BY <1>0, <1>3, FirstIs, PlayCheckedDoes, Frames DEF MineShape, CmdShape, Kinds, PlayPcs, MineIs,
       CmdIs, StartsNow, TakesOver, ForeignSeen, FirstRequest, Asks
<1>4. CASE QueueCleared
  BY <1>0, <1>4, QueueClearedDoes, Frames DEF MineShape, CmdShape, Kinds, PlayPcs, DeviceIs,
       CmdIs, Crossed
<1>5. CASE UriAdded
  BY <1>0, <1>5, UriAddedDoes, Frames DEF MineShape, CmdShape, Kinds, PlayPcs, DeviceIs, CmdIs
<1>6. CASE QueuePlayed
  BY <1>0, <1>6, QueuePlayedDoes, Frames DEF MineShape, CmdShape, Kinds, PlayPcs, MineIs,
       DeviceIs, CmdIs, Succeeded, HalfWay, Crossed
<1>7. CASE UriSet
  BY <1>0, <1>7, UriSetDoes, Frames DEF MineShape, CmdShape, Kinds, PlayPcs, MineIs, DeviceIs,
       CmdIs, HalfWay, Crossed
<1>8. CASE UriPlayed
  BY <1>0, <1>8, UriPlayedDoes, Frames DEF MineShape, CmdShape, Kinds, PlayPcs, MineIs, DeviceIs,
       CmdIs, Succeeded, HalfWay, Crossed
<1>9. CASE TransportReset
  BY <1>0, <1>9, TransportResetDoes, Frames DEF MineShape, CmdShape, Kinds, PlayPcs, DeviceIs,
       CmdIs, Crossed
<1>10. ASSUME NEW kind \in {"pause", "resume", "stop"}, Command(kind) PROVE MineShape'
  BY <1>0, <1>10, CommandDoes, Frames DEF MineShape, CmdShape, Kinds, PlayPcs, MineIs, CmdIs,
       Forgotten, StopForgets, Answer, Idle
<1>11. CASE CommandChecked
  BY <1>0, <1>11, CommandCheckedDoes, Frames DEF MineShape, CmdShape, Kinds, PlayPcs, MineIs,
       CmdIs, TakesOver, Forgotten, StopForgets, ForeignSeen, Ours, Asks
<1>12. CASE CommandDone
  BY <1>0, <1>12, CommandDoneDoes, Frames DEF MineShape, CmdShape, Kinds, PlayPcs, DeviceIs,
       CmdIs, Crossed
<1>13. CASE CommandTold
  BY <1>0, <1>13, CommandToldDoes, Frames DEF MineShape, CmdShape, Kinds, PlayPcs, MineIs, CmdIs,
       Idle
<1>14. CASE SetNextChecked
  BY <1>0, <1>14, SetNextCheckedDoes, Frames DEF MineShape, CmdShape, Kinds, PlayPcs, MineIs,
       ArmIs, TakesOver, ForeignSeen, Ours, Asks, Idle
<1>15. CASE NextSet
  BY <1>0, <1>15, NextSetDoes, Frames DEF MineShape, CmdShape, Kinds, PlayPcs, MineIs, DeviceIs,
       ArmIs, Idle
<1>16. CASE ClearNextTrack
  BY <1>0, <1>16, ClearNextTrackDoes, Frames DEF MineShape, CmdShape, Kinds, PlayPcs, MineIs,
       ArmIs, Forgotten, Answer, Idle
<1>17. CASE ClearNextChecked
  BY <1>0, <1>17, ClearNextCheckedDoes, Frames DEF MineShape, CmdShape, Kinds, PlayPcs, MineIs,
       ArmIs, TakesOver, Forgotten, ForeignSeen, Ours, Asks, Idle
<1>18. CASE NextRemoved
  BY <1>0, <1>18, NextRemovedDoes, Frames DEF MineShape, CmdShape, Kinds, PlayPcs, MineIs,
       DeviceIs, ArmIs, Forgotten, Idle
<1>19. ASSUME NEW kind \in {"select", "check"}, Ask(kind) PROVE MineShape'
  BY <1>0, <1>19, AskDoes, Frames DEF MineShape, CmdShape, Kinds, PlayPcs, MineIs, AskIs,
       Released, Answer, Asks, Idle
<1>20. CASE AskAnswered
  BY <1>0, <1>20, AskAnsweredDoes, Frames DEF MineShape, CmdShape, Kinds, PlayPcs, MineIs, AskIs,
       TakesOver, Released, ForeignSeen, Asks, Idle
<1>21. CASE PollChecked
  BY <1>0, <1>21, PollCheckedDoes, Frames DEF MineShape, CmdShape, Kinds, PlayPcs, MineIs, PollIs,
       TakesOver, PollSleeps, ForeignSeen, Asks
<1>22. CASE StatusReturned
  BY <1>0, <1>22, StatusReturnedDoes, Frames DEF MineShape, CmdShape, Kinds, PlayPcs, MineIs,
       PollIs, PollSleeps, ChangedTo, Answer
<1>23. CASE TrackLooked
  BY <1>0, <1>23, TrackLookedDoes, Frames DEF MineShape, CmdShape, Kinds, PlayPcs, MineIs, PollIs,
       PollSleeps, ChangedTo, Answer
<1>24. CASE GraceEnds
  BY <1>0, <1>24, GraceEndsDoes, Frames DEF MineShape, CmdShape, Kinds, PlayPcs, MineIs
<1>. QED
  BY <1>1, <1>2, <1>3, <1>4, <1>5, <1>6, <1>7, <1>8, <1>9, <1>10, <1>11, <1>12, <1>13, <1>14,
     <1>15, <1>16, <1>17, <1>18, <1>19, <1>20, <1>21, <1>22, <1>23, <1>24, Frames DEF Next, vars

\* the renderer its,
LEMMA StepDevice ==
  ASSUME Typed, Shape, [Next]_vars
  PROVE  DeviceTyped'
<1>0. /\ sonos \in BOOLEAN /\ sonos' = sonos /\ device \in Devices /\ DeviceTyped
      /\ device.pos <= Len(device.queue) /\ device.queue \in Seq(Urls) /\ device.pos \in Nat
      /\ cmd.url \in UrlOrNone /\ arm.url \in UrlOrNone
      /\ cmd.pc = "addUri" => cmd.url \in Urls
      /\ arm.pc = "setting" => arm.url \in Urls
  <2>1. /\ cmd.pc = "addUri" => cmd.url \in Urls
        /\ arm.pc = "setting" => arm.url \in Urls
    BY DEF Shape, CmdShape, ArmShape, Kinds
  <2>2. QED
    BY <2>1, Frames DEF Typed, DeviceTyped, Devices, TasksTyped, Tasks, Next, vars
<1>1. CASE UNCHANGED <<sonos, device>>
  BY <1>1, <1>0 DEF DeviceTyped, Devices, Modes, UrlOrNone, Uris
<1>2. CASE QueueCleared
  <2> DEFINE m == IF device.pos = 0 THEN device.mode ELSE "STOPPED"
  <2>1. m \in Modes
    BY <1>0 DEF Devices, Modes
  <2>2. CASE device' = [device EXCEPT !.queue = <<>>, !.pos = 0, !.mode = m]
    <3>1. device' \in Devices /\ device'.queue = <<>> /\ device'.pos = 0
      <4> HIDE DEF m
      <4>1. QED
        BY <1>0, <2>1, <2>2, UrlSeqs DEF Devices
    <3>2. QED
      BY <1>0, <3>1, UrlSeqs DEF DeviceTyped
  <2>3. CASE UNCHANGED device
    BY <1>0, <2>3 DEF DeviceTyped
  <2>4. QED
    BY <1>2, <2>2, <2>3 DEF QueueCleared
<1>3. CASE UriAdded
  <2>1. ASSUME NEW n \in 1 .. 2, Adds(n, cmd.url) PROVE DeviceTyped'
    BY <1>0, <1>3, <2>1, Added DEF DeviceTyped, UriAdded, DeviceIs
  <2>2. QED
    BY <1>0, <1>3, <2>1 DEF UriAdded, DeviceTyped
<1>4. CASE QueuePlayed
  <2>1. CASE device.queue # <<>> /\ device' = Loads(device.queue[1], 1)
    <3>1. device.queue[1] \in UrlOrNone /\ Len(device.queue) >= 1
      BY <1>0, <2>1, UrlSeqs DEF UrlOrNone
    <3>2. device' \in Devices /\ device'.queue = device.queue /\ device'.pos = 1
      BY <1>0, <2>1, <3>1 DEF Devices, Modes, Loads
    <3>3. QED
      BY <1>0, <3>1, <3>2 DEF DeviceTyped
  <2>2. QED
    BY <1>0, <1>4, <2>1 DEF QueuePlayed, GivesUp, DeviceTyped
<1>5. CASE UriSet
  <2>1. CASE device' = [device EXCEPT !.loading = cmd.url, !.next = None, !.pos = 0,
                                      !.mode = "STOPPED"]
    <3>1. device' \in Devices /\ device'.queue = device.queue /\ device'.pos = 0
      BY <1>0, <2>1 DEF Devices, Modes, UrlOrNone
    <3>2. QED
      BY <1>0, <3>1 DEF DeviceTyped
  <2>2. QED
    BY <1>0, <1>5, <2>1 DEF UriSet, GivesUp, DeviceTyped
<1>6. CASE UriPlayed
  <2>1. CASE device' = Loads(device.loading, 0)
    <3>1. device' \in Devices /\ device'.queue = device.queue /\ device'.pos = 0
      BY <1>0, <2>1 DEF Devices, Modes, Loads
    <3>2. QED
      BY <1>0, <3>1 DEF DeviceTyped
  <2>2. CASE device' = [device EXCEPT !.mode = "PLAYING"]
    <3>1. device' \in Devices /\ device'.queue = device.queue /\ device'.pos = device.pos
      BY <1>0, <2>2 DEF Devices, Modes
    <3>2. QED
      BY <1>0, <3>1 DEF DeviceTyped
  <2>3. QED
    BY <1>0, <1>6, <2>1, <2>2 DEF UriPlayed, GivesUp, DeviceTyped
<1>7. CASE TransportReset
  BY <1>7, <1>0 DEF DeviceTyped, Devices, Modes, UrlOrNone, Uris, TransportReset
<1>8. CASE CommandDone
  BY <1>8, <1>0 DEF DeviceTyped, Devices, Modes, UrlOrNone, Uris, CommandDone, Mode, Refused
<1>9. CASE NextSet
  <2>1. ASSUME NEW n \in 1 .. 2, Adds(n, arm.url) PROVE DeviceTyped'
    BY <1>0, <1>9, <2>1, Added DEF DeviceTyped, NextSet, DeviceIs
  <2>2. CASE device' = [device EXCEPT !.next = arm.url]
    <3>1. device' \in Devices /\ device'.queue = device.queue /\ device'.pos = device.pos
      BY <1>0, <2>2 DEF Devices
    <3>2. QED
      BY <1>0, <3>1 DEF DeviceTyped
  <2>3. QED
    BY <1>0, <1>9, <2>1, <2>2 DEF NextSet, DeviceTyped
<1>10. CASE NextRemoved
  <2>1. CASE UNCHANGED device
    BY <1>0, <2>1 DEF DeviceTyped
  <2> DEFINE q == RemoveAt(device.queue, arm.nr)
             m == IF arm.nr = device.pos THEN "STOPPED" ELSE device.mode
             p == IF arm.nr = device.pos THEN 0
                  ELSE IF arm.nr < device.pos THEN device.pos - 1 ELSE device.pos
  <2>2. CASE /\ arm.nr \in DOMAIN device.queue
             /\ device' = [device EXCEPT !.queue = q, !.mode = m, !.pos = p]
    <3>1. arm.nr \in 1 .. Len(device.queue)
      BY <1>0, <2>2
    <3>2. q \in Seq(Urls) /\ Len(q) = Len(device.queue) - 1
      BY <1>0, <3>1, Removed
    <3>3. m \in Modes /\ p \in Nat /\ p <= Len(device.queue) - 1
      BY <1>0, <3>1 DEF Devices, Modes
    <3> HIDE DEF q, m, p
    <3>4. device' \in Devices /\ device'.queue = q /\ device'.pos = p
      BY <1>0, <2>2, <3>2, <3>3 DEF Devices
    <3>5. QED
      BY <1>0, <3>2, <3>3, <3>4 DEF DeviceTyped
  <2>3. QED
    BY <1>10, <2>1, <2>2 DEF NextRemoved
<1>11. CASE Loaded
  BY <1>11, <1>0 DEF DeviceTyped, Devices, Modes, UrlOrNone, Uris, Loaded
<1>12. CASE Advances
  <2>1. /\ Upcoming \in Urls /\ Upcoming \in Uris
        /\ sonos => device.pos \in 1 .. Len(device.queue) - 1
    BY <1>0, <1>12, UpcomingTyped DEF Advances, UrlOrNone, Uris
  <2>2. CASE sonos
    <3>1. device' = [device EXCEPT !.uri = Upcoming, !.pos = device.pos + 1]
      BY <1>12, <2>2 DEF Advances
    <3>2. device.pos + 1 \in Nat
      BY <1>0
    <3>3. device' \in Devices /\ device'.queue = device.queue /\ device'.pos = device.pos + 1
      BY <1>0, <2>1, <3>1, <3>2 DEF Devices
    <3>4. QED
      BY <1>0, <2>1, <2>2, <3>3 DEF DeviceTyped
  <2>3. CASE ~sonos
    <3>1. device' \in Devices /\ device'.queue = device.queue /\ device'.pos = device.pos
      BY <1>0, <1>12, <2>1, <2>3 DEF Advances, Devices, UrlOrNone
    <3>2. QED
      BY <1>0, <3>1 DEF DeviceTyped
  <2>4. QED
    BY <1>0, <2>2, <2>3
<1>13. CASE Ends
  BY <1>13, <1>0 DEF DeviceTyped, Devices, Modes, UrlOrNone, Uris, Ends
<1>14. CASE ForeignTakes
  <2>1. device' \in Devices /\ device'.queue = device.queue /\ device'.pos = 0
    BY <1>0, <1>14 DEF ForeignTakes, Devices, Modes, UrlOrNone, Uris
  <2>2. QED
    BY <1>0, <2>1 DEF DeviceTyped
<1>15. ASSUME NEW m \in {"PLAYING", "PAUSED", "STOPPED"}, HandsOn(m) PROVE DeviceTyped'
  BY <1>15, <1>0 DEF DeviceTyped, Devices, Modes, UrlOrNone, Uris, HandsOn
<1>. QED
  BY <1>1, <1>2, <1>3, <1>4, <1>5, <1>6, <1>7, <1>8, <1>9, <1>10, <1>11, <1>12, <1>13, <1>14,
     <1>15, Frames DEF Next, vars

\* and the history its.
LEMMA StepHistory ==
  ASSUME Typed, [Next]_vars
  PROVE  HistoryTyped'
<1>0. due \in BOOLEAN /\ given \in Givens /\ HistoryTyped
  BY DEF Typed, HistoryTyped
<1>01. Orphans \/ (\E t : TakeOver(t)) => given' \in Givens
  BY <1>0, Noted DEF Orphans, TakeOver
<1>1. CASE UNCHANGED <<due, given>>
  BY <1>1, <1>0 DEF HistoryTyped, Givens
<1>2. CASE PlayChecked
  BY <1>2, <1>0 DEF HistoryTyped, Givens, PlayChecked, TakeOver, Notes
<1>3. CASE QueueCleared
  BY <1>3, <1>0 DEF HistoryTyped, Givens, QueueCleared, Crosses, Notes
<1>4. CASE UriAdded
  BY <1>4, <1>0 DEF HistoryTyped, Givens, UriAdded, Notes
<1>5. CASE QueuePlayed
  BY <1>5, <1>0 DEF HistoryTyped, Givens, QueuePlayed, Crosses, GivesUp, Succeeds, Notes
<1>6. CASE UriSet
  BY <1>6, <1>0 DEF HistoryTyped, Givens, UriSet, Crosses, GivesUp, Notes
<1>7. CASE UriPlayed
  BY <1>7, <1>0 DEF HistoryTyped, Givens, UriPlayed, Crosses, GivesUp, Succeeds, Notes
<1>8. CASE TransportReset
  BY <1>8, <1>0 DEF HistoryTyped, Givens, TransportReset, Crosses, Notes
<1>9. ASSUME NEW kind \in {"pause", "resume", "stop"}, Command(kind) PROVE HistoryTyped'
  BY <1>9, <1>0 DEF HistoryTyped, Givens, Command, Orphans, Notes
<1>10. CASE CommandChecked
  BY <1>10, <1>0 DEF HistoryTyped, Givens, CommandChecked, Orphans, TakeOver, Notes
<1>11. CASE CommandDone
  BY <1>11, <1>0 DEF HistoryTyped, Givens, CommandDone, Crosses, Notes
<1>12. CASE CommandTold
  BY <1>12, <1>0 DEF HistoryTyped, Givens, CommandTold, Notes
<1>13. CASE SetNextChecked
  BY <1>13, <1>0, <1>01 DEF HistoryTyped, SetNextChecked, OnlyArm
<1>14. CASE NextSet
  <2>1. due' = due
    BY <1>14 DEF NextSet, OnlyArm
  <2>2. CASE Notes("late", Overtaken)
    <3>1. Overtaken \in BOOLEAN
      BY DEF Overtaken
    <3>2. QED
      BY <1>0, <2>1, <2>2, <3>1, Noted DEF HistoryTyped
  <2>3. CASE \E n \in 1 .. 2 :
               given' = [given EXCEPT !.late = @ \/ Overtaken, !.resent = @ \/ n = 2,
                                      !.orphaned = @ \/ Upcoming \notin {None, arm.url}]
    BY <1>0, <2>1, <2>3 DEF HistoryTyped, Givens
  <2>4. CASE UNCHANGED given
    BY <1>0, <2>1, <2>4 DEF HistoryTyped
  <2>5. \/ Notes("late", Overtaken)
        \/ \E n \in 1 .. 2 :
             given' = [given EXCEPT !.late = @ \/ Overtaken, !.resent = @ \/ n = 2,
                                    !.orphaned = @ \/ Upcoming \notin {None, arm.url}]
        \/ UNCHANGED given
    BY <1>14, Zenon DEF NextSet
  <2>6. QED
    BY <2>2, <2>3, <2>4, <2>5
<1>15. CASE ClearNextTrack
  BY <1>15, <1>0, <1>01 DEF HistoryTyped, ClearNextTrack, Forgets, OnlyArm
<1>16. CASE ClearNextChecked
  BY <1>16, <1>0, <1>01 DEF HistoryTyped, ClearNextChecked, Forgets, OnlyArm
<1>17. CASE NextRemoved
  <2>1. CASE given' = [given EXCEPT !.cut = @ \/ arm.nr = device.pos,
                               !.orphaned = @ \/ device.uri # mine.current]
    BY <1>0, <1>17, <2>1 DEF HistoryTyped, Givens, NextRemoved, OnlyArm
  <2>2. CASE Forgets /\ UNCHANGED due
    BY <1>0, <1>01, <2>2 DEF HistoryTyped, Forgets
  <2>3. QED
    BY <1>17, <2>1, <2>2 DEF NextRemoved, OnlyArm
<1>18. CASE AskAnswered
  BY <1>18, <1>0, <1>01, Noted DEF HistoryTyped, AskAnswered, OnlyAsk
<1>19. CASE PollChecked
  BY <1>19, <1>0 DEF HistoryTyped, Givens, PollChecked, TakeOver, Notes
<1>20. CASE StatusServed
  BY <1>20, <1>0 DEF HistoryTyped, Givens, StatusServed
<1>21. CASE StatusReturned
  BY <1>21, <1>0 DEF HistoryTyped, Givens, StatusReturned, Changed
<1>22. CASE TrackLooked
  BY <1>22, <1>0 DEF HistoryTyped, Givens, TrackLooked, Changed
<1>23. CASE Loaded
  BY <1>23, <1>0 DEF HistoryTyped, Givens, Loaded
<1>24. CASE Ends
  BY <1>24, <1>0 DEF HistoryTyped, Givens, Ends
<1>25. CASE ForeignTakes
  BY <1>25, <1>0 DEF HistoryTyped, Givens, ForeignTakes, Crosses, Notes
<1>26. ASSUME NEW m \in {"PLAYING", "PAUSED", "STOPPED"}, HandsOn(m) PROVE HistoryTyped'
  BY <1>26, <1>0 DEF HistoryTyped, Givens, HandsOn
<1>27. CASE GraceEnds
  <2>1. Unsettled \in BOOLEAN
    BY DEF Unsettled
  <2>2. QED
    BY <1>0, <1>27, <2>1 DEF HistoryTyped, Givens, GraceEnds
<1>. QED
  BY <1>1, <1>2, <1>3, <1>4, <1>5, <1>6, <1>7, <1>8, <1>9, <1>10, <1>11, <1>12, <1>13, <1>14,
     <1>15, <1>16, <1>17, <1>18, <1>19, <1>20, <1>21, <1>22, <1>23, <1>24, <1>25, <1>26, <1>27,
     Frames DEF
       Next, vars

\* So a step keeps the types and the shape.
LEMMA StepTyped ==
  ASSUME Typed, Shape, [Next]_vars
  PROVE  Typed' /\ Shape'
  BY StepMine, StepPoll, StepCmd, StepArm, StepAsk, StepDevice, StepHistory, StepCmdShape,
     StepArmShape, StepPollShape, StepMineShape DEF Typed, TasksTyped, Shape

\* They hold at the start.
LEMMA InitTyped ==
  ASSUME Init
  PROVE  Typed /\ Shape
<1>1. mine \in Minds /\ poll \in Polls
  BY DEF Init, Minds, Polls, UrlOrNone, Uris, Modes
<1>2. Idle \in Tasks
  BY DEF Idle, Tasks, UrlOrNone, Uris, Pcs
<1>3. DeviceTyped
  <2>1. PICK u \in {None, Foreign} :
          device = [uri |-> u, mode |-> IF u = None THEN "STOPPED" ELSE "PLAYING",
                    loading |-> None, next |-> None, queue |-> <<>>, pos |-> 0]
    BY DEF Init
  <2>2. QED
    BY <2>1, UrlSeqs DEF Init, DeviceTyped, Devices, Uris, UrlOrNone, Modes
<1>4. HistoryTyped
  BY DEF Init, HistoryTyped, Givens
<1>5. Shape
  BY DEF Init, Shape, CmdShape, ArmShape, PollShape, MineShape, Idle, Kinds, PlayPcs
<1>6. QED
  BY <1>1, <1>2, <1>3, <1>4, <1>5 DEF Init, Typed, MineTyped, PollTyped, TasksTyped

\* A step that gives the renderer back is a new selection.
LEMMA StepReturns ==
  ASSUME Typed, Shape, [Next]_vars, mine.external, ~mine'.external
  PROVE  ask' = Idle /\ mine'.current = None
<1>0. /\ mine \in Minds /\ mine.current # None /\ ~mine.starting
      /\ MineShape /\ CmdShape /\ ~Asks /\ ArmShape
      /\ (cmd.kind = "play" => cmd.pc = "checking")
  BY DEF Shape, MineShape, Typed, MineTyped, Asks
<1>1. CASE UNCHANGED mine
  BY <1>1
<1>2. ASSUME NEW u \in Urls, Play(u) PROVE ask' = Idle /\ mine'.current = None
  BY <1>0, <1>2, PlayDoes DEF MineIs, CmdIs, StartsNow, Answer, CmdShape, PlayPcs, Kinds
<1>3. CASE PlayChecked
  BY <1>0, <1>3, PlayCheckedDoes DEF MineIs, CmdIs, StartsNow, TakesOver, ForeignSeen, CmdShape,
       PlayPcs, Kinds
<1>4. CASE QueuePlayed
  BY <1>0, <1>4, QueuePlayedDoes DEF MineIs, DeviceIs, CmdIs, Succeeded, HalfWay, Crossed,
       CmdShape, PlayPcs, Kinds
<1>5. CASE UriSet
  BY <1>0, <1>5, UriSetDoes DEF MineIs, DeviceIs, CmdIs, HalfWay, Crossed, CmdShape, PlayPcs,
       Kinds
<1>6. CASE UriPlayed
  BY <1>0, <1>6, UriPlayedDoes DEF MineIs, DeviceIs, CmdIs, Succeeded, HalfWay, Crossed, CmdShape,
       PlayPcs, Kinds
<1>7. ASSUME NEW kind \in {"pause", "resume", "stop"}, Command(kind)
      PROVE  ask' = Idle /\ mine'.current = None
  BY <1>0, <1>7, CommandDoes DEF MineIs, CmdIs, Forgotten, StopForgets, Answer, CmdShape, PlayPcs,
       Kinds
<1>8. CASE CommandChecked
  BY <1>0, <1>8, CommandCheckedDoes DEF MineIs, CmdIs, TakesOver, Forgotten, StopForgets,
       ForeignSeen, Ours, CmdShape, PlayPcs, Kinds
<1>9. CASE CommandTold
  BY <1>0, <1>9, CommandToldDoes DEF MineIs, CmdIs, CmdShape, PlayPcs, Kinds
<1>10. CASE SetNextChecked
  BY <1>0, <1>10, SetNextCheckedDoes DEF MineIs, ArmIs, TakesOver, ForeignSeen, Ours, CmdShape,
       PlayPcs, Kinds
<1>11. CASE NextSet
  BY <1>0, <1>11, NextSetDoes DEF MineIs, DeviceIs, ArmIs, CmdShape, PlayPcs, Kinds
<1>12. CASE ClearNextTrack
  BY <1>0, <1>12, ClearNextTrackDoes DEF MineIs, ArmIs, Forgotten, Answer, CmdShape, PlayPcs,
       Kinds
<1>13. CASE ClearNextChecked
  BY <1>0, <1>13, ClearNextCheckedDoes DEF MineIs, ArmIs, TakesOver, Forgotten, ForeignSeen, Ours,
       CmdShape, PlayPcs, Kinds
<1>14. CASE NextRemoved
  BY <1>0, <1>14, NextRemovedDoes DEF MineIs, DeviceIs, ArmIs, Forgotten, CmdShape, PlayPcs, Kinds
<1>15. ASSUME NEW kind \in {"select", "check"}, Ask(kind) PROVE ask' = Idle /\ mine'.current = None
  BY <1>0, <1>15, AskDoes DEF MineIs, AskIs, Released, Answer, CmdShape, PlayPcs, Kinds
<1>16. CASE AskAnswered
  <2>1. ask' = Idle
    BY <1>0, <1>16, TakenOver DEF Typed, AskAnswered, TakesOver, MineIs
  <2>2. mine'.current = None
    BY <1>0, <1>16, AskAnsweredDoes DEF MineIs, TakesOver, Released
  <2>3. QED
    BY <2>1, <2>2
<1>17. CASE PollChecked
  BY <1>0, <1>17, PollCheckedDoes DEF MineIs, PollIs, TakesOver, PollSleeps, ForeignSeen,
       CmdShape, PlayPcs, Kinds
<1>18. CASE StatusReturned
  BY <1>0, <1>18, StatusReturnedDoes DEF MineIs, PollIs, PollSleeps, ChangedTo, Answer, CmdShape,
       PlayPcs, Kinds
<1>19. CASE TrackLooked
  BY <1>0, <1>19, TrackLookedDoes DEF MineIs, PollIs, PollSleeps, ChangedTo, Answer, CmdShape,
       PlayPcs, Kinds
<1>20. CASE GraceEnds
  BY <1>0, <1>20, GraceEndsDoes DEF MineIs, CmdShape, PlayPcs, Kinds
<1>. QED
  BY <1>1, <1>2, <1>3, <1>4, <1>5, <1>6, <1>7, <1>8, <1>9, <1>10, <1>11, <1>12, <1>13, <1>14,
     <1>15, <1>16, <1>17, <1>18, <1>19, <1>20, Frames DEF Next, vars

\* What went wrong stays noted, and a grace period is over only when it ends.
Grows ==
  /\ GraceEnds \/ given'.slow = given.slow
  /\ given.cut => given'.cut
  /\ given.misread => given'.misread
  /\ given.crossed => given'.crossed
  /\ given.late => given'.late
  /\ given.orphaned => given'.orphaned
  /\ given.half => given'.half
  /\ given.resent => given'.resent

\* What makes an end, or a takeover, a false one.
EndMistaken ==
  poll.pc = "served" /\ poll.state = "STOPPED" /\ mine.state = "PLAYING" /\ ~mine.grace /\ ~due
    /\ ~given.slow
TakeoverMistaken ==
  ~given.slow /\ \E t \in {cmd, arm, ask, poll} : ForeignSeen(t) /\ t.saw # Foreign
Told ==
  /\ given'.falseEnd => given.falseEnd \/ EndMistaken
  /\ given'.falseTakeover => given.falseTakeover \/ TakeoverMistaken

\* Every step keeps the notes,
LEMMA StepGrows ==
  ASSUME Typed, [Next]_vars
  PROVE  Grows
<1>0. given \in Givens /\ HistoryTyped
  BY DEF Typed, HistoryTyped
<1>1. CASE UNCHANGED <<given>>
  BY <1>1, <1>0 DEF Grows, Givens
<1>2. CASE PlayChecked
  BY <1>2, <1>0 DEF Grows, Givens, PlayChecked, TakeOver, Notes
<1>3. CASE QueueCleared
  BY <1>3, <1>0 DEF Grows, Givens, QueueCleared, Crosses, Notes
<1>4. CASE UriAdded
  BY <1>4, <1>0 DEF Grows, Givens, UriAdded, Adds, Notes
<1>5. CASE QueuePlayed
  BY <1>5, <1>0 DEF Grows, Givens, QueuePlayed, Crosses, GivesUp, Succeeds, Notes
<1>6. CASE UriSet
  BY <1>6, <1>0 DEF Grows, Givens, UriSet, Crosses, GivesUp, Notes
<1>7. CASE UriPlayed
  BY <1>7, <1>0 DEF Grows, Givens, UriPlayed, Crosses, GivesUp, Succeeds, Notes
<1>8. CASE TransportReset
  BY <1>8, <1>0 DEF Grows, Givens, TransportReset, Crosses, Notes
<1>9. ASSUME NEW kind \in {"pause", "resume", "stop"}, Command(kind) PROVE Grows
  BY <1>9, <1>0 DEF Grows, Givens, Command, Orphans, Notes
<1>10. CASE CommandChecked
  BY <1>10, <1>0 DEF Grows, Givens, CommandChecked, Orphans, TakeOver, Notes
<1>11. CASE CommandDone
  BY <1>11, <1>0 DEF Grows, Givens, CommandDone, Crosses, Notes
<1>12. CASE CommandTold
  BY <1>12, <1>0 DEF Grows, Givens, CommandTold, Notes
<1>13. CASE SetNextChecked
  BY <1>13, <1>0 DEF Grows, Givens, SetNextChecked, TakeOver, Notes
<1>14. CASE NextSet
  BY <1>14, <1>0 DEF Grows, Givens, NextSet, Adds, Notes
<1>15. CASE ClearNextTrack
  BY <1>15, <1>0 DEF Grows, Givens, ClearNextTrack, Forgets, Orphans, Notes
<1>16. CASE ClearNextChecked
  BY <1>16, <1>0 DEF Grows, Givens, ClearNextChecked, Forgets, TakeOver, Orphans, Notes
<1>17. CASE NextRemoved
  BY <1>17, <1>0 DEF Grows, Givens, NextRemoved, Forgets, Orphans, Notes
<1>18. CASE AskAnswered
  BY <1>18, <1>0 DEF Grows, Givens, AskAnswered, Notes, TakeOver
<1>19. CASE PollChecked
  BY <1>19, <1>0 DEF Grows, Givens, PollChecked, TakeOver, Notes
<1>20. CASE StatusServed
  BY <1>20, <1>0 DEF Grows, Givens, StatusServed
<1>21. CASE StatusReturned
  BY <1>21, <1>0 DEF Grows, Givens, StatusReturned, Changed
<1>22. CASE TrackLooked
  BY <1>22, <1>0 DEF Grows, Givens, TrackLooked, Changed
<1>23. CASE ForeignTakes
  BY <1>23, <1>0 DEF Grows, Givens, ForeignTakes, Crosses, Notes
<1>24. CASE GraceEnds
  BY <1>24, <1>0 DEF Grows, Givens, GraceEnds
<1>. QED
  BY <1>1, <1>2, <1>3, <1>4, <1>5, <1>6, <1>7, <1>8, <1>9, <1>10, <1>11, <1>12, <1>13, <1>14,
     <1>15, <1>16, <1>17, <1>18, <1>19, <1>20, <1>21, <1>22, <1>23, <1>24, Frames
     DEF Next, vars

\* and notes a false end or takeover only where it is one.
LEMMA StepTold ==
  ASSUME Typed, [Next]_vars
  PROVE  Told
<1>0. given \in Givens /\ HistoryTyped
  BY DEF Typed, HistoryTyped
<1>1. CASE UNCHANGED <<given>>
  BY <1>1, <1>0, VerdictIs DEF Told, EndMistaken, TakeoverMistaken, ForeignSeen, Givens
<1>2. CASE PlayChecked
  BY <1>2, <1>0, VerdictIs DEF Told, EndMistaken, TakeoverMistaken, ForeignSeen, Givens,
       PlayChecked, TakeOver, Notes
<1>3. CASE QueueCleared
  BY <1>3, <1>0, VerdictIs DEF Told, EndMistaken, TakeoverMistaken, ForeignSeen, Givens,
       QueueCleared, Crosses, Notes
<1>4. CASE UriAdded
  BY <1>4, <1>0, VerdictIs DEF Told, EndMistaken, TakeoverMistaken, ForeignSeen, Givens, UriAdded,
       Adds, Notes
<1>5. CASE QueuePlayed
  BY <1>5, <1>0, VerdictIs DEF Told, EndMistaken, TakeoverMistaken, ForeignSeen, Givens,
       QueuePlayed, Crosses, GivesUp, Succeeds, Notes
<1>6. CASE UriSet
  BY <1>6, <1>0, VerdictIs DEF Told, EndMistaken, TakeoverMistaken, ForeignSeen, Givens, UriSet,
       Crosses, GivesUp, Notes
<1>7. CASE UriPlayed
  BY <1>7, <1>0, VerdictIs DEF Told, EndMistaken, TakeoverMistaken, ForeignSeen, Givens,
       UriPlayed, Crosses, GivesUp, Succeeds, Notes
<1>8. CASE TransportReset
  BY <1>8, <1>0, VerdictIs DEF Told, EndMistaken, TakeoverMistaken, ForeignSeen, Givens,
       TransportReset, Crosses, Notes
<1>9. ASSUME NEW kind \in {"pause", "resume", "stop"}, Command(kind) PROVE Told
  BY <1>9, <1>0, VerdictIs DEF Told, EndMistaken, TakeoverMistaken, ForeignSeen, Givens, Command,
       Orphans, Notes
<1>10. CASE CommandChecked
  BY <1>10, <1>0, VerdictIs DEF Told, EndMistaken, TakeoverMistaken, ForeignSeen, Givens,
       CommandChecked, Orphans, TakeOver, Notes
<1>11. CASE CommandDone
  BY <1>11, <1>0, VerdictIs DEF Told, EndMistaken, TakeoverMistaken, ForeignSeen, Givens,
       CommandDone, Crosses, Notes
<1>12. CASE CommandTold
  BY <1>12, <1>0, VerdictIs DEF Told, EndMistaken, TakeoverMistaken, ForeignSeen, Givens,
       CommandTold, Notes
<1>13. CASE SetNextChecked
  BY <1>13, <1>0, VerdictIs DEF Told, EndMistaken, TakeoverMistaken, ForeignSeen, Givens,
       SetNextChecked, TakeOver, Notes
<1>14. CASE NextSet
  BY <1>14, <1>0, VerdictIs DEF Told, EndMistaken, TakeoverMistaken, ForeignSeen, Givens, NextSet,
       Adds, Notes
<1>15. CASE ClearNextTrack
  BY <1>15, <1>0, VerdictIs DEF Told, EndMistaken, TakeoverMistaken, ForeignSeen, Givens,
       ClearNextTrack, Forgets, Orphans, Notes
<1>16. CASE ClearNextChecked
  BY <1>16, <1>0, VerdictIs DEF Told, EndMistaken, TakeoverMistaken, ForeignSeen, Givens,
       ClearNextChecked, Forgets, TakeOver, Orphans, Notes
<1>17. CASE NextRemoved
  BY <1>17, <1>0, VerdictIs DEF Told, EndMistaken, TakeoverMistaken, ForeignSeen, Givens,
       NextRemoved, Forgets, Orphans, Notes
<1>18. CASE AskAnswered
  BY <1>18, <1>0, VerdictIs DEF Told, EndMistaken, TakeoverMistaken, ForeignSeen, Givens,
       AskAnswered, Notes, TakeOver
<1>19. CASE PollChecked
  BY <1>19, <1>0, VerdictIs DEF Told, EndMistaken, TakeoverMistaken, ForeignSeen, Givens,
       PollChecked, TakeOver, Notes
<1>20. CASE StatusServed
  BY <1>20, <1>0, VerdictIs DEF Told, EndMistaken, TakeoverMistaken, ForeignSeen, Givens,
       StatusServed
<1>21. CASE StatusReturned
  BY <1>21, <1>0, VerdictIs DEF Told, EndMistaken, TakeoverMistaken, ForeignSeen, Givens,
       StatusReturned, Changed
<1>22. CASE TrackLooked
  BY <1>22, <1>0, VerdictIs DEF Told, EndMistaken, TakeoverMistaken, ForeignSeen, Givens,
       TrackLooked, Changed
<1>23. CASE ForeignTakes
  BY <1>23, <1>0, VerdictIs DEF Told, EndMistaken, TakeoverMistaken, ForeignSeen, Givens,
       ForeignTakes, Crosses, Notes
<1>24. CASE GraceEnds
  BY <1>24, <1>0 DEF Told, Givens, GraceEnds
<1>. QED
  BY <1>1, <1>2, <1>3, <1>4, <1>5, <1>6, <1>7, <1>8, <1>9, <1>10, <1>11, <1>12, <1>13, <1>14,
     <1>15, <1>16, <1>17, <1>18, <1>19, <1>20, <1>21, <1>22, <1>23, <1>24, Frames
     DEF Next, vars

\* The renderer has a URI once somebody has seen one, or while it plays; play empties its queue
\* first, so that it is at no entry of it.
Where ==
  /\ \A t \in {cmd, arm, ask} : t.saw # None => device.uri # None
  /\ poll.saw # None => device.uri # None
  /\ cmd.pc \in {"sent", "done"} \/ arm.pc = "setting" => device.uri # None
  /\ cmd.pc \in {"playUri", "playUriAgain"} => device.loading # None \/ device.uri # None
  /\ device.mode = "LOADING" => device.loading # None
  /\ device.mode \in {"PLAYING", "PAUSED"} => device.uri # None
  /\ cmd.pc \in {"addUri", "playQueue", "playUri", "playUriAgain"} => device.pos = 0

\* Nothing was asked for while a status was read.
Uncrossed == ~given.crossed /\ ~given.half
\* While a track loads the renderer is not seen to play, and no command of ours can pause it.
LoadingSeen ==
  /\ device.loading # None => device.mode \in {"STOPPED", "LOADING"}
  /\ mine.state = "PAUSED" /\ ~mine.starting => device.loading = None
  /\ cmd.kind = "resume" => device.loading = None
  /\ cmd.kind = "pause" /\ cmd.pc = "done" => device.loading = None
  /\ poll.pc \in {"served", "looking"} /\ poll.state \in {"PLAYING", "PAUSED"}
       => device.loading = None
Loading == Uncrossed => LoadingSeen

\* Every step keeps where the renderer is,
LEMMA StepWhere ==
  ASSUME Typed, Shape, Where, [Next]_vars
  PROVE  Where'
<1>0. /\ None \notin Urls /\ None # Foreign /\ Typed /\ CmdShape /\ ArmShape /\ PollShape
      /\ MineShape /\ Where
  BY DlnaAssumption DEF Shape
<1>00. /\ Upcoming # None => Upcoming \in Urls
       /\ sonos /\ Upcoming # None => device.pos > 0
  BY UpcomingTyped DEF Typed, UrlOrNone, DeviceTyped, Devices
<1>1. CASE UNCHANGED <<cmd, arm, ask, poll, device>>
  BY <1>1, <1>00, <1>0 DEF Where, CmdShape
<1>2. ASSUME NEW u \in Urls, Play(u) PROVE Where'
  BY <1>0, <1>2, <1>00, FirstIs, PlayDoes, Frames DEF Where, CmdShape, MineIs, CmdIs, StartsNow,
       Answer, Idle
<1>3. ASSUME NEW u \in Urls, SetNextTrack(u) PROVE Where'
  BY <1>0, <1>3, <1>00, SetNextTrackDoes, Frames DEF Where, CmdShape, ArmIs, Answer, Idle
<1>4. CASE PlayChecked
  BY <1>0, <1>4, <1>00, FirstIs, PlayCheckedDoes, Frames DEF Where, CmdShape, MineIs, CmdIs,
       StartsNow, TakesOver, ForeignSeen
<1>5. CASE QueueCleared
  BY <1>0, <1>5, <1>00, QueueClearedDoes, Frames DEF Where, CmdShape, DeviceIs, CmdIs, Crossed
<1>6. CASE UriAdded
  BY <1>0, <1>6, <1>00, UriAddedDoes, Frames DEF Where, CmdShape, DeviceIs, CmdIs, PlayPcs, Kinds
<1>7. CASE QueuePlayed
  BY <1>0, <1>7, <1>00, UrlSeqs, QueuePlayedDoes, Frames DEF Where, CmdShape, MineIs, DeviceIs,
       CmdIs, Succeeded, HalfWay, Crossed, Typed, DeviceTyped, Devices
<1>8. CASE UriSet
  BY <1>0, <1>8, <1>00, UriSetDoes, Frames DEF Where, CmdShape, MineIs, DeviceIs, CmdIs, HalfWay,
       Crossed
<1>9. CASE UriPlayed
  BY <1>0, <1>9, <1>00, UriPlayedDoes, Frames DEF Where, CmdShape, MineIs, DeviceIs, CmdIs,
       Succeeded, HalfWay, Crossed
<1>10. CASE TransportReset
  BY <1>0, <1>10, <1>00, TransportResetDoes, Frames DEF Where, CmdShape, DeviceIs, CmdIs, Crossed
<1>11. ASSUME NEW kind \in {"pause", "resume", "stop"}, Command(kind) PROVE Where'
  BY <1>0, <1>11, <1>00, CommandDoes, Frames DEF Where, CmdShape, MineIs, CmdIs, Forgotten,
       StopForgets, Answer, Idle
<1>12. CASE CommandChecked
  BY <1>0, <1>12, <1>00, CommandCheckedDoes, Frames DEF Where, CmdShape, MineIs, CmdIs, TakesOver,
       Forgotten, StopForgets, ForeignSeen, Ours
<1>13. CASE CommandDone
  BY <1>0, <1>13, <1>00, CommandDoneDoes, Frames DEF Where, CmdShape, DeviceIs, CmdIs, Crossed,
       Mode, Refused, Kinds
<1>14. CASE CommandTold
  BY <1>0, <1>14, <1>00, CommandToldDoes, Frames DEF Where, CmdShape, MineIs, CmdIs, Idle
<1>15. CASE SetNextChecked
  BY <1>0, <1>15, <1>00, SetNextCheckedDoes, Frames DEF Where, CmdShape, MineIs, ArmIs, TakesOver,
       ForeignSeen, Ours, Idle
<1>16. CASE NextSet
  BY <1>0, <1>16, <1>00, NextSetDoes, Frames DEF Where, CmdShape, MineIs, DeviceIs, ArmIs, Idle
<1>17. CASE ClearNextTrack
  BY <1>0, <1>17, <1>00, ClearNextTrackDoes, Frames DEF Where, CmdShape, MineIs, ArmIs, Forgotten,
       Answer, Idle
<1>18. CASE ClearNextChecked
  BY <1>0, <1>18, <1>00, ClearNextCheckedDoes, Frames DEF Where, CmdShape, MineIs, ArmIs,
       TakesOver, Forgotten, ForeignSeen, Ours, Idle
<1>19. CASE NextRemoved
  BY <1>0, <1>19, <1>00, NextRemovedDoes, Frames DEF Where, CmdShape, MineIs, DeviceIs, ArmIs,
       Forgotten, Idle
<1>20. ASSUME NEW kind \in {"select", "check"}, Ask(kind) PROVE Where'
  BY <1>0, <1>20, <1>00, AskDoes, Frames DEF Where, CmdShape, MineIs, AskIs, Released, Answer,
       Idle
<1>21. CASE AskAnswered
  BY <1>0, <1>21, <1>00, AskAnsweredDoes, Frames DEF Where, CmdShape, MineIs, AskIs, TakesOver,
       Released, ForeignSeen, Idle
<1>22. CASE PollWakes
  BY <1>0, <1>22, <1>00, PollWakesDoes, Frames DEF Where, CmdShape, PollIs, Answer
<1>23. CASE PollChecked
  BY <1>0, <1>23, <1>00, PollCheckedDoes, Frames DEF Where, CmdShape, MineIs, PollIs, TakesOver,
       PollSleeps, ForeignSeen
<1>24. CASE StatusServed
  BY <1>0, <1>24, <1>00, StatusServedDoes, Frames DEF Where, CmdShape, PollIs
<1>25. CASE StatusReturned
  BY <1>0, <1>25, <1>00, StatusReturnedDoes, Frames DEF Where, CmdShape, MineIs, PollIs,
       PollSleeps, ChangedTo, Answer
<1>26. CASE TrackLooked
  BY <1>0, <1>26, <1>00, TrackLookedDoes, Frames DEF Where, CmdShape, MineIs, PollIs, PollSleeps,
       ChangedTo, Answer
<1>27. CASE Loaded
  BY <1>0, <1>27, <1>00, LoadedDoes, Frames DEF Where, CmdShape, DeviceIs
<1>28. CASE Advances
  BY <1>0, <1>28, <1>00, AdvancesDoes, Frames DEF Where, CmdShape, DeviceIs
<1>29. CASE Ends
  BY <1>0, <1>29, <1>00, EndsDoes, Frames DEF Where, CmdShape, DeviceIs
<1>30. CASE ForeignTakes
  BY <1>0, <1>30, <1>00, ForeignTakesDoes, Frames DEF Where, CmdShape, DeviceIs, Crossed
<1>31. ASSUME NEW m \in {"PLAYING", "PAUSED", "STOPPED"}, HandsOn(m) PROVE Where'
  BY <1>0, <1>31, <1>00, HandsOnDoes, Frames DEF Where, CmdShape, DeviceIs
<1>. QED
  BY <1>1, <1>2, <1>3, <1>4, <1>5, <1>6, <1>7, <1>8, <1>9, <1>10, <1>11, <1>12, <1>13, <1>14,
     <1>15, <1>16, <1>17, <1>18, <1>19, <1>20, <1>21, <1>22, <1>23, <1>24, <1>25, <1>26, <1>27,
     <1>28, <1>29, <1>30, <1>31, Frames DEF Next, vars

\* and what is seen while a track loads.
LEMMA StepLoading ==
  ASSUME Typed, Shape, Where, Loading, [Next]_vars
  PROVE  Loading'
<1> SUFFICES ASSUME ~given'.crossed, ~given'.half PROVE LoadingSeen'
  BY DEF Loading, Uncrossed
<1>0. /\ None \notin Urls /\ None # Foreign /\ Typed /\ CmdShape /\ ArmShape /\ PollShape
      /\ MineShape /\ LoadingSeen /\ Where
  BY DlnaAssumption, StepGrows DEF Shape, Loading, Uncrossed, Grows
<1>1. CASE UNCHANGED <<mine, cmd, poll, device>>
  BY <1>1, <1>0 DEF LoadingSeen, CmdShape, PollShape, MineShape, Where
<1>2. ASSUME NEW u \in Urls, Play(u) PROVE LoadingSeen'
  BY <1>0, <1>2, PlayDoes, Frames DEF LoadingSeen, CmdShape, PollShape, MineShape, Where, MineIs,
       CmdIs, StartsNow, Answer, FirstRequest, Idle
<1>3. CASE PlayChecked
  BY <1>0, <1>3, PlayCheckedDoes, Frames DEF LoadingSeen, CmdShape, PollShape, MineShape, Where,
       MineIs, CmdIs, StartsNow, TakesOver, ForeignSeen
<1>4. CASE QueueCleared
  BY <1>0, <1>4, QueueClearedDoes, Frames DEF LoadingSeen, CmdShape, PollShape, MineShape, Where,
       DeviceIs, CmdIs, Crossed
<1>5. CASE UriAdded
  BY <1>0, <1>5, UriAddedDoes, Frames DEF LoadingSeen, CmdShape, PollShape, MineShape, Where,
       DeviceIs, CmdIs, PlayPcs, Kinds
<1>6. CASE QueuePlayed
  BY <1>0, <1>6, QueuePlayedDoes, Frames DEF LoadingSeen, CmdShape, PollShape, MineShape, Where,
       MineIs, DeviceIs, CmdIs, Succeeded, HalfWay, Crossed
<1>7. CASE UriSet
  BY <1>0, <1>7, UriSetDoes, Frames DEF LoadingSeen, CmdShape, PollShape, MineShape, Where,
       MineIs, DeviceIs, CmdIs, HalfWay, Crossed
<1>8. CASE UriPlayed
  BY <1>0, <1>8, UriPlayedDoes, Frames DEF LoadingSeen, CmdShape, PollShape, MineShape, Where,
       MineIs, DeviceIs, CmdIs, Succeeded, HalfWay, Crossed
<1>9. CASE TransportReset
  BY <1>0, <1>9, TransportResetDoes, Frames DEF LoadingSeen, CmdShape, PollShape, MineShape,
       Where, DeviceIs, CmdIs, Crossed
<1>10. ASSUME NEW kind \in {"pause", "resume", "stop"}, Command(kind) PROVE LoadingSeen'
  BY <1>0, <1>10, CommandDoes, Frames DEF LoadingSeen, CmdShape, PollShape, MineShape, Where,
       MineIs, CmdIs, Forgotten, StopForgets, Answer, Idle
<1>11. CASE CommandChecked
  BY <1>0, <1>11, CommandCheckedDoes, Frames DEF LoadingSeen, CmdShape, PollShape, MineShape,
       Where, MineIs, CmdIs, TakesOver, Forgotten, StopForgets, ForeignSeen, Ours
<1>12. CASE CommandDone
  BY <1>0, <1>12, CommandDoneDoes, Frames DEF LoadingSeen, CmdShape, PollShape, MineShape, Where,
       DeviceIs, CmdIs, Crossed, Mode, Refused, Kinds
<1>13. CASE CommandTold
  BY <1>0, <1>13, CommandToldDoes, Frames DEF LoadingSeen, CmdShape, PollShape, MineShape, Where,
       MineIs, CmdIs, Idle
<1>14. CASE SetNextChecked
  BY <1>0, <1>14, SetNextCheckedDoes, Frames DEF LoadingSeen, CmdShape, PollShape, MineShape,
       Where, MineIs, ArmIs, TakesOver, ForeignSeen, Ours, Idle
<1>15. CASE NextSet
  BY <1>0, <1>15, NextSetDoes, Frames DEF LoadingSeen, CmdShape, PollShape, MineShape, Where,
       MineIs, DeviceIs, ArmIs, Idle
<1>16. CASE ClearNextTrack
  BY <1>0, <1>16, ClearNextTrackDoes, Frames DEF LoadingSeen, CmdShape, PollShape, MineShape,
       Where, MineIs, ArmIs, Forgotten, Answer, Idle
<1>17. CASE ClearNextChecked
  BY <1>0, <1>17, ClearNextCheckedDoes, Frames DEF LoadingSeen, CmdShape, PollShape, MineShape,
       Where, MineIs, ArmIs, TakesOver, Forgotten, ForeignSeen, Ours, Idle
<1>18. CASE NextRemoved
  BY <1>0, <1>18, NextRemovedDoes, Frames DEF LoadingSeen, CmdShape, PollShape, MineShape, Where,
       MineIs, DeviceIs, ArmIs, Forgotten, Idle
<1>19. ASSUME NEW kind \in {"select", "check"}, Ask(kind) PROVE LoadingSeen'
  BY <1>0, <1>19, AskDoes, Frames DEF LoadingSeen, CmdShape, PollShape, MineShape, Where, MineIs,
       AskIs, Released, Answer, Idle
<1>20. CASE AskAnswered
  BY <1>0, <1>20, AskAnsweredDoes, Frames DEF LoadingSeen, CmdShape, PollShape, MineShape, Where,
       MineIs, AskIs, TakesOver, Released, ForeignSeen, Idle
<1>21. CASE PollWakes
  BY <1>0, <1>21, PollWakesDoes, Frames DEF LoadingSeen, CmdShape, PollShape, MineShape, Where,
       PollIs, Answer
<1>22. CASE PollChecked
  BY <1>0, <1>22, PollCheckedDoes, Frames DEF LoadingSeen, CmdShape, PollShape, MineShape, Where,
       MineIs, PollIs, TakesOver, PollSleeps, ForeignSeen
<1>23. CASE StatusServed
  BY <1>0, <1>23, StatusServedDoes, Frames DEF LoadingSeen, CmdShape, PollShape, MineShape, Where,
       PollIs
<1>24. CASE StatusReturned
  BY <1>0, <1>24, StatusReturnedDoes, Frames DEF LoadingSeen, CmdShape, PollShape, MineShape,
       Where, MineIs, PollIs, PollSleeps, ChangedTo, Answer
<1>25. CASE TrackLooked
  BY <1>0, <1>25, TrackLookedDoes, Frames DEF LoadingSeen, CmdShape, PollShape, MineShape, Where,
       MineIs, PollIs, PollSleeps, ChangedTo, Answer
<1>26. CASE GraceEnds
  BY <1>0, <1>26, GraceEndsDoes, Frames DEF LoadingSeen, CmdShape, PollShape, MineShape, Where,
       MineIs
<1>27. CASE Loaded
  BY <1>0, <1>27, LoadedDoes, Frames DEF LoadingSeen, CmdShape, PollShape, MineShape, Where,
       DeviceIs
<1>28. CASE Advances
  BY <1>0, <1>28, AdvancesDoes, Frames DEF LoadingSeen, CmdShape, PollShape, MineShape, Where,
       DeviceIs
<1>29. CASE Ends
  BY <1>0, <1>29, EndsDoes, Frames DEF LoadingSeen, CmdShape, PollShape, MineShape, Where,
       DeviceIs
<1>30. CASE ForeignTakes
  BY <1>0, <1>30, ForeignTakesDoes, Frames DEF LoadingSeen, CmdShape, PollShape, MineShape, Where,
       DeviceIs, Crossed
<1>31. ASSUME NEW m \in {"PLAYING", "PAUSED", "STOPPED"}, HandsOn(m) PROVE LoadingSeen'
  BY <1>0, <1>31, HandsOnDoes, Frames DEF LoadingSeen, CmdShape, PollShape, MineShape, Where,
       DeviceIs
<1>. QED
  BY <1>1, <1>2, <1>3, <1>4, <1>5, <1>6, <1>7, <1>8, <1>9, <1>10, <1>11, <1>12, <1>13, <1>14,
     <1>15, <1>16, <1>17, <1>18, <1>19, <1>20, <1>21, <1>22, <1>23, <1>24, <1>25, <1>26, <1>27,
     <1>28, <1>29, <1>30, <1>31, Frames DEF Next, vars

\* No status was misread, and no entry removed while it played.
Unmistaken == Uncrossed /\ ~given.misread /\ ~given.cut
\* The poll loop is suspended while a track is started, except before it tells what it has read.
Telling == ~mine.starting \/ poll.pc = "served"
\* The renderer has stopped, though not for a command, and the end of its track may be told.
EndsDue ==
  /\ device.mode = "STOPPED" /\ device.loading = None /\ mine.state = "PLAYING" /\ Telling
       /\ cmd.pc # "done" /\ device.uri # Foreign => due
  /\ device.mode = "STOPPED" /\ cmd.pc = "done" /\ cmd.kind = "resume" /\ device.uri # Foreign
       => due
  /\ poll.pc = "served" /\ poll.state = "STOPPED" /\ mine.state = "PLAYING" /\ ~mine.grace
       /\ ~given.slow
       => due /\ device.mode = "STOPPED" /\ device.loading = None
  /\ poll.pc \in {"served", "looking"} /\ poll.state = "PLAYING" /\ device.mode = "STOPPED" => due
  /\ device.loading # None /\ mine.state = "PLAYING" /\ Telling
       => mine.grace \/ given.slow
  /\ device.loading # None /\ device.mode = "STOPPED" /\ mine.state = "PLAYING" /\ Telling
       => cmd.pc = "done" /\ cmd.kind = "stop"
  /\ cmd.pc = "done" => poll.pc \notin {"served", "looking"}
  /\ poll.pc \in {"served", "looking"} => device.uri # Foreign
  /\ ~given.falseEnd
EndsTold == Unmistaken => EndsDue

\* What it reads has not changed.
SameEnds ==
  /\ due' = due /\ mine'.state = mine.state /\ mine'.grace = mine.grace
  /\ given'.slow = given.slow
  /\ device'.mode = device.mode /\ device'.loading = device.loading /\ device'.uri = device.uri
  /\ mine.starting => mine'.starting
  /\ cmd'.pc = "done" <=> cmd.pc = "done"
  /\ cmd.pc = "done" => cmd'.kind = cmd.kind
  /\ poll'.state = poll.state
  /\ \/ poll'.pc = poll.pc
     \/ poll'.pc \notin {"served", "looking"} /\ poll.pc \notin {"served", "looking"}
\* It holds on then.
LEMMA EndsKept ==
  ASSUME EndsDue, ~given'.falseEnd, SameEnds
  PROVE  EndsDue'
<1>1. /\ Telling' => Telling
      /\ poll'.pc \in {"served", "looking"} => poll.pc = poll'.pc
  BY DEF Telling, SameEnds
<1>2. device'.mode = "STOPPED" /\ device'.loading = None /\ mine'.state = "PLAYING" /\ Telling'
       /\ cmd'.pc # "done" /\ device'.uri # Foreign => due'
  BY <1>1 DEF EndsDue, SameEnds
<1>3. device'.mode = "STOPPED" /\ cmd'.pc = "done" /\ cmd'.kind = "resume" /\ device'.uri # Foreign
       => due'
  BY <1>1 DEF EndsDue, SameEnds
<1>4. poll'.pc = "served" /\ poll'.state = "STOPPED" /\ mine'.state = "PLAYING" /\ ~mine'.grace
       /\ ~given'.slow
       => due' /\ device'.mode = "STOPPED" /\ device'.loading = None
  BY <1>1 DEF EndsDue, SameEnds
<1>5. poll'.pc \in {"served", "looking"} /\ poll'.state = "PLAYING" /\ device'.mode = "STOPPED"
        => due'
  BY <1>1 DEF EndsDue, SameEnds
<1>6. device'.loading # None /\ mine'.state = "PLAYING" /\ Telling'
       => mine'.grace \/ given'.slow
  BY <1>1 DEF EndsDue, SameEnds
<1>7. device'.loading # None /\ device'.mode = "STOPPED" /\ mine'.state = "PLAYING" /\ Telling'
       => cmd'.pc = "done" /\ cmd'.kind = "stop"
  BY <1>1 DEF EndsDue, SameEnds
<1>8. cmd'.pc = "done" => poll'.pc \notin {"served", "looking"}
  BY <1>1 DEF EndsDue, SameEnds
<1>9. poll'.pc \in {"served", "looking"} => device'.uri # Foreign
  BY <1>1 DEF EndsDue, SameEnds
<1>10. QED
  BY <1>2, <1>3, <1>4, <1>5, <1>6, <1>7, <1>8, <1>9 DEF EndsDue

\* Every step keeps what a stop of the renderer means.
LEMMA StepEnds ==
  ASSUME Typed, Shape, Where, Loading, EndsTold, [Next]_vars
  PROVE  EndsTold'
<1> SUFFICES ASSUME ~given'.crossed, ~given'.half, ~given'.misread, ~given'.cut
             PROVE  EndsDue'
  BY DEF EndsTold, Unmistaken, Uncrossed
<1>0. /\ None \notin Urls /\ None # Foreign /\ Foreign \notin Urls /\ Typed /\ CmdShape /\ PollShape
      /\ MineShape /\ ArmShape /\ LoadingSeen /\ Where /\ EndsDue
      /\ given'.falseEnd => EndMistaken
      /\ GraceEnds \/ given'.slow = given.slow
  BY DlnaAssumption, StepGrows, StepTold DEF Shape, Loading, EndsTold, EndsDue, Unmistaken,
       Uncrossed, Grows, Told
<1>00. ~given'.falseEnd
  BY <1>0 DEF EndMistaken, EndsDue
<1>01. /\ device.uri \in Urls \cup {None, Foreign} /\ device.loading \in Urls \cup {None}
       /\ Upcoming \in Urls \cup {None}
  BY <1>0, UpcomingTyped DEF Typed, UrlOrNone, DeviceTyped, Devices, Uris
<1>26. CASE GraceEnds
  BY <1>0, <1>26, <1>00, GraceEndsDoes, Frames DEF EndsDue, Telling, LoadingSeen, CmdShape,
       PollShape, MineShape, Where, MineIs
<1> SUFFICES ASSUME given'.slow = given.slow PROVE EndsDue'
  BY <1>0, <1>26
<1>1. CASE UNCHANGED <<mine, cmd, poll, device, due, given>>
  BY <1>1, <1>00, <1>0 DEF EndsDue, Telling, LoadingSeen, CmdShape, PollShape, MineShape, Where
<1>2. ASSUME NEW u \in Urls, Play(u) PROVE EndsDue'
  <2>1. due' = due /\ device' = device /\ poll' = poll
    BY <1>2, Frames
  <2>2. /\ cmd.pc = "none" /\ cmd'.pc # "done"
        /\ mine'.state = mine.state /\ mine'.grace = mine.grace /\ (mine.starting => mine'.starting)
    <3>1. cmd.pc = "none"
      BY <1>0, <1>2, PlayDoes DEF Idle
    <3>2. ASSUME mine' = mine, CmdIs("play", "checking", u, mine.current, cmd'.saw)
          PROVE  cmd'.pc # "done"
      BY <3>2 DEF CmdIs
    <3>3. ASSUME StartsNow, CmdIs("play", FirstRequest, u, None, None)
          PROVE  /\ cmd'.pc # "done" /\ mine'.state = mine.state /\ mine'.grace = mine.grace
                 /\ mine'.starting
      BY <3>3, FirstIs DEF CmdIs, StartsNow, MineIs
    <3>4. QED
      BY <1>0, <1>2, <3>1, <3>2, <3>3, PlayDoes
  <2>3. SameEnds
    BY <2>1, <2>2 DEF SameEnds
  <2>4. QED
    BY <1>0, <1>00, <2>3, EndsKept
<1>3. CASE PlayChecked
  <2>1. SameEnds
    BY <1>0, <1>3, PlayCheckedDoes, Frames, FirstIs DEF SameEnds, MineIs, CmdIs, StartsNow,
         TakesOver, ForeignSeen
  <2>2. QED
    BY <1>0, <1>00, <2>1, EndsKept
<1>4. CASE QueueCleared
  BY <1>0, <1>4, <1>00, QueueClearedDoes, Frames DEF EndsDue, Telling, LoadingSeen, CmdShape,
       PollShape, MineShape, Where, DeviceIs, CmdIs, Crossed
<1>5. CASE UriAdded
  BY <1>0, <1>5, <1>00, UriAddedDoes, Frames DEF EndsDue, Telling, LoadingSeen, CmdShape,
       PollShape, MineShape, Where, DeviceIs, CmdIs, PlayPcs, Kinds
<1>6. CASE QueuePlayed
  BY <1>0, <1>6, <1>00, QueuePlayedDoes, Frames DEF EndsDue, Telling, LoadingSeen, CmdShape,
       PollShape, MineShape, Where, MineIs, DeviceIs, CmdIs, Succeeded, HalfWay, Crossed
<1>7. CASE UriSet
  <2>1. due' = due /\ poll' = poll /\ cmd.pc # "done" /\ mine.starting
    BY <1>0, <1>7, UriSetDoes, Frames DEF MineShape, CmdShape, Kinds
  <2>2. ASSUME mine' = mine, NEW pc \in {"playUri", "playUriAgain"}, Crossed,
               CmdIs(cmd.kind, pc, cmd.url, None, None),
               DeviceIs(device.uri, "STOPPED", cmd.url, None, device.queue, 0)
        PROVE  EndsDue'
    <3>1. poll.pc \notin {"served", "looking"} /\ cmd'.pc # "done" /\ ~Telling'
      BY <2>1, <2>2 DEF Crossed, CmdIs, Telling
    <3>2. QED
      BY <1>00, <2>1, <3>1 DEF EndsDue
  <2>3. CASE mine' = mine /\ device' = device /\ CmdIs(cmd.kind, "reset", cmd.url, None, None)
    <3>1. SameEnds
      BY <2>1, <2>3 DEF SameEnds, CmdIs
    <3>2. QED
      BY <1>0, <1>00, <3>1, EndsKept
  <2>4. QED
    BY <1>0, <1>7, <2>2, <2>3, UriSetDoes DEF HalfWay
<1>8. CASE UriPlayed
  <2>1. poll' = poll /\ cmd.pc # "done"
    BY <1>0, <1>8, UriPlayedDoes, Frames
  <2>2. ASSUME CmdIs("none", "none", None, None, None), Crossed, Succeeded,
               device'.mode \in {"PLAYING", "LOADING"}
        PROVE  EndsDue'
    <3>1. /\ poll.pc \notin {"served", "looking"} /\ cmd'.pc # "done" /\ mine'.grace
          /\ device'.mode # "STOPPED"
      BY <2>1, <2>2 DEF Crossed, CmdIs, Succeeded, MineIs
    <3>2. QED
      BY <1>00, <2>1, <3>1 DEF EndsDue
  <2>3. ASSUME mine' = mine, device' = device, due' = due,
               CmdIs(cmd.kind, "reset", cmd.url, None, None)
        PROVE  EndsDue'
    <3>1. SameEnds
      BY <2>1, <2>3 DEF SameEnds, CmdIs
    <3>2. QED
      BY <1>0, <1>00, <3>1, EndsKept
  <2>4. QED
    BY <1>0, <1>8, <2>2, <2>3, UriPlayedDoes DEF HalfWay, DeviceIs
<1>9. CASE TransportReset
  BY <1>0, <1>9, <1>00, TransportResetDoes, Frames DEF EndsDue, Telling, LoadingSeen, CmdShape,
       PollShape, MineShape, Where, DeviceIs, CmdIs, Crossed
<1>10. ASSUME NEW kind \in {"pause", "resume", "stop"}, Command(kind) PROVE EndsDue'
  <2>1. SameEnds
    BY <1>0, <1>10, CommandDoes, Frames DEF SameEnds, MineIs, CmdIs, Forgotten, StopForgets,
         Answer, Idle
  <2>2. QED
    BY <1>0, <1>00, <2>1, EndsKept
<1>11. CASE CommandChecked
  <2>1. SameEnds
    BY <1>0, <1>11, CommandCheckedDoes, Frames DEF SameEnds, MineIs, CmdIs, TakesOver, Forgotten,
         StopForgets, ForeignSeen, Ours
  <2>2. QED
    BY <1>0, <1>00, <2>1, EndsKept
<1>12. CASE CommandDone
  BY <1>0, <1>12, <1>00, CommandDoneDoes, Frames DEF EndsDue, Telling, LoadingSeen, CmdShape,
       PollShape, MineShape, Where, DeviceIs, CmdIs, Crossed, Mode, Refused, Kinds
<1>13. CASE CommandTold
  BY <1>0, <1>13, <1>00, CommandToldDoes, Frames DEF EndsDue, Telling, LoadingSeen, CmdShape,
       PollShape, MineShape, Where, MineIs, CmdIs, Idle
<1>14. CASE SetNextChecked
  <2>1. SameEnds
    BY <1>0, <1>14, SetNextCheckedDoes, Frames DEF SameEnds, MineIs, ArmIs, TakesOver,
         ForeignSeen, Ours, Idle
  <2>2. QED
    BY <1>0, <1>00, <2>1, EndsKept
<1>15. CASE NextSet
  <2>1. due' = due /\ cmd' = cmd /\ poll' = poll
    BY <1>15, Frames
  <2>2. /\ device'.mode = device.mode /\ device'.loading = device.loading
        /\ device'.uri = device.uri
        /\ mine'.state = mine.state /\ mine'.grace = mine.grace /\ mine'.starting = mine.starting
    BY <1>0, <1>15, NextSetDoes DEF MineIs, DeviceIs
  <2>3. SameEnds
    BY <2>1, <2>2 DEF SameEnds
  <2>4. QED
    BY <1>0, <1>00, <2>3, EndsKept
<1>16. CASE ClearNextTrack
  <2>1. SameEnds
    BY <1>0, <1>16, ClearNextTrackDoes, Frames DEF SameEnds, MineIs, ArmIs, Forgotten, Answer,
         Idle
  <2>2. QED
    BY <1>0, <1>00, <2>1, EndsKept
<1>17. CASE ClearNextChecked
  <2>1. SameEnds
    BY <1>0, <1>17, ClearNextCheckedDoes, Frames DEF SameEnds, MineIs, ArmIs, TakesOver,
         Forgotten, ForeignSeen, Ours, Idle
  <2>2. QED
    BY <1>0, <1>00, <2>1, EndsKept
<1>18. CASE NextRemoved
  BY <1>0, <1>18, <1>00, NextRemovedDoes, Frames DEF EndsDue, Telling, LoadingSeen, CmdShape,
       PollShape, MineShape, Where, MineIs, DeviceIs, ArmIs, Forgotten, Idle
<1>19. ASSUME NEW kind \in {"select", "check"}, Ask(kind) PROVE EndsDue'
  <2>1. SameEnds
    BY <1>0, <1>19, AskDoes, Frames DEF SameEnds, MineIs, AskIs, Released, Answer, Idle
  <2>2. QED
    BY <1>0, <1>00, <2>1, EndsKept
<1>20. CASE AskAnswered
  <2>1. SameEnds
    BY <1>0, <1>20, AskAnsweredDoes, Frames DEF SameEnds, MineIs, AskIs, TakesOver, Released,
         ForeignSeen, Idle
  <2>2. QED
    BY <1>0, <1>00, <2>1, EndsKept
<1>21. CASE PollWakes
  BY <1>0, <1>21, <1>00, PollWakesDoes, Frames DEF EndsDue, Telling, LoadingSeen, CmdShape,
       PollShape, MineShape, Where, PollIs, Answer
<1>22. CASE PollChecked
  <2>1. SameEnds
    BY <1>0, <1>22, PollCheckedDoes, Frames DEF SameEnds, MineIs, PollIs, TakesOver, PollSleeps,
         ForeignSeen
  <2>2. QED
    BY <1>0, <1>00, <2>1, EndsKept
<1>23. CASE StatusServed
  BY <1>0, <1>23, <1>00, StatusServedDoes, Frames DEF EndsDue, Telling, LoadingSeen, CmdShape,
       PollShape, MineShape, Where, PollIs
<1>24. CASE StatusReturned
  BY <1>0, <1>24, <1>00, StatusReturnedDoes, Frames DEF EndsDue, Telling, LoadingSeen, CmdShape,
       PollShape, MineShape, Where, MineIs, PollIs, PollSleeps, ChangedTo, Answer
<1>25. CASE TrackLooked
  <2>1. /\ device' = device /\ cmd' = cmd /\ poll.state = "PLAYING" /\ poll.pc = "looking"
        /\ device.loading = None /\ cmd.pc # "done" /\ (device.mode = "STOPPED" => due)
    BY <1>0, <1>25, TrackLookedDoes, Frames DEF PollShape, LoadingSeen, EndsDue
  <2>2. due' <=> due
    <3>1. ASSUME ChangedTo("PLAYING", poll.grace) PROVE due' <=> due
      BY <3>1 DEF ChangedTo
    <3>2. due' = due \/ ChangedTo("PLAYING", poll.grace)
      BY <1>0, <1>25, TrackLookedDoes
    <3>3. QED
      BY <3>1, <3>2
  <2>3. poll'.pc \notin {"served", "looking"}
    BY <1>0, <1>25, TrackLookedDoes DEF PollSleeps, PollIs
  <2>4. QED
    BY <1>0, <1>00, <2>1, <2>2, <2>3 DEF EndsDue
<1>27. CASE Loaded
  BY <1>0, <1>27, <1>00, <1>01, LoadedDoes, Frames DEF EndsDue, Telling, LoadingSeen, CmdShape,
       PollShape, MineShape, Where, DeviceIs
<1>28. CASE Advances
  BY <1>0, <1>28, <1>00, <1>01, AdvancesDoes, Frames DEF EndsDue, Telling, LoadingSeen, CmdShape,
       PollShape, MineShape, Where, DeviceIs
<1>29. CASE Ends
  BY <1>0, <1>29, <1>00, EndsDoes, Frames DEF EndsDue, Telling, LoadingSeen, CmdShape, PollShape,
       MineShape, Where, DeviceIs
<1>30. CASE ForeignTakes
  BY <1>0, <1>30, <1>00, ForeignTakesDoes, Frames DEF EndsDue, Telling, LoadingSeen, CmdShape,
       PollShape, MineShape, Where, DeviceIs, Crossed
<1>31. ASSUME NEW m \in {"PLAYING", "PAUSED", "STOPPED"}, HandsOn(m) PROVE EndsDue'
  <2>1. mine' = mine /\ cmd' = cmd /\ poll' = poll
    BY <1>31, Frames
  <2>2. /\ device.mode \in {"PLAYING", "PAUSED"} /\ device'.mode = m
        /\ device'.loading = device.loading /\ device'.uri = device.uri
        /\ device.uri # Foreign /\ m = "STOPPED" => due'
    BY <1>0, <1>01, <1>31, HandsOnDoes DEF DeviceIs, Where
  <2>3. device.loading = None
    BY <1>0, <2>2 DEF LoadingSeen
  <2>4. Telling' <=> Telling
    BY <2>1 DEF Telling
  <2>5. poll.pc \in {"served", "looking"} /\ poll.state = "PLAYING" /\ m = "STOPPED" => due'
    BY <1>0, <2>2 DEF EndsDue
  <2>6. CASE m = "STOPPED"
    BY <1>0, <1>00, <2>1, <2>2, <2>3, <2>4, <2>5, <2>6 DEF EndsDue
  <2>7. CASE m # "STOPPED"
    BY <1>0, <1>00, <2>1, <2>2, <2>3, <2>4, <2>7 DEF EndsDue
  <2>8. QED
    BY <2>6, <2>7
<1>. QED
  BY <1>1, <1>2, <1>3, <1>4, <1>5, <1>6, <1>7, <1>8, <1>9, <1>10, <1>11, <1>12, <1>13, <1>14,
     <1>15, <1>16, <1>17, <1>18, <1>19, <1>20, <1>21, <1>22, <1>23, <1>24, <1>25, <1>26, <1>27,
     <1>28, <1>29, <1>30, <1>31, Frames DEF Next, vars

\* No status was misread, and nothing was forgotten, sent again or armed too late.
Armed ==
  ~given.misread /\ ~given.late /\ ~given.orphaned /\ ~given.half /\ ~given.resent
\* What the renderer plays next is what the backend armed, and the queue of a Sonos ends there.
UpcomingArmed ==
  /\ mine.starting => mine.next = None
  /\ mine.next # None => mine.next # mine.current
  /\ ~mine.starting /\ mine.next # None => Upcoming \in {None, mine.next}
  /\ Asks /\ mine.next = None => Upcoming \in {None, mine.current}
  /\ Upcoming # None => Upcoming \notin {device.uri, device.loading} /\ device.uri # None
  /\ sonos /\ arm.pc = "setting" /\ ~mine.starting => Upcoming # arm.url
  /\ sonos => Len(device.queue) <= device.pos + 1 \/ device.pos = 0
  /\ sonos /\ mine.next # None => mine.nr # 0
  /\ sonos /\ ~mine.starting /\ Upcoming # None => mine.nr \in {0, device.pos + 1}
  /\ arm.pc = "removing" /\ ~mine.starting /\ Upcoming # None => arm.nr \in {0, device.pos + 1}
  /\ cmd.pc = "addUri" => device.queue = <<>>
  /\ cmd.pc = "playQueue" => device.queue \in {<<>>, <<cmd.url>>}
  /\ cmd.pc \in {"playUri", "playUriAgain"} => device.next = None
NextArmed == Armed => UpcomingArmed

\* The renderer's queue, the requests and what is armed are as before, or nothing is armed.
SameNext ==
  /\ sonos' = sonos /\ device'.uri = device.uri /\ device'.loading = device.loading
  /\ device'.next = device.next /\ device'.queue = device.queue /\ device'.pos = device.pos
SameRequests ==
  /\ arm'.pc = "setting" => arm.pc = "setting" /\ arm'.url = arm.url
  /\ arm'.pc = "removing" =>
       (arm.pc = "removing" /\ arm'.nr = arm.nr) \/ (sonos /\ arm'.nr = mine.nr)
  /\ \/ cmd'.pc = cmd.pc /\ cmd'.url = cmd.url
     \/ cmd'.pc \notin {"addUri", "playQueue", "playUri", "playUriAgain"}
SameArmed ==
  \/ /\ mine'.next = mine.next /\ mine'.starting = mine.starting
     /\ mine'.nr = mine.nr \/ (mine'.nr = 0 /\ mine.next = None)
     /\ \/ mine'.current = mine.current /\ mine'.external = mine.external
        \/ mine'.current = None
  \/ /\ mine'.next = None /\ mine'.nr = 0 /\ (mine.starting => mine'.starting)
     /\ mine'.external \/ mine'.starting \/ mine'.current = None
\* What plays next is the same then.
LEMMA UpcomingKept ==
  ASSUME SameNext
  PROVE  Upcoming' = Upcoming
  BY DEF SameNext, Upcoming
\* It holds on as well.
LEMMA NextKept ==
  ASSUME UpcomingArmed, SameNext, SameRequests, SameArmed
  PROVE  UpcomingArmed'
<1>1. Upcoming' = Upcoming
  BY UpcomingKept
<1>2. mine'.starting => mine'.next = None
  BY <1>1 DEF UpcomingArmed, SameNext, SameRequests, SameArmed, Asks
<1>3. mine'.next # None => mine'.next # mine'.current
  BY <1>1 DEF UpcomingArmed, SameNext, SameRequests, SameArmed, Asks
<1>4. ~mine'.starting /\ mine'.next # None => Upcoming' \in {None, mine'.next}
  BY <1>1 DEF UpcomingArmed, SameNext, SameRequests, SameArmed, Asks
<1>5. Asks' /\ mine'.next = None => Upcoming' \in {None, mine'.current}
  BY <1>1 DEF UpcomingArmed, SameNext, SameRequests, SameArmed, Asks
<1>6. Upcoming' # None => Upcoming' \notin {device'.uri, device'.loading} /\ device'.uri # None
  BY <1>1 DEF UpcomingArmed, SameNext, SameRequests, SameArmed, Asks
<1>7. sonos' /\ arm'.pc = "setting" /\ ~mine'.starting => Upcoming' # arm'.url
  BY <1>1 DEF UpcomingArmed, SameNext, SameRequests, SameArmed, Asks
<1>8. sonos' => Len(device'.queue) <= device'.pos + 1 \/ device'.pos = 0
  BY <1>1 DEF UpcomingArmed, SameNext, SameRequests, SameArmed, Asks
<1>9. sonos' /\ mine'.next # None => mine'.nr # 0
  BY <1>1 DEF UpcomingArmed, SameNext, SameRequests, SameArmed, Asks
<1>10. sonos' /\ ~mine'.starting /\ Upcoming' # None => mine'.nr \in {0, device'.pos + 1}
  BY <1>1 DEF UpcomingArmed, SameNext, SameRequests, SameArmed, Asks
<1>11. arm'.pc = "removing" /\ ~mine'.starting /\ Upcoming' # None => arm'.nr \in {0, device'.pos
       + 1}
  BY <1>1 DEF UpcomingArmed, SameNext, SameRequests, SameArmed, Asks
<1>12. cmd'.pc = "addUri" => device'.queue = <<>>
  BY <1>1 DEF UpcomingArmed, SameNext, SameRequests, SameArmed, Asks
<1>13. cmd'.pc = "playQueue" => device'.queue \in {<<>>, <<cmd'.url>>}
  BY <1>1 DEF UpcomingArmed, SameNext, SameRequests, SameArmed, Asks
<1>14. cmd'.pc \in {"playUri", "playUriAgain"} => device'.next = None
  BY <1>1 DEF UpcomingArmed, SameNext, SameRequests, SameArmed, Asks
<1>. QED
  BY <1>2, <1>3, <1>4, <1>5, <1>6, <1>7, <1>8, <1>9, <1>10, <1>11, <1>12, <1>13, <1>14
    DEF UpcomingArmed

\* It also holds when nothing is to be played next,
LEMMA NextNone ==
  ASSUME Upcoming' = None, mine'.next # None => ~mine'.starting /\ mine'.next # mine'.current,
         sonos' /\ mine'.next # None => mine'.nr # 0,
         arm'.pc = "setting" => arm'.url # None,
         sonos' => Len(device'.queue) <= device'.pos + 1 \/ device'.pos = 0,
         cmd'.pc = "addUri" => device'.queue = <<>>,
         cmd'.pc = "playQueue" => device'.queue \in {<<>>, <<cmd'.url>>},
         cmd'.pc \in {"playUri", "playUriAgain"} => device'.next = None
  PROVE  UpcomingArmed'
<1>1. mine'.starting => mine'.next = None
  OBVIOUS
<1>2. mine'.next # None => mine'.next # mine'.current
  OBVIOUS
<1>3. ~mine'.starting /\ mine'.next # None => Upcoming' \in {None, mine'.next}
  OBVIOUS
<1>4. Asks' /\ mine'.next = None => Upcoming' \in {None, mine'.current}
  OBVIOUS
<1>5. Upcoming' # None => Upcoming' \notin {device'.uri, device'.loading} /\ device'.uri # None
  OBVIOUS
<1>6. sonos' /\ arm'.pc = "setting" /\ ~mine'.starting => Upcoming' # arm'.url
  OBVIOUS
<1>7. sonos' => Len(device'.queue) <= device'.pos + 1 \/ device'.pos = 0
  OBVIOUS
<1>8. sonos' /\ mine'.next # None => mine'.nr # 0
  OBVIOUS
<1>9. sonos' /\ ~mine'.starting /\ Upcoming' # None => mine'.nr \in {0, device'.pos + 1}
  OBVIOUS
<1>10. arm'.pc = "removing" /\ ~mine'.starting /\ Upcoming' # None => arm'.nr \in {0, device'.pos
       + 1}
  OBVIOUS
<1>11. cmd'.pc = "addUri" => device'.queue = <<>>
  OBVIOUS
<1>12. cmd'.pc = "playQueue" => device'.queue \in {<<>>, <<cmd'.url>>}
  OBVIOUS
<1>13. cmd'.pc \in {"playUri", "playUriAgain"} => device'.next = None
  OBVIOUS
<1>. QED
  BY <1>1, <1>2, <1>3, <1>4, <1>5, <1>6, <1>7, <1>8, <1>9, <1>10, <1>11, <1>12, <1>13
    DEF UpcomingArmed

\* and when the renderer and the backend change nothing of it.
LEMMA NextSame ==
  ASSUME UpcomingArmed, SameRequests, sonos' = sonos, mine' = mine, device' = device
  PROVE  UpcomingArmed'
<1>1. SameNext
  BY DEF SameNext
<1>2. SameArmed
  BY DEF SameArmed
<1>3. QED
  BY <1>1, <1>2, NextKept

\* Every step keeps what plays next.
LEMMA StepNext ==
  ASSUME Typed, Shape, Where, NextArmed, [Next]_vars
  PROVE  NextArmed'
<1> SUFFICES ASSUME ~given'.misread, ~given'.late, ~given'.orphaned, ~given'.half, ~given'.resent
             PROVE  UpcomingArmed'
  BY DEF NextArmed, Armed
<1>0. /\ None \notin Urls /\ None # Foreign /\ Foreign \notin Urls /\ Typed /\ CmdShape /\ PollShape
      /\ MineShape /\ ArmShape /\ Where /\ UpcomingArmed
  BY DlnaAssumption, StepGrows DEF Shape, NextArmed, Armed, Grows
<1>1. CASE UNCHANGED <<sonos, mine, cmd, arm, device, given>>
  BY <1>0, <1>1, NextSame DEF SameRequests
<1>2. ASSUME NEW u \in Urls, Play(u) PROVE UpcomingArmed'
  <2>1. SameNext
    BY <1>2, Frames DEF SameNext
  <2>2. SameRequests
    BY <1>0, <1>2, PlayDoes, Frames, FirstIs DEF SameRequests, CmdIs, Idle
  <2>3. SameArmed
    BY <1>0, <1>2, PlayDoes, Frames DEF SameArmed, MineIs, StartsNow
  <2>4. QED
    BY <1>0, <2>1, <2>2, <2>3, NextKept
<1>3. ASSUME NEW u \in Urls, SetNextTrack(u) PROVE UpcomingArmed'
  <2>1. SameNext
    BY <1>3, Frames DEF SameNext
  <2>2. SameRequests
    BY <1>0, <1>3, SetNextTrackDoes, Frames DEF SameRequests, ArmIs, Idle
  <2>3. SameArmed
    BY <1>3, Frames DEF SameArmed
  <2>4. QED
    BY <1>0, <2>1, <2>2, <2>3, NextKept
<1>4. CASE PlayChecked
  <2>1. SameNext
    BY <1>4, Frames DEF SameNext
  <2>2. SameRequests
    BY <1>0, <1>4, PlayCheckedDoes, Frames, FirstIs DEF SameRequests, CmdIs
  <2>3. SameArmed
    BY <1>0, <1>4, PlayCheckedDoes, Frames DEF SameArmed, MineIs, StartsNow, TakesOver,
         ForeignSeen, Asks
  <2>4. QED
    BY <1>0, <2>1, <2>2, <2>3, NextKept
<1>5. CASE QueueCleared
  <2>1. /\ mine.starting /\ mine.next = None /\ sonos /\ (arm.pc = "setting" => arm.url # None)
        /\ mine' = mine /\ arm' = arm /\ sonos' = sonos /\ cmd.pc = "clearQueue"
    BY <1>0, <1>5, QueueClearedDoes, Frames DEF CmdShape, MineShape, ArmShape, UpcomingArmed,
         Kinds
  <2>2. CASE device' = device
    <3>1. cmd'.pc \in {"addUri", "setUri"}
      BY <1>0, <1>5, QueueClearedDoes DEF CmdIs
    <3>2. CASE cmd'.pc = "setUri"
      BY <1>0, <2>1, <2>2, <3>2, NextSame DEF SameRequests
    <3>3. CASE cmd'.pc = "addUri"
      <4>1. device'.queue = <<>> /\ device'.pos = 0
        BY <1>0, <1>5, <3>3, QueueClearedDoes DEF CmdIs, DeviceIs
      <4>2. Upcoming' = None
        BY <2>1, <4>1 DEF Upcoming
      <4>3. QED
        BY <2>1, <3>3, <4>1, <4>2, NextNone
    <3>4. QED
      BY <3>1, <3>2, <3>3
  <2>3. CASE device' # device
    <3>1. device'.queue = <<>> /\ device'.pos = 0 /\ cmd'.pc = "addUri"
      BY <1>0, <1>5, <2>3, QueueClearedDoes DEF CmdIs, DeviceIs
    <3>2. Upcoming' = None
      BY <2>1, <3>1 DEF Upcoming
    <3>3. QED
      BY <2>1, <3>1, <3>2, NextNone
  <2>4. QED
    BY <2>2, <2>3
<1>6. CASE UriAdded
  <2>1. /\ mine.starting /\ mine.next = None /\ sonos /\ (arm.pc = "setting" => arm.url # None)
        /\ mine' = mine /\ arm' = arm /\ sonos' = sonos /\ cmd.pc = "addUri"
        /\ device.queue = <<>> /\ device.pos = 0
    BY <1>0, <1>6, UriAddedDoes, Frames DEF CmdShape, MineShape, ArmShape, UpcomingArmed, Kinds,
         Where
  <2>2. CASE device' = device /\ cmd'.pc = "setUri"
    BY <1>0, <2>1, <2>2, NextSame DEF SameRequests
  <2>3. CASE device'.queue = Append(device.queue, cmd.url) /\ device'.pos = device.pos
             /\ cmd'.pc = "playQueue" /\ cmd'.url = cmd.url
    <3>1. device'.queue = <<cmd'.url>> /\ device'.pos = 0
      BY <2>1, <2>3
    <3>2. Upcoming' = None
      BY <2>1, <3>1 DEF Upcoming
    <3>3. QED
      BY <2>1, <2>3, <3>1, <3>2, NextNone
  <2>4. QED
    BY <1>0, <1>6, <2>2, <2>3, UriAddedDoes DEF CmdIs, DeviceIs
<1>7. CASE QueuePlayed
  <2>1. /\ mine.starting /\ mine.next = None /\ sonos /\ (arm.pc = "setting" => arm.url # None)
        /\ arm' = arm /\ sonos' = sonos /\ cmd.pc = "playQueue"
    BY <1>0, <1>7, QueuePlayedDoes, Frames DEF CmdShape, MineShape, ArmShape, UpcomingArmed,
         Kinds, Where
  <2>2. /\ device.queue # <<>> /\ device'.queue = device.queue /\ device'.pos = 1
        /\ mine'.next = mine.next /\ cmd'.pc = "none"
    BY <1>0, <1>7, QueuePlayedDoes DEF HalfWay, DeviceIs, Succeeded, MineIs, CmdIs
  <2>3. device'.queue = <<cmd.url>>
    BY <1>0, <2>1, <2>2 DEF UpcomingArmed
  <2>4. Len(device'.queue) = 1
    BY <2>3
  <2>5. Upcoming' = None
    BY <2>1, <2>2, <2>4 DEF Upcoming
  <2>6. QED
    BY <2>1, <2>2, <2>4, <2>5, NextNone
<1>8. CASE UriSet
  <2>1. /\ mine.starting /\ mine.next = None /\ (arm.pc = "setting" => arm.url # None)
        /\ arm' = arm /\ sonos' = sonos /\ cmd.pc \in {"setUri", "setUriAgain"}
    BY <1>0, <1>8, UriSetDoes, Frames DEF CmdShape, MineShape, ArmShape, UpcomingArmed, Kinds,
         Where
  <2>2. CASE device' = device /\ mine' = mine /\ cmd'.pc = "reset"
    BY <1>0, <2>1, <2>2, NextSame DEF SameRequests
  <2>3. CASE /\ mine' = mine /\ device'.next = None /\ device'.pos = 0
             /\ cmd'.pc \in {"playUri", "playUriAgain"}
    <3>1. Upcoming' = None
      BY <2>1, <2>3 DEF Upcoming
    <3>2. QED
      BY <2>1, <2>3, <3>1, NextNone
  <2>4. QED
    BY <1>0, <1>8, <2>2, <2>3, UriSetDoes DEF CmdIs, DeviceIs, HalfWay
<1>9. CASE UriPlayed
  <2>1. /\ mine.starting /\ mine.next = None /\ (arm.pc = "setting" => arm.url # None)
        /\ arm' = arm /\ sonos' = sonos /\ cmd.pc \in {"playUri", "playUriAgain"}
        /\ device.next = None /\ device.pos = 0
    BY <1>0, <1>9, UriPlayedDoes, Frames DEF CmdShape, MineShape, ArmShape, UpcomingArmed, Kinds,
         Where
  <2>2. CASE device' = device /\ mine' = mine /\ cmd'.pc = "reset"
    BY <1>0, <2>1, <2>2, NextSame DEF SameRequests
  <2>3. CASE /\ mine'.next = mine.next /\ device'.next = device.next /\ cmd'.pc = "none"
             /\ device'.pos \in {0, device.pos}
    <3>1. Upcoming' = None
      BY <2>1, <2>3 DEF Upcoming
    <3>2. QED
      BY <2>1, <2>3, <3>1, NextNone
  <2>4. QED
    BY <1>0, <1>9, <2>2, <2>3, UriPlayedDoes DEF CmdIs, DeviceIs, HalfWay, Succeeded, MineIs
<1>10. CASE TransportReset
  <2>1. SameNext
    BY <1>0, <1>10, TransportResetDoes, Frames DEF SameNext, DeviceIs
  <2>2. SameRequests
    BY <1>0, <1>10, TransportResetDoes, Frames DEF SameRequests, CmdIs
  <2>3. SameArmed
    BY <1>10, Frames DEF SameArmed
  <2>4. QED
    BY <1>0, <2>1, <2>2, <2>3, NextKept
<1>11. ASSUME NEW kind \in {"pause", "resume", "stop"}, Command(kind) PROVE UpcomingArmed'
  <2>1. SameNext
    BY <1>11, Frames DEF SameNext
  <2>2. SameRequests
    BY <1>0, <1>11, CommandDoes, Frames DEF SameRequests, CmdIs, Idle
  <2>3. SameArmed
    BY <1>0, <1>11, CommandDoes, Frames DEF SameArmed, MineIs, Forgotten, StopForgets
  <2>4. QED
    BY <1>0, <2>1, <2>2, <2>3, NextKept
<1>12. CASE CommandChecked
  <2>1. SameNext
    BY <1>12, Frames DEF SameNext
  <2>2. SameRequests
    BY <1>0, <1>12, CommandCheckedDoes, Frames DEF SameRequests, CmdIs
  <2>3. SameArmed
    BY <1>0, <1>12, CommandCheckedDoes, Frames DEF SameArmed, MineIs, TakesOver, Forgotten,
         StopForgets, ForeignSeen, Asks
  <2>4. QED
    BY <1>0, <2>1, <2>2, <2>3, NextKept
<1>13. CASE CommandDone
  <2>1. SameNext
    BY <1>0, <1>13, CommandDoneDoes, Frames DEF SameNext, DeviceIs
  <2>2. SameRequests
    BY <1>0, <1>13, CommandDoneDoes, Frames DEF SameRequests, CmdIs
  <2>3. SameArmed
    BY <1>13, Frames DEF SameArmed
  <2>4. QED
    BY <1>0, <2>1, <2>2, <2>3, NextKept
<1>14. CASE CommandTold
  <2>1. SameNext
    BY <1>14, Frames DEF SameNext
  <2>2. SameRequests
    BY <1>0, <1>14, CommandToldDoes, Frames DEF SameRequests, CmdIs, Idle
  <2>3. SameArmed
    BY <1>0, <1>14, CommandToldDoes, Frames DEF SameArmed, MineIs
  <2>4. QED
    BY <1>0, <2>1, <2>2, <2>3, NextKept
<1>15. CASE SetNextChecked
  <2>1. SameNext
    BY <1>15, Frames DEF SameNext
  <2>2. SameArmed
    BY <1>0, <1>15, SetNextCheckedDoes, Frames DEF SameArmed, MineIs, TakesOver, ForeignSeen, Asks
  <2>3. CASE arm'.pc # "setting"
    <3>1. SameRequests
      BY <1>0, <1>15, <2>3, SetNextCheckedDoes, Frames DEF SameRequests, ArmIs
    <3>2. QED
      BY <1>0, <2>1, <2>2, <3>1, NextKept
  <2>4. CASE arm'.pc = "setting"
    <3>1. /\ mine' = mine /\ device' = device /\ sonos' = sonos /\ cmd' = cmd
          /\ arm'.url = arm.url /\ arm.kind = "set" /\ Ours(arm) /\ ~Queued(arm.url)
      BY <1>0, <1>15, <2>4, SetNextCheckedDoes, Frames DEF ArmIs
    <3>2. /\ arm.url \in Urls /\ arm.url # mine.current /\ Asks /\ ~mine.starting
      BY <1>0, <3>1 DEF Ours, ArmShape, Asks
    <3>3. sonos => Upcoming # arm.url
      BY <1>0, <3>1, <3>2 DEF UpcomingArmed, Queued
    <3>4. Upcoming' = Upcoming /\ Asks' = Asks
      BY <3>1 DEF Upcoming, Asks
    <3>5. mine'.starting => mine'.next = None
      BY <1>0, <2>4, <3>1, <3>3, <3>4 DEF UpcomingArmed
    <3>6. mine'.next # None => mine'.next # mine'.current
      BY <1>0, <2>4, <3>1, <3>3, <3>4 DEF UpcomingArmed
    <3>7. ~mine'.starting /\ mine'.next # None => Upcoming' \in {None, mine'.next}
      BY <1>0, <2>4, <3>1, <3>3, <3>4 DEF UpcomingArmed
    <3>8. Asks' /\ mine'.next = None => Upcoming' \in {None, mine'.current}
      BY <1>0, <2>4, <3>1, <3>3, <3>4 DEF UpcomingArmed
    <3>9. Upcoming' # None => Upcoming' \notin {device'.uri, device'.loading} /\ device'.uri #
           None
      BY <1>0, <2>4, <3>1, <3>3, <3>4 DEF UpcomingArmed
    <3>10. sonos' /\ arm'.pc = "setting" /\ ~mine'.starting => Upcoming' # arm'.url
      BY <1>0, <2>4, <3>1, <3>3, <3>4 DEF UpcomingArmed
    <3>11. sonos' => Len(device'.queue) <= device'.pos + 1 \/ device'.pos = 0
      BY <1>0, <2>4, <3>1, <3>3, <3>4 DEF UpcomingArmed
    <3>12. sonos' /\ mine'.next # None => mine'.nr # 0
      BY <1>0, <2>4, <3>1, <3>3, <3>4 DEF UpcomingArmed
    <3>13. sonos' /\ ~mine'.starting /\ Upcoming' # None => mine'.nr \in {0, device'.pos + 1}
      BY <1>0, <2>4, <3>1, <3>3, <3>4 DEF UpcomingArmed
    <3>14. arm'.pc = "removing" /\ ~mine'.starting /\ Upcoming' # None => arm'.nr \in {0,
           device'.pos + 1}
      BY <1>0, <2>4, <3>1, <3>3, <3>4 DEF UpcomingArmed
    <3>15. cmd'.pc = "addUri" => device'.queue = <<>>
      BY <1>0, <2>4, <3>1, <3>3, <3>4 DEF UpcomingArmed
    <3>16. cmd'.pc = "playQueue" => device'.queue \in {<<>>, <<cmd'.url>>}
      BY <1>0, <2>4, <3>1, <3>3, <3>4 DEF UpcomingArmed
    <3>17. cmd'.pc \in {"playUri", "playUriAgain"} => device'.next = None
      BY <1>0, <2>4, <3>1, <3>3, <3>4 DEF UpcomingArmed
    <3>18. QED
      BY <3>5, <3>6, <3>7, <3>8, <3>9, <3>10, <3>11, <3>12, <3>13, <3>14, <3>15, <3>16, <3>17
        DEF UpcomingArmed
  <2>5. QED
    BY <2>3, <2>4
<1>16. CASE NextSet
  <2>1. /\ cmd' = cmd /\ sonos' = sonos /\ arm'.pc = "none" /\ arm.url \in Urls
        /\ arm.pc = "setting" /\ mine'.current = mine.current /\ mine'.starting = mine.starting
        /\ mine'.external = mine.external
        /\ device'.uri = device.uri /\ device'.loading = device.loading
    BY <1>0, <1>16, NextSetDoes, Frames DEF MineIs, ArmIs, DeviceIs, ArmShape
  <2>2. CASE device' = device /\ mine'.next = mine.next /\ mine'.nr = mine.nr
    <3>1. SameNext /\ SameRequests /\ SameArmed
      BY <1>0, <2>1, <2>2 DEF SameNext, SameRequests, SameArmed
    <3>2. QED
      BY <1>0, <3>1, NextKept
  <2>3. CASE ~(device' = device /\ mine'.next = mine.next /\ mine'.nr = mine.nr)
    <3>1. ~Overtaken /\ mine'.next = arm.url
      BY <1>0, <1>16, <2>3, NextSetDoes DEF MineIs
    <3>2. /\ ~mine.starting /\ mine.current = arm.expected /\ arm.url # mine.current
          /\ arm.url \notin {device.uri, device.loading}
          /\ cmd.pc \notin {"addUri", "playQueue", "playUri", "playUriAgain"}
          /\ device.uri # None
      BY <1>0, <2>1, <3>1 DEF Overtaken, ArmShape, MineShape, CmdShape, Kinds, Where
    <3>3. /\ Upcoming' \in {None, arm.url}
          /\ sonos => Len(device'.queue) <= device'.pos + 1 \/ device'.pos = 0
          /\ sonos => mine'.nr # 0
          /\ sonos /\ Upcoming' # None => mine'.nr = device'.pos + 1
      <4>1. CASE ~sonos
        BY <1>0, <1>16, <2>1, <2>3, <4>1, NextSetDoes DEF Upcoming, DeviceIs, MineIs
      <4>2. CASE sonos
        <5>1. /\ device'.queue = Append(device.queue, arm.url) /\ device'.pos = device.pos
              /\ mine'.nr = Len(device.queue) + 1 /\ Upcoming \in {None, arm.url}
          BY <1>0, <1>16, <2>3, <4>2, NextSetDoes DEF DeviceIs, MineIs
        <5>2. Upcoming = None
          BY <1>0, <2>1, <3>2, <4>2, <5>1 DEF UpcomingArmed
        <5>3. /\ device.queue \in Seq(Urls) /\ device.pos \in 0 .. Len(device.queue)
          BY <1>0 DEF Typed, DeviceTyped, Devices
        <5>4. /\ Len(device'.queue) = Len(device.queue) + 1 /\ Len(device.queue) \in Nat
              /\ device'.queue[Len(device.queue) + 1] = arm.url
          BY <2>1, <5>1, <5>3
        <5>5. device.pos \in 1 .. Len(device.queue) - 1 => device.queue[device.pos + 1] \in Urls
          BY <5>3
        <5>6. device.pos \in {0, Len(device.queue)}
          BY <1>0, <4>2, <5>2, <5>3, <5>5 DEF Upcoming
        <5>7. QED
          BY <2>1, <4>2, <5>1, <5>3, <5>4, <5>6 DEF Upcoming
      <4>3. QED
        BY <4>1, <4>2
    <3>4. mine'.starting => mine'.next = None
      BY <1>0, <2>1, <3>1, <3>2, <3>3
    <3>5. mine'.next # None => mine'.next # mine'.current
      BY <1>0, <2>1, <3>1, <3>2, <3>3
    <3>6. ~mine'.starting /\ mine'.next # None => Upcoming' \in {None, mine'.next}
      BY <1>0, <2>1, <3>1, <3>2, <3>3
    <3>7. Asks' /\ mine'.next = None => Upcoming' \in {None, mine'.current}
      BY <1>0, <2>1, <3>1, <3>2, <3>3
    <3>8. Upcoming' # None => Upcoming' \notin {device'.uri, device'.loading} /\ device'.uri #
           None
      BY <1>0, <2>1, <3>1, <3>2, <3>3
    <3>9. sonos' /\ arm'.pc = "setting" /\ ~mine'.starting => Upcoming' # arm'.url
      BY <1>0, <2>1, <3>1, <3>2, <3>3
    <3>10. sonos' => Len(device'.queue) <= device'.pos + 1 \/ device'.pos = 0
      BY <1>0, <2>1, <3>1, <3>2, <3>3
    <3>11. sonos' /\ mine'.next # None => mine'.nr # 0
      BY <1>0, <2>1, <3>1, <3>2, <3>3
    <3>12. sonos' /\ ~mine'.starting /\ Upcoming' # None => mine'.nr \in {0, device'.pos + 1}
      BY <1>0, <2>1, <3>1, <3>2, <3>3
    <3>13. arm'.pc = "removing" /\ ~mine'.starting /\ Upcoming' # None => arm'.nr \in {0,
           device'.pos + 1}
      BY <1>0, <2>1, <3>1, <3>2, <3>3
    <3>14. cmd'.pc = "addUri" => device'.queue = <<>>
      BY <1>0, <2>1, <3>1, <3>2, <3>3
    <3>15. cmd'.pc = "playQueue" => device'.queue \in {<<>>, <<cmd'.url>>}
      BY <1>0, <2>1, <3>1, <3>2, <3>3
    <3>16. cmd'.pc \in {"playUri", "playUriAgain"} => device'.next = None
      BY <1>0, <2>1, <3>1, <3>2, <3>3
    <3>17. QED
      BY <3>4, <3>5, <3>6, <3>7, <3>8, <3>9, <3>10, <3>11, <3>12, <3>13, <3>14, <3>15, <3>16
        DEF UpcomingArmed
  <2>4. QED
    BY <2>2, <2>3
<1>17. CASE ClearNextTrack
  <2>1. SameNext
    BY <1>17, Frames DEF SameNext
  <2>2. SameRequests
    BY <1>0, <1>17, ClearNextTrackDoes, Frames DEF SameRequests, ArmIs, Idle
  <2>3. SameArmed
    BY <1>0, <1>17, ClearNextTrackDoes, Frames DEF SameArmed, MineIs, Forgotten
  <2>4. QED
    BY <1>0, <2>1, <2>2, <2>3, NextKept
<1>18. CASE ClearNextChecked
  <2>1. SameNext
    BY <1>18, Frames DEF SameNext
  <2>2. SameRequests
    BY <1>0, <1>18, ClearNextCheckedDoes, Frames DEF SameRequests, ArmShape, ArmIs, Idle
  <2>3. SameArmed
    BY <1>0, <1>18, ClearNextCheckedDoes, Frames DEF SameArmed, MineIs, TakesOver, Forgotten,
         ForeignSeen, Asks
  <2>4. QED
    BY <1>0, <2>1, <2>2, <2>3, NextKept
<1>19. CASE NextRemoved
  <2>1. /\ cmd' = cmd /\ sonos' = sonos /\ sonos /\ arm'.pc = "none" /\ arm.pc = "removing"
        /\ device'.uri = device.uri /\ device'.loading = device.loading
        /\ device'.next = device.next
    BY <1>0, <1>19, NextRemovedDoes, Frames DEF MineIs, ArmIs, DeviceIs, ArmShape, Forgotten
  <2>2. CASE device' = device /\ Forgotten
    <3>1. SameNext /\ SameRequests /\ SameArmed
      BY <1>0, <2>1, <2>2 DEF SameNext, SameRequests, SameArmed, Forgotten, MineIs
    <3>2. QED
      BY <1>0, <3>1, NextKept
  <2>3. CASE ~(device' = device /\ Forgotten)
    <3>1. /\ arm.nr \in 1 .. Len(device.queue) /\ device.uri = mine.current
          /\ device'.queue = RemoveAt(device.queue, arm.nr)
          /\ device'.pos = IF arm.nr = device.pos THEN 0
                           ELSE IF arm.nr < device.pos THEN device.pos - 1 ELSE device.pos
          /\ mine'.next = None /\ mine'.starting = mine.starting
          /\ mine'.current = mine.current /\ mine'.external = mine.external
      BY <1>0, <1>19, <2>3, NextRemovedDoes DEF MineIs, DeviceIs
    <3>2. /\ device.queue \in Seq(Urls) /\ device.pos \in 0 .. Len(device.queue)
          /\ Len(device.queue) \in Nat
      BY <1>0 DEF Typed, DeviceTyped, Devices
    <3>3. /\ RemoveAt(device.queue, arm.nr) \in Seq(Urls)
          /\ Len(RemoveAt(device.queue, arm.nr)) = Len(device.queue) - 1
          /\ \A j \in 1 .. Len(device.queue) - 1 :
               RemoveAt(device.queue, arm.nr)[j] =
                 IF j < arm.nr THEN device.queue[j] ELSE device.queue[j + 1]
      BY <3>1, <3>2, Removed
    <3>4. /\ sonos => Len(device.queue) <= device.pos + 1 \/ device.pos = 0
          /\ ~mine.starting /\ Upcoming # None => arm.nr \in {0, device.pos + 1}
          /\ Asks /\ mine.next = None => Upcoming \in {None, mine.current}
          /\ ~mine.starting /\ mine.next # None => Upcoming \in {None, mine.next}
          /\ Upcoming # None => Upcoming # device.uri
      BY <1>0, <2>1 DEF UpcomingArmed
    <3>5. CASE Upcoming' = None
      <4>1. sonos' => Len(device'.queue) <= device'.pos + 1 \/ device'.pos = 0
        <5>1. Len(device'.queue) = Len(device.queue) - 1
          BY <3>1, <3>3
        <5>2. Len(device.queue) <= device.pos + 1 \/ device.pos = 0
          BY <2>1, <3>4
        <5>3. /\ device'.pos = IF arm.nr = device.pos THEN 0
                               ELSE IF arm.nr < device.pos THEN device.pos - 1 ELSE device.pos
              /\ device.pos \in Nat /\ arm.nr \in Nat
          BY <3>1, <3>2
        <5>4. QED
          BY <3>2, <5>1, <5>2, <5>3
      <4>2. /\ cmd.pc = "addUri" => device.queue = <<>>
            /\ cmd.pc = "playQueue" => device.queue \in {<<>>, <<cmd.url>>}
            /\ cmd.pc \in {"playUri", "playUriAgain"} => device.next = None
        BY <1>0 DEF UpcomingArmed
      <4>3. cmd.pc # "addUri" /\ (cmd.pc = "playQueue" => device'.queue = <<>>)
        BY <3>1, <3>2, <3>3, <4>2
      <4>4. QED
        BY <2>1, <3>1, <3>5, <4>1, <4>2, <4>3, NextNone
    <3>6. CASE Upcoming' # None
      <4>1. device'.pos \in 1 .. Len(device'.queue) - 1
        BY <2>1, <3>6 DEF Upcoming
      <4>2. /\ arm.nr < device.pos /\ device'.pos = device.pos - 1
            /\ Len(device'.queue) = Len(device.queue) - 1
            /\ device'.queue[device.pos] = device.queue[device.pos + 1]
            /\ device.pos \in 1 .. Len(device.queue) - 1
            /\ Len(device.queue) = device.pos + 1
        BY <2>1, <3>1, <3>2, <3>3, <3>4, <4>1
      <4>3. Upcoming' = Upcoming
        BY <2>1, <3>2, <4>1, <4>2 DEF Upcoming
      <4>4. mine.starting /\ cmd.pc # "addUri" /\ Len(device'.queue) = device'.pos + 1
        BY <1>0, <2>1, <3>1, <3>2, <3>4, <3>6, <4>2, <4>3 DEF UpcomingArmed
      <4>5. cmd.pc # "playQueue"
        BY <1>0, <3>2, <4>2 DEF UpcomingArmed
      <4>6. mine'.starting => mine'.next = None
        BY <1>0, <2>1, <3>1, <4>3, <4>4, <4>5 DEF UpcomingArmed, Asks
      <4>7. mine'.next # None => mine'.next # mine'.current
        BY <1>0, <2>1, <3>1, <4>3, <4>4, <4>5 DEF UpcomingArmed, Asks
      <4>8. ~mine'.starting /\ mine'.next # None => Upcoming' \in {None, mine'.next}
        BY <1>0, <2>1, <3>1, <4>3, <4>4, <4>5 DEF UpcomingArmed, Asks
      <4>9. Asks' /\ mine'.next = None => Upcoming' \in {None, mine'.current}
        BY <1>0, <2>1, <3>1, <4>3, <4>4, <4>5 DEF UpcomingArmed, Asks
      <4>10. Upcoming' # None => Upcoming' \notin {device'.uri, device'.loading} /\ device'.uri #
             None
        BY <1>0, <2>1, <3>1, <4>3, <4>4, <4>5 DEF UpcomingArmed, Asks
      <4>11. sonos' /\ arm'.pc = "setting" /\ ~mine'.starting => Upcoming' # arm'.url
        BY <1>0, <2>1, <3>1, <4>3, <4>4, <4>5 DEF UpcomingArmed, Asks
      <4>12. sonos' => Len(device'.queue) <= device'.pos + 1 \/ device'.pos = 0
        BY <1>0, <2>1, <3>1, <4>3, <4>4, <4>5 DEF UpcomingArmed, Asks
      <4>13. sonos' /\ mine'.next # None => mine'.nr # 0
        BY <1>0, <2>1, <3>1, <4>3, <4>4, <4>5 DEF UpcomingArmed, Asks
      <4>14. sonos' /\ ~mine'.starting /\ Upcoming' # None => mine'.nr \in {0, device'.pos + 1}
        BY <1>0, <2>1, <3>1, <4>3, <4>4, <4>5 DEF UpcomingArmed, Asks
      <4>15. arm'.pc = "removing" /\ ~mine'.starting /\ Upcoming' # None => arm'.nr \in {0,
             device'.pos + 1}
        BY <1>0, <2>1, <3>1, <4>3, <4>4, <4>5 DEF UpcomingArmed, Asks
      <4>16. cmd'.pc = "addUri" => device'.queue = <<>>
        BY <1>0, <2>1, <3>1, <4>3, <4>4, <4>5 DEF UpcomingArmed, Asks
      <4>17. cmd'.pc = "playQueue" => device'.queue \in {<<>>, <<cmd'.url>>}
        BY <1>0, <2>1, <3>1, <4>3, <4>4, <4>5 DEF UpcomingArmed, Asks
      <4>18. cmd'.pc \in {"playUri", "playUriAgain"} => device'.next = None
        BY <1>0, <2>1, <3>1, <4>3, <4>4, <4>5 DEF UpcomingArmed, Asks
      <4>19. QED
        BY <4>6, <4>7, <4>8, <4>9, <4>10, <4>11, <4>12, <4>13, <4>14, <4>15, <4>16, <4>17, <4>18
          DEF UpcomingArmed
    <3>7. QED
      BY <3>5, <3>6
  <2>4. QED
    BY <2>2, <2>3
<1>20. ASSUME NEW kind \in {"select", "check"}, Ask(kind) PROVE UpcomingArmed'
  <2>1. SameNext
    BY <1>20, Frames DEF SameNext
  <2>2. SameRequests
    BY <1>20, Frames DEF SameRequests
  <2>3. SameArmed
    BY <1>0, <1>20, AskDoes, Frames DEF SameArmed, MineIs, Released
  <2>4. QED
    BY <1>0, <2>1, <2>2, <2>3, NextKept
<1>21. CASE AskAnswered
  <2>1. SameNext
    BY <1>21, Frames DEF SameNext
  <2>2. SameRequests
    BY <1>21, Frames DEF SameRequests
  <2>3. SameArmed
    BY <1>0, <1>21, AskAnsweredDoes, Frames DEF SameArmed, MineIs, TakesOver, Released,
         ForeignSeen, Asks
  <2>4. QED
    BY <1>0, <2>1, <2>2, <2>3, NextKept
<1>22. CASE PollChecked
  <2>1. SameNext
    BY <1>22, Frames DEF SameNext
  <2>2. SameRequests
    BY <1>22, Frames DEF SameRequests
  <2>3. SameArmed
    BY <1>0, <1>22, PollCheckedDoes, Frames DEF SameArmed, MineIs, TakesOver, ForeignSeen, Asks
  <2>4. QED
    BY <1>0, <2>1, <2>2, <2>3, NextKept
<1>23. CASE StatusServed
  <2>1. SameNext
    BY <1>23, Frames DEF SameNext
  <2>2. SameRequests
    BY <1>23, Frames DEF SameRequests
  <2>3. SameArmed
    BY <1>23, Frames DEF SameArmed
  <2>4. QED
    BY <1>0, <2>1, <2>2, <2>3, NextKept
<1>24. CASE StatusReturned
  <2>1. SameNext
    BY <1>24, Frames DEF SameNext
  <2>2. SameRequests
    BY <1>24, Frames DEF SameRequests
  <2>3. SameArmed
    BY <1>0, <1>24, StatusReturnedDoes, Frames DEF SameArmed, MineIs, ChangedTo
  <2>4. QED
    BY <1>0, <2>1, <2>2, <2>3, NextKept
<1>25. CASE TrackLooked
  <2>1. SameNext
    BY <1>25, Frames DEF SameNext
  <2>2. SameRequests
    BY <1>25, Frames DEF SameRequests
  <2>3. CASE mine'.current = mine.current
    <3>1. SameArmed
      BY <1>0, <1>25, <2>3, TrackLookedDoes, Frames DEF SameArmed, MineIs, ChangedTo,
           UpcomingArmed
    <3>2. QED
      BY <1>0, <2>1, <2>2, <3>1, NextKept
  <2>4. CASE mine'.current # mine.current
    <3>1. /\ mine.next # None /\ mine'.current = mine.next /\ mine'.next = None /\ mine'.nr = 0
          /\ mine'.external = mine.external /\ mine'.starting = mine.starting
          /\ device' = device /\ sonos' = sonos /\ cmd' = cmd /\ arm' = arm
      BY <1>0, <1>25, <2>4, TrackLookedDoes, Frames DEF MineIs, ChangedTo
    <3>2. Upcoming' = Upcoming /\ ~mine.starting /\ Upcoming \in {None, mine.next}
      BY <1>0, <2>1, <3>1, UpcomingKept DEF UpcomingArmed
    <3>3. mine'.starting => mine'.next = None
      BY <1>0, <3>1, <3>2 DEF UpcomingArmed
    <3>4. mine'.next # None => mine'.next # mine'.current
      BY <1>0, <3>1, <3>2 DEF UpcomingArmed
    <3>5. ~mine'.starting /\ mine'.next # None => Upcoming' \in {None, mine'.next}
      BY <1>0, <3>1, <3>2 DEF UpcomingArmed
    <3>6. Asks' /\ mine'.next = None => Upcoming' \in {None, mine'.current}
      BY <1>0, <3>1, <3>2 DEF UpcomingArmed
    <3>7. Upcoming' # None => Upcoming' \notin {device'.uri, device'.loading} /\ device'.uri #
           None
      BY <1>0, <3>1, <3>2 DEF UpcomingArmed
    <3>8. sonos' /\ arm'.pc = "setting" /\ ~mine'.starting => Upcoming' # arm'.url
      BY <1>0, <3>1, <3>2 DEF UpcomingArmed
    <3>9. sonos' => Len(device'.queue) <= device'.pos + 1 \/ device'.pos = 0
      BY <1>0, <3>1, <3>2 DEF UpcomingArmed
    <3>10. sonos' /\ mine'.next # None => mine'.nr # 0
      BY <1>0, <3>1, <3>2 DEF UpcomingArmed
    <3>11. sonos' /\ ~mine'.starting /\ Upcoming' # None => mine'.nr \in {0, device'.pos + 1}
      BY <1>0, <3>1, <3>2 DEF UpcomingArmed
    <3>12. arm'.pc = "removing" /\ ~mine'.starting /\ Upcoming' # None => arm'.nr \in {0,
           device'.pos + 1}
      BY <1>0, <3>1, <3>2 DEF UpcomingArmed
    <3>13. cmd'.pc = "addUri" => device'.queue = <<>>
      BY <1>0, <3>1, <3>2 DEF UpcomingArmed
    <3>14. cmd'.pc = "playQueue" => device'.queue \in {<<>>, <<cmd'.url>>}
      BY <1>0, <3>1, <3>2 DEF UpcomingArmed
    <3>15. cmd'.pc \in {"playUri", "playUriAgain"} => device'.next = None
      BY <1>0, <3>1, <3>2 DEF UpcomingArmed
    <3>16. QED
      BY <3>3, <3>4, <3>5, <3>6, <3>7, <3>8, <3>9, <3>10, <3>11, <3>12, <3>13, <3>14, <3>15
        DEF UpcomingArmed
  <2>5. QED
    BY <2>3, <2>4
<1>26. CASE GraceEnds
  <2>1. SameNext
    BY <1>26, Frames DEF SameNext
  <2>2. SameRequests
    BY <1>26, Frames DEF SameRequests
  <2>3. SameArmed
    BY <1>0, <1>26, GraceEndsDoes, Frames DEF SameArmed, MineIs
  <2>4. QED
    BY <1>0, <2>1, <2>2, <2>3, NextKept
<1>27. CASE Loaded
  <2>1. /\ device'.uri = device.loading /\ device'.loading = None /\ device.loading # None
        /\ device'.next = device.next /\ device'.queue = device.queue /\ device'.pos = device.pos
        /\ sonos' = sonos /\ cmd' = cmd /\ arm' = arm /\ mine' = mine
    BY <1>0, <1>27, LoadedDoes, Frames DEF DeviceIs
  <2>2. Upcoming' = Upcoming /\ Asks' = Asks
    BY <2>1 DEF Upcoming, Asks
  <2>3. mine'.starting => mine'.next = None
    BY <1>0, <2>1, <2>2 DEF UpcomingArmed
  <2>4. mine'.next # None => mine'.next # mine'.current
    BY <1>0, <2>1, <2>2 DEF UpcomingArmed
  <2>5. ~mine'.starting /\ mine'.next # None => Upcoming' \in {None, mine'.next}
    BY <1>0, <2>1, <2>2 DEF UpcomingArmed
  <2>6. Asks' /\ mine'.next = None => Upcoming' \in {None, mine'.current}
    BY <1>0, <2>1, <2>2 DEF UpcomingArmed
  <2>7. Upcoming' # None => Upcoming' \notin {device'.uri, device'.loading} /\ device'.uri # None
    BY <1>0, <2>1, <2>2 DEF UpcomingArmed
  <2>8. sonos' /\ arm'.pc = "setting" /\ ~mine'.starting => Upcoming' # arm'.url
    BY <1>0, <2>1, <2>2 DEF UpcomingArmed
  <2>9. sonos' => Len(device'.queue) <= device'.pos + 1 \/ device'.pos = 0
    BY <1>0, <2>1, <2>2 DEF UpcomingArmed
  <2>10. sonos' /\ mine'.next # None => mine'.nr # 0
    BY <1>0, <2>1, <2>2 DEF UpcomingArmed
  <2>11. sonos' /\ ~mine'.starting /\ Upcoming' # None => mine'.nr \in {0, device'.pos + 1}
    BY <1>0, <2>1, <2>2 DEF UpcomingArmed
  <2>12. arm'.pc = "removing" /\ ~mine'.starting /\ Upcoming' # None => arm'.nr \in {0,
         device'.pos + 1}
    BY <1>0, <2>1, <2>2 DEF UpcomingArmed
  <2>13. cmd'.pc = "addUri" => device'.queue = <<>>
    BY <1>0, <2>1, <2>2 DEF UpcomingArmed
  <2>14. cmd'.pc = "playQueue" => device'.queue \in {<<>>, <<cmd'.url>>}
    BY <1>0, <2>1, <2>2 DEF UpcomingArmed
  <2>15. cmd'.pc \in {"playUri", "playUriAgain"} => device'.next = None
    BY <1>0, <2>1, <2>2 DEF UpcomingArmed
  <2>16. QED
    BY <2>3, <2>4, <2>5, <2>6, <2>7, <2>8, <2>9, <2>10, <2>11, <2>12, <2>13, <2>14, <2>15
      DEF UpcomingArmed
<1>28. CASE Advances
  <2>1. /\ mine' = mine /\ arm' = arm /\ cmd' = cmd /\ sonos' = sonos
        /\ (arm.pc = "setting" => arm.url # None) /\ device.mode = "PLAYING" /\ Upcoming # None
        /\ cmd.pc \notin {"addUri", "playQueue"}
    BY <1>0, <1>28, AdvancesDoes, Frames DEF ArmShape, Where, CmdShape, Upcoming
  <2>2. /\ mine.next # None => ~mine.starting /\ mine.next # mine.current
        /\ sonos /\ mine.next # None => mine.nr # 0
        /\ sonos => Len(device.queue) <= device.pos + 1 \/ device.pos = 0
        /\ cmd.pc \in {"playUri", "playUriAgain"} => device.next = None
    BY <1>0 DEF UpcomingArmed
  <2>3. CASE sonos
    <3>1. /\ device.pos \in 1 .. Len(device.queue) - 1 /\ device'.pos = device.pos + 1
          /\ device'.queue = device.queue /\ device'.next = device.next
      BY <1>0, <1>28, <2>1, <2>3, AdvancesDoes, UpcomingTyped DEF DeviceIs, Typed
    <3>2. device.pos \in Nat /\ Len(device.queue) \in Nat
      BY <1>0 DEF Typed, DeviceTyped, Devices
    <3>3. Upcoming' = None /\ Len(device'.queue) <= device'.pos + 1
      BY <2>1, <2>2, <2>3, <3>1, <3>2 DEF Upcoming
    <3>4. QED
      BY <2>1, <2>2, <3>1, <3>3, NextNone
  <2>4. CASE ~sonos
    <3>1. device'.next = None
      BY <1>0, <1>28, <2>4, AdvancesDoes DEF DeviceIs
    <3>2. Upcoming' = None
      BY <2>1, <2>4, <3>1 DEF Upcoming
    <3>3. QED
      BY <2>1, <2>2, <2>4, <3>1, <3>2, NextNone
  <2>5. QED
    BY <2>3, <2>4
<1>29. CASE Ends
  <2>1. SameNext
    BY <1>0, <1>29, EndsDoes, Frames DEF SameNext, DeviceIs
  <2>2. SameRequests
    BY <1>29, Frames DEF SameRequests
  <2>3. SameArmed
    BY <1>29, Frames DEF SameArmed
  <2>4. QED
    BY <1>0, <2>1, <2>2, <2>3, NextKept
<1>30. CASE ForeignTakes
  <2>1. /\ mine' = mine /\ arm' = arm /\ cmd' = cmd /\ sonos' = sonos
        /\ (arm.pc = "setting" => arm.url # None)
        /\ device'.pos = 0 /\ device'.next = None /\ device'.queue = device.queue
    BY <1>0, <1>30, ForeignTakesDoes, Frames DEF ArmShape, DeviceIs
  <2>2. /\ mine.next # None => ~mine.starting /\ mine.next # mine.current
        /\ sonos /\ mine.next # None => mine.nr # 0
        /\ cmd.pc = "addUri" => device.queue = <<>>
        /\ cmd.pc = "playQueue" => device.queue \in {<<>>, <<cmd.url>>}
    BY <1>0 DEF UpcomingArmed
  <2>3. Upcoming' = None
    BY <2>1 DEF Upcoming
  <2>4. QED
    BY <2>1, <2>2, <2>3, NextNone
<1>31. ASSUME NEW m \in {"PLAYING", "PAUSED", "STOPPED"}, HandsOn(m) PROVE UpcomingArmed'
  <2>1. SameNext
    BY <1>0, <1>31, HandsOnDoes, Frames DEF SameNext, DeviceIs
  <2>2. SameRequests
    BY <1>31, Frames DEF SameRequests
  <2>3. SameArmed
    BY <1>31, Frames DEF SameArmed
  <2>4. QED
    BY <1>0, <2>1, <2>2, <2>3, NextKept
<1>. QED
  BY <1>1, <1>2, <1>3, <1>4, <1>5, <1>6, <1>7, <1>8, <1>9, <1>10, <1>11, <1>12, <1>13, <1>14,
     <1>15, <1>16, <1>17, <1>18, <1>19, <1>20, <1>21, <1>22, <1>23, <1>24, <1>25, <1>26, <1>27,
     <1>28, <1>29, <1>30, <1>31, Frames DEF Next, vars

\* Nothing was misread, forgotten, sent again or armed too late, nor crossed what was read.
Trusted == Armed /\ Uncrossed
\* What the renderer loads is the track that was started, and what it shows is ours or foreign;
\* the URI it shows is the old one only in the grace period, or after one that ended too early.
ShowsOurs ==
  /\ cmd.pc \in {"playUri", "playUriAgain"}
       => device.loading = cmd.url \/ (device.loading = None /\ device.uri \in {cmd.url, Foreign})
  /\ ~mine.starting /\ mine.current # None /\ device.loading # None
       => device.loading = mine.current
            /\ (mine.grace \/ given.slow \/ device.uri = mine.current)
  /\ mine.external => device.loading = None \/ given.slow
  /\ Asks /\ device.loading # None /\ cmd.kind \in Kinds
       => IF cmd.pc = "checking" THEN cmd.saw \in {None, device.uri} ELSE device.uri = mine.current
  /\ device.loading # None /\ mine.next # None => mine.next \notin {device.uri, device.loading}
  /\ Asks /\ device.loading = None => device.uri \in {None, Foreign, mine.current, mine.next}
\* A track that the poll loop, or an arming, takes for the next one is still there.
LooksTrue ==
  /\ Asks /\ poll.pc = "looking" => poll.saw \in {None, Foreign, mine.current, device.uri}
  /\ poll.pc = "looking" /\ ~mine.starting /\ poll.saw = mine.next /\ mine.next # None
       => device.uri = poll.saw
  /\ poll.pc = "looking" /\ ~mine.starting /\ arm.kind = "set" /\ arm.expected = mine.current
       /\ poll.saw = arm.url => device.uri = poll.saw
  /\ arm.kind = "set" /\ arm.expected = mine.current /\ ~mine.starting /\ device.loading = None
       /\ device.uri = arm.url => Upcoming = None
\* What was seen for the current track is that track or the next one, after a grace period that
\* did not end too early.
Seen(t) ==
  Asks /\ ~mine.grace /\ ~given.slow /\ t.expected = mine.current =>
    /\ t.saw \in Urls => t.saw = mine.current \/ (t.saw = mine.next /\ device.uri # mine.current)
    /\ device.loading # None => t.saw \in {None, mine.current}
AllSeen == Seen(cmd) /\ Seen(arm) /\ Seen(ask) /\ Seen(poll)
Owned == ShowsOurs /\ LooksTrue /\ AllSeen
Ownership == Trusted => Owned /\ ~given.falseTakeover

\* The renderer shows and loads the same, and has no other track to play next,
SameShown ==
  /\ device'.uri = device.uri /\ device'.loading = device.loading
  /\ Upcoming' \in {Upcoming, None} \/ mine'.starting
\* the backend has the same track, or asks no more,
SameMine ==
  /\ mine'.current = mine.current /\ mine'.next = mine.next
  /\ mine'.starting = mine.starting /\ mine'.external = mine.external
  /\ mine'.grace = mine.grace
AsksNoMore ==
  /\ ~Asks' /\ mine'.next \in {None, mine.next} /\ mine'.current \in {None, mine.current}
  /\ mine.starting => mine'.starting
  /\ mine'.external => device.loading = None \/ given'.slow
\* and the tasks have seen nothing new but what the renderer shows.
Later(t, u) ==
  \/ u.saw = None \/ u.expected = None
  \/ u.saw = t.saw /\ u.expected = t.expected
  \/ Asks /\ u.expected = mine.current /\ Answer(u.saw)
CmdLater ==
  /\ cmd'.pc \in {"playUri", "playUriAgain"}
       => cmd.pc \in {"playUri", "playUriAgain"} /\ cmd'.url = cmd.url
  /\ cmd'.kind \in Kinds =>
       \/ cmd'.pc = "checking" /\ Answer(cmd'.saw)
       \/ /\ cmd.kind \in Kinds
          /\ \/ cmd'.pc = cmd.pc /\ cmd'.saw = cmd.saw
             \/ cmd'.pc = "sent" /\ cmd.pc = "checking" /\ Ours(cmd)
             \/ cmd'.pc = "done" /\ cmd.pc = "sent"
  /\ Later(cmd, cmd')
ArmLater ==
  /\ arm'.kind = "set" =>
       \/ arm.kind = "set" /\ arm'.url = arm.url /\ arm'.expected = arm.expected
       \/ Asks /\ arm'.url \in Urls \ {mine.current}
  /\ Later(arm, arm')
PollLater ==
  /\ poll'.pc = "looking" => (poll.pc = "looking" /\ poll'.saw = poll.saw) \/ Answer(poll'.saw)
  /\ Later(poll, poll')
\* Then it is still ours, or still not.
LEMMA OwnedKept ==
  ASSUME None \notin Urls, Foreign \notin Urls, None # Foreign, ArmShape, UpcomingArmed, Owned,
         SameShown, SameMine \/ AsksNoMore, CmdLater, ArmLater, Later(ask, ask'), PollLater,
         given'.slow = given.slow
  PROVE  Owned'
<1>1. ASSUME SameMine PROVE Asks' = Asks
  BY <1>1 DEF SameMine, Asks
<1>2. ShowsOurs'
  <2>1. cmd'.pc \in {"playUri", "playUriAgain"} => device'.loading = cmd'.url \/ (device'.loading
         = None /\ device'.uri \in {cmd'.url, Foreign})
    BY <1>1 DEF Owned, ShowsOurs, SameShown, SameMine, AsksNoMore, CmdLater, Answer, Ours
  <2>2. ~mine'.starting /\ mine'.current # None /\ device'.loading # None
         => /\ device'.loading = mine'.current
            /\ mine'.grace \/ given'.slow \/ device'.uri = mine'.current
    BY <1>1 DEF Owned, ShowsOurs, SameShown, SameMine, AsksNoMore, Asks
  <2>3. mine'.external => device'.loading = None \/ given'.slow
    BY <1>1 DEF Owned, ShowsOurs, SameShown, SameMine, AsksNoMore, CmdLater, Answer, Ours
  <2>4. Asks' /\ device'.loading # None /\ cmd'.kind \in Kinds => IF cmd'.pc = "checking" THEN
         cmd'.saw \in {None, device'.uri} ELSE device'.uri = mine'.current
    BY <1>1 DEF Owned, ShowsOurs, SameShown, SameMine, AsksNoMore, CmdLater, Answer, Ours
  <2>5. device'.loading # None /\ mine'.next # None => mine'.next \notin {device'.uri,
         device'.loading}
    BY <1>1 DEF Owned, ShowsOurs, SameShown, SameMine, AsksNoMore, CmdLater, Answer, Ours
  <2>6. Asks' /\ device'.loading = None => device'.uri \in {None, Foreign, mine'.current,
         mine'.next}
    BY <1>1 DEF Owned, ShowsOurs, SameShown, SameMine, AsksNoMore, CmdLater, Answer, Ours
  <2>7. QED
    BY <2>1, <2>2, <2>3, <2>4, <2>5, <2>6 DEF ShowsOurs
<1>3. LooksTrue'
  <2>1. Asks' /\ poll'.pc = "looking" => poll'.saw \in {None, Foreign, mine'.current, device'.uri}
    BY <1>1 DEF Owned, ShowsOurs, LooksTrue, SameShown, SameMine, AsksNoMore, ArmLater, PollLater,
         Answer, UpcomingArmed, ArmShape, Asks
  <2>2. poll'.pc = "looking" /\ ~mine'.starting /\ poll'.saw = mine'.next /\ mine'.next # None =>
         device'.uri = poll'.saw
    BY <1>1 DEF Owned, ShowsOurs, LooksTrue, SameShown, SameMine, AsksNoMore, ArmLater, PollLater,
         Answer, UpcomingArmed, ArmShape, Asks
  <2>3. poll'.pc = "looking" /\ ~mine'.starting /\ arm'.kind = "set" /\ arm'.expected =
         mine'.current /\ poll'.saw = arm'.url => device'.uri = poll'.saw
    BY <1>1 DEF Owned, ShowsOurs, LooksTrue, SameShown, SameMine, AsksNoMore, ArmLater, PollLater,
         Answer, UpcomingArmed, ArmShape, Asks
  <2>4. arm'.kind = "set" /\ arm'.expected = mine'.current /\ ~mine'.starting /\ device'.loading =
         None /\ device'.uri = arm'.url => Upcoming' = None
    BY <1>1 DEF Owned, ShowsOurs, LooksTrue, SameShown, SameMine, AsksNoMore, ArmLater, PollLater,
         Answer, UpcomingArmed, ArmShape, Asks
  <2>5. QED
    BY <2>1, <2>2, <2>3, <2>4 DEF LooksTrue
<1>4. AllSeen'
  <2>1. Seen(cmd)'
    BY <1>1 DEF Owned, ShowsOurs, AllSeen, Seen, SameShown, SameMine, AsksNoMore, Later, Answer,
         UpcomingArmed, Asks, CmdLater
  <2>2. Seen(arm)'
    BY <1>1 DEF Owned, ShowsOurs, AllSeen, Seen, SameShown, SameMine, AsksNoMore, Later, Answer,
         UpcomingArmed, Asks, ArmLater
  <2>3. Seen(ask)'
    BY <1>1 DEF Owned, ShowsOurs, AllSeen, Seen, SameShown, SameMine, AsksNoMore, Later, Answer,
         UpcomingArmed, Asks
  <2>4. Seen(poll)'
    BY <1>1 DEF Owned, ShowsOurs, AllSeen, Seen, SameShown, SameMine, AsksNoMore, Later, Answer,
         UpcomingArmed, Asks, PollLater
  <2>5. QED
    BY <2>1, <2>2, <2>3, <2>4 DEF AllSeen
<1>5. QED
  BY <1>2, <1>3, <1>4 DEF Owned

\* A task that goes on has seen nothing new.
LEMMA TasksLater ==
  /\ cmd' = cmd => CmdLater
  /\ arm' = arm => ArmLater
  /\ ask' = ask => Later(ask, ask')
  /\ poll' = poll => PollLater
  BY DEF CmdLater, ArmLater, PollLater, Later

\* Every step keeps who owns the renderer.
LEMMA StepTaken ==
  ASSUME Typed, Shape, Where, Loading, NextArmed, Ownership, [Next]_vars
  PROVE  Ownership'
<1> SUFFICES ASSUME ~given'.misread, ~given'.late, ~given'.orphaned, ~given'.half,
                    ~given'.resent, ~given'.crossed
             PROVE  Owned' /\ ~given'.falseTakeover
  BY DEF Ownership, Trusted, Armed, Uncrossed
<1>0. /\ None \notin Urls /\ None # Foreign /\ Foreign \notin Urls /\ Typed /\ CmdShape /\ PollShape
      /\ MineShape /\ ArmShape /\ Where /\ UpcomingArmed /\ LoadingSeen /\ Owned
      /\ ~given.falseTakeover
      /\ GraceEnds \/ given'.slow = given.slow
  BY DlnaAssumption, StepGrows DEF Shape, NextArmed, Loading, Ownership, Trusted, Armed,
       Uncrossed, Grows
<1>00. ~TakeoverMistaken
  BY <1>0 DEF TakeoverMistaken, ForeignSeen, Owned, AllSeen, Seen, Typed, TasksTyped, Tasks,
       PollTyped, Polls, Uris
<1>01. ~given'.falseTakeover
  BY <1>0, <1>00, StepTold DEF Told
<1>02. \A t \in {cmd, arm, ask, poll} : ForeignSeen(t) => device.loading = None \/ given.slow
  BY <1>0 DEF ForeignSeen, Owned, AllSeen, Seen
<1>03. SUFFICES Owned'
  BY <1>01
<1>27. CASE GraceEnds
  <2>1. /\ device' = device /\ sonos' = sonos /\ cmd' = cmd /\ arm' = arm /\ ask' = ask
        /\ poll' = poll /\ Upcoming' = Upcoming /\ mine.grace
        /\ mine'.current = mine.current /\ mine'.next = mine.next
        /\ mine'.starting = mine.starting /\ mine'.external = mine.external
        /\ ~given'.slow =>
             /\ device.loading = None
             /\ cmd.saw \in {None, Foreign, mine.current, device.uri}
             /\ arm.saw \in {None, Foreign, mine.current, device.uri}
             /\ ask.saw \in {None, Foreign, mine.current, device.uri}
             /\ poll.saw \in {None, Foreign, mine.current, device.uri}
    BY <1>0, <1>27, GraceEndsDoes, Frames DEF MineIs, Upcoming
  <2>2. Asks' = Asks /\ (mine.next # None => mine.next # mine.current)
    BY <1>0, <2>1 DEF Asks, UpcomingArmed
  <2>3. ShowsOurs'
    <3>1. cmd'.pc \in {"playUri", "playUriAgain"} => device'.loading = cmd'.url \/
           (device'.loading = None /\ device'.uri \in {cmd'.url, Foreign})
      BY <1>0, <2>1, <2>2 DEF Owned, ShowsOurs, Asks, Kinds
    <3>2. ~mine'.starting /\ mine'.current # None /\ device'.loading # None
           => /\ device'.loading = mine'.current
              /\ mine'.grace \/ given'.slow \/ device'.uri = mine'.current
      BY <1>0, <2>1, <2>2 DEF Owned, ShowsOurs, Asks, Kinds
    <3>3. mine'.external => device'.loading = None \/ given'.slow
      BY <1>0, <2>1, <2>2 DEF Owned, ShowsOurs, Asks, Kinds
    <3>4. Asks' /\ device'.loading # None /\ cmd'.kind \in Kinds => IF cmd'.pc = "checking" THEN
           cmd'.saw \in {None, device'.uri} ELSE device'.uri = mine'.current
      BY <1>0, <2>1, <2>2 DEF Owned, ShowsOurs, Asks, Kinds
    <3>5. device'.loading # None /\ mine'.next # None => mine'.next \notin {device'.uri,
           device'.loading}
      BY <1>0, <2>1, <2>2 DEF Owned, ShowsOurs, Asks, Kinds
    <3>6. Asks' /\ device'.loading = None => device'.uri \in {None, Foreign, mine'.current,
           mine'.next}
      BY <1>0, <2>1, <2>2 DEF Owned, ShowsOurs, Asks, Kinds
    <3>7. QED
      BY <3>1, <3>2, <3>3, <3>4, <3>5, <3>6 DEF ShowsOurs
  <2>4. LooksTrue'
    <3>1. Asks' /\ poll'.pc = "looking" => poll'.saw \in {None, Foreign, mine'.current,
           device'.uri}
      BY <1>0, <2>1, <2>2 DEF Owned, ShowsOurs, LooksTrue, Asks, Kinds
    <3>2. poll'.pc = "looking" /\ ~mine'.starting /\ poll'.saw = mine'.next /\ mine'.next # None
           => device'.uri = poll'.saw
      BY <1>0, <2>1, <2>2 DEF Owned, ShowsOurs, LooksTrue, Asks, Kinds
    <3>3. poll'.pc = "looking" /\ ~mine'.starting /\ arm'.kind = "set" /\ arm'.expected =
           mine'.current /\ poll'.saw = arm'.url => device'.uri = poll'.saw
      BY <1>0, <2>1, <2>2 DEF Owned, ShowsOurs, LooksTrue, Asks, Kinds
    <3>4. arm'.kind = "set" /\ arm'.expected = mine'.current /\ ~mine'.starting /\ device'.loading
           = None /\ device'.uri = arm'.url => Upcoming' = None
      BY <1>0, <2>1, <2>2 DEF Owned, ShowsOurs, LooksTrue, Asks, Kinds
    <3>5. QED
      BY <3>1, <3>2, <3>3, <3>4 DEF LooksTrue
  <2>5. AllSeen'
    <3>1. Seen(cmd)'
      BY <1>0, <2>1, <2>2 DEF Owned, ShowsOurs, AllSeen, Seen, Asks, Kinds
    <3>2. Seen(arm)'
      BY <1>0, <2>1, <2>2 DEF Owned, ShowsOurs, AllSeen, Seen, Asks, Kinds
    <3>3. Seen(ask)'
      BY <1>0, <2>1, <2>2 DEF Owned, ShowsOurs, AllSeen, Seen, Asks, Kinds
    <3>4. Seen(poll)'
      BY <1>0, <2>1, <2>2 DEF Owned, ShowsOurs, AllSeen, Seen, Asks, Kinds
    <3>5. QED
      BY <3>1, <3>2, <3>3, <3>4 DEF AllSeen
  <2>6. QED
    BY <2>3, <2>4, <2>5 DEF Owned
<1> SUFFICES ASSUME given'.slow = given.slow PROVE Owned'
  BY <1>0, <1>27
<1>1. CASE UNCHANGED <<sonos, mine, cmd, arm, ask, poll, device, given>>
  BY <1>0, <1>1, OwnedKept, TasksLater DEF SameShown, SameMine, Upcoming
<1>2. ASSUME NEW u \in Urls, Play(u) PROVE Owned'
  <2>1. SameShown
    BY <1>2, Frames DEF SameShown, Upcoming
  <2>2. SameMine \/ AsksNoMore
    BY <1>02, <1>0, <1>2, PlayDoes, Frames DEF SameMine, AsksNoMore, Asks, Owned, ShowsOurs,
         MineIs, StartsNow
  <2>3. CmdLater
    BY <1>0, <1>2, PlayDoes, Frames, FirstIs DEF CmdLater, Later, CmdIs, Idle, CmdShape, Kinds
  <2>4. ArmLater
    BY <1>2, TasksLater, Frames
  <2>5. Later(ask, ask')
    BY <1>2, TasksLater, Frames
  <2>6. PollLater
    BY <1>2, TasksLater, Frames
  <2>7. QED
    BY <1>0, <2>1, <2>2, <2>3, <2>4, <2>5, <2>6, OwnedKept
<1>3. ASSUME NEW u \in Urls, SetNextTrack(u) PROVE Owned'
  <2>1. SameShown
    BY <1>3, Frames DEF SameShown, Upcoming
  <2>2. SameMine \/ AsksNoMore
    BY <1>3, Frames DEF SameMine
  <2>3. CmdLater
    BY <1>3, TasksLater, Frames
  <2>4. ArmLater
    BY <1>0, <1>3, SetNextTrackDoes, Frames DEF ArmLater, Later, ArmIs, Idle
  <2>5. Later(ask, ask')
    BY <1>3, TasksLater, Frames
  <2>6. PollLater
    BY <1>3, TasksLater, Frames
  <2>7. QED
    BY <1>0, <2>1, <2>2, <2>3, <2>4, <2>5, <2>6, OwnedKept
<1>4. CASE PlayChecked
  <2>1. SameShown
    BY <1>4, Frames DEF SameShown, Upcoming
  <2>2. SameMine \/ AsksNoMore
    BY <1>02, <1>0, <1>4, PlayCheckedDoes, Frames DEF SameMine, AsksNoMore, Asks, Owned,
         ShowsOurs, MineIs, StartsNow, TakesOver, ForeignSeen
  <2>3. CmdLater
    BY <1>0, <1>4, PlayCheckedDoes, Frames, FirstIs DEF CmdLater, Later, CmdIs, CmdShape, Kinds
  <2>4. ArmLater
    BY <1>4, TasksLater, Frames
  <2>5. Later(ask, ask')
    BY <1>4, TasksLater, Frames
  <2>6. PollLater
    BY <1>4, TasksLater, Frames
  <2>7. QED
    BY <1>0, <2>1, <2>2, <2>3, <2>4, <2>5, <2>6, OwnedKept
<1>5. CASE QueueCleared
  <2>1. SameShown
    BY <1>0, <1>5, QueueClearedDoes, Frames DEF SameShown, MineShape, CmdShape, DeviceIs, Kinds
  <2>2. SameMine \/ AsksNoMore
    BY <1>5, Frames DEF SameMine
  <2>3. CmdLater
    BY <1>0, <1>5, QueueClearedDoes, Frames DEF CmdLater, Later, CmdIs, CmdShape, Kinds
  <2>4. ArmLater
    BY <1>5, TasksLater, Frames
  <2>5. Later(ask, ask')
    BY <1>5, TasksLater, Frames
  <2>6. PollLater
    BY <1>5, TasksLater, Frames
  <2>7. QED
    BY <1>0, <2>1, <2>2, <2>3, <2>4, <2>5, <2>6, OwnedKept
<1>6. CASE UriAdded
  <2>1. SameShown
    BY <1>0, <1>6, UriAddedDoes, Frames DEF SameShown, MineShape, CmdShape, DeviceIs, Kinds
  <2>2. SameMine \/ AsksNoMore
    BY <1>6, Frames DEF SameMine
  <2>3. CmdLater
    BY <1>0, <1>6, UriAddedDoes, Frames DEF CmdLater, Later, CmdIs, CmdShape, Kinds
  <2>4. ArmLater
    BY <1>6, TasksLater, Frames
  <2>5. Later(ask, ask')
    BY <1>6, TasksLater, Frames
  <2>6. PollLater
    BY <1>6, TasksLater, Frames
  <2>7. QED
    BY <1>0, <2>1, <2>2, <2>3, <2>4, <2>5, <2>6, OwnedKept
<1>7. CASE QueuePlayed
  <2>1. /\ mine.starting /\ mine.next = None /\ cmd.url \in Urls /\ cmd.pc = "playQueue"
        /\ device.queue \in {<<>>, <<cmd.url>>}
        /\ arm' = arm /\ ask' = ask /\ poll' = poll /\ sonos' = sonos
    BY <1>0, <1>7, QueuePlayedDoes, Frames DEF CmdShape, MineShape, UpcomingArmed, Kinds
  <2>2. /\ mine'.current = cmd.url /\ mine'.next = None /\ ~mine'.starting /\ ~mine'.external
        /\ mine'.grace /\ device'.uri = device.uri /\ device'.loading = device.queue[1]
        /\ device.queue # <<>>
        /\ poll.pc # "looking" /\ cmd'.pc = "none" /\ cmd'.kind = "none"
    BY <1>0, <1>7, <2>1, QueuePlayedDoes DEF HalfWay, DeviceIs, Succeeded, MineIs, CmdIs, Crossed
  <2>3. device'.loading = cmd.url
    <3>1. device.queue = <<cmd.url>>
      BY <2>1, <2>2
    <3>2. QED
      BY <2>2, <3>1
  <2>4. ShowsOurs'
    <3>1. cmd'.pc \in {"playUri", "playUriAgain"} => device'.loading = cmd'.url \/
           (device'.loading = None /\ device'.uri \in {cmd'.url, Foreign})
      BY <1>0, <2>1, <2>2, <2>3 DEF Owned, ShowsOurs, Asks, Kinds
    <3>2. ~mine'.starting /\ mine'.current # None /\ device'.loading # None
           => /\ device'.loading = mine'.current
              /\ mine'.grace \/ given'.slow \/ device'.uri = mine'.current
      BY <1>0, <2>1, <2>2, <2>3 DEF Owned, ShowsOurs, Asks, Kinds
    <3>3. mine'.external => device'.loading = None \/ given'.slow
      BY <1>0, <2>1, <2>2, <2>3 DEF Owned, ShowsOurs, Asks, Kinds
    <3>4. Asks' /\ device'.loading # None /\ cmd'.kind \in Kinds => IF cmd'.pc = "checking" THEN
           cmd'.saw \in {None, device'.uri} ELSE device'.uri = mine'.current
      BY <1>0, <2>1, <2>2, <2>3 DEF Owned, ShowsOurs, Asks, Kinds
    <3>5. device'.loading # None /\ mine'.next # None => mine'.next \notin {device'.uri,
           device'.loading}
      BY <1>0, <2>1, <2>2, <2>3 DEF Owned, ShowsOurs, Asks, Kinds
    <3>6. Asks' /\ device'.loading = None => device'.uri \in {None, Foreign, mine'.current,
           mine'.next}
      BY <1>0, <2>1, <2>2, <2>3 DEF Owned, ShowsOurs, Asks, Kinds
    <3>7. QED
      BY <3>1, <3>2, <3>3, <3>4, <3>5, <3>6 DEF ShowsOurs
  <2>5. LooksTrue'
    <3>1. Asks' /\ poll'.pc = "looking" => poll'.saw \in {None, Foreign, mine'.current,
           device'.uri}
      BY <1>0, <2>1, <2>2, <2>3 DEF Owned, ShowsOurs, LooksTrue, Asks, Kinds
    <3>2. poll'.pc = "looking" /\ ~mine'.starting /\ poll'.saw = mine'.next /\ mine'.next # None
           => device'.uri = poll'.saw
      BY <1>0, <2>1, <2>2, <2>3 DEF Owned, ShowsOurs, LooksTrue, Asks, Kinds
    <3>3. poll'.pc = "looking" /\ ~mine'.starting /\ arm'.kind = "set" /\ arm'.expected =
           mine'.current /\ poll'.saw = arm'.url => device'.uri = poll'.saw
      BY <1>0, <2>1, <2>2, <2>3 DEF Owned, ShowsOurs, LooksTrue, Asks, Kinds
    <3>4. arm'.kind = "set" /\ arm'.expected = mine'.current /\ ~mine'.starting /\ device'.loading
           = None /\ device'.uri = arm'.url => Upcoming' = None
      BY <1>0, <2>1, <2>2, <2>3 DEF Owned, ShowsOurs, LooksTrue, Asks, Kinds
    <3>5. QED
      BY <3>1, <3>2, <3>3, <3>4 DEF LooksTrue
  <2>6. AllSeen'
    <3>1. Seen(cmd)'
      BY <1>0, <2>1, <2>2, <2>3 DEF Owned, ShowsOurs, AllSeen, Seen, Asks, Kinds
    <3>2. Seen(arm)'
      BY <1>0, <2>1, <2>2, <2>3 DEF Owned, ShowsOurs, AllSeen, Seen, Asks, Kinds
    <3>3. Seen(ask)'
      BY <1>0, <2>1, <2>2, <2>3 DEF Owned, ShowsOurs, AllSeen, Seen, Asks, Kinds
    <3>4. Seen(poll)'
      BY <1>0, <2>1, <2>2, <2>3 DEF Owned, ShowsOurs, AllSeen, Seen, Asks, Kinds
    <3>5. QED
      BY <3>1, <3>2, <3>3, <3>4 DEF AllSeen
  <2>7. QED
    BY <2>4, <2>5, <2>6 DEF Owned
<1>8. CASE UriSet
  <2>1. /\ mine.starting /\ mine.next = None /\ cmd.url \in Urls /\ ~mine.external
        /\ arm' = arm /\ ask' = ask /\ poll' = poll /\ sonos' = sonos /\ mine' = mine
        /\ cmd.kind = "play" /\ cmd'.kind = "play" /\ cmd'.saw = None
    BY <1>0, <1>8, UriSetDoes, Frames DEF CmdShape, MineShape, UpcomingArmed, Kinds, HalfWay,
         CmdIs
  <2>2. CASE device' = device /\ cmd'.pc = "reset"
    BY <1>0, <2>1, <2>2, OwnedKept, TasksLater DEF SameShown, SameMine, Upcoming, CmdLater, Later,
         Kinds
  <2>3. CASE /\ device'.uri = device.uri /\ device'.loading = cmd.url /\ cmd'.url = cmd.url
             /\ cmd'.pc \in {"playUri", "playUriAgain"}
    <3>1. ShowsOurs'
      <4>1. cmd'.pc \in {"playUri", "playUriAgain"} => device'.loading = cmd'.url \/
             (device'.loading = None /\ device'.uri \in {cmd'.url, Foreign})
        BY <1>0, <2>1, <2>3 DEF Owned, ShowsOurs, Asks, Kinds
      <4>2. ~mine'.starting /\ mine'.current # None /\ device'.loading # None
             => /\ device'.loading = mine'.current
                /\ mine'.grace \/ given'.slow \/ device'.uri = mine'.current
        BY <1>0, <2>1, <2>3 DEF Owned, ShowsOurs, Asks, Kinds
      <4>3. mine'.external => device'.loading = None \/ given'.slow
        BY <1>0, <2>1, <2>3 DEF Owned, ShowsOurs, Asks, Kinds
      <4>4. Asks' /\ device'.loading # None /\ cmd'.kind \in Kinds => IF cmd'.pc = "checking" THEN
             cmd'.saw \in {None, device'.uri} ELSE device'.uri = mine'.current
        BY <1>0, <2>1, <2>3 DEF Owned, ShowsOurs, Asks, Kinds
      <4>5. device'.loading # None /\ mine'.next # None => mine'.next \notin {device'.uri,
             device'.loading}
        BY <1>0, <2>1, <2>3 DEF Owned, ShowsOurs, Asks, Kinds
      <4>6. Asks' /\ device'.loading = None => device'.uri \in {None, Foreign, mine'.current,
             mine'.next}
        BY <1>0, <2>1, <2>3 DEF Owned, ShowsOurs, Asks, Kinds
      <4>7. QED
        BY <4>1, <4>2, <4>3, <4>4, <4>5, <4>6 DEF ShowsOurs
    <3>2. LooksTrue'
      <4>1. Asks' /\ poll'.pc = "looking" => poll'.saw \in {None, Foreign, mine'.current,
             device'.uri}
        BY <1>0, <2>1, <2>3 DEF Owned, ShowsOurs, LooksTrue, Asks, Kinds
      <4>2. poll'.pc = "looking" /\ ~mine'.starting /\ poll'.saw = mine'.next /\ mine'.next # None
             => device'.uri = poll'.saw
        BY <1>0, <2>1, <2>3 DEF Owned, ShowsOurs, LooksTrue, Asks, Kinds
      <4>3. poll'.pc = "looking" /\ ~mine'.starting /\ arm'.kind = "set" /\ arm'.expected =
             mine'.current /\ poll'.saw = arm'.url => device'.uri = poll'.saw
        BY <1>0, <2>1, <2>3 DEF Owned, ShowsOurs, LooksTrue, Asks, Kinds
      <4>4. arm'.kind = "set" /\ arm'.expected = mine'.current /\ ~mine'.starting /\
             device'.loading = None /\ device'.uri = arm'.url => Upcoming' = None
        BY <1>0, <2>1, <2>3 DEF Owned, ShowsOurs, LooksTrue, Asks, Kinds
      <4>5. QED
        BY <4>1, <4>2, <4>3, <4>4 DEF LooksTrue
    <3>3. AllSeen'
      <4>1. Seen(cmd)'
        BY <1>0, <2>1, <2>3 DEF Owned, ShowsOurs, AllSeen, Seen, Asks, Kinds
      <4>2. Seen(arm)'
        BY <1>0, <2>1, <2>3 DEF Owned, ShowsOurs, AllSeen, Seen, Asks, Kinds
      <4>3. Seen(ask)'
        BY <1>0, <2>1, <2>3 DEF Owned, ShowsOurs, AllSeen, Seen, Asks, Kinds
      <4>4. Seen(poll)'
        BY <1>0, <2>1, <2>3 DEF Owned, ShowsOurs, AllSeen, Seen, Asks, Kinds
      <4>5. QED
        BY <4>1, <4>2, <4>3, <4>4 DEF AllSeen
    <3>4. QED
      BY <3>1, <3>2, <3>3 DEF Owned
  <2>4. QED
    BY <1>0, <1>8, <2>2, <2>3, UriSetDoes DEF CmdIs, DeviceIs, HalfWay
<1>9. CASE UriPlayed
  <2>1. /\ mine.starting /\ mine.next = None /\ cmd.url \in Urls /\ ~mine.external
        /\ arm' = arm /\ ask' = ask /\ poll' = poll /\ sonos' = sonos
        /\ device.loading = cmd.url \/ (device.loading = None /\ device.uri \in {cmd.url, Foreign})
    BY <1>0, <1>9, UriPlayedDoes, Frames DEF CmdShape, MineShape, UpcomingArmed, Kinds, Owned,
         ShowsOurs
  <2>2. CASE mine' = mine /\ device' = device /\ cmd'.pc = "reset" /\ cmd'.saw = None
             /\ cmd'.kind = cmd.kind
    <3>1. cmd.kind \notin Kinds
      BY <1>0, <2>1 DEF MineShape, Kinds
    <3>2. QED
      BY <1>0, <2>1, <2>2, <3>1, OwnedKept, TasksLater DEF SameShown, SameMine, Upcoming,
           CmdLater, Later
  <2>3. CASE /\ device'.uri = device.uri /\ device'.loading = device.loading
             /\ mine'.current = cmd.url /\ mine'.next = None /\ ~mine'.starting
             /\ ~mine'.external /\ mine'.grace /\ poll.pc # "looking" /\ cmd'.pc = "none"
             /\ cmd'.kind = "none"
    <3>1. ShowsOurs'
      <4>1. cmd'.pc \in {"playUri", "playUriAgain"} => device'.loading = cmd'.url \/
             (device'.loading = None /\ device'.uri \in {cmd'.url, Foreign})
        BY <1>0, <2>1, <2>3 DEF Owned, ShowsOurs, Asks, Kinds, ArmShape
      <4>2. ~mine'.starting /\ mine'.current # None /\ device'.loading # None
             => /\ device'.loading = mine'.current
                /\ mine'.grace \/ given'.slow \/ device'.uri = mine'.current
        BY <1>0, <2>1, <2>3 DEF Owned, ShowsOurs, Asks, Kinds, ArmShape
      <4>3. mine'.external => device'.loading = None \/ given'.slow
        BY <1>0, <2>1, <2>3 DEF Owned, ShowsOurs, Asks, Kinds, ArmShape
      <4>4. Asks' /\ device'.loading # None /\ cmd'.kind \in Kinds => IF cmd'.pc = "checking" THEN
             cmd'.saw \in {None, device'.uri} ELSE device'.uri = mine'.current
        BY <1>0, <2>1, <2>3 DEF Owned, ShowsOurs, Asks, Kinds, ArmShape
      <4>5. device'.loading # None /\ mine'.next # None => mine'.next \notin {device'.uri,
             device'.loading}
        BY <1>0, <2>1, <2>3 DEF Owned, ShowsOurs, Asks, Kinds, ArmShape
      <4>6. Asks' /\ device'.loading = None => device'.uri \in {None, Foreign, mine'.current,
             mine'.next}
        BY <1>0, <2>1, <2>3 DEF Owned, ShowsOurs, Asks, Kinds, ArmShape
      <4>7. QED
        BY <4>1, <4>2, <4>3, <4>4, <4>5, <4>6 DEF ShowsOurs
    <3>2. LooksTrue'
      <4>1. Asks' /\ poll'.pc = "looking" => poll'.saw \in {None, Foreign, mine'.current,
             device'.uri}
        BY <1>0, <2>1, <2>3 DEF Owned, ShowsOurs, LooksTrue, Asks, Kinds, ArmShape
      <4>2. poll'.pc = "looking" /\ ~mine'.starting /\ poll'.saw = mine'.next /\ mine'.next # None
             => device'.uri = poll'.saw
        BY <1>0, <2>1, <2>3 DEF Owned, ShowsOurs, LooksTrue, Asks, Kinds, ArmShape
      <4>3. poll'.pc = "looking" /\ ~mine'.starting /\ arm'.kind = "set" /\ arm'.expected =
             mine'.current /\ poll'.saw = arm'.url => device'.uri = poll'.saw
        BY <1>0, <2>1, <2>3 DEF Owned, ShowsOurs, LooksTrue, Asks, Kinds, ArmShape
      <4>4. arm'.kind = "set" /\ arm'.expected = mine'.current /\ ~mine'.starting /\
             device'.loading = None /\ device'.uri = arm'.url => Upcoming' = None
        BY <1>0, <2>1, <2>3 DEF Owned, ShowsOurs, LooksTrue, Asks, Kinds, ArmShape
      <4>5. QED
        BY <4>1, <4>2, <4>3, <4>4 DEF LooksTrue
    <3>3. AllSeen'
      <4>1. Seen(cmd)'
        BY <1>0, <2>1, <2>3 DEF Owned, ShowsOurs, AllSeen, Seen, Asks, Kinds, ArmShape
      <4>2. Seen(arm)'
        BY <1>0, <2>1, <2>3 DEF Owned, ShowsOurs, AllSeen, Seen, Asks, Kinds, ArmShape
      <4>3. Seen(ask)'
        BY <1>0, <2>1, <2>3 DEF Owned, ShowsOurs, AllSeen, Seen, Asks, Kinds, ArmShape
      <4>4. Seen(poll)'
        BY <1>0, <2>1, <2>3 DEF Owned, ShowsOurs, AllSeen, Seen, Asks, Kinds, ArmShape
      <4>5. QED
        BY <4>1, <4>2, <4>3, <4>4 DEF AllSeen
    <3>4. QED
      BY <3>1, <3>2, <3>3 DEF Owned
  <2>4. QED
    BY <1>0, <1>9, <2>1, <2>2, <2>3, UriPlayedDoes DEF CmdIs, DeviceIs, HalfWay, Succeeded,
         MineIs, Crossed
<1>10. CASE TransportReset
  <2>0. SameNext
    BY <1>0, <1>10, TransportResetDoes, Frames DEF SameNext, DeviceIs
  <2>1. SameShown
    BY <2>0, UpcomingKept DEF SameShown, SameNext
  <2>2. SameMine \/ AsksNoMore
    BY <1>10, Frames DEF SameMine
  <2>3. CmdLater
    BY <1>0, <1>10, TransportResetDoes, Frames DEF CmdLater, Later, CmdIs, CmdShape, Kinds
  <2>4. ArmLater
    BY <1>10, TasksLater, Frames
  <2>5. Later(ask, ask')
    BY <1>10, TasksLater, Frames
  <2>6. PollLater
    BY <1>10, TasksLater, Frames
  <2>7. QED
    BY <1>0, <2>1, <2>2, <2>3, <2>4, <2>5, <2>6, OwnedKept
<1>11. ASSUME NEW kind \in {"pause", "resume", "stop"}, Command(kind) PROVE Owned'
  <2>1. SameShown
    BY <1>11, Frames DEF SameShown, Upcoming
  <2>2. SameMine \/ AsksNoMore
    BY <1>02, <1>0, <1>11, CommandDoes, Frames DEF SameMine, AsksNoMore, Asks, Owned, ShowsOurs,
         MineIs, Forgotten, StopForgets
  <2>3. CmdLater
    BY <1>0, <1>11, CommandDoes, Frames DEF CmdLater, Later, CmdIs, Idle, CmdShape, Kinds
  <2>4. ArmLater
    BY <1>11, TasksLater, Frames
  <2>5. Later(ask, ask')
    BY <1>11, TasksLater, Frames
  <2>6. PollLater
    BY <1>11, TasksLater, Frames
  <2>7. QED
    BY <1>0, <2>1, <2>2, <2>3, <2>4, <2>5, <2>6, OwnedKept
<1>12. CASE CommandChecked
  <2>1. SameShown
    BY <1>12, Frames DEF SameShown, Upcoming
  <2>2. SameMine \/ AsksNoMore
    BY <1>02, <1>0, <1>12, CommandCheckedDoes, Frames DEF SameMine, AsksNoMore, Asks, Owned,
         ShowsOurs, MineIs, TakesOver, Forgotten, StopForgets, ForeignSeen
  <2>3. CmdLater
    BY <1>0, <1>12, CommandCheckedDoes, Frames DEF CmdLater, Later, CmdIs, CmdShape, Kinds
  <2>4. ArmLater
    BY <1>12, TasksLater, Frames
  <2>5. Later(ask, ask')
    BY <1>12, TasksLater, Frames
  <2>6. PollLater
    BY <1>12, TasksLater, Frames
  <2>7. QED
    BY <1>0, <2>1, <2>2, <2>3, <2>4, <2>5, <2>6, OwnedKept
<1>13. CASE CommandDone
  <2>0. SameNext
    BY <1>0, <1>13, CommandDoneDoes, Frames DEF SameNext, DeviceIs
  <2>1. SameShown
    BY <2>0, UpcomingKept DEF SameShown, SameNext
  <2>2. SameMine \/ AsksNoMore
    BY <1>13, Frames DEF SameMine
  <2>3. CmdLater
    BY <1>0, <1>13, CommandDoneDoes, Frames DEF CmdLater, Later, CmdIs, CmdShape, Kinds
  <2>4. ArmLater
    BY <1>13, TasksLater, Frames
  <2>5. Later(ask, ask')
    BY <1>13, TasksLater, Frames
  <2>6. PollLater
    BY <1>13, TasksLater, Frames
  <2>7. QED
    BY <1>0, <2>1, <2>2, <2>3, <2>4, <2>5, <2>6, OwnedKept
<1>14. CASE CommandTold
  <2>1. /\ device' = device /\ sonos' = sonos /\ arm' = arm /\ ask' = ask /\ poll' = poll
        /\ arm = Idle /\ ask = Idle /\ poll.pc = "sleep" /\ cmd.pc = "done" /\ cmd.kind \in Kinds
        /\ mine'.current = mine.current /\ mine'.next = mine.next
        /\ mine'.starting = mine.starting /\ mine'.external = mine.external
        /\ cmd'.kind = "none" /\ cmd'.pc = "none" /\ cmd'.saw = None
    BY <1>0, <1>14, CommandToldDoes, Frames DEF MineIs, CmdIs, CmdShape, PlayPcs
  <2>2. Upcoming' = Upcoming
    BY <2>1 DEF Upcoming
  <2>3. arm.saw = None /\ ask.saw = None /\ poll.saw = None /\ arm.kind = "none"
    BY <1>0, <2>1 DEF Idle, PollShape
  <2>4. ShowsOurs'
    <3>1. cmd'.pc \in {"playUri", "playUriAgain"} => device'.loading = cmd'.url \/
           (device'.loading = None /\ device'.uri \in {cmd'.url, Foreign})
      BY <1>0, <2>1, <2>2, <2>3 DEF Owned, ShowsOurs, Asks, Kinds
    <3>2. ~mine'.starting /\ mine'.current # None /\ device'.loading # None
           => /\ device'.loading = mine'.current
              /\ mine'.grace \/ given'.slow \/ device'.uri = mine'.current
      BY <1>0, <2>1, <2>2, <2>3 DEF Owned, ShowsOurs, Asks, Kinds
    <3>3. mine'.external => device'.loading = None \/ given'.slow
      BY <1>0, <2>1, <2>2, <2>3 DEF Owned, ShowsOurs, Asks, Kinds
    <3>4. Asks' /\ device'.loading # None /\ cmd'.kind \in Kinds => IF cmd'.pc = "checking" THEN
           cmd'.saw \in {None, device'.uri} ELSE device'.uri = mine'.current
      BY <1>0, <2>1, <2>2, <2>3 DEF Owned, ShowsOurs, Asks, Kinds
    <3>5. device'.loading # None /\ mine'.next # None => mine'.next \notin {device'.uri,
           device'.loading}
      BY <1>0, <2>1, <2>2, <2>3 DEF Owned, ShowsOurs, Asks, Kinds
    <3>6. Asks' /\ device'.loading = None => device'.uri \in {None, Foreign, mine'.current,
           mine'.next}
      BY <1>0, <2>1, <2>2, <2>3 DEF Owned, ShowsOurs, Asks, Kinds
    <3>7. QED
      BY <3>1, <3>2, <3>3, <3>4, <3>5, <3>6 DEF ShowsOurs
  <2>5. LooksTrue'
    <3>1. Asks' /\ poll'.pc = "looking" => poll'.saw \in {None, Foreign, mine'.current,
           device'.uri}
      BY <1>0, <2>1, <2>2, <2>3 DEF Owned, ShowsOurs, LooksTrue, Asks, Kinds
    <3>2. poll'.pc = "looking" /\ ~mine'.starting /\ poll'.saw = mine'.next /\ mine'.next # None
           => device'.uri = poll'.saw
      BY <1>0, <2>1, <2>2, <2>3 DEF Owned, ShowsOurs, LooksTrue, Asks, Kinds
    <3>3. poll'.pc = "looking" /\ ~mine'.starting /\ arm'.kind = "set" /\ arm'.expected =
           mine'.current /\ poll'.saw = arm'.url => device'.uri = poll'.saw
      BY <1>0, <2>1, <2>2, <2>3 DEF Owned, ShowsOurs, LooksTrue, Asks, Kinds
    <3>4. arm'.kind = "set" /\ arm'.expected = mine'.current /\ ~mine'.starting /\ device'.loading
           = None /\ device'.uri = arm'.url => Upcoming' = None
      BY <1>0, <2>1, <2>2, <2>3 DEF Owned, ShowsOurs, LooksTrue, Asks, Kinds
    <3>5. QED
      BY <3>1, <3>2, <3>3, <3>4 DEF LooksTrue
  <2>6. AllSeen'
    <3>1. Seen(cmd)'
      BY <1>0, <2>1, <2>2, <2>3 DEF Owned, ShowsOurs, AllSeen, Seen, Asks, Kinds
    <3>2. Seen(arm)'
      BY <1>0, <2>1, <2>2, <2>3 DEF Owned, ShowsOurs, AllSeen, Seen, Asks, Kinds
    <3>3. Seen(ask)'
      BY <1>0, <2>1, <2>2, <2>3 DEF Owned, ShowsOurs, AllSeen, Seen, Asks, Kinds
    <3>4. Seen(poll)'
      BY <1>0, <2>1, <2>2, <2>3 DEF Owned, ShowsOurs, AllSeen, Seen, Asks, Kinds
    <3>5. QED
      BY <3>1, <3>2, <3>3, <3>4 DEF AllSeen
  <2>7. QED
    BY <2>4, <2>5, <2>6 DEF Owned
<1>15. CASE SetNextChecked
  <2>1. SameShown
    BY <1>15, Frames DEF SameShown, Upcoming
  <2>2. SameMine \/ AsksNoMore
    BY <1>02, <1>0, <1>15, SetNextCheckedDoes, Frames DEF SameMine, AsksNoMore, Asks, Owned,
         ShowsOurs, MineIs, TakesOver, ForeignSeen
  <2>3. CmdLater
    BY <1>15, TasksLater, Frames
  <2>4. ArmLater
    BY <1>0, <1>15, SetNextCheckedDoes, Frames DEF ArmLater, Later, ArmIs, Idle
  <2>5. Later(ask, ask')
    BY <1>15, TasksLater, Frames
  <2>6. PollLater
    BY <1>15, TasksLater, Frames
  <2>7. QED
    BY <1>0, <2>1, <2>2, <2>3, <2>4, <2>5, <2>6, OwnedKept
<1>16. CASE NextSet
  <2>1. /\ cmd' = cmd /\ ask' = ask /\ poll' = poll /\ sonos' = sonos
        /\ arm'.pc = "none" /\ arm'.kind = "none" /\ arm'.saw = None
        /\ arm.kind = "set" /\ arm.url \in Urls /\ arm.expected # arm.url
        /\ mine'.current = mine.current /\ mine'.starting = mine.starting
        /\ mine'.external = mine.external /\ mine'.grace = mine.grace
        /\ device'.uri = device.uri /\ device'.loading = device.loading
    BY <1>0, <1>16, NextSetDoes, Frames DEF MineIs, ArmIs, DeviceIs, ArmShape
  <2>2. CASE device' = device /\ mine'.next = mine.next
    <3>1. SameShown /\ SameMine /\ ArmLater
      BY <1>0, <2>1, <2>2 DEF SameShown, SameMine, ArmLater, Later, Upcoming
    <3>2. QED
      BY <1>0, <2>1, <3>1, OwnedKept, TasksLater
  <2>3. CASE ~Overtaken /\ mine'.next = arm.url
    <3>1. /\ ~mine.starting /\ mine.current = arm.expected /\ mine.current # arm.url
          /\ arm.url \notin {device.uri, device.loading}
          /\ mine.next \in {None, arm.url} \/ mine.current \in {device.uri, device.loading}
      BY <1>0, <2>1, <2>3 DEF Overtaken
    <3>2. Asks' = Asks
      BY <2>1 DEF Asks
    <3>3. ShowsOurs'
      <4>1. cmd'.pc \in {"playUri", "playUriAgain"} => device'.loading = cmd'.url \/
             (device'.loading = None /\ device'.uri \in {cmd'.url, Foreign})
        BY <1>0, <2>1, <2>3, <3>1, <3>2 DEF Owned, ShowsOurs, Asks, Kinds
      <4>2. ~mine'.starting /\ mine'.current # None /\ device'.loading # None
             => /\ device'.loading = mine'.current
                /\ mine'.grace \/ given'.slow \/ device'.uri = mine'.current
        BY <1>0, <2>1, <2>3, <3>1, <3>2 DEF Owned, ShowsOurs, Asks, Kinds
      <4>3. mine'.external => device'.loading = None \/ given'.slow
        BY <1>0, <2>1, <2>3, <3>1, <3>2 DEF Owned, ShowsOurs, Asks, Kinds
      <4>4. Asks' /\ device'.loading # None /\ cmd'.kind \in Kinds => IF cmd'.pc = "checking" THEN
             cmd'.saw \in {None, device'.uri} ELSE device'.uri = mine'.current
        BY <1>0, <2>1, <2>3, <3>1, <3>2 DEF Owned, ShowsOurs, Asks, Kinds
      <4>5. device'.loading # None /\ mine'.next # None => mine'.next \notin {device'.uri,
             device'.loading}
        BY <1>0, <2>1, <2>3, <3>1, <3>2 DEF Owned, ShowsOurs, Asks, Kinds
      <4>6. Asks' /\ device'.loading = None => device'.uri \in {None, Foreign, mine'.current,
             mine'.next}
        BY <1>0, <2>1, <2>3, <3>1, <3>2 DEF Owned, ShowsOurs, Asks, Kinds
      <4>7. QED
        BY <4>1, <4>2, <4>3, <4>4, <4>5, <4>6 DEF ShowsOurs
    <3>4. LooksTrue'
      <4>1. Asks' /\ poll'.pc = "looking" => poll'.saw \in {None, Foreign, mine'.current,
             device'.uri}
        BY <1>0, <2>1, <2>3, <3>1, <3>2 DEF Owned, ShowsOurs, LooksTrue, Asks, Kinds
      <4>2. poll'.pc = "looking" /\ ~mine'.starting /\ poll'.saw = mine'.next /\ mine'.next # None
             => device'.uri = poll'.saw
        BY <1>0, <2>1, <2>3, <3>1, <3>2 DEF Owned, ShowsOurs, LooksTrue, Asks, Kinds
      <4>3. poll'.pc = "looking" /\ ~mine'.starting /\ arm'.kind = "set" /\ arm'.expected =
             mine'.current /\ poll'.saw = arm'.url => device'.uri = poll'.saw
        BY <1>0, <2>1, <2>3, <3>1, <3>2 DEF Owned, ShowsOurs, LooksTrue, Asks, Kinds
      <4>4. arm'.kind = "set" /\ arm'.expected = mine'.current /\ ~mine'.starting /\
             device'.loading = None /\ device'.uri = arm'.url => Upcoming' = None
        BY <1>0, <2>1, <2>3, <3>1, <3>2 DEF Owned, ShowsOurs, LooksTrue, Asks, Kinds
      <4>5. QED
        BY <4>1, <4>2, <4>3, <4>4 DEF LooksTrue
    <3>5. AllSeen'
      <4>1. Seen(cmd)'
        BY <1>0, <2>1, <2>3, <3>1, <3>2 DEF Owned, ShowsOurs, AllSeen, Seen, Asks, Kinds
      <4>2. Seen(arm)'
        BY <1>0, <2>1, <2>3, <3>1, <3>2 DEF Owned, ShowsOurs, AllSeen, Seen, Asks, Kinds
      <4>3. Seen(ask)'
        BY <1>0, <2>1, <2>3, <3>1, <3>2 DEF Owned, ShowsOurs, AllSeen, Seen, Asks, Kinds
      <4>4. Seen(poll)'
        BY <1>0, <2>1, <2>3, <3>1, <3>2 DEF Owned, ShowsOurs, AllSeen, Seen, Asks, Kinds
      <4>5. QED
        BY <4>1, <4>2, <4>3, <4>4 DEF AllSeen
    <3>6. QED
      BY <3>3, <3>4, <3>5 DEF Owned
  <2>4. QED
    BY <1>0, <1>16, <2>1, <2>2, <2>3, NextSetDoes DEF MineIs, DeviceIs
<1>17. CASE ClearNextTrack
  <2>1. SameShown
    BY <1>17, Frames DEF SameShown, Upcoming
  <2>2. SameMine \/ AsksNoMore
    BY <1>02, <1>0, <1>17, ClearNextTrackDoes, Frames DEF SameMine, AsksNoMore, Asks, Owned,
         ShowsOurs, MineIs, Forgotten
  <2>3. CmdLater
    BY <1>17, TasksLater, Frames
  <2>4. ArmLater
    BY <1>0, <1>17, ClearNextTrackDoes, Frames DEF ArmLater, Later, ArmIs, Idle
  <2>5. Later(ask, ask')
    BY <1>17, TasksLater, Frames
  <2>6. PollLater
    BY <1>17, TasksLater, Frames
  <2>7. QED
    BY <1>0, <2>1, <2>2, <2>3, <2>4, <2>5, <2>6, OwnedKept
<1>18. CASE ClearNextChecked
  <2>1. SameShown
    BY <1>18, Frames DEF SameShown, Upcoming
  <2>2. SameMine \/ AsksNoMore
    BY <1>02, <1>0, <1>18, ClearNextCheckedDoes, Frames DEF SameMine, AsksNoMore, Asks, Owned,
         ShowsOurs, MineIs, TakesOver, Forgotten, ForeignSeen
  <2>3. CmdLater
    BY <1>18, TasksLater, Frames
  <2>4. ArmLater
    BY <1>0, <1>18, ClearNextCheckedDoes, Frames DEF ArmLater, Later, ArmIs, Idle
  <2>5. Later(ask, ask')
    BY <1>18, TasksLater, Frames
  <2>6. PollLater
    BY <1>18, TasksLater, Frames
  <2>7. QED
    BY <1>0, <2>1, <2>2, <2>3, <2>4, <2>5, <2>6, OwnedKept
<1>19. CASE NextRemoved
  BY <1>0, <1>19, NextRemovedDoes, Frames DEF Owned, ShowsOurs, LooksTrue, AllSeen, Seen, Asks,
       UpcomingArmed, MineIs, DeviceIs, ArmIs, Forgotten, Idle
<1>20. ASSUME NEW kind \in {"select", "check"}, Ask(kind) PROVE Owned'
  <2>1. SameShown
    BY <1>20, Frames DEF SameShown, Upcoming
  <2>2. SameMine \/ AsksNoMore
    BY <1>02, <1>0, <1>20, AskDoes, Frames DEF SameMine, AsksNoMore, Asks, Owned, ShowsOurs,
         MineIs, Released
  <2>3. CmdLater
    BY <1>20, TasksLater, Frames
  <2>4. ArmLater
    BY <1>20, TasksLater, Frames
  <2>5. Later(ask, ask')
    BY <1>0, <1>20, AskDoes, Frames DEF Later, AskIs, Idle
  <2>6. PollLater
    BY <1>20, TasksLater, Frames
  <2>7. QED
    BY <1>0, <2>1, <2>2, <2>3, <2>4, <2>5, <2>6, OwnedKept
<1>21. CASE AskAnswered
  <2>1. SameShown
    BY <1>21, Frames DEF SameShown, Upcoming
  <2>2. SameMine \/ AsksNoMore
    BY <1>02, <1>0, <1>21, AskAnsweredDoes, Frames DEF SameMine, AsksNoMore, Asks, Owned,
         ShowsOurs, MineIs, TakesOver, Released, ForeignSeen
  <2>3. CmdLater
    BY <1>21, TasksLater, Frames
  <2>4. ArmLater
    BY <1>21, TasksLater, Frames
  <2>5. Later(ask, ask')
    BY <1>0, <1>21, AskAnsweredDoes, Frames DEF Later, AskIs, Idle
  <2>6. PollLater
    BY <1>21, TasksLater, Frames
  <2>7. QED
    BY <1>0, <2>1, <2>2, <2>3, <2>4, <2>5, <2>6, OwnedKept
<1>22. CASE PollWakes
  <2>1. SameShown
    BY <1>22, Frames DEF SameShown, Upcoming
  <2>2. SameMine \/ AsksNoMore
    BY <1>22, Frames DEF SameMine
  <2>3. CmdLater
    BY <1>22, TasksLater, Frames
  <2>4. ArmLater
    BY <1>22, TasksLater, Frames
  <2>5. Later(ask, ask')
    BY <1>22, TasksLater, Frames
  <2>6. PollLater
    BY <1>0, <1>22, PollWakesDoes, Frames DEF PollLater, Later, PollIs, PollShape
  <2>7. QED
    BY <1>0, <2>1, <2>2, <2>3, <2>4, <2>5, <2>6, OwnedKept
<1>23. CASE PollChecked
  <2>1. SameShown
    BY <1>23, Frames DEF SameShown, Upcoming
  <2>2. SameMine \/ AsksNoMore
    BY <1>02, <1>0, <1>23, PollCheckedDoes, Frames DEF SameMine, AsksNoMore, Asks, Owned,
         ShowsOurs, MineIs, TakesOver, ForeignSeen
  <2>3. CmdLater
    BY <1>23, TasksLater, Frames
  <2>4. ArmLater
    BY <1>23, TasksLater, Frames
  <2>5. Later(ask, ask')
    BY <1>23, TasksLater, Frames
  <2>6. PollLater
    BY <1>0, <1>23, PollCheckedDoes, Frames DEF PollLater, Later, PollIs, PollSleeps, PollShape
  <2>7. QED
    BY <1>0, <2>1, <2>2, <2>3, <2>4, <2>5, <2>6, OwnedKept
<1>24. CASE StatusServed
  <2>1. SameShown
    BY <1>24, Frames DEF SameShown, Upcoming
  <2>2. SameMine \/ AsksNoMore
    BY <1>24, Frames DEF SameMine
  <2>3. CmdLater
    BY <1>24, TasksLater, Frames
  <2>4. ArmLater
    BY <1>24, TasksLater, Frames
  <2>5. Later(ask, ask')
    BY <1>24, TasksLater, Frames
  <2>6. PollLater
    BY <1>0, <1>24, StatusServedDoes, Frames DEF PollLater, Later, PollIs, PollShape
  <2>7. QED
    BY <1>0, <2>1, <2>2, <2>3, <2>4, <2>5, <2>6, OwnedKept
<1>25. CASE StatusReturned
  <2>1. SameShown
    BY <1>25, Frames DEF SameShown, Upcoming
  <2>2. SameMine \/ AsksNoMore
    BY <1>02, <1>0, <1>25, StatusReturnedDoes, Frames DEF SameMine, AsksNoMore, Asks, Owned,
         ShowsOurs, MineIs, ChangedTo
  <2>3. CmdLater
    BY <1>25, TasksLater, Frames
  <2>4. ArmLater
    BY <1>25, TasksLater, Frames
  <2>5. Later(ask, ask')
    BY <1>25, TasksLater, Frames
  <2>6. PollLater
    BY <1>0, <1>25, StatusReturnedDoes, Frames DEF PollLater, Later, PollIs, PollSleeps, PollShape
  <2>7. QED
    BY <1>0, <2>1, <2>2, <2>3, <2>4, <2>5, <2>6, OwnedKept
<1>26. CASE TrackLooked
  <2>1. /\ device' = device /\ sonos' = sonos /\ cmd' = cmd /\ arm' = arm /\ ask' = ask
        /\ Upcoming' = Upcoming /\ poll.pc = "looking"
    BY <1>0, <1>26, TrackLookedDoes, Frames DEF Upcoming
  <2>2. CASE ~(poll.saw # None /\ poll.saw = mine.next)
    <3>1. SameMine
      BY <1>0, <1>26, <2>2, TrackLookedDoes DEF SameMine, ChangedTo, MineIs
    <3>2. PollLater
      BY <1>0, <1>26, <2>2, TrackLookedDoes DEF PollLater, Later, PollSleeps, PollIs
    <3>3. SameShown
      BY <2>1 DEF SameShown
    <3>4. QED
      BY <1>0, <2>1, <3>1, <3>2, <3>3, OwnedKept, TasksLater
  <2>3. CASE poll.saw # None /\ poll.saw = mine.next
    <3>1. /\ mine'.current = mine.next /\ mine'.next = None /\ mine'.grace
          /\ mine'.external = mine.external /\ mine'.starting = mine.starting
          /\ poll'.pc = "sleep" /\ poll'.saw = None
      BY <1>0, <1>26, <2>3, TrackLookedDoes DEF MineIs, PollSleeps, PollIs
    <3>2. ~mine.starting /\ device.uri = mine.next
      BY <1>0, <2>1, <2>3 DEF UpcomingArmed, Owned, LooksTrue
    <3>3. device.loading = None
      BY <1>0, <2>3, <3>2 DEF Owned, ShowsOurs
    <3>4. ShowsOurs'
      <4>1. cmd'.pc \in {"playUri", "playUriAgain"} => device'.loading = cmd'.url \/
             (device'.loading = None /\ device'.uri \in {cmd'.url, Foreign})
        BY <1>0, <2>1, <2>3, <3>1, <3>2, <3>3 DEF Owned, ShowsOurs, Asks, Kinds, ArmShape
      <4>2. ~mine'.starting /\ mine'.current # None /\ device'.loading # None
             => /\ device'.loading = mine'.current
                /\ mine'.grace \/ given'.slow \/ device'.uri = mine'.current
        BY <1>0, <2>1, <2>3, <3>1, <3>2, <3>3 DEF Owned, ShowsOurs, Asks, Kinds, ArmShape
      <4>3. mine'.external => device'.loading = None \/ given'.slow
        BY <1>0, <2>1, <2>3, <3>1, <3>2, <3>3 DEF Owned, ShowsOurs, Asks, Kinds, ArmShape
      <4>4. Asks' /\ device'.loading # None /\ cmd'.kind \in Kinds => IF cmd'.pc = "checking" THEN
             cmd'.saw \in {None, device'.uri} ELSE device'.uri = mine'.current
        BY <1>0, <2>1, <2>3, <3>1, <3>2, <3>3 DEF Owned, ShowsOurs, Asks, Kinds, ArmShape
      <4>5. device'.loading # None /\ mine'.next # None => mine'.next \notin {device'.uri,
             device'.loading}
        BY <1>0, <2>1, <2>3, <3>1, <3>2, <3>3 DEF Owned, ShowsOurs, Asks, Kinds, ArmShape
      <4>6. Asks' /\ device'.loading = None => device'.uri \in {None, Foreign, mine'.current,
             mine'.next}
        BY <1>0, <2>1, <2>3, <3>1, <3>2, <3>3 DEF Owned, ShowsOurs, Asks, Kinds, ArmShape
      <4>7. QED
        BY <4>1, <4>2, <4>3, <4>4, <4>5, <4>6 DEF ShowsOurs
    <3>5. LooksTrue'
      <4>1. Asks' /\ poll'.pc = "looking" => poll'.saw \in {None, Foreign, mine'.current,
             device'.uri}
        BY <1>0, <2>1, <2>3, <3>1, <3>2, <3>3 DEF Owned, ShowsOurs, LooksTrue, Asks, Kinds,
             ArmShape
      <4>2. poll'.pc = "looking" /\ ~mine'.starting /\ poll'.saw = mine'.next /\ mine'.next # None
             => device'.uri = poll'.saw
        BY <1>0, <2>1, <2>3, <3>1, <3>2, <3>3 DEF Owned, ShowsOurs, LooksTrue, Asks, Kinds,
             ArmShape
      <4>3. poll'.pc = "looking" /\ ~mine'.starting /\ arm'.kind = "set" /\ arm'.expected =
             mine'.current /\ poll'.saw = arm'.url => device'.uri = poll'.saw
        BY <1>0, <2>1, <2>3, <3>1, <3>2, <3>3 DEF Owned, ShowsOurs, LooksTrue, Asks, Kinds,
             ArmShape
      <4>4. arm'.kind = "set" /\ arm'.expected = mine'.current /\ ~mine'.starting /\
             device'.loading = None /\ device'.uri = arm'.url => Upcoming' = None
        BY <1>0, <2>1, <2>3, <3>1, <3>2, <3>3 DEF Owned, ShowsOurs, LooksTrue, Asks, Kinds,
             ArmShape
      <4>5. QED
        BY <4>1, <4>2, <4>3, <4>4 DEF LooksTrue
    <3>6. AllSeen'
      <4>1. Seen(cmd)'
        BY <1>0, <2>1, <2>3, <3>1, <3>2, <3>3 DEF Owned, ShowsOurs, AllSeen, Seen, Asks, Kinds,
             ArmShape
      <4>2. Seen(arm)'
        BY <1>0, <2>1, <2>3, <3>1, <3>2, <3>3 DEF Owned, ShowsOurs, AllSeen, Seen, Asks, Kinds,
             ArmShape
      <4>3. Seen(ask)'
        BY <1>0, <2>1, <2>3, <3>1, <3>2, <3>3 DEF Owned, ShowsOurs, AllSeen, Seen, Asks, Kinds,
             ArmShape
      <4>4. Seen(poll)'
        BY <1>0, <2>1, <2>3, <3>1, <3>2, <3>3 DEF Owned, ShowsOurs, AllSeen, Seen, Asks, Kinds,
             ArmShape
      <4>5. QED
        BY <4>1, <4>2, <4>3, <4>4 DEF AllSeen
    <3>7. QED
      BY <3>4, <3>5, <3>6 DEF Owned
  <2>4. QED
    BY <2>2, <2>3
<1>28. CASE Loaded
  <2>1. /\ sonos' = sonos /\ cmd' = cmd /\ arm' = arm /\ ask' = ask /\ poll' = poll
        /\ mine' = mine /\ device.loading # None
        /\ device'.uri = device.loading /\ device'.loading = None /\ device.loading \in Urls
    BY <1>0, <1>28, LoadedDoes, Frames DEF DeviceIs, Typed, DeviceTyped, Devices, UrlOrNone
  <2>2. Asks' = Asks /\ poll.pc # "looking"
    BY <1>0, <2>1 DEF Asks, PollShape, LoadingSeen
  <2>3. ShowsOurs'
    <3>1. cmd'.pc \in {"playUri", "playUriAgain"} => device'.loading = cmd'.url \/
           (device'.loading = None /\ device'.uri \in {cmd'.url, Foreign})
      BY <1>0, <2>1, <2>2 DEF Owned, ShowsOurs, Asks, Kinds, ArmShape
    <3>2. ~mine'.starting /\ mine'.current # None /\ device'.loading # None
           => /\ device'.loading = mine'.current
              /\ mine'.grace \/ given'.slow \/ device'.uri = mine'.current
      BY <1>0, <2>1, <2>2 DEF Owned, ShowsOurs, Asks, Kinds, ArmShape
    <3>3. mine'.external => device'.loading = None \/ given'.slow
      BY <1>0, <2>1, <2>2 DEF Owned, ShowsOurs, Asks, Kinds, ArmShape
    <3>4. Asks' /\ device'.loading # None /\ cmd'.kind \in Kinds => IF cmd'.pc = "checking" THEN
           cmd'.saw \in {None, device'.uri} ELSE device'.uri = mine'.current
      BY <1>0, <2>1, <2>2 DEF Owned, ShowsOurs, Asks, Kinds, ArmShape
    <3>5. device'.loading # None /\ mine'.next # None => mine'.next \notin {device'.uri,
           device'.loading}
      BY <1>0, <2>1, <2>2 DEF Owned, ShowsOurs, Asks, Kinds, ArmShape
    <3>6. Asks' /\ device'.loading = None => device'.uri \in {None, Foreign, mine'.current,
           mine'.next}
      BY <1>0, <2>1, <2>2 DEF Owned, ShowsOurs, Asks, Kinds, ArmShape
    <3>7. QED
      BY <3>1, <3>2, <3>3, <3>4, <3>5, <3>6 DEF ShowsOurs
  <2>4. LooksTrue'
    <3>1. Asks' /\ poll'.pc = "looking" => poll'.saw \in {None, Foreign, mine'.current,
           device'.uri}
      BY <1>0, <2>1, <2>2 DEF Owned, ShowsOurs, LooksTrue, Asks, Kinds, ArmShape
    <3>2. poll'.pc = "looking" /\ ~mine'.starting /\ poll'.saw = mine'.next /\ mine'.next # None
           => device'.uri = poll'.saw
      BY <1>0, <2>1, <2>2 DEF Owned, ShowsOurs, LooksTrue, Asks, Kinds, ArmShape
    <3>3. poll'.pc = "looking" /\ ~mine'.starting /\ arm'.kind = "set" /\ arm'.expected =
           mine'.current /\ poll'.saw = arm'.url => device'.uri = poll'.saw
      BY <1>0, <2>1, <2>2 DEF Owned, ShowsOurs, LooksTrue, Asks, Kinds, ArmShape
    <3>4. arm'.kind = "set" /\ arm'.expected = mine'.current /\ ~mine'.starting /\ device'.loading
           = None /\ device'.uri = arm'.url => Upcoming' = None
      BY <1>0, <2>1, <2>2 DEF Owned, ShowsOurs, LooksTrue, Asks, Kinds, ArmShape
    <3>5. QED
      BY <3>1, <3>2, <3>3, <3>4 DEF LooksTrue
  <2>5. AllSeen'
    <3>1. Seen(cmd)'
      BY <1>0, <2>1, <2>2 DEF Owned, ShowsOurs, AllSeen, Seen, Asks, Kinds, ArmShape
    <3>2. Seen(arm)'
      BY <1>0, <2>1, <2>2 DEF Owned, ShowsOurs, AllSeen, Seen, Asks, Kinds, ArmShape
    <3>3. Seen(ask)'
      BY <1>0, <2>1, <2>2 DEF Owned, ShowsOurs, AllSeen, Seen, Asks, Kinds, ArmShape
    <3>4. Seen(poll)'
      BY <1>0, <2>1, <2>2 DEF Owned, ShowsOurs, AllSeen, Seen, Asks, Kinds, ArmShape
    <3>5. QED
      BY <3>1, <3>2, <3>3, <3>4 DEF AllSeen
  <2>6. QED
    BY <2>3, <2>4, <2>5 DEF Owned
<1>29. CASE Advances
  <2>1. /\ sonos' = sonos /\ cmd' = cmd /\ arm' = arm /\ ask' = ask /\ poll' = poll
        /\ mine' = mine /\ device.loading = None /\ device'.loading = None
        /\ device'.uri = Upcoming /\ Upcoming # None /\ Asks' = Asks
    BY <1>0, <1>29, AdvancesDoes, Frames DEF DeviceIs, Asks
  <2>2. /\ mine.next # None => mine.next # mine.current
        /\ ~mine.starting /\ mine.next # None => Upcoming = mine.next
        /\ Asks /\ mine.next = None => Upcoming = mine.current
        /\ Upcoming # device.uri
        /\ cmd.pc \notin {"playUri", "playUriAgain"}
    BY <1>0, <2>1 DEF UpcomingArmed, Where, Upcoming
  <2>3. Upcoming' = None
    <3>1. CASE sonos
      <4>1. /\ device.pos \in 1 .. Len(device.queue) - 1 /\ device'.pos = device.pos + 1
            /\ device'.queue = device.queue /\ Len(device.queue) <= device.pos + 1
        BY <1>0, <1>29, <2>1, <3>1, AdvancesDoes, UpcomingTyped DEF DeviceIs, Typed, UpcomingArmed
      <4>2. device.pos \in Nat /\ Len(device.queue) \in Nat
        BY <1>0 DEF Typed, DeviceTyped, Devices
      <4>3. QED
        BY <2>1, <3>1, <4>1, <4>2 DEF Upcoming
    <3>2. CASE ~sonos
      BY <1>0, <1>29, <2>1, <3>2, AdvancesDoes DEF DeviceIs, Upcoming
    <3>3. QED
      BY <3>1, <3>2
  <2>4. ShowsOurs'
    <3>1. cmd'.pc \in {"playUri", "playUriAgain"} => device'.loading = cmd'.url \/
           (device'.loading = None /\ device'.uri \in {cmd'.url, Foreign})
      BY <1>0, <2>1, <2>2, <2>3 DEF Owned, ShowsOurs, Asks, Kinds
    <3>2. ~mine'.starting /\ mine'.current # None /\ device'.loading # None
           => /\ device'.loading = mine'.current
              /\ mine'.grace \/ given'.slow \/ device'.uri = mine'.current
      BY <1>0, <2>1, <2>2, <2>3 DEF Owned, ShowsOurs, Asks, Kinds
    <3>3. mine'.external => device'.loading = None \/ given'.slow
      BY <1>0, <2>1, <2>2, <2>3 DEF Owned, ShowsOurs, Asks, Kinds
    <3>4. Asks' /\ device'.loading # None /\ cmd'.kind \in Kinds => IF cmd'.pc = "checking" THEN
           cmd'.saw \in {None, device'.uri} ELSE device'.uri = mine'.current
      BY <1>0, <2>1, <2>2, <2>3 DEF Owned, ShowsOurs, Asks, Kinds
    <3>5. device'.loading # None /\ mine'.next # None => mine'.next \notin {device'.uri,
           device'.loading}
      BY <1>0, <2>1, <2>2, <2>3 DEF Owned, ShowsOurs, Asks, Kinds
    <3>6. Asks' /\ device'.loading = None => device'.uri \in {None, Foreign, mine'.current,
           mine'.next}
      BY <1>0, <2>1, <2>2, <2>3 DEF Owned, ShowsOurs, Asks, Kinds
    <3>7. QED
      BY <3>1, <3>2, <3>3, <3>4, <3>5, <3>6 DEF ShowsOurs
  <2>5. LooksTrue'
    <3>1. Asks' /\ poll'.pc = "looking" => poll'.saw \in {None, Foreign, mine'.current,
           device'.uri}
      BY <1>0, <2>1, <2>2, <2>3 DEF Owned, ShowsOurs, LooksTrue, Asks, Kinds
    <3>2. poll'.pc = "looking" /\ ~mine'.starting /\ poll'.saw = mine'.next /\ mine'.next # None
           => device'.uri = poll'.saw
      BY <1>0, <2>1, <2>2, <2>3 DEF Owned, ShowsOurs, LooksTrue, Asks, Kinds
    <3>3. poll'.pc = "looking" /\ ~mine'.starting /\ arm'.kind = "set" /\ arm'.expected =
           mine'.current /\ poll'.saw = arm'.url => device'.uri = poll'.saw
      BY <1>0, <2>1, <2>2, <2>3 DEF Owned, ShowsOurs, LooksTrue, Asks, Kinds
    <3>4. arm'.kind = "set" /\ arm'.expected = mine'.current /\ ~mine'.starting /\ device'.loading
           = None /\ device'.uri = arm'.url => Upcoming' = None
      BY <1>0, <2>1, <2>2, <2>3 DEF Owned, ShowsOurs, LooksTrue, Asks, Kinds
    <3>5. QED
      BY <3>1, <3>2, <3>3, <3>4 DEF LooksTrue
  <2>6. AllSeen'
    <3>1. Seen(cmd)'
      BY <1>0, <2>1, <2>2, <2>3 DEF Owned, ShowsOurs, AllSeen, Seen, Asks, Kinds
    <3>2. Seen(arm)'
      BY <1>0, <2>1, <2>2, <2>3 DEF Owned, ShowsOurs, AllSeen, Seen, Asks, Kinds
    <3>3. Seen(ask)'
      BY <1>0, <2>1, <2>2, <2>3 DEF Owned, ShowsOurs, AllSeen, Seen, Asks, Kinds
    <3>4. Seen(poll)'
      BY <1>0, <2>1, <2>2, <2>3 DEF Owned, ShowsOurs, AllSeen, Seen, Asks, Kinds
    <3>5. QED
      BY <3>1, <3>2, <3>3, <3>4 DEF AllSeen
  <2>7. QED
    BY <2>4, <2>5, <2>6 DEF Owned
<1>30. CASE Ends
  <2>0. SameNext
    BY <1>0, <1>30, EndsDoes, Frames DEF SameNext, DeviceIs
  <2>1. SameShown
    BY <2>0, UpcomingKept DEF SameShown, SameNext
  <2>2. SameMine \/ AsksNoMore
    BY <1>30, Frames DEF SameMine
  <2>3. CmdLater
    BY <1>30, TasksLater, Frames
  <2>4. ArmLater
    BY <1>30, TasksLater, Frames
  <2>5. Later(ask, ask')
    BY <1>30, TasksLater, Frames
  <2>6. PollLater
    BY <1>30, TasksLater, Frames
  <2>7. QED
    BY <1>0, <2>1, <2>2, <2>3, <2>4, <2>5, <2>6, OwnedKept
<1>31. CASE ForeignTakes
  <2>1. /\ sonos' = sonos /\ cmd' = cmd /\ arm' = arm /\ ask' = ask /\ poll' = poll
        /\ mine' = mine /\ Asks' = Asks /\ poll.pc # "looking"
        /\ device'.uri = Foreign /\ device'.loading = None
        /\ device'.next = None /\ device'.pos = 0
    BY <1>0, <1>31, ForeignTakesDoes, Frames DEF DeviceIs, Asks, Crossed
  <2>2. Upcoming' = None
    BY <2>1 DEF Upcoming
  <2>3. mine.current # Foreign
    BY <1>0 DEF Typed, MineTyped, Minds, UrlOrNone
  <2>4. ShowsOurs'
    <3>1. cmd'.pc \in {"playUri", "playUriAgain"} => device'.loading = cmd'.url \/
           (device'.loading = None /\ device'.uri \in {cmd'.url, Foreign})
      BY <1>0, <2>1, <2>2, <2>3 DEF Owned, ShowsOurs, Asks, Kinds
    <3>2. ~mine'.starting /\ mine'.current # None /\ device'.loading # None
           => /\ device'.loading = mine'.current
              /\ mine'.grace \/ given'.slow \/ device'.uri = mine'.current
      BY <1>0, <2>1, <2>2, <2>3 DEF Owned, ShowsOurs, Asks, Kinds
    <3>3. mine'.external => device'.loading = None \/ given'.slow
      BY <1>0, <2>1, <2>2, <2>3 DEF Owned, ShowsOurs, Asks, Kinds
    <3>4. Asks' /\ device'.loading # None /\ cmd'.kind \in Kinds => IF cmd'.pc = "checking" THEN
           cmd'.saw \in {None, device'.uri} ELSE device'.uri = mine'.current
      BY <1>0, <2>1, <2>2, <2>3 DEF Owned, ShowsOurs, Asks, Kinds
    <3>5. device'.loading # None /\ mine'.next # None => mine'.next \notin {device'.uri,
           device'.loading}
      BY <1>0, <2>1, <2>2, <2>3 DEF Owned, ShowsOurs, Asks, Kinds
    <3>6. Asks' /\ device'.loading = None => device'.uri \in {None, Foreign, mine'.current,
           mine'.next}
      BY <1>0, <2>1, <2>2, <2>3 DEF Owned, ShowsOurs, Asks, Kinds
    <3>7. QED
      BY <3>1, <3>2, <3>3, <3>4, <3>5, <3>6 DEF ShowsOurs
  <2>5. LooksTrue'
    <3>1. Asks' /\ poll'.pc = "looking" => poll'.saw \in {None, Foreign, mine'.current,
           device'.uri}
      BY <1>0, <2>1, <2>2, <2>3 DEF Owned, ShowsOurs, LooksTrue, Asks, Kinds
    <3>2. poll'.pc = "looking" /\ ~mine'.starting /\ poll'.saw = mine'.next /\ mine'.next # None
           => device'.uri = poll'.saw
      BY <1>0, <2>1, <2>2, <2>3 DEF Owned, ShowsOurs, LooksTrue, Asks, Kinds
    <3>3. poll'.pc = "looking" /\ ~mine'.starting /\ arm'.kind = "set" /\ arm'.expected =
           mine'.current /\ poll'.saw = arm'.url => device'.uri = poll'.saw
      BY <1>0, <2>1, <2>2, <2>3 DEF Owned, ShowsOurs, LooksTrue, Asks, Kinds
    <3>4. arm'.kind = "set" /\ arm'.expected = mine'.current /\ ~mine'.starting /\ device'.loading
           = None /\ device'.uri = arm'.url => Upcoming' = None
      BY <1>0, <2>1, <2>2, <2>3 DEF Owned, ShowsOurs, LooksTrue, Asks, Kinds
    <3>5. QED
      BY <3>1, <3>2, <3>3, <3>4 DEF LooksTrue
  <2>6. AllSeen'
    <3>1. Seen(cmd)'
      BY <1>0, <2>1, <2>2, <2>3 DEF Owned, ShowsOurs, AllSeen, Seen, Asks, Kinds
    <3>2. Seen(arm)'
      BY <1>0, <2>1, <2>2, <2>3 DEF Owned, ShowsOurs, AllSeen, Seen, Asks, Kinds
    <3>3. Seen(ask)'
      BY <1>0, <2>1, <2>2, <2>3 DEF Owned, ShowsOurs, AllSeen, Seen, Asks, Kinds
    <3>4. Seen(poll)'
      BY <1>0, <2>1, <2>2, <2>3 DEF Owned, ShowsOurs, AllSeen, Seen, Asks, Kinds
    <3>5. QED
      BY <3>1, <3>2, <3>3, <3>4 DEF AllSeen
  <2>7. QED
    BY <2>4, <2>5, <2>6 DEF Owned
<1>32. ASSUME NEW m \in {"PLAYING", "PAUSED", "STOPPED"}, HandsOn(m) PROVE Owned'
  <2>0. SameNext
    BY <1>0, <1>32, HandsOnDoes, Frames DEF SameNext, DeviceIs
  <2>1. SameShown
    BY <2>0, UpcomingKept DEF SameShown, SameNext
  <2>2. SameMine \/ AsksNoMore
    BY <1>32, Frames DEF SameMine
  <2>3. CmdLater
    BY <1>32, TasksLater, Frames
  <2>4. ArmLater
    BY <1>32, TasksLater, Frames
  <2>5. Later(ask, ask')
    BY <1>32, TasksLater, Frames
  <2>6. PollLater
    BY <1>32, TasksLater, Frames
  <2>7. QED
    BY <1>0, <2>1, <2>2, <2>3, <2>4, <2>5, <2>6, OwnedKept
<1>. QED
  BY <1>1, <1>2, <1>3, <1>4, <1>5, <1>6, <1>7, <1>8, <1>9, <1>10, <1>11, <1>12, <1>13, <1>14,
     <1>15, <1>16, <1>17, <1>18, <1>19, <1>20, <1>21, <1>22, <1>23, <1>24, <1>25, <1>26, <1>27,
     <1>28, <1>29, <1>30, <1>31, <1>32, Frames DEF Next, vars

\* All of it together.
DlnaInv == Typed /\ Shape /\ Where /\ Loading /\ EndsTold /\ NextArmed /\ Ownership

\* It holds at the start: nothing is asked, loaded or armed.
LEMMA InitOwned ==
  ASSUME Init
  PROVE  DlnaInv
<1>1. PICK u \in {None, Foreign} :
        device = [uri |-> u, mode |-> IF u = None THEN "STOPPED" ELSE "PLAYING",
                  loading |-> None, next |-> None, queue |-> <<>>, pos |-> 0]
  BY DEF Init
<1>2. /\ device.uri = u /\ device.loading = None /\ device.next = None /\ device.queue = <<>>
      /\ device.pos = 0 /\ device.mode = IF u = None THEN "STOPPED" ELSE "PLAYING"
  BY <1>1
<1>3. /\ cmd.kind = "none" /\ cmd.pc = "none" /\ cmd.saw = None
      /\ arm.kind = "none" /\ arm.pc = "none" /\ arm.saw = None /\ ask.saw = None
      /\ poll.pc = "sleep" /\ poll.saw = None
      /\ mine.current = None /\ mine.next = None /\ mine.nr = 0 /\ ~mine.external
      /\ ~mine.starting /\ mine.state = "STOPPED"
      /\ ~given.falseEnd /\ ~given.falseTakeover
  BY DEF Init, Idle
<1>4. Upcoming = None /\ ~Asks
  BY <1>2, <1>3 DEF Upcoming, Asks
<1>5. Typed /\ Shape
  BY InitTyped
<1>6. Where
  BY <1>2, <1>3 DEF Where
<1>7. Loading
  BY <1>2, <1>3 DEF Loading, LoadingSeen
<1>8. EndsTold
  BY <1>2, <1>3 DEF EndsTold, EndsDue
<1>9. NextArmed
  BY DlnaAssumption, <1>2, <1>3, <1>4 DEF NextArmed, UpcomingArmed
<1>10. Owned
  BY DlnaAssumption, <1>2, <1>3, <1>4 DEF Owned, ShowsOurs, LooksTrue, AllSeen, Seen, Kinds
<1>11. QED
  BY <1>3, <1>5, <1>6, <1>7, <1>8, <1>9, <1>10 DEF DlnaInv, Ownership

\* The invariant: what the tasks may be suspended at, where the renderer is, what loads, when the
\* end of a track is due, what plays next, and whose it is.  Nothing in it waits for a load or a
\* read: the grace period ends at any time, and slow says that it ended before these did.
THEOREM DlnaInvHolds == Spec => []DlnaInv
<1>1. Init => DlnaInv
  BY InitOwned
<1>2. DlnaInv /\ [Next]_vars => DlnaInv'
  BY StepTyped, StepWhere, StepLoading, StepEnds, StepNext, StepTaken DEF DlnaInv
<1>3. QED
  BY <1>1, <1>2, PTL DEF Spec

\* No takeover is declared for a track of ours (_owns_transport), but for what TakeoverIsForeign
\* names, a load longer than the grace period among it; a new selection holds
\* (prepare_for_selection), and no play goes on against another source.
THEOREM TakeoverStaysReal == Spec => []TakeoverIsReal
<1>1. DlnaInv => TypeOK
  BY  DEF DlnaInv, Typed, MineTyped, Minds, PollTyped, Polls, DeviceTyped, Devices, UrlOrNone,
       TypeOK
<1>2. DlnaInv => SelectionHolds /\ NoPlayWhileExternal
  BY DEF DlnaInv, Shape, MineShape, SelectionHolds, NoPlayWhileExternal
<1>3. DlnaInv => TakeoverIsForeign
  BY DEF DlnaInv, Ownership, Trusted, Armed, Uncrossed, TakeoverIsForeign
<1>4. QED
  BY <1>1, <1>2, <1>3, DlnaInvHolds, PTL DEF TakeoverIsReal

\* The end of a track is told only when the renderer has stopped and not for a stop of ours, but
\* for what EndIsReal names, a load longer than the grace period among it (_poll_state_loop).
THEOREM EndStaysReal == Spec => []EndIsReal
<1>1. DlnaInv => EndIsReal
  BY DEF DlnaInv, EndsTold, EndsDue, Unmistaken, Uncrossed, EndIsReal
<1>2. QED
  BY <1>1, DlnaInvHolds, PTL

\* The renderer goes on only to what the backend armed, and a Sonos has it queued once
\* (set_next_track, clear_next_track).
THEOREM NextStaysKnown == Spec => []NextIsKnown
<1>1. ASSUME DlnaInv PROVE QueuedOnce
  BY <1>1 DEF DlnaInv, NextArmed, Armed, UpcomingArmed, QueuedOnce
<1>2. ASSUME DlnaInv, cmd = Idle, ~mine.external, device.mode \in {"PLAYING", "PAUSED"},
             device.uri = mine.current, Armed
      PROVE  Upcoming \in {None, mine.next}
  <2>1. UpcomingArmed /\ MineShape /\ Where
    BY <1>2 DEF DlnaInv, NextArmed, Shape
  <2>2. ~mine.starting /\ mine.current # None
    BY <1>2, <2>1 DEF MineShape, Where, Idle
  <2>3. Asks
    BY <1>2, <2>2 DEF Asks
  <2>4. QED
    BY <1>2, <2>1, <2>2, <2>3 DEF UpcomingArmed
<1>3. ASSUME DlnaInv PROVE NextIsArmed
  BY <1>2, <1>3 DEF NextIsArmed, Armed
<1>4. DlnaInv => NextIsKnown
  BY <1>1, <1>3 DEF NextIsKnown
<1>5. QED
  BY <1>4, DlnaInvHolds, PTL

\* Once another source owns the renderer, only a new selection gives it back.
THEOREM OnlySelectionsReturn == Spec => OnlySelectionReturns
<1>1. DlnaInv /\ [Next]_vars
        => [mine.external /\ ~mine'.external => ask' = Idle /\ mine'.current = None]_vars
  BY StepReturns DEF DlnaInv
<1>2. QED
  BY <1>1, DlnaInvHolds, PTL DEF Spec, OnlySelectionReturns
=============================================================================
