------------------------------ MODULE LmsProofs ------------------------------
(***************************************************************************)
(* Proofs about LmsBackend, for all tracks and bounds.  LmsInv says where  *)
(* each task can be, what can wait behind the playing track and who will   *)
(* deal with it, and what a status that was read a while ago still tells   *)
(* of the player.  One lemma for each action shows that it is kept.        *)
(***************************************************************************)
EXTENDS LmsBackend, SequenceTheorems, FiniteSetTheorems,
        WellFoundedInduction, TLAPS

TrackOrNone == Tracks \cup {None}
Tasks == {Loop, Command, Arm}
Pcs == {"idle", "reading", "dropping", "removing", "playing", "pausing", "resuming", "unpausing",
        "stopping", "stopped", "fetching", "setting", "replacing", "deleting", "rereading",
        "adding", "clearing"}
Reqs == [kind : Kinds, item : TrackOrNone, index : Nat]
TaskSet == [pc : Pcs, req : Reqs, status : Players, item : TrackOrNone, old : TrackOrNone,
            stale : BOOLEAN]

Flags == [crossed : BOOLEAN, slipped : BOOLEAN, missed : BOOLEAN]
Beliefs == [track : TrackOrNone, armed : TrackOrNone, mode : {"playing", "paused", "stopped"}]

\* The player's index is one of its playlist, and at most one item waits behind it.
Fits(l) == l \in Players /\ l.cur <= Len(l.list) /\ Len(l.list) <= l.cur + 1

Typed ==
  /\ Fits(lms) /\ task \in [Tasks -> TaskSet] /\ \A t \in Tasks : Fits(task[t].status)
  /\ current \in TrackOrNone /\ nxt \in TrackOrNone /\ orphan \in TrackOrNone
  /\ grace \in BOOLEAN /\ state \in {"PLAYING", "PAUSED", "STOPPED"}
  /\ player \in Beliefs
  /\ seen \in BOOLEAN
  /\ given \in Flags
  /\ used \in [DOMAIN Bound -> Nat]

\* The first of some numbers.
LEMMA LeastIn ==
  ASSUME NEW S \in SUBSET Nat, S # {}
  PROVE  \E i \in S : \A j \in S : i <= j
<1> DEFINE R == OpToRel(<, Nat)
<1>1. IsWellFoundedOn(R, Nat)
  BY NatLessThanWellFounded
<1>2. \A x, y \in Nat : y < x => <<y, x>> \in R
  BY DEF OpToRel
<1> HIDE DEF R
<1>3. PICK x \in S : \A y \in S : ~(<<y, x>> \in R)
  BY <1>1, WFMin
<1>4. \A y \in S : x <= y
  <2> TAKE y \in S
  <2>1. x \in Nat /\ y \in Nat /\ ~(y < x)
    BY <1>2, <1>3
  <2>2. QED
    BY <2>1
<1>5. QED
  BY <1>4

\* The last of some numbers up to n is one of them.
LEMMA MaxIn ==
  ASSUME NEW n \in Nat, NEW S \in SUBSET (1 .. n), S # {}
  PROVE  Max(S) \in S
<1> DEFINE T == {n - i : i \in S}
<1>1. T \in SUBSET Nat /\ T # {}
  <2>1. \A i \in S : n - i \in Nat
    OBVIOUS
  <2>2. PICK i \in S : TRUE
    OBVIOUS
  <2>3. n - i \in T
    OBVIOUS
  <2>4. QED
    BY <2>1, <2>3
<1>2. PICK k \in T : \A j \in T : k <= j
  BY <1>1, LeastIn
<1>3. PICK i \in S : k = n - i
  BY <1>2
<1>4. \A j \in S : i >= j
  <2> TAKE j \in S
  <2>1. n - j \in T
    OBVIOUS
  <2>2. n - i <= n - j /\ i \in 1 .. n /\ j \in 1 .. n
    BY <1>2, <1>3, <2>1
  <2>3. QED
    BY <2>2
<1>5. QED
  BY <1>4 DEF Max

\* The finished track is looked for among the items before the current one.
LEMMA FinishedIn ==
  ASSUME NEW s, Fits(s), NEW url
  PROVE  Finished(s, url) \in Nat
<1> DEFINE I == {i \in 1 .. s.cur - 1 : s.list[i] = url}
<1>1. s.cur \in Nat
  BY DEF Fits, Players
<1>2. CASE s.cur = 0
  <2>1. 1 .. s.cur - 1 = {}
    BY <1>2
  <2>2. QED
    BY <2>1 DEF Finished
<1>3. CASE s.cur # 0
  <2>1. s.cur - 1 \in Nat /\ I \in SUBSET (1 .. s.cur - 1)
    BY <1>1, <1>3
  <2>2. I # {} => Max(I) \in I
    BY <2>1, MaxIn
  <2>3. QED
    BY <2>1, <2>2 DEF Finished
<1>4. QED
  BY <1>2, <1>3

\* What waits behind the current item is the last one, and where _index_of finds it.
LEMMA BehindIs ==
  ASSUME NEW s, Fits(s)
  PROVE  /\ Behind(s) \in Items \cup {None} /\ Url(s) \in Items \cup {None}
         /\ Behind(s) = None <=> s.cur = Len(s.list)
         /\ Behind(s) # None => s.cur + 1 = Len(s.list)
         /\ \A url \in Tracks :
              /\ IndexOf(s, url) \in Nat /\ IndexOf(s, url) # 0 <=> Behind(s) = url
              /\ IndexOf(s, url) # 0 => IndexOf(s, url) = Len(s.list)
<1>1. /\ s.list \in Seq(Items) /\ s.cur \in Nat /\ Len(s.list) \in Nat /\ s.cur <= Len(s.list)
      /\ Len(s.list) <= s.cur + 1 /\ None \notin Items
      /\ \A i \in 1 .. Len(s.list) : s.list[i] \in Items
  BY LmsAssumption DEF Fits, Players, Items
<1>2. /\ Behind(s) \in Items \cup {None} /\ Url(s) \in Items \cup {None}
      /\ Behind(s) = None <=> s.cur = Len(s.list)
      /\ Behind(s) # None => s.cur + 1 = Len(s.list)
  BY <1>1 DEF Behind, Url
<1>3. ASSUME NEW url \in Tracks
      PROVE  /\ IndexOf(s, url) \in Nat /\ IndexOf(s, url) # 0 <=> Behind(s) = url
             /\ IndexOf(s, url) # 0 => IndexOf(s, url) = Len(s.list)
  <2>1. CASE Behind(s) = url
    <3>1. url # None
      BY LmsAssumption
    <3>2. s.cur + 1 = Len(s.list) /\ s.list[s.cur + 1] = url
      BY <1>1, <1>2, <2>1, <3>1 DEF Behind
    <3>3. Indexes(s, url) = {Len(s.list)}
      BY <1>1, <3>2 DEF Indexes
    <3>4. Min({Len(s.list)}) = Len(s.list)
      BY <1>1 DEF Min
    <3>5. QED
      BY <1>1, <2>1, <3>2, <3>3, <3>4 DEF IndexOf
  <2>2. CASE Behind(s) # url
    <3>1. Indexes(s, url) = {}
      BY <1>1, <2>2 DEF Indexes, Behind
    <3>2. QED
      BY <2>2, <3>1 DEF IndexOf
  <2>3. QED
    BY <2>1, <2>2
<1>4. QED
  BY <1>2, <1>3

\* A playlist without its i-th item.
LEMMA Removed ==
  ASSUME NEW s \in Seq(Items), NEW i \in 1 .. Len(s)
  PROVE  /\ RemoveAt(s, i) \in Seq(Items) /\ Len(RemoveAt(s, i)) = Len(s) - 1
         /\ \A j \in 1 .. Len(s) - 1 : RemoveAt(s, i)[j] = IF j < i THEN s[j] ELSE s[j + 1]
<1> DEFINE a == SubSeq(s, 1, i - 1)
           b == SubSeq(s, i + 1, Len(s))
<1>1. /\ a \in Seq(Items) /\ Len(a) = i - 1 /\ \A j \in 1 .. i - 1 : a[j] = s[j]
      /\ b \in Seq(Items) /\ Len(b) = Len(s) - i
      /\ \A j \in 1 .. Len(s) - i : b[j] = s[i + j]
  BY SubSeqProperties
<1>2. RemoveAt(s, i) = a \o b
  BY DEF RemoveAt
<1> HIDE DEF a, b
<1>3. /\ a \o b \in Seq(Items) /\ Len(a \o b) = Len(a) + Len(b)
      /\ \A j \in 1 .. Len(a) + Len(b) :
           (a \o b)[j] = IF j <= Len(a) THEN a[j] ELSE b[j - Len(a)]
  BY <1>1, ConcatProperties
<1>4. /\ Len(a \o b) = Len(s) - 1
      /\ \A j \in 1 .. Len(s) - 1 : (a \o b)[j] = IF j < i THEN s[j] ELSE s[j + 1]
  BY <1>1, <1>3
<1>5. QED
  BY <1>2, <1>3, <1>4

\* What a delete can do: the item behind goes or stays behind the same one.
LEMMA Deletes ==
  ASSUME NEW l, Fits(l), NEW r \in Reqs, r.kind = "delete"
  PROVE  LET m == Effect(l, r)
         IN  /\ Fits(m) /\ m.mode \in {l.mode, "stop"}
             /\ Len(m.list) <= Len(l.list)
             /\ Behind(m) # None => Behind(m) = Behind(l) /\ Url(m) = Url(l)
             /\ m.mode # "stop" => Url(m) = Url(l) \/ (Behind(l) # None /\ Url(m) = Behind(l))
             /\ r.index = Len(l.list) => Behind(m) = None
             /\ r.index > Len(l.list) => m = l
<1> DEFINE n == Len(l.list)
           k == RemoveAt(l.list, r.index)
<1>0. /\ l.list \in Seq(Items) /\ l.cur \in Nat /\ n \in Nat /\ l.cur <= n /\ n <= l.cur + 1
      /\ r.index \in Nat /\ l = [list |-> l.list, cur |-> l.cur, mode |-> l.mode]
      /\ l.mode \in {"play", "pause", "stop"} /\ DOMAIN l = {"list", "cur", "mode"}
  BY DEF Fits, Players, Reqs
<1>a. Behind(l) \in Items \cup {None} /\ Url(l) \in Items \cup {None}
  BY BehindIs
<1>1. CASE r.index \notin 1 .. n
  <2>1. Effect(l, r) = l
    BY <1>1 DEF Effect
  <2>2. r.index = n => n = 0
    BY <1>0, <1>1
  <2>3. r.index = n => Behind(l) = None
    BY <1>0, <2>2 DEF Behind
  <2>4. QED
    BY <1>0, <2>1, <2>3
<1>2. CASE r.index \in 1 .. n
  <2>1. /\ k \in Seq(Items) /\ Len(k) = n - 1
        /\ \A j \in 1 .. n - 1 : k[j] = IF j < r.index THEN l.list[j] ELSE l.list[j + 1]
    BY <1>0, <1>2, Removed
  <2> HIDE DEF k
  <2>2. CASE r.index < l.cur
    <3>1. Effect(l, r) = [l EXCEPT !.list = k, !.cur = @ - 1]
      BY <1>2, <2>2 DEF Effect, k
    <3>2. PICK m : m = [list |-> k, cur |-> l.cur - 1, mode |-> l.mode] /\ Effect(l, r) = m
      BY <1>0, <3>1
    <3>3. Fits(m) /\ Behind(m) = Behind(l) /\ Url(m) = Url(l)
      BY <1>0, <1>2, <2>1, <2>2, <3>2 DEF Fits, Players, Behind, Url
    <3>4. QED
      BY <1>0, <1>2, <2>1, <2>2, <3>2, <3>3
  <2>3. CASE r.index > l.cur
    <3>1. Effect(l, r) = [l EXCEPT !.list = k]
      BY <1>0, <1>2, <2>3 DEF Effect, k
    <3>2. PICK m : m = [list |-> k, cur |-> l.cur, mode |-> l.mode] /\ Effect(l, r) = m
      BY <1>0, <3>1
    <3>3. Fits(m) /\ Behind(m) = None /\ Url(m) = Url(l)
      BY <1>0, <1>2, <2>1, <2>3, <3>2 DEF Fits, Players, Behind, Url
    <3>4. QED
      BY <1>0, <1>2, <2>1, <2>3, <3>2, <3>3
  <2>4. CASE r.index = l.cur /\ l.cur < n
    <3>1. Effect(l, r) = [l EXCEPT !.list = k]
      BY <1>0, <1>2, <2>4 DEF Effect, k
    <3>2. PICK m : m = [list |-> k, cur |-> l.cur, mode |-> l.mode] /\ Effect(l, r) = m
      BY <1>0, <3>1
    <3>3. Fits(m) /\ Behind(m) = None
      BY <1>0, <1>2, <2>1, <2>4, <3>2 DEF Fits, Players, Behind
    <3>4. Url(m) = Behind(l)
      BY <1>0, <1>2, <2>1, <2>4, <3>2 DEF Behind, Url
    <3>5. Behind(l) # None
      BY <1>0, <2>4, BehindIs
    <3>6. QED
      BY <1>0, <1>2, <2>1, <2>4, <3>2, <3>3, <3>4, <3>5
  <2>5. CASE r.index = l.cur /\ l.cur = n
    <3>1. Effect(l, r) = [l EXCEPT !.list = k, !.cur = @ - 1, !.mode = "stop"]
      BY <1>0, <1>2, <2>5 DEF Effect, k
    <3>2. PICK m : m = [list |-> k, cur |-> l.cur - 1, mode |-> "stop"] /\ Effect(l, r) = m
      BY <1>0, <3>1
    <3>3. Fits(m) /\ Behind(m) = None
      BY <1>0, <1>2, <2>1, <2>5, <3>2 DEF Fits, Players, Behind
    <3>4. QED
      BY <1>0, <1>2, <2>1, <2>5, <3>2, <3>3
  <2>6. QED
    BY <1>0, <1>2, <2>2, <2>3, <2>4, <2>5
<1>3. QED
  BY <1>1, <1>2

\* An item is added to a playlist in which nothing waits.
LEMMA AddsTo ==
  ASSUME NEW l, Fits(l), NEW r \in Reqs, r.kind = "add", r.item \in Tracks, Behind(l) = None
  PROVE  LET m == Effect(l, r)
         IN  /\ Fits(m) /\ m.mode = l.mode /\ Behind(m) \in {None, r.item}
             /\ Behind(m) # None => Url(m) = Url(l)
             /\ Url(m) \in {Url(l), r.item}
<1> DEFINE k == Append(l.list, r.item)
<1>0. /\ l.list \in Seq(Items) /\ l.cur \in Nat /\ l.cur = Len(l.list) /\ r.item \in Items
      /\ DOMAIN l = {"list", "cur", "mode"} /\ l.mode \in {"play", "pause", "stop"}
      /\ l = [list |-> l.list, cur |-> l.cur, mode |-> l.mode]
  BY BehindIs DEF Fits, Players, Items
<1>1. /\ k \in Seq(Items) /\ Len(k) = Len(l.list) + 1 /\ k[Len(l.list) + 1] = r.item
      /\ \A i \in 1 .. Len(l.list) : k[i] = l.list[i]
  BY <1>0, AppendProperties
<1> HIDE DEF k
<1>2. CASE l.list = <<>>
  <2>1. PICK m : m = [list |-> k, cur |-> 1, mode |-> l.mode] /\ Effect(l, r) = m
    BY <1>0, <1>2 DEF Effect, k
  <2>2. k \in Seq(Items) /\ Len(k) \in Nat /\ 1 <= Len(k) /\ Len(k) <= 1
    BY <1>0, <1>1, <1>2
  <2>3. m.cur = 1 /\ m.list = k /\ m.mode = l.mode
    BY <2>1
  <2>4. m \in Players
    BY <1>0, <2>1, <2>2 DEF Players
  <2>5. Behind(m) = None
    BY <2>2, <2>3 DEF Behind
  <2>6. Fits(m)
    BY <2>2, <2>3, <2>4 DEF Fits
  <2>7. Url(m) = r.item
    <3>1. m.cur \in 1 .. Len(m.list)
      BY <2>2, <2>3
    <3>2. m.list[m.cur] = r.item
      BY <1>0, <1>1, <1>2, <2>3
    <3>3. QED
      BY <3>1, <3>2 DEF Url
  <2>8. QED
    BY <2>3, <2>1, <2>5, <2>6, <2>7
<1>3. CASE l.list # <<>>
  <2>1. PICK m : m = [list |-> k, cur |-> l.cur, mode |-> l.mode] /\ Effect(l, r) = m
    BY <1>0, <1>3 DEF Effect, k
  <2>2. Fits(m) /\ Behind(m) = r.item
    BY <1>0, <1>1, <1>3, <2>1 DEF Fits, Players, Behind
  <2>3. Url(m) = Url(l)
    BY <1>0, <1>1, <1>3, <2>1 DEF Url
  <2>4. QED
    BY <2>1, <2>2, <2>3
<1>4. QED
  BY <1>2, <1>3

\* A play replaces the playlist; stop, pause and unpause leave it alone.
LEMMA Plays ==
  ASSUME NEW l, Fits(l), NEW r \in Reqs
  PROVE  LET m == Effect(l, r)
         IN  /\ r.kind = "status" => m = l
             /\ r.kind = "play" /\ r.item \in Tracks =>
                  Fits(m) /\ m.mode = "play" /\ Behind(m) = None /\ Url(m) = r.item
                  /\ Len(m.list) <= 1
             /\ r.kind \in {"stop", "pause", "unpause"} =>
                  /\ Fits(m) /\ Behind(m) = Behind(l) /\ Url(m) = Url(l) /\ m.list = l.list
                  /\ m.mode = "stop" \/ (l.mode # "stop" /\ r.kind # "stop")
                  /\ r.kind = "unpause" => m.mode # "pause"
<1>0. /\ l.list \in Seq(Items) /\ l.cur \in Nat /\ l.cur <= Len(l.list)
      /\ Len(l.list) <= l.cur + 1 /\ Len(l.list) \in Nat
      /\ DOMAIN l = {"list", "cur", "mode"} /\ l.mode \in {"play", "pause", "stop"}
  BY DEF Fits, Players
<1>1. r.kind = "status" => Effect(l, r) = l
  BY DEF Effect
<1>2. ASSUME r.kind = "play", r.item \in Tracks
      PROVE  LET m == Effect(l, r)
             IN  Fits(m) /\ m.mode = "play" /\ Behind(m) = None /\ Url(m) = r.item
                 /\ Len(m.list) <= 1
  <2>1. PICK m : m = [list |-> <<r.item>>, cur |-> 1, mode |-> "play"] /\ Effect(l, r) = m
    BY <1>2 DEF Effect
  <2>2. /\ <<r.item>> \in Seq(Items) /\ Len(<<r.item>>) = 1 /\ <<r.item>>[1] = r.item
    BY <1>2 DEF Items
  <2>3. QED
    BY <2>1, <2>2 DEF Fits, Players, Behind, Url
<1>3. ASSUME r.kind \in {"stop", "pause", "unpause"}
      PROVE  LET m == Effect(l, r)
             IN  /\ Fits(m) /\ Behind(m) = Behind(l) /\ Url(m) = Url(l) /\ m.list = l.list
                 /\ m.mode = "stop" \/ (l.mode # "stop" /\ r.kind # "stop")
                 /\ r.kind = "unpause" => m.mode # "pause"
  <2>1. PICK x : x \in {"play", "pause", "stop"} /\ Effect(l, r) = [l EXCEPT !.mode = x]
                 /\ (x = "stop" \/ (l.mode # "stop" /\ r.kind # "stop"))
                 /\ (r.kind = "unpause" => x # "pause")
    <3>1. CASE r.kind = "stop"
      BY <3>1 DEF Effect
    <3>2. CASE r.kind = "pause"
      BY <1>0, <3>2 DEF Effect
    <3>3. CASE r.kind = "unpause"
      <4>1. Effect(l, r) = [l EXCEPT !.mode = IF l.mode = "pause" THEN "play" ELSE l.mode]
        BY <3>3 DEF Effect
      <4>2. QED
        BY <1>0, <3>3, <4>1
    <3>4. QED
      BY <1>3, <3>1, <3>2, <3>3
  <2>2. PICK m : m = [list |-> l.list, cur |-> l.cur, mode |-> x] /\ Effect(l, r) = m
    BY <1>0, <2>1 DEF Fits, Players
  <2>3. Fits(m) /\ Behind(m) = Behind(l) /\ Url(m) = Url(l)
    BY <1>0, <2>1, <2>2 DEF Fits, Players, Behind, Url
  <2>4. m.list = l.list /\ m.mode = x
    BY <2>2
  <2>5. QED
    BY <2>1, <2>2, <2>3, <2>4
<1>4. QED
  BY <1>1, <1>2, <1>3


\* A task between two requests, and the playlist of nobody.
LEMMA AtRest ==
  /\ NoReq \in Reqs /\ NoReq.kind = "none" /\ Status \in Reqs /\ Status.kind = "status"
  /\ IdleTask \in TaskSet /\ IdleTask.pc = "idle" /\ IdleTask.req = NoReq
  /\ IdleTask.status = Silent /\ IdleTask.item = None /\ IdleTask.old = None
  /\ IdleTask.stale = FALSE
  /\ Fits(Silent) /\ Silent \in Players /\ Behind(Silent) = None /\ Url(Silent) = None
  /\ Silent.mode = "stop"
<1>1. <<>> \in Seq(Items) /\ Len(<<>>) = 0
  OBVIOUS
<1>2. /\ Fits(Silent) /\ Silent \in Players /\ Behind(Silent) = None /\ Url(Silent) = None
      /\ Silent.mode = "stop"
  BY <1>1 DEF Silent, Fits, Players, Behind, Url
<1>3. QED
  BY <1>2 DEF NoReq, Status, Req, Reqs, Kinds, TrackOrNone, IdleTask, TaskSet, Pcs

\* A request.
LEMMA ReqIs ==
  ASSUME NEW k \in Kinds, NEW x \in TrackOrNone, NEW i \in Nat
  PROVE  /\ Req(k, x, i) \in Reqs /\ Req(k, x, i).kind = k /\ Req(k, x, i).item = x
         /\ Req(k, x, i).index = i
  BY DEF Req, Reqs

\* The requests of pause, resume and stop.
LEMMA PlainRequests ==
  /\ Req("pause", None, 0) \in Reqs /\ Req("pause", None, 0).kind = "pause"
  /\ Req("unpause", None, 0) \in Reqs /\ Req("unpause", None, 0).kind = "unpause"
  /\ Req("stop", None, 0) \in Reqs /\ Req("stop", None, 0).kind = "stop"
  BY DEF Req, Reqs, Kinds, TrackOrNone

-----------------------------------------------------------------------------
(***************************************************************************)
(* The inductive invariant, in parts.                                      *)
(***************************************************************************)
Asks(t, kind) == task[t].req.kind \in {kind, "answered", "failed"}

\* Where a task can be, and what it has asked for.
Shaped ==
  /\ \/ task[Loop].pc = "idle" /\ task[Loop].req.kind = "none"
     \/ task[Loop].pc = "reading" /\ Asks(Loop, "status")
     \/ task[Loop].pc \in {"dropping", "removing"} /\ Asks(Loop, "delete")
  /\ \/ task[Command].pc = "idle" /\ task[Command].req.kind = "none"
     \/ task[Command].pc \in {"resuming", "stopping"} /\ Asks(Command, "status")
     \/ task[Command].pc = "playing" /\ Asks(Command, "play")
     \/ task[Command].pc = "pausing" /\ Asks(Command, "pause")
     \/ task[Command].pc = "unpausing" /\ Asks(Command, "unpause")
     \/ task[Command].pc = "stopped" /\ Asks(Command, "stop")
  /\ \/ task[Arm].pc \in {"idle", "fetching"} /\ task[Arm].req.kind = "none"
     \/ /\ task[Arm].pc \in {"setting", "replacing", "removing", "rereading", "clearing"}
        /\ Asks(Arm, "status")
     \/ task[Arm].pc = "deleting" /\ Asks(Arm, "delete")
     \/ task[Arm].pc = "adding" /\ Asks(Arm, "add")
  /\ \A t \in Tasks :
       /\ task[t].req.kind = "status" => task[t].req = Status
       /\ task[t].req.kind = "delete" => task[t].req.item \in Tracks
       /\ task[t].req.kind = "failed" => used.failures # 0
  /\ task[Command].pc = "playing" => task[Command].item \in Tracks
  /\ task[Command].req.kind = "play" => task[Command].req.item = task[Command].item
  /\ task[Arm].pc \notin {"idle", "clearing"} => task[Arm].item \in Tracks
  /\ task[Arm].req.kind = "add" => task[Arm].req.item = task[Arm].item
  /\ task[Arm].pc \in {"clearing", "replacing"} => task[Arm].old \in Tracks

\* The arming goes by a status it has read.
Held ==
  \/ /\ task[Arm].pc \in {"setting", "replacing", "removing", "rereading", "clearing"}
     /\ Answered(Arm)
  \/ task[Arm].pc = "deleting"

\* Only an arming adds: what waits behind the current item since it read has been there then.
Kept ==
  /\ Held /\ Behind(lms) # None =>
       Behind(task[Arm].status) = Behind(lms) /\ Url(task[Arm].status) = Url(lms)
  /\ Held => Len(lms.list) <= 1 \/ Len(lms.list) <= Len(task[Arm].status.list)
  /\ task[Arm].req.kind = "add" => Behind(lms) = None
  /\ task[Arm].pc = "adding" => Behind(lms) \in {None, task[Arm].item}
  /\ task[Arm].req.kind = "delete" =>
       /\ task[Arm].req.index = Len(task[Arm].status.list) /\ 1 <= task[Arm].req.index
       /\ Len(lms.list) <= task[Arm].req.index
       /\ Behind(task[Arm].status) = task[Arm].req.item

\* There is at most one of an armed next track and an orphan, and only the armed one waits.
OneNext ==
  /\ task[Arm].pc \in {"replacing", "clearing", "deleting", "rereading", "adding"} =>
       orphan = None /\ nxt = None
  /\ task[Arm].pc = "removing" => nxt = None
  /\ nxt = None \/ orphan = None
  /\ nxt # None => Behind(lms) \in {None, nxt}

\* An arming that is not outdated adds no track that plays.
NotItself ==
  /\ /\ task[Arm].pc \in {"setting", "rereading"} /\ Answered(Arm) /\ ~task[Arm].stale
     /\ Behind(task[Arm].status) = None /\ lms.mode # "stop"
     => Url(lms) \in {Url(task[Arm].status), Foreign}
  /\ /\ task[Arm].pc = "adding" /\ ~task[Arm].stale /\ lms.mode # "stop"
     /\ task[Arm].req.kind = "add" \/ Behind(lms) = task[Arm].item
     => Url(lms) # task[Arm].item

\* The state loop's status tells of an orphan that still waits.
OrphanRead ==
  /\ task[Loop].pc = "reading" /\ Answered(Loop) /\ orphan # None /\ orphan = task[Loop].old
  /\ Behind(lms) # None
  => /\ Behind(task[Loop].status) = Behind(lms) /\ Url(task[Loop].status) = Url(lms)
     /\ Len(task[Loop].status.list) = Len(lms.list)

\* What the player holds for armed is so, and a play outdates an arming.
Believed ==
  /\ player.armed # None => task[Arm].pc = "idle" /\ (current = None \/ player.armed = nxt)
  /\ task[Command].pc = "playing" =>
       /\ player.mode = "stopped" /\ player.armed = None /\ nxt = None
       /\ task[Arm].pc \in {"idle", "clearing"} \/ task[Arm].stale

\* The loop has acted on a status in which the claimed track plays.
Sees == seen /\ current # None => Url(lms) = current

\* Neither the armed next track nor an orphan is queued behind itself.
NotTwice ==
  /\ nxt # None /\ Behind(lms) = nxt /\ lms.mode # "stop" => Url(lms) # nxt
  /\ orphan # None /\ Behind(lms) = orphan => Url(lms) # orphan

\* What the player and the backend think of the mode against the server's.
Modes ==
  /\ player.mode = "playing" /\ lms.mode = "pause" => task[Command].pc = "pausing"
  /\ task[Command].pc \in {"playing", "unpausing"} /\ Answered(Command) => lms.mode # "pause"
  /\ HoldsStatus /\ task[Loop].status.mode = "pause" /\ player.mode = "playing" =>
       task[Command].pc = "pausing" /\ task[Loop].pc = "reading"
  /\ player.mode = "playing" /\ current # None => state = "PLAYING"
  /\ seen /\ player.mode = "playing" /\ current # None => lms.mode # "stop"

\* The player has something going.
Active == player.mode # "stopped" \/ task[Command].pc \in {"pausing", "resuming", "unpausing"}

\* The player shows the backend's current track, and what it holds for armed is all there is.
Shown ==
  /\ current = None /\ Active => task[Loop].pc = "idle"
  /\ current # None /\ Active /\ task[Command].pc \notin {"stopping", "stopped"} =>
       player.track = current /\ (nxt = None \/ player.armed = nxt)

\* While the loop removes an orphan, its old status is still right about the mode.
Removing ==
  /\ task[Loop].pc = "removing" /\ task[Command].pc # "playing" /\ current # None =>
       /\ Behind(lms) # current /\ (task[Arm].pc = "adding" => task[Arm].item # current)
       /\ task[Loop].status.mode = "stop" => lms.mode = "stop" \/ Url(lms) # current
  /\ /\ task[Loop].pc = "reading" /\ Answered(Loop) /\ task[Command].pc # "playing"
     /\ orphan # None /\ orphan = task[Loop].old /\ task[Loop].status.mode = "stop"
     => lms.mode = "stop" \/ (Url(lms) = Foreign /\ Behind(lms) = None)

\* The track that is, or is about to be, claimed.
Started == task[Command].pc = "playing" /\ Answered(Command)
Claimed == IF Started THEN task[Command].item ELSE current

\* Someone will deal with an item nobody wants.
Known ==
  LET b == Behind(lms)
  IN  /\ Claimed # None /\ (Active \/ Started) /\ lms.mode # "stop" /\ Url(lms) = Claimed
      /\ b \notin {None, nxt, orphan}
      => \/ task[Arm].pc = "adding" /\ Answered(Arm) /\ task[Arm].item = b
         \/ task[Arm].pc \in {"replacing", "clearing"} /\ task[Arm].old = b
         \/ /\ task[Loop].pc = "removing" /\ task[Loop].req.kind = "delete"
            /\ task[Loop].req.item = b /\ task[Loop].req.index = Len(lms.list)
         \/ task[Arm].req.kind = "delete" /\ task[Arm].req.item = b

Always == Kept /\ OneNext /\ NotItself /\ OrphanRead /\ Believed /\ Sees
Cleanly == NotTwice /\ Modes /\ Shown /\ Removing /\ Known
LmsInv == Typed /\ Shaped /\ Always /\ (Undisturbed => Cleanly)

-----------------------------------------------------------------------------
(***************************************************************************)
(* Every step keeps the invariant.                                         *)
(***************************************************************************)
\* What a step leaves of the tasks.
LoopTurns(pc, req, status, old) ==
  /\ task'[Loop].pc = pc /\ task'[Loop].req = req /\ task'[Loop].status = status
  /\ task'[Loop].old = old /\ task'[Command] = task[Command] /\ task'[Arm] = task[Arm]

CommandTurns(pc, req, status, item) ==
  /\ task'[Command].pc = pc /\ task'[Command].req = req /\ task'[Command].status = status
  /\ task'[Command].item = item /\ task'[Loop] = task[Loop] /\ task'[Arm] = task[Arm]

ArmTurns(pc, req, status, item, old, stale) ==
  /\ task'[Arm].pc = pc /\ task'[Arm].req = req /\ task'[Arm].status = status
  /\ task'[Arm].item = item /\ task'[Arm].old = old /\ task'[Arm].stale = stale
  /\ task'[Loop] = task[Loop] /\ task'[Command] = task[Command]

\* What the begin of a command leaves of the tasks.
Begun(pc, req, item) ==
  /\ task'[Command].pc = pc /\ task'[Command].req = req /\ task'[Command].item = item
  /\ task'[Command].status = task[Command].status /\ task'[Loop] = task[Loop]
  /\ task'[Arm].pc = task[Arm].pc /\ task'[Arm].req = task[Arm].req
  /\ task'[Arm].status = task[Arm].status /\ task'[Arm].item = task[Arm].item
  /\ task'[Arm].old = task[Arm].old
  /\ task'[Arm].stale = (task[Arm].stale \/ pc \in {"playing", "stopping"})

\* The instance's bounds are counters; only a lost request counts as a failure.
LEMMA SpendIs ==
  ASSUME Typed, NEW what \in {"commands", "arms", "advances", "foreign", "failures"}, Spend(what)
  PROVE  /\ used' \in [DOMAIN Bound -> Nat]
         /\ what # "failures" => used'.failures = used.failures
         /\ what = "failures" => used'.failures # 0
<1>1. used \in [DOMAIN Bound -> Nat] /\ used' = [used EXCEPT ![what] = @ + 1]
  BY DEF Typed, Spend
<1>2. DOMAIN Bound = {"commands", "arms", "advances", "foreign", "failures"}
  BY DEF Bound
<1>3. QED
  BY <1>1, <1>2

\* A command begins; play and stop outdate the arming that is on its way.
LEMMA BeginsIs ==
  ASSUME Typed, NEW pc \in Pcs, NEW req \in Reqs, NEW item \in TrackOrNone, Begins(pc, req, item)
  PROVE  /\ task[Command].pc = "idle" /\ task' \in [Tasks -> TaskSet] /\ Begun(pc, req, item)
         /\ used' \in [DOMAIN Bound -> Nat] /\ used'.failures = used.failures
         /\ pc \notin {"playing", "stopping"} => player' = player
         /\ pc = "stopping" => player' = [player EXCEPT !.armed = None]
         /\ pc = "playing" => player' = [player EXCEPT !.armed = None, !.mode = "stopped"]
<1> DEFINE d == pc \in {"playing", "stopping"}
<1>1. /\ Command \in Tasks /\ Arm \in Tasks /\ Command # Arm /\ task \in [Tasks -> TaskSet]
      /\ d \in BOOLEAN
  BY DEF Typed, Tasks, Loop, Command, Arm
<1>2. /\ task[Command].pc = "idle"
      /\ task' = [task EXCEPT ![Command].pc = pc, ![Command].req = req, ![Command].item = item,
                              ![Arm].stale = (@ \/ d)]
  BY DEF Begins
<1>3. task' \in [Tasks -> TaskSet]
  <2> HIDE DEF d
  <2>1. QED
    BY <1>1, <1>2 DEF TaskSet
<1>4. Begun(pc, req, item)
  BY <1>1, <1>2 DEF Begun, TaskSet, Tasks, Loop, Command, Arm
<1>5. used' \in [DOMAIN Bound -> Nat] /\ used'.failures = used.failures
  <2>1. CASE pc = "resuming"
    BY <2>1 DEF Begins, Typed
  <2>2. CASE pc # "resuming"
    BY <2>2, SpendIs DEF Begins
  <2>3. QED
    BY <2>1, <2>2
<1>6. /\ pc \notin {"playing", "stopping"} => player' = player
      /\ pc = "stopping" => player' = [player EXCEPT !.armed = None]
      /\ pc = "playing" => player' = [player EXCEPT !.armed = None, !.mode = "stopped"]
  BY DEF Begins
<1>7. QED
  BY <1>2, <1>3, <1>4, <1>5, <1>6

\* The state loop asks for a status.
LEMMA LoopReadsKeeps ==
  ASSUME LmsInv, LoopReads
  PROVE  LmsInv'
<1>0. /\ Typed /\ Shaped /\ Kept /\ OneNext /\ NotItself /\ OrphanRead /\ Believed /\ Sees
      /\ Undisturbed => NotTwice /\ Modes /\ Shown /\ Removing /\ Known
  BY DEF LmsInv, Always, Cleanly
<1>1. /\ task[Loop].pc = "idle" /\ current # None
      /\ task' = [task EXCEPT ![Loop].pc = "reading", ![Loop].req = Status, ![Loop].old = orphan]
      /\ UNCHANGED <<lms, current, nxt, orphan, grace, state, player, seen, given, used>>
  BY  DEF LoopReads, backendVars
<1>2. /\ task' \in [Tasks -> TaskSet]
      /\ LoopTurns("reading", Status, task[Loop].status, orphan)
  <2>1. /\ Loop \in Tasks /\ task \in [Tasks -> TaskSet]
        /\ "reading" \in Pcs /\ Status \in Reqs /\ orphan \in TrackOrNone
    BY <1>0, <1>1, AtRest DEF Typed, Tasks, Pcs
  <2>2. task' \in [Tasks -> TaskSet]
    BY <1>1, <2>1, AtRest DEF TaskSet
  <2>3. LoopTurns("reading", Status, task[Loop].status, orphan)
    BY <1>1, <2>1, AtRest DEF LoopTurns, TaskSet, Tasks, Loop, Command, Arm
  <2>4. QED
    BY <2>2, <2>3
<1>3. Undisturbed' => Undisturbed
  BY <1>1 DEF Undisturbed
<1>4. Typed'
  BY <1>0, <1>1, <1>2, <1>3, AtRest DEF Typed, Tasks, TrackOrNone, LoopTurns
<1>5. Shaped'
  BY <1>0, <1>1, <1>2, <1>3, AtRest DEF Shaped, Asks, Tasks, LoopTurns
<1>6. Kept'
  BY <1>0, <1>1, <1>2, <1>3, AtRest DEF Kept, Held, Answered, LoopTurns
<1>7. OneNext'
  BY <1>0, <1>1, <1>2, <1>3, AtRest DEF OneNext, LoopTurns
<1>8. NotItself'
  BY <1>0, <1>1, <1>2, <1>3, AtRest DEF NotItself, Answered, LoopTurns
<1>9. OrphanRead'
  BY <1>0, <1>1, <1>2, <1>3, AtRest DEF OrphanRead, Answered, LoopTurns
<1>10. Believed'
  BY <1>0, <1>1, <1>2, <1>3, AtRest DEF Believed, LoopTurns
<1>11. Sees'
  BY <1>0, <1>1, <1>2, <1>3, AtRest DEF Sees, LoopTurns
<1>12. Undisturbed' => NotTwice'
  BY <1>0, <1>1, <1>2, <1>3, AtRest DEF NotTwice, LoopTurns
<1>13. Undisturbed' => Modes'
  BY <1>0, <1>1, <1>2, <1>3, AtRest DEF Modes, HoldsStatus, Answered, LoopTurns
<1>14. Undisturbed' => Shown'
  BY <1>0, <1>1, <1>2, <1>3, AtRest DEF Shown, Active, LoopTurns
<1>15. Undisturbed' => Removing'
  BY <1>0, <1>1, <1>2, <1>3, AtRest DEF Removing, Answered, LoopTurns
<1>16. Undisturbed' => Known'
  BY <1>0, <1>1, <1>2, <1>3, AtRest DEF Known, Claimed, Started, Active, Answered, LoopTurns
<1>17. QED
  BY <1>4, <1>5, <1>6, <1>7, <1>8, <1>9, <1>10, <1>11, <1>12, <1>13, <1>14, <1>15, <1>16 DEF
    LmsInv, Always, Cleanly

\* The grace period after a start ends.
LEMMA GraceEndsKeeps ==
  ASSUME LmsInv, GraceEnds
  PROVE  LmsInv'
<1>0. /\ Typed /\ Shaped /\ Kept /\ OneNext /\ NotItself /\ OrphanRead /\ Believed /\ Sees
      /\ Undisturbed => NotTwice /\ Modes /\ Shown /\ Removing /\ Known
  BY DEF LmsInv, Always, Cleanly
<1>1. /\ grace' = FALSE
      /\ UNCHANGED <<lms, current, nxt, orphan, state, task, player, seen, given, used>>
  BY  DEF GraceEnds
<1>2. Undisturbed' => Undisturbed
  BY <1>1 DEF Undisturbed
<1>3. Typed'
  BY <1>0, <1>1, <1>2, AtRest DEF Typed, Tasks, TrackOrNone
<1>4. Shaped'
  BY <1>0, <1>1, <1>2, AtRest DEF Shaped, Asks, Tasks
<1>5. Kept'
  BY <1>0, <1>1, <1>2, AtRest DEF Kept, Held, Answered
<1>6. OneNext'
  BY <1>0, <1>1, <1>2, AtRest DEF OneNext
<1>7. NotItself'
  BY <1>0, <1>1, <1>2, AtRest DEF NotItself, Answered
<1>8. OrphanRead'
  BY <1>0, <1>1, <1>2, AtRest DEF OrphanRead, Answered
<1>9. Believed'
  BY <1>0, <1>1, <1>2, AtRest DEF Believed
<1>10. Sees'
  BY <1>0, <1>1, <1>2, AtRest DEF Sees
<1>11. Undisturbed' => NotTwice'
  BY <1>0, <1>1, <1>2, AtRest DEF NotTwice
<1>12. Undisturbed' => Modes'
  BY <1>0, <1>1, <1>2, AtRest DEF Modes, HoldsStatus, Answered
<1>13. Undisturbed' => Shown'
  BY <1>0, <1>1, <1>2, AtRest DEF Shown, Active
<1>14. Undisturbed' => Removing'
  BY <1>0, <1>1, <1>2, AtRest DEF Removing, Answered
<1>15. Undisturbed' => Known'
  BY <1>0, <1>1, <1>2, AtRest DEF Known, Claimed, Started, Active, Answered
<1>16. QED
  BY <1>3, <1>4, <1>5, <1>6, <1>7, <1>8, <1>9, <1>10, <1>11, <1>12, <1>13, <1>14, <1>15 DEF
    LmsInv, Always, Cleanly

\* The state loop gives up a status, or is done with dropping the finished track.
LEMMA LoopContinuesKeeps ==
  ASSUME LmsInv, LoopContinues
  PROVE  LmsInv'
<1>0. /\ Typed /\ Shaped /\ Kept /\ OneNext /\ NotItself /\ OrphanRead /\ Believed /\ Sees
      /\ Undisturbed => NotTwice /\ Modes /\ Shown /\ Removing /\ Known
  BY DEF LmsInv, Always, Cleanly
<1>1. /\ task[Loop].pc \in {"reading", "dropping"} /\ task' = [task EXCEPT ![Loop] = IdleTask]
      /\ seen' = FALSE
      /\ UNCHANGED <<lms, current, nxt, orphan, grace, state, player, given, used>>
  BY  DEF LoopContinues, Rests, backendVars
<1>2. /\ task' \in [Tasks -> TaskSet]
      /\ LoopTurns("idle", NoReq, Silent, None)
  <2>1. /\ Loop \in Tasks /\ task \in [Tasks -> TaskSet]
        /\ IdleTask \in TaskSet
    BY <1>0, <1>1, AtRest DEF Typed, Tasks, Pcs
  <2>2. task' \in [Tasks -> TaskSet]
    BY <1>1, <2>1, AtRest DEF TaskSet
  <2>3. LoopTurns("idle", NoReq, Silent, None)
    BY <1>1, <2>1, AtRest DEF LoopTurns, TaskSet, Tasks, Loop, Command, Arm
  <2>4. QED
    BY <2>2, <2>3
<1>3. Undisturbed' => Undisturbed
  BY <1>1 DEF Undisturbed
<1>4. Typed'
  BY <1>0, <1>1, <1>2, <1>3, AtRest DEF Typed, Tasks, TrackOrNone, LoopTurns
<1>5. Shaped'
  BY <1>0, <1>1, <1>2, <1>3, AtRest DEF Shaped, Asks, Tasks, LoopTurns
<1>6. Kept'
  BY <1>0, <1>1, <1>2, <1>3, AtRest DEF Kept, Held, Answered, LoopTurns
<1>7. OneNext'
  BY <1>0, <1>1, <1>2, <1>3, AtRest DEF OneNext, LoopTurns
<1>8. NotItself'
  BY <1>0, <1>1, <1>2, <1>3, AtRest DEF NotItself, Answered, LoopTurns
<1>9. OrphanRead'
  BY <1>0, <1>1, <1>2, <1>3, AtRest DEF OrphanRead, Answered, LoopTurns
<1>10. Believed'
  BY <1>0, <1>1, <1>2, <1>3, AtRest DEF Believed, LoopTurns
<1>11. Sees'
  BY <1>0, <1>1, <1>2, <1>3, AtRest DEF Sees, LoopTurns
<1>12. Undisturbed' => NotTwice'
  BY <1>0, <1>1, <1>2, <1>3, AtRest DEF NotTwice, LoopTurns
<1>13. Undisturbed' => Modes'
  BY <1>0, <1>1, <1>2, <1>3, AtRest DEF Modes, HoldsStatus, Answered, LoopTurns
<1>14. Undisturbed' => Shown'
  BY <1>0, <1>1, <1>2, <1>3, AtRest DEF Shown, Active, LoopTurns
<1>15. Undisturbed' => Removing'
  BY <1>0, <1>1, <1>2, <1>3, AtRest DEF Removing, Answered, LoopTurns
<1>16. Undisturbed' => Known'
  BY <1>0, <1>1, <1>2, <1>3, AtRest DEF Known, Claimed, Started, Active, Answered, LoopTurns
<1>17. QED
  BY <1>4, <1>5, <1>6, <1>7, <1>8, <1>9, <1>10, <1>11, <1>12, <1>13, <1>14, <1>15, <1>16 DEF
    LmsInv, Always, Cleanly

\* The player pauses.
LEMMA PauseKeeps ==
  ASSUME LmsInv, Pause
  PROVE  LmsInv'
<1>0. /\ Typed /\ Shaped /\ Kept /\ OneNext /\ NotItself /\ OrphanRead /\ Believed /\ Sees
      /\ Undisturbed => NotTwice /\ Modes /\ Shown /\ Removing /\ Known
  BY DEF LmsInv, Always, Cleanly
<1>1. /\ task[Command].pc = "idle" /\ task' \in [Tasks -> TaskSet]
      /\ Begun("pausing", Req("pause", None, 0), None) /\ used' \in [DOMAIN Bound -> Nat]
      /\ used'.failures = used.failures /\ player.mode = "playing"
      /\ UNCHANGED <<lms, current, nxt, orphan, grace, state, player, seen, given>>
  <2>1. "pausing" \in Pcs /\ Req("pause", None, 0) \in Reqs /\ None \in TrackOrNone
    BY ReqIs DEF Pcs, TrackOrNone, Kinds
  <2>2. Begins("pausing", Req("pause", None, 0), None)
    BY DEF Pause
  <2>3. QED
    BY <1>0, <2>1, <2>2, BeginsIs DEF Pause, backendVars, Typed
<1>2. Undisturbed' => Undisturbed
  BY <1>1 DEF Undisturbed
<1>3. Req("pause", None, 0).kind = "pause"
  BY ReqIs DEF Kinds, TrackOrNone
<1>4. Typed'
  BY <1>0, <1>1, <1>2, <1>3, AtRest DEF Typed, Tasks, TrackOrNone, Begun
<1>5. Shaped'
  BY <1>0, <1>1, <1>2, <1>3, AtRest DEF Shaped, Asks, Tasks, Begun
<1>6. Kept'
  BY <1>0, <1>1, <1>2, <1>3, AtRest DEF Kept, Held, Answered, Begun
<1>7. OneNext'
  BY <1>0, <1>1, <1>2, <1>3, AtRest DEF OneNext, Begun
<1>8. NotItself'
  BY <1>0, <1>1, <1>2, <1>3, AtRest DEF NotItself, Answered, Begun
<1>9. OrphanRead'
  BY <1>0, <1>1, <1>2, <1>3, AtRest DEF OrphanRead, Answered, Begun
<1>10. Believed'
  BY <1>0, <1>1, <1>2, <1>3, AtRest DEF Believed, Begun
<1>11. Sees'
  BY <1>0, <1>1, <1>2, <1>3, AtRest DEF Sees, Begun
<1>12. Undisturbed' => NotTwice'
  BY <1>0, <1>1, <1>2, <1>3, AtRest DEF NotTwice, Begun
<1>13. Undisturbed' => Modes'
  BY <1>0, <1>1, <1>2, <1>3, AtRest DEF Modes, HoldsStatus, Answered, Begun
<1>14. Undisturbed' => Shown'
  BY <1>0, <1>1, <1>2, <1>3, AtRest DEF Shown, Active, Begun
<1>15. Undisturbed' => Removing'
  BY <1>0, <1>1, <1>2, <1>3, AtRest DEF Removing, Answered, Begun
<1>16. Undisturbed' => Known'
  BY <1>0, <1>1, <1>2, <1>3, AtRest DEF Known, Claimed, Started, Active, Answered, Begun
<1>17. QED
  BY <1>4, <1>5, <1>6, <1>7, <1>8, <1>9, <1>10, <1>11, <1>12, <1>13, <1>14, <1>15, <1>16 DEF
    LmsInv, Always, Cleanly

\* The player resumes: the backend looks whether the player still has its track.
LEMMA ResumeKeeps ==
  ASSUME LmsInv, Resume
  PROVE  LmsInv'
<1>0. /\ Typed /\ Shaped /\ Kept /\ OneNext /\ NotItself /\ OrphanRead /\ Believed /\ Sees
      /\ Undisturbed => NotTwice /\ Modes /\ Shown /\ Removing /\ Known
  BY DEF LmsInv, Always, Cleanly
<1>1. /\ task[Command].pc = "idle" /\ task' \in [Tasks -> TaskSet]
      /\ Begun("resuming", Status, None) /\ used' \in [DOMAIN Bound -> Nat]
      /\ used'.failures = used.failures /\ player.mode = "paused" /\ current # None
      /\ UNCHANGED <<lms, current, nxt, orphan, grace, state, player, seen, given>>
  <2>1. "resuming" \in Pcs /\ Status \in Reqs /\ None \in TrackOrNone
    BY AtRest DEF Pcs, TrackOrNone
  <2>2. Begins("resuming", Status, None)
    BY DEF Resume
  <2>3. QED
    BY <1>0, <2>1, <2>2, BeginsIs DEF Resume, backendVars, Typed
<1>2. Undisturbed' => Undisturbed
  BY <1>1 DEF Undisturbed
<1>3. Typed'
  BY <1>0, <1>1, <1>2, AtRest DEF Typed, Tasks, TrackOrNone, Begun
<1>4. Shaped'
  BY <1>0, <1>1, <1>2, AtRest DEF Shaped, Asks, Tasks, Begun
<1>5. Kept'
  BY <1>0, <1>1, <1>2, AtRest DEF Kept, Held, Answered, Begun
<1>6. OneNext'
  BY <1>0, <1>1, <1>2, AtRest DEF OneNext, Begun
<1>7. NotItself'
  BY <1>0, <1>1, <1>2, AtRest DEF NotItself, Answered, Begun
<1>8. OrphanRead'
  BY <1>0, <1>1, <1>2, AtRest DEF OrphanRead, Answered, Begun
<1>9. Believed'
  BY <1>0, <1>1, <1>2, AtRest DEF Believed, Begun
<1>10. Sees'
  BY <1>0, <1>1, <1>2, AtRest DEF Sees, Begun
<1>11. Undisturbed' => NotTwice'
  BY <1>0, <1>1, <1>2, AtRest DEF NotTwice, Begun
<1>12. Undisturbed' => Modes'
  BY <1>0, <1>1, <1>2, AtRest DEF Modes, HoldsStatus, Answered, Begun
<1>13. Undisturbed' => Shown'
  BY <1>0, <1>1, <1>2, AtRest DEF Shown, Active, Begun
<1>14. Undisturbed' => Removing'
  BY <1>0, <1>1, <1>2, AtRest DEF Removing, Answered, Begun
<1>15. Undisturbed' => Known'
  BY <1>0, <1>1, <1>2, AtRest DEF Known, Claimed, Started, Active, Answered, Begun
<1>16. QED
  BY <1>3, <1>4, <1>5, <1>6, <1>7, <1>8, <1>9, <1>10, <1>11, <1>12, <1>13, <1>14, <1>15 DEF
    LmsInv, Always, Cleanly

\* The player stops.
LEMMA StopKeeps ==
  ASSUME LmsInv, Stop
  PROVE  LmsInv'
<1>0. /\ Typed /\ Shaped /\ Kept /\ OneNext /\ NotItself /\ OrphanRead /\ Believed /\ Sees
      /\ Undisturbed => NotTwice /\ Modes /\ Shown /\ Removing /\ Known
  BY DEF LmsInv, Always, Cleanly
<1>1. /\ task[Command].pc = "idle" /\ task' \in [Tasks -> TaskSet]
      /\ Begun("stopping", Status, None) /\ used' \in [DOMAIN Bound -> Nat]
      /\ used'.failures = used.failures
      /\ player' \in Beliefs /\ player'.track = player.track /\ player'.armed = None
      /\ player'.mode = player.mode
      /\ UNCHANGED <<lms, current, nxt, orphan, grace, state, seen, given>>
  <2>1. "stopping" \in Pcs /\ Status \in Reqs /\ None \in TrackOrNone
    BY AtRest DEF Pcs, TrackOrNone
  <2>2. Begins("stopping", Status, None)
    BY DEF Stop
  <2>3. QED
    BY <1>0, <2>1, <2>2, BeginsIs DEF Stop, backendVars, Beliefs, TrackOrNone, Typed
<1>2. Undisturbed' => Undisturbed
  BY <1>1 DEF Undisturbed
<1>3. Typed'
  BY <1>0, <1>1, <1>2, AtRest DEF Typed, Tasks, TrackOrNone, Begun
<1>4. Shaped'
  BY <1>0, <1>1, <1>2, AtRest DEF Shaped, Asks, Tasks, Begun
<1>5. Kept'
  BY <1>0, <1>1, <1>2, AtRest DEF Kept, Held, Answered, Begun
<1>6. OneNext'
  BY <1>0, <1>1, <1>2, AtRest DEF OneNext, Begun
<1>7. NotItself'
  BY <1>0, <1>1, <1>2, AtRest DEF NotItself, Answered, Begun
<1>8. OrphanRead'
  BY <1>0, <1>1, <1>2, AtRest DEF OrphanRead, Answered, Begun
<1>9. Believed'
  BY <1>0, <1>1, <1>2, AtRest DEF Believed, Begun
<1>10. Sees'
  BY <1>0, <1>1, <1>2, AtRest DEF Sees, Begun
<1>11. Undisturbed' => NotTwice'
  BY <1>0, <1>1, <1>2, AtRest DEF NotTwice, Begun
<1>12. Undisturbed' => Modes'
  BY <1>0, <1>1, <1>2, AtRest DEF Modes, HoldsStatus, Answered, Begun
<1>13. Undisturbed' => Shown'
  BY <1>0, <1>1, <1>2, AtRest DEF Shown, Active, Begun
<1>14. Undisturbed' => Removing'
  BY <1>0, <1>1, <1>2, AtRest DEF Removing, Answered, Begun
<1>15. Undisturbed' => Known'
  BY <1>0, <1>1, <1>2, AtRest DEF Known, Claimed, Started, Active, Answered, Begun
<1>16. QED
  BY <1>3, <1>4, <1>5, <1>6, <1>7, <1>8, <1>9, <1>10, <1>11, <1>12, <1>13, <1>14, <1>15 DEF
    LmsInv, Always, Cleanly

\* The player plays: the playlist will be replaced.
LEMMA PlayKeeps ==
  ASSUME LmsInv, NEW t \in Tracks, Play(t)
  PROVE  LmsInv'
<1>0. /\ Typed /\ Shaped /\ Kept /\ OneNext /\ NotItself /\ OrphanRead /\ Believed /\ Sees
      /\ Undisturbed => NotTwice /\ Modes /\ Shown /\ Removing /\ Known
  BY DEF LmsInv, Always, Cleanly
<1>1. /\ task[Command].pc = "idle" /\ task' \in [Tasks -> TaskSet]
      /\ Begun("playing", Req("play", t, 0), t) /\ used' \in [DOMAIN Bound -> Nat]
      /\ used'.failures = used.failures
      /\ player' \in Beliefs /\ player'.track = player.track /\ player'.armed = None
      /\ player'.mode = "stopped"
      /\ t \in Tracks /\ nxt' = None /\ orphan' = None
      /\ UNCHANGED <<lms, current, grace, state, seen, given>>
  <2>1. "playing" \in Pcs /\ Req("play", t, 0) \in Reqs /\ t \in TrackOrNone
    BY ReqIs DEF Pcs, TrackOrNone, Kinds
  <2>2. Begins("playing", Req("play", t, 0), t)
    BY DEF Play
  <2>3. QED
    BY <1>0, <2>1, <2>2, BeginsIs DEF Play, Beliefs, TrackOrNone, Typed
<1>2. Undisturbed' => Undisturbed
  BY <1>1 DEF Undisturbed
<1>3. Req("play", t, 0).kind = "play" /\ Req("play", t, 0).item = t
  BY ReqIs DEF Kinds, TrackOrNone
<1>4. Typed'
  BY <1>0, <1>1, <1>2, <1>3, AtRest DEF Typed, Tasks, TrackOrNone, Begun
<1>5. Shaped'
  BY <1>0, <1>1, <1>2, <1>3, AtRest DEF Shaped, Asks, Tasks, Begun
<1>6. Kept'
  BY <1>0, <1>1, <1>2, <1>3, AtRest DEF Kept, Held, Answered, Begun
<1>7. OneNext'
  BY <1>0, <1>1, <1>2, <1>3, AtRest DEF OneNext, Begun
<1>8. NotItself'
  BY <1>0, <1>1, <1>2, <1>3, AtRest DEF NotItself, Answered, Begun
<1>9. OrphanRead'
  BY <1>0, <1>1, <1>2, <1>3, AtRest DEF OrphanRead, Answered, Begun
<1>10. Believed'
  BY <1>0, <1>1, <1>2, <1>3, AtRest DEF Believed, Begun
<1>11. Sees'
  BY <1>0, <1>1, <1>2, <1>3, AtRest DEF Sees, Begun
<1>12. Undisturbed' => NotTwice'
  BY <1>0, <1>1, <1>2, <1>3, AtRest DEF NotTwice, Begun
<1>13. Undisturbed' => Modes'
  BY <1>0, <1>1, <1>2, <1>3, AtRest DEF Modes, HoldsStatus, Answered, Begun
<1>14. Undisturbed' => Shown'
  BY <1>0, <1>1, <1>2, <1>3, AtRest DEF Shown, Active, Begun
<1>15. Undisturbed' => Removing'
  BY <1>0, <1>1, <1>2, <1>3, AtRest DEF Removing, Answered, Begun
<1>16. Undisturbed' => Known'
  BY <1>0, <1>1, <1>2, <1>3, AtRest DEF Known, Claimed, Started, Active, Answered, Begun
<1>17. QED
  BY <1>4, <1>5, <1>6, <1>7, <1>8, <1>9, <1>10, <1>11, <1>12, <1>13, <1>14, <1>15, <1>16 DEF
    LmsInv, Always, Cleanly

\* A play has returned; one that failed is taken for one that succeeded.
LEMMA PlayEndsKeeps ==
  ASSUME LmsInv, PlayEnds
  PROVE  LmsInv'
<1>0. /\ Typed /\ Shaped /\ Kept /\ OneNext /\ NotItself /\ OrphanRead /\ Believed /\ Sees
      /\ Undisturbed => NotTwice /\ Modes /\ Shown /\ Removing /\ Known
  BY DEF LmsInv, Always, Cleanly
<1>1. /\ task[Command].pc = "playing" /\ ~Waiting(Command)
      /\ task' = [task EXCEPT ![Command] = IdleTask]
      /\ Answered(Command) => current' = task[Command].item /\ grace' = TRUE /\ state' = "PLAYING"
      /\ ~Answered(Command) => current' = None /\ UNCHANGED <<grace, state>>
      /\ task[Command].item \in Tracks
      /\ player' \in Beliefs /\ player'.track = task[Command].item /\ player'.mode = "playing"
      /\ player'.armed = player.armed /\ seen' = FALSE
      /\ given' \in Flags /\ given' = [given EXCEPT !.crossed = @ \/ HoldsStatus]
      /\ UNCHANGED <<lms, nxt, orphan, used>>
  BY <1>0 DEF PlayEnds, Rests, Crosses, Typed, Shaped, Beliefs, Flags, TrackOrNone
<1>2. /\ task' \in [Tasks -> TaskSet]
      /\ CommandTurns("idle", NoReq, Silent, None)
  <2>1. /\ Command \in Tasks /\ task \in [Tasks -> TaskSet]
        /\ IdleTask \in TaskSet
    BY <1>0, <1>1, AtRest DEF Typed, Tasks, Pcs
  <2>2. task' \in [Tasks -> TaskSet]
    BY <1>1, <2>1, AtRest DEF TaskSet
  <2>3. CommandTurns("idle", NoReq, Silent, None)
    BY <1>1, <2>1, AtRest DEF CommandTurns, TaskSet, Tasks, Loop, Command, Arm
  <2>4. QED
    BY <2>2, <2>3
<1>3. Undisturbed' => Undisturbed /\ Answered(Command) /\ ~HoldsStatus
  BY <1>0, <1>1 DEF Undisturbed, Typed, Flags, Shaped, Asks, Waiting, Answered, Tasks
<1>4. Typed'
  BY <1>0, <1>1, <1>2, <1>3, AtRest DEF Typed, Tasks, TrackOrNone, CommandTurns, HoldsStatus,
    Answered
<1>5. Shaped'
  BY <1>0, <1>1, <1>2, <1>3, AtRest DEF Shaped, Asks, Tasks, CommandTurns, HoldsStatus, Answered
<1>6. Kept'
  BY <1>0, <1>1, <1>2, <1>3, AtRest DEF Kept, Held, Answered, CommandTurns, HoldsStatus
<1>7. OneNext'
  BY <1>0, <1>1, <1>2, <1>3, AtRest DEF OneNext, CommandTurns, HoldsStatus, Answered
<1>8. NotItself'
  BY <1>0, <1>1, <1>2, <1>3, AtRest DEF NotItself, Answered, CommandTurns, HoldsStatus
<1>9. OrphanRead'
  BY <1>0, <1>1, <1>2, <1>3, AtRest DEF OrphanRead, Answered, CommandTurns, HoldsStatus
<1>10. Believed'
  BY <1>0, <1>1, <1>2, <1>3, AtRest DEF Believed, CommandTurns, HoldsStatus, Answered
<1>11. Sees'
  BY <1>0, <1>1, <1>2, <1>3, AtRest DEF Sees, CommandTurns, HoldsStatus, Answered
<1>12. Undisturbed' => NotTwice'
  BY <1>0, <1>1, <1>2, <1>3, AtRest DEF NotTwice, CommandTurns, HoldsStatus, Answered
<1>13. Undisturbed' => Modes'
  BY <1>0, <1>1, <1>2, <1>3, AtRest DEF Modes, HoldsStatus, Answered, CommandTurns
<1>14. Undisturbed' => Shown'
  BY <1>0, <1>1, <1>2, <1>3, AtRest, LmsAssumption DEF Shown, Active, CommandTurns, Believed,
    HoldsStatus, Answered
<1>15. Undisturbed' => Removing'
  BY <1>0, <1>1, <1>2, <1>3, AtRest DEF Removing, Answered, CommandTurns, HoldsStatus
<1>16. Undisturbed' => Known'
  BY <1>0, <1>1, <1>2, <1>3, AtRest DEF Known, Claimed, Started, Active, Answered, CommandTurns,
    HoldsStatus
<1>17. QED
  BY <1>4, <1>5, <1>6, <1>7, <1>8, <1>9, <1>10, <1>11, <1>12, <1>13, <1>14, <1>15, <1>16 DEF
    LmsInv, Always, Cleanly

\* A pause has returned.
LEMMA PauseEndsKeeps ==
  ASSUME LmsInv, PauseEnds
  PROVE  LmsInv'
<1>0. /\ Typed /\ Shaped /\ Kept /\ OneNext /\ NotItself /\ OrphanRead /\ Believed /\ Sees
      /\ Undisturbed => NotTwice /\ Modes /\ Shown /\ Removing /\ Known
  BY DEF LmsInv, Always, Cleanly
<1>1. /\ task[Command].pc = "pausing" /\ ~Waiting(Command)
      /\ task' = [task EXCEPT ![Command] = IdleTask]
      /\ state' \in {state, "PAUSED"}
      /\ player' \in Beliefs /\ player'.track = player.track /\ player'.armed = player.armed
      /\ player'.mode = IF Answered(Command) THEN "paused" ELSE player.mode
      /\ seen' = FALSE /\ given' \in Flags /\ given' = [given EXCEPT !.crossed = @ \/ HoldsStatus]
      /\ UNCHANGED <<lms, current, nxt, orphan, grace, used>>
  BY <1>0 DEF PauseEnds, Rests, Crosses, Typed, Beliefs, Flags, TrackOrNone
<1>2. /\ task' \in [Tasks -> TaskSet]
      /\ CommandTurns("idle", NoReq, Silent, None)
  <2>1. /\ Command \in Tasks /\ task \in [Tasks -> TaskSet]
        /\ IdleTask \in TaskSet
    BY <1>0, <1>1, AtRest DEF Typed, Tasks, Pcs
  <2>2. task' \in [Tasks -> TaskSet]
    BY <1>1, <2>1, AtRest DEF TaskSet
  <2>3. CommandTurns("idle", NoReq, Silent, None)
    BY <1>1, <2>1, AtRest DEF CommandTurns, TaskSet, Tasks, Loop, Command, Arm
  <2>4. QED
    BY <2>2, <2>3
<1>3. Undisturbed' => Undisturbed /\ Answered(Command) /\ ~HoldsStatus
  BY <1>0, <1>1 DEF Undisturbed, Typed, Flags, Shaped, Asks, Waiting, Answered, Tasks
<1>4. Typed'
  BY <1>0, <1>1, <1>2, <1>3, AtRest DEF Typed, Tasks, TrackOrNone, CommandTurns, HoldsStatus,
    Answered
<1>5. Shaped'
  BY <1>0, <1>1, <1>2, <1>3, AtRest DEF Shaped, Asks, Tasks, CommandTurns, HoldsStatus, Answered
<1>6. Kept'
  BY <1>0, <1>1, <1>2, <1>3, AtRest DEF Kept, Held, Answered, CommandTurns, HoldsStatus
<1>7. OneNext'
  BY <1>0, <1>1, <1>2, <1>3, AtRest DEF OneNext, CommandTurns, HoldsStatus, Answered
<1>8. NotItself'
  BY <1>0, <1>1, <1>2, <1>3, AtRest DEF NotItself, Answered, CommandTurns, HoldsStatus
<1>9. OrphanRead'
  BY <1>0, <1>1, <1>2, <1>3, AtRest DEF OrphanRead, Answered, CommandTurns, HoldsStatus
<1>10. Believed'
  BY <1>0, <1>1, <1>2, <1>3, AtRest DEF Believed, CommandTurns, HoldsStatus, Answered
<1>11. Sees'
  BY <1>0, <1>1, <1>2, <1>3, AtRest DEF Sees, CommandTurns, HoldsStatus, Answered
<1>12. Undisturbed' => NotTwice'
  BY <1>0, <1>1, <1>2, <1>3, AtRest DEF NotTwice, CommandTurns, HoldsStatus, Answered
<1>13. Undisturbed' => Modes'
  BY <1>0, <1>1, <1>2, <1>3, AtRest DEF Modes, HoldsStatus, Answered, CommandTurns
<1>14. Undisturbed' => Shown'
  BY <1>0, <1>1, <1>2, <1>3, AtRest DEF Shown, Active, CommandTurns, HoldsStatus, Answered
<1>15. Undisturbed' => Removing'
  BY <1>0, <1>1, <1>2, <1>3, AtRest DEF Removing, Answered, CommandTurns, HoldsStatus
<1>16. Undisturbed' => Known'
  BY <1>0, <1>1, <1>2, <1>3, AtRest DEF Known, Claimed, Started, Active, Answered, CommandTurns,
    HoldsStatus
<1>17. QED
  BY <1>4, <1>5, <1>6, <1>7, <1>8, <1>9, <1>10, <1>11, <1>12, <1>13, <1>14, <1>15, <1>16 DEF
    LmsInv, Always, Cleanly

\* An unpause has returned.
LEMMA ResumeEndsKeeps ==
  ASSUME LmsInv, ResumeEnds
  PROVE  LmsInv'
<1>0. /\ Typed /\ Shaped /\ Kept /\ OneNext /\ NotItself /\ OrphanRead /\ Believed /\ Sees
      /\ Undisturbed => NotTwice /\ Modes /\ Shown /\ Removing /\ Known
  BY DEF LmsInv, Always, Cleanly
<1>1. /\ task[Command].pc = "unpausing" /\ ~Waiting(Command)
      /\ task' = [task EXCEPT ![Command] = IdleTask]
      /\ state' = IF Answered(Command) THEN "PLAYING" ELSE state
      /\ player' \in Beliefs /\ player'.track = player.track /\ player'.armed = player.armed
      /\ player'.mode = IF Answered(Command) THEN "playing" ELSE player.mode
      /\ seen' = FALSE /\ given' \in Flags /\ given' = [given EXCEPT !.crossed = @ \/ HoldsStatus]
      /\ UNCHANGED <<lms, current, nxt, orphan, grace, used>>
  BY <1>0 DEF ResumeEnds, Rests, Crosses, Typed, Beliefs, Flags, TrackOrNone
<1>2. /\ task' \in [Tasks -> TaskSet]
      /\ CommandTurns("idle", NoReq, Silent, None)
  <2>1. /\ Command \in Tasks /\ task \in [Tasks -> TaskSet]
        /\ IdleTask \in TaskSet
    BY <1>0, <1>1, AtRest DEF Typed, Tasks, Pcs
  <2>2. task' \in [Tasks -> TaskSet]
    BY <1>1, <2>1, AtRest DEF TaskSet
  <2>3. CommandTurns("idle", NoReq, Silent, None)
    BY <1>1, <2>1, AtRest DEF CommandTurns, TaskSet, Tasks, Loop, Command, Arm
  <2>4. QED
    BY <2>2, <2>3
<1>3. Undisturbed' => Undisturbed /\ Answered(Command) /\ ~HoldsStatus
  BY <1>0, <1>1 DEF Undisturbed, Typed, Flags, Shaped, Asks, Waiting, Answered, Tasks
<1>4. Typed'
  BY <1>0, <1>1, <1>2, <1>3, AtRest DEF Typed, Tasks, TrackOrNone, CommandTurns, HoldsStatus,
    Answered
<1>5. Shaped'
  BY <1>0, <1>1, <1>2, <1>3, AtRest DEF Shaped, Asks, Tasks, CommandTurns, HoldsStatus, Answered
<1>6. Kept'
  BY <1>0, <1>1, <1>2, <1>3, AtRest DEF Kept, Held, Answered, CommandTurns, HoldsStatus
<1>7. OneNext'
  BY <1>0, <1>1, <1>2, <1>3, AtRest DEF OneNext, CommandTurns, HoldsStatus, Answered
<1>8. NotItself'
  BY <1>0, <1>1, <1>2, <1>3, AtRest DEF NotItself, Answered, CommandTurns, HoldsStatus
<1>9. OrphanRead'
  BY <1>0, <1>1, <1>2, <1>3, AtRest DEF OrphanRead, Answered, CommandTurns, HoldsStatus
<1>10. Believed'
  BY <1>0, <1>1, <1>2, <1>3, AtRest DEF Believed, CommandTurns, HoldsStatus, Answered
<1>11. Sees'
  BY <1>0, <1>1, <1>2, <1>3, AtRest DEF Sees, CommandTurns, HoldsStatus, Answered
<1>12. Undisturbed' => NotTwice'
  BY <1>0, <1>1, <1>2, <1>3, AtRest DEF NotTwice, CommandTurns, HoldsStatus, Answered
<1>13. Undisturbed' => Modes'
  BY <1>0, <1>1, <1>2, <1>3, AtRest DEF Modes, HoldsStatus, Answered, CommandTurns
<1>14. Undisturbed' => Shown'
  BY <1>0, <1>1, <1>2, <1>3, AtRest DEF Shown, Active, CommandTurns, HoldsStatus, Answered
<1>15. Undisturbed' => Removing'
  BY <1>0, <1>1, <1>2, <1>3, AtRest DEF Removing, Answered, CommandTurns, HoldsStatus
<1>16. Undisturbed' => Known'
  BY <1>0, <1>1, <1>2, <1>3, AtRest DEF Known, Claimed, Started, Active, Answered, CommandTurns,
    HoldsStatus
<1>17. QED
  BY <1>4, <1>5, <1>6, <1>7, <1>8, <1>9, <1>10, <1>11, <1>12, <1>13, <1>14, <1>15, <1>16 DEF
    LmsInv, Always, Cleanly

\* A stop has returned, or there is nothing of ours to stop.
LEMMA StopEndsKeeps ==
  ASSUME LmsInv, StopEnds
  PROVE  LmsInv'
<1>0. /\ Typed /\ Shaped /\ Kept /\ OneNext /\ NotItself /\ OrphanRead /\ Believed /\ Sees
      /\ Undisturbed => NotTwice /\ Modes /\ Shown /\ Removing /\ Known
  BY DEF LmsInv, Always, Cleanly
<1>1. /\ task[Command].pc \in {"stopping", "stopped"}
      /\ task' = [task EXCEPT ![Command] = IdleTask]
      /\ current' = None /\ nxt' = None /\ orphan' = None /\ state' = "STOPPED"
      /\ player' \in Beliefs /\ player'.armed = player.armed /\ player'.mode = "stopped"
      /\ seen' = FALSE /\ UNCHANGED <<lms, grace, given, used>>
  BY <1>0 DEF StopEnds, Rests, Typed, Beliefs, TrackOrNone
<1>2. /\ task' \in [Tasks -> TaskSet]
      /\ CommandTurns("idle", NoReq, Silent, None)
  <2>1. /\ Command \in Tasks /\ task \in [Tasks -> TaskSet]
        /\ IdleTask \in TaskSet
    BY <1>0, <1>1, AtRest DEF Typed, Tasks, Pcs
  <2>2. task' \in [Tasks -> TaskSet]
    BY <1>1, <2>1, AtRest DEF TaskSet
  <2>3. CommandTurns("idle", NoReq, Silent, None)
    BY <1>1, <2>1, AtRest DEF CommandTurns, TaskSet, Tasks, Loop, Command, Arm
  <2>4. QED
    BY <2>2, <2>3
<1>3. Undisturbed' => Undisturbed
  BY <1>1 DEF Undisturbed
<1>4. Typed'
  BY <1>0, <1>1, <1>2, <1>3, AtRest DEF Typed, Tasks, TrackOrNone, CommandTurns
<1>5. Shaped'
  BY <1>0, <1>1, <1>2, <1>3, AtRest DEF Shaped, Asks, Tasks, CommandTurns
<1>6. Kept'
  BY <1>0, <1>1, <1>2, <1>3, AtRest DEF Kept, Held, Answered, CommandTurns
<1>7. OneNext'
  BY <1>0, <1>1, <1>2, <1>3, AtRest DEF OneNext, CommandTurns
<1>8. NotItself'
  BY <1>0, <1>1, <1>2, <1>3, AtRest DEF NotItself, Answered, CommandTurns
<1>9. OrphanRead'
  BY <1>0, <1>1, <1>2, <1>3, AtRest DEF OrphanRead, Answered, CommandTurns
<1>10. Believed'
  BY <1>0, <1>1, <1>2, <1>3, AtRest DEF Believed, CommandTurns
<1>11. Sees'
  BY <1>0, <1>1, <1>2, <1>3, AtRest DEF Sees, CommandTurns
<1>12. Undisturbed' => NotTwice'
  BY <1>0, <1>1, <1>2, <1>3, AtRest DEF NotTwice, CommandTurns
<1>13. Undisturbed' => Modes'
  BY <1>0, <1>1, <1>2, <1>3, AtRest DEF Modes, HoldsStatus, Answered, CommandTurns
<1>14. Undisturbed' => Shown'
  BY <1>0, <1>1, <1>2, <1>3, AtRest DEF Shown, Active, CommandTurns
<1>15. Undisturbed' => Removing'
  BY <1>0, <1>1, <1>2, <1>3, AtRest DEF Removing, Answered, CommandTurns
<1>16. Undisturbed' => Known'
  BY <1>0, <1>1, <1>2, <1>3, AtRest DEF Known, Claimed, Started, Active, Answered, CommandTurns
<1>17. QED
  BY <1>4, <1>5, <1>6, <1>7, <1>8, <1>9, <1>10, <1>11, <1>12, <1>13, <1>14, <1>15, <1>16 DEF
    LmsInv, Always, Cleanly

\* The player is still ours: it is stopped.
LEMMA StopGoesOnKeeps ==
  ASSUME LmsInv, StopGoesOn
  PROVE  LmsInv'
<1>0. /\ Typed /\ Shaped /\ Kept /\ OneNext /\ NotItself /\ OrphanRead /\ Believed /\ Sees
      /\ Undisturbed => NotTwice /\ Modes /\ Shown /\ Removing /\ Known
  BY DEF LmsInv, Always, Cleanly
<1>1. /\ task[Command].pc = "stopping"
      /\ task' = [task EXCEPT ![Command].pc = "stopped", ![Command].req = Req("stop", None, 0),
                              ![Command].status = Silent]
      /\ UNCHANGED <<lms, current, nxt, orphan, grace, state, player, seen, given, used>>
  BY  DEF StopGoesOn, Goes, backendVars
<1>2. /\ task' \in [Tasks -> TaskSet]
      /\ CommandTurns("stopped", Req("stop", None, 0), Silent, task[Command].item)
  <2>1. /\ Command \in Tasks /\ task \in [Tasks -> TaskSet]
        /\ "stopped" \in Pcs
        /\ Req("stop", None, 0) \in Reqs
        /\ Req("stop", None, 0).kind = "stop"
    BY <1>0, <1>1, PlainRequests, AtRest DEF Typed, Tasks, Pcs
  <2>2. task' \in [Tasks -> TaskSet]
    BY <1>1, <2>1, AtRest DEF TaskSet
  <2>3. CommandTurns("stopped", Req("stop", None, 0), Silent, task[Command].item)
    BY <1>1, <2>1, AtRest DEF CommandTurns, TaskSet, Tasks, Loop, Command, Arm
  <2>4. QED
    BY <2>2, <2>3
<1>3. Undisturbed' => Undisturbed
  BY <1>1 DEF Undisturbed
<1>4. Req("stop", None, 0).kind = "stop"
  BY PlainRequests
<1>5. Typed'
  BY <1>0, <1>1, <1>2, <1>3, <1>4, AtRest DEF Typed, Tasks, TrackOrNone, CommandTurns
<1>6. Shaped'
  BY <1>0, <1>1, <1>2, <1>3, <1>4, AtRest DEF Shaped, Asks, Tasks, CommandTurns
<1>7. Kept'
  BY <1>0, <1>1, <1>2, <1>3, <1>4, AtRest DEF Kept, Held, Answered, CommandTurns
<1>8. OneNext'
  BY <1>0, <1>1, <1>2, <1>3, <1>4, AtRest DEF OneNext, CommandTurns
<1>9. NotItself'
  BY <1>0, <1>1, <1>2, <1>3, <1>4, AtRest DEF NotItself, Answered, CommandTurns
<1>10. OrphanRead'
  BY <1>0, <1>1, <1>2, <1>3, <1>4, AtRest DEF OrphanRead, Answered, CommandTurns
<1>11. Believed'
  BY <1>0, <1>1, <1>2, <1>3, <1>4, AtRest DEF Believed, CommandTurns
<1>12. Sees'
  BY <1>0, <1>1, <1>2, <1>3, <1>4, AtRest DEF Sees, CommandTurns
<1>13. Undisturbed' => NotTwice'
  BY <1>0, <1>1, <1>2, <1>3, <1>4, AtRest DEF NotTwice, CommandTurns
<1>14. Undisturbed' => Modes'
  BY <1>0, <1>1, <1>2, <1>3, <1>4, AtRest DEF Modes, HoldsStatus, Answered, CommandTurns
<1>15. Undisturbed' => Shown'
  BY <1>0, <1>1, <1>2, <1>3, <1>4, AtRest DEF Shown, Active, CommandTurns
<1>16. Undisturbed' => Removing'
  BY <1>0, <1>1, <1>2, <1>3, <1>4, AtRest DEF Removing, Answered, CommandTurns
<1>17. Undisturbed' => Known'
  BY <1>0, <1>1, <1>2, <1>3, <1>4, AtRest DEF Known, Claimed, Started, Active, Answered,
    CommandTurns
<1>18. QED
  BY <1>5, <1>6, <1>7, <1>8, <1>9, <1>10, <1>11, <1>12, <1>13, <1>14, <1>15, <1>16, <1>17 DEF
    LmsInv, Always, Cleanly

\* The resumed player is woken if it is still ours.
LEMMA ResumeGoesOnKeeps ==
  ASSUME LmsInv, ResumeGoesOn
  PROVE  LmsInv'
<1>0. /\ Typed /\ Shaped /\ Kept /\ OneNext /\ NotItself /\ OrphanRead /\ Believed /\ Sees
      /\ Undisturbed => NotTwice /\ Modes /\ Shown /\ Removing /\ Known
  BY DEF LmsInv, Always, Cleanly
<1>1. /\ task[Command].pc = "resuming" /\ ~Waiting(Command)
      /\ \/ task' = [task EXCEPT ![Command].pc = "unpausing", ![Command].status = Silent,
                                 ![Command].req = Req("unpause", None, 0)]
         \/ task' = [task EXCEPT ![Command] = IdleTask]
      /\ UNCHANGED <<lms, current, nxt, orphan, grace, state, player, seen, given, used>>
  BY  DEF ResumeGoesOn, Rests, Goes, backendVars
<1>2. /\ task' \in [Tasks -> TaskSet] /\ Req("unpause", None, 0).kind = "unpause"
      /\ \/ CommandTurns("unpausing", Req("unpause", None, 0), Silent, task[Command].item)
         \/ CommandTurns("idle", NoReq, Silent, None)
  <2>1. /\ Command \in Tasks /\ task \in [Tasks -> TaskSet] /\ IdleTask \in TaskSet
        /\ "unpausing" \in Pcs /\ Req("unpause", None, 0) \in Reqs
        /\ Req("unpause", None, 0).kind = "unpause"
    BY <1>0, AtRest, PlainRequests DEF Typed, Tasks, Pcs
  <2>2. CASE task' = [task EXCEPT ![Command] = IdleTask]
    <3>1. task' \in [Tasks -> TaskSet]
      BY <2>1, <2>2
    <3>2. CommandTurns("idle", NoReq, Silent, None)
      BY <2>1, <2>2, AtRest DEF CommandTurns, Tasks, Loop, Command, Arm
    <3>3. QED
      BY <2>1, <3>1, <3>2
  <2>3. CASE task' # [task EXCEPT ![Command] = IdleTask]
    <3>1. task' = [task EXCEPT ![Command].pc = "unpausing", ![Command].status = Silent,
                               ![Command].req = Req("unpause", None, 0)]
      BY <1>1, <2>3
    <3>2. task' \in [Tasks -> TaskSet]
      BY <2>1, <3>1, AtRest DEF TaskSet
    <3>3. CommandTurns("unpausing", Req("unpause", None, 0), Silent, task[Command].item)
      BY <2>1, <3>1 DEF CommandTurns, TaskSet, Tasks, Loop, Command, Arm
    <3>4. QED
      BY <2>1, <3>2, <3>3
  <2>4. QED
    BY <2>2, <2>3
<1>3. Undisturbed' => Undisturbed
  BY <1>1 DEF Undisturbed
<1>4. Typed'
  BY <1>0, <1>1, <1>2, <1>3, AtRest DEF Typed, Tasks, TrackOrNone, CommandTurns
<1>5. Shaped'
  BY <1>0, <1>1, <1>2, <1>3, AtRest DEF Shaped, Asks, Tasks, CommandTurns
<1>6. Kept'
  BY <1>0, <1>1, <1>2, <1>3, AtRest DEF Kept, Held, Answered, CommandTurns
<1>7. OneNext'
  BY <1>0, <1>1, <1>2, <1>3, AtRest DEF OneNext, CommandTurns
<1>8. NotItself'
  BY <1>0, <1>1, <1>2, <1>3, AtRest DEF NotItself, Answered, CommandTurns
<1>9. OrphanRead'
  BY <1>0, <1>1, <1>2, <1>3, AtRest DEF OrphanRead, Answered, CommandTurns
<1>10. Believed'
  BY <1>0, <1>1, <1>2, <1>3, AtRest DEF Believed, CommandTurns
<1>11. Sees'
  BY <1>0, <1>1, <1>2, <1>3, AtRest DEF Sees, CommandTurns
<1>12. Undisturbed' => NotTwice'
  BY <1>0, <1>1, <1>2, <1>3, AtRest DEF NotTwice, CommandTurns
<1>13. Undisturbed' => Modes'
  BY <1>0, <1>1, <1>2, <1>3, AtRest DEF Modes, HoldsStatus, Answered, CommandTurns
<1>14. Undisturbed' => Shown'
  BY <1>0, <1>1, <1>2, <1>3, AtRest DEF Shown, Active, CommandTurns
<1>15. Undisturbed' => Removing'
  BY <1>0, <1>1, <1>2, <1>3, AtRest DEF Removing, Answered, CommandTurns
<1>16. Undisturbed' => Known'
  BY <1>0, <1>1, <1>2, <1>3, AtRest DEF Known, Claimed, Started, Active, Answered, CommandTurns
<1>17. QED
  BY <1>4, <1>5, <1>6, <1>7, <1>8, <1>9, <1>10, <1>11, <1>12, <1>13, <1>14, <1>15, <1>16 DEF
    LmsInv, Always, Cleanly

\* The end of an iteration; the end of a track outdates the arming that is on its way.
LoopRests ==
  /\ task'[Loop] = IdleTask /\ task'[Command] = task[Command]
  /\ task'[Arm].pc = task[Arm].pc /\ task'[Arm].req = task[Arm].req
  /\ task'[Arm].status = task[Arm].status /\ task'[Arm].item = task[Arm].item
  /\ task'[Arm].old = task[Arm].old /\ (task[Arm].stale => task'[Arm].stale)

\* The state loop acts on the status it has read.
Acting ==
  /\ task[Loop].pc = "reading" /\ Answered(Loop)
  /\ given' = [given EXCEPT !.crossed = @ \/ CommandOnItsWay,
                            !.missed = @ \/ Unseen(task[Loop].status)]
  /\ UNCHANGED <<lms, used>>

\* Nothing disturbs a run in which a command is on its way, or an orphan forgotten unseen.
LEMMA ActingIs ==
  ASSUME Typed, Acting
  PROVE  /\ given' \in Flags
         /\ Undisturbed' =>
              Undisturbed /\ task[Command].pc = "idle" /\ ~Unseen(task[Loop].status)
BY DEF Acting, Typed, Flags, Undisturbed, CommandOnItsWay, Unseen

\* The state loop's task after an iteration.
LEMMA LoopRestsIs ==
  ASSUME Typed, Rests(Loop) \/ RestsAfterEnd
  PROVE  task' \in [Tasks -> TaskSet] /\ LoopRests
<1>1. /\ Loop \in Tasks /\ Arm \in Tasks /\ Loop # Arm /\ task \in [Tasks -> TaskSet]
      /\ IdleTask \in TaskSet
  BY AtRest DEF Typed, Tasks, Loop, Command, Arm
<1>2. CASE Rests(Loop)
  <2>1. task' = [task EXCEPT ![Loop] = IdleTask]
    BY <1>2 DEF Rests
  <2>2. task' \in [Tasks -> TaskSet]
    BY <1>1, <2>1
  <2>3. LoopRests
    BY <1>1, <2>1 DEF LoopRests, Tasks, Loop, Command, Arm
  <2>4. QED
    BY <2>2, <2>3
<1>3. CASE RestsAfterEnd
  <2>1. task' = [task EXCEPT ![Loop] = IdleTask, ![Arm].stale = TRUE]
    BY <1>3 DEF RestsAfterEnd
  <2>2. task' \in [Tasks -> TaskSet]
    BY <1>1, <2>1 DEF TaskSet
  <2>3. LoopRests
    BY <1>1, <2>1 DEF LoopRests, TaskSet, Tasks, Loop, Command, Arm
  <2>4. QED
    BY <2>2, <2>3
<1>4. QED
  BY <1>2, <1>3

\* The state loop rests, or drops the finished track.
Drops ==
  /\ task'[Command] = task[Command] /\ task'[Arm] = task[Arm] /\ task'[Loop].status = Silent
  /\ \/ task'[Loop].pc = "idle" /\ task'[Loop].req.kind = "none"
     \/ /\ task'[Loop].pc = "dropping" /\ task'[Loop].req.kind = "delete"
        /\ task'[Loop].req.item \in Tracks

\* The state loop lets go of a player on which something else plays.
LEMMA ReleaseKeeps ==
  ASSUME LmsInv, Acting, Release(task[Loop].status)
  PROVE  LmsInv'
<1>0. /\ Typed /\ Shaped /\ Kept /\ OneNext /\ NotItself /\ OrphanRead /\ Believed /\ Sees
      /\ Undisturbed => NotTwice /\ Modes /\ Shown /\ Removing /\ Known
  BY DEF LmsInv, Always, Cleanly
<1>1. /\ task[Loop].pc = "reading" /\ Answered(Loop)
      /\ given' \in Flags
      /\ UNCHANGED <<lms, used>> /\ task' \in [Tasks -> TaskSet] /\ LoopRests
      /\ current' = None /\ nxt' = None /\ orphan' = None /\ state' = "STOPPED"
      /\ UNCHANGED <<grace, player>>
      /\ seen' \in BOOLEAN
  <2>1. task' \in [Tasks -> TaskSet] /\ LoopRests
    BY <1>0, LoopRestsIs DEF Release
  <2>2. given' \in Flags
    BY <1>0, ActingIs
  <2>3. QED
    BY <1>0, <2>1, <2>2 DEF Acting, Typed, Beliefs, TrackOrNone, Release, Saw
<1>2. Undisturbed' => Undisturbed /\ task[Command].pc = "idle"
  BY <1>0, ActingIs
<1>3. Typed'
  BY <1>0, <1>1, <1>2, AtRest DEF Typed, Tasks, TrackOrNone, LoopRests
<1>4. Shaped'
  BY <1>0, <1>1, <1>2, AtRest DEF Shaped, Asks, Tasks, LoopRests
<1>5. Kept'
  BY <1>0, <1>1, <1>2, AtRest DEF Kept, Held, Answered, LoopRests
<1>6. OneNext'
  BY <1>0, <1>1, <1>2, AtRest DEF OneNext, LoopRests
<1>7. NotItself'
  BY <1>0, <1>1, <1>2, AtRest DEF NotItself, Answered, LoopRests
<1>8. OrphanRead'
  BY <1>0, <1>1, <1>2, AtRest DEF OrphanRead, Answered, LoopRests
<1>9. Believed'
  BY <1>0, <1>1, <1>2, AtRest DEF Believed, LoopRests
<1>10. Sees'
  BY <1>0, <1>1, <1>2, AtRest DEF Sees, LoopRests
<1>11. Undisturbed' => NotTwice'
  BY <1>0, <1>1, <1>2, AtRest DEF NotTwice, LoopRests
<1>12. Undisturbed' => Modes'
  BY <1>0, <1>1, <1>2, AtRest DEF Modes, HoldsStatus, Answered, LoopRests
<1>13. Undisturbed' => Shown'
  BY <1>0, <1>1, <1>2, AtRest DEF Shown, Active, LoopRests
<1>14. Undisturbed' => Removing'
  BY <1>0, <1>1, <1>2, AtRest DEF Removing, Answered, LoopRests
<1>15. Undisturbed' => Known'
  BY <1>0, <1>1, <1>2, AtRest, LmsAssumption DEF Known, Claimed, Started, Active, Answered,
    LoopRests
<1>16. QED
  BY <1>3, <1>4, <1>5, <1>6, <1>7, <1>8, <1>9, <1>10, <1>11, <1>12, <1>13, <1>14, <1>15 DEF
    LmsInv, Always, Cleanly

\* In the grace period the state loop waits for its track.
LEMMA WaitsInGraceKeeps ==
  ASSUME LmsInv, Acting, WaitsInGrace(task[Loop].status)
  PROVE  LmsInv'
<1>0. /\ Typed /\ Shaped /\ Kept /\ OneNext /\ NotItself /\ OrphanRead /\ Believed /\ Sees
      /\ Undisturbed => NotTwice /\ Modes /\ Shown /\ Removing /\ Known
  BY DEF LmsInv, Always, Cleanly
<1>1. /\ task[Loop].pc = "reading" /\ Answered(Loop)
      /\ given' \in Flags
      /\ UNCHANGED <<lms, used>> /\ task' \in [Tasks -> TaskSet] /\ LoopRests
      /\ seen' = FALSE /\ UNCHANGED <<current, nxt, orphan, grace, state, player>>
  <2>1. task' \in [Tasks -> TaskSet] /\ LoopRests
    BY <1>0, LoopRestsIs DEF WaitsInGrace
  <2>2. given' \in Flags
    BY <1>0, ActingIs
  <2>3. QED
    BY <1>0, <2>1, <2>2 DEF Acting, Typed, Beliefs, TrackOrNone, WaitsInGrace, backendVars
<1>2. Undisturbed' => Undisturbed /\ task[Command].pc = "idle"
  BY <1>0, ActingIs
<1>3. Typed'
  BY <1>0, <1>1, <1>2, AtRest DEF Typed, Tasks, TrackOrNone, LoopRests
<1>4. Shaped'
  BY <1>0, <1>1, <1>2, AtRest DEF Shaped, Asks, Tasks, LoopRests
<1>5. Kept'
  BY <1>0, <1>1, <1>2, AtRest DEF Kept, Held, Answered, LoopRests
<1>6. OneNext'
  BY <1>0, <1>1, <1>2, AtRest DEF OneNext, LoopRests
<1>7. NotItself'
  BY <1>0, <1>1, <1>2, AtRest DEF NotItself, Answered, LoopRests
<1>8. OrphanRead'
  BY <1>0, <1>1, <1>2, AtRest DEF OrphanRead, Answered, LoopRests
<1>9. Believed'
  BY <1>0, <1>1, <1>2, AtRest DEF Believed, LoopRests
<1>10. Sees'
  BY <1>0, <1>1, <1>2, AtRest DEF Sees, LoopRests
<1>11. Undisturbed' => NotTwice'
  BY <1>0, <1>1, <1>2, AtRest DEF NotTwice, LoopRests
<1>12. Undisturbed' => Modes'
  BY <1>0, <1>1, <1>2, AtRest DEF Modes, HoldsStatus, Answered, LoopRests
<1>13. Undisturbed' => Shown'
  BY <1>0, <1>1, <1>2, AtRest DEF Shown, Active, LoopRests
<1>14. Undisturbed' => Removing'
  BY <1>0, <1>1, <1>2, AtRest DEF Removing, Answered, LoopRests
<1>15. Undisturbed' => Known'
  BY <1>0, <1>1, <1>2, AtRest DEF Known, Claimed, Started, Active, Answered, LoopRests
<1>16. QED
  BY <1>3, <1>4, <1>5, <1>6, <1>7, <1>8, <1>9, <1>10, <1>11, <1>12, <1>13, <1>14, <1>15 DEF
    LmsInv, Always, Cleanly

\* The state loop finds a cleared next track playing.
LEMMA ReachedOrphanKeeps ==
  ASSUME LmsInv, Acting, ReachedOrphan(task[Loop].status)
  PROVE  LmsInv'
<1>0. /\ Typed /\ Shaped /\ Kept /\ OneNext /\ NotItself /\ OrphanRead /\ Believed /\ Sees
      /\ Undisturbed => NotTwice /\ Modes /\ Shown /\ Removing /\ Known
  BY DEF LmsInv, Always, Cleanly
<1>1. /\ task[Loop].pc = "reading" /\ Answered(Loop)
      /\ given' \in Flags
      /\ UNCHANGED <<lms, used>> /\ task' \in [Tasks -> TaskSet] /\ LoopRests
      /\ orphan # None /\ Url(task[Loop].status) = orphan /\ current' = orphan /\ orphan' = None
      /\ player' \in Beliefs /\ player'.armed = None /\ player'.mode = "stopped"
      /\ seen' \in BOOLEAN /\ (seen' => task[Loop].status = lms)
      /\ UNCHANGED <<nxt, grace, state>>
  <2>1. task' \in [Tasks -> TaskSet] /\ LoopRests
    BY <1>0, LoopRestsIs DEF ReachedOrphan
  <2>2. given' \in Flags
    BY <1>0, ActingIs
  <2>3. QED
    BY <1>0, <2>1, <2>2 DEF Acting, Typed, Beliefs, TrackOrNone, ReachedOrphan, EndTold, Saw
<1>2. Undisturbed' => Undisturbed /\ task[Command].pc = "idle"
  BY <1>0, ActingIs
<1>3. Typed'
  BY <1>0, <1>1, <1>2, AtRest DEF Typed, Tasks, TrackOrNone, LoopRests
<1>4. Shaped'
  BY <1>0, <1>1, <1>2, AtRest DEF Shaped, Asks, Tasks, LoopRests
<1>5. Kept'
  BY <1>0, <1>1, <1>2, AtRest DEF Kept, Held, Answered, LoopRests
<1>6. OneNext'
  BY <1>0, <1>1, <1>2, AtRest DEF OneNext, LoopRests
<1>7. NotItself'
  BY <1>0, <1>1, <1>2, AtRest DEF NotItself, Answered, LoopRests
<1>8. OrphanRead'
  BY <1>0, <1>1, <1>2, AtRest DEF OrphanRead, Answered, LoopRests
<1>9. Believed'
  BY <1>0, <1>1, <1>2, AtRest DEF Believed, LoopRests
<1>10. Sees'
  BY <1>0, <1>1, <1>2, AtRest DEF Sees, LoopRests
<1>11. Undisturbed' => NotTwice'
  BY <1>0, <1>1, <1>2, AtRest DEF NotTwice, LoopRests
<1>12. Undisturbed' => Modes'
  BY <1>0, <1>1, <1>2, AtRest DEF Modes, HoldsStatus, Answered, LoopRests
<1>13. Undisturbed' => Shown'
  BY <1>0, <1>1, <1>2, AtRest DEF Shown, Active, LoopRests
<1>14. Undisturbed' => Removing'
  BY <1>0, <1>1, <1>2, AtRest DEF Removing, Answered, LoopRests
<1>15. Undisturbed' => Known'
  BY <1>0, <1>1, <1>2, AtRest DEF Known, Claimed, Started, Active, Answered, LoopRests
<1>16. QED
  BY <1>3, <1>4, <1>5, <1>6, <1>7, <1>8, <1>9, <1>10, <1>11, <1>12, <1>13, <1>14, <1>15 DEF
    LmsInv, Always, Cleanly

\* The armed next track plays: listeners are told, and the finished track is dropped.
LEMMA TransitionKeeps ==
  ASSUME LmsInv, Acting, Transition(task[Loop].status)
  PROVE  LmsInv'
<1>0. /\ Typed /\ Shaped /\ Kept /\ OneNext /\ NotItself /\ OrphanRead /\ Believed /\ Sees
      /\ Undisturbed => NotTwice /\ Modes /\ Shown /\ Removing /\ Known
  BY DEF LmsInv, Always, Cleanly
<1>1. /\ task[Loop].pc = "reading" /\ Answered(Loop)
      /\ given' \in Flags
      /\ nxt # None /\ current' = nxt /\ nxt' = None /\ grace' = TRUE /\ seen' = FALSE
      /\ player' \in Beliefs /\ player'.armed = None /\ player'.mode = player.mode
      /\ player'.track = IF player.armed = None THEN player.track ELSE player.armed
      /\ UNCHANGED <<lms, orphan, state, used>>
  BY <1>0, ActingIs DEF Acting, Transition, TransitionTold, Typed, Beliefs, TrackOrNone
<1>2. task' \in [Tasks -> TaskSet] /\ Drops
  <2>1. Rests(Loop) => task' \in [Tasks -> TaskSet] /\ Drops
    <3>1. Rests(Loop) => task' \in [Tasks -> TaskSet] /\ LoopRests
      BY <1>0, LoopRestsIs
    <3>2. Rests(Loop) => task'[Arm] = task[Arm]
      BY <1>0 DEF Rests, Typed, Tasks, Loop, Command, Arm
    <3>3. QED
      BY <3>1, <3>2, AtRest DEF LoopRests, Drops
  <2>2. ASSUME ~Rests(Loop)
        PROVE  task' \in [Tasks -> TaskSet] /\ Drops
    <3> DEFINE index == Finished(task[Loop].status, current)
               req == Req("delete", current, index)
    <3>1. /\ task' = [task EXCEPT ![Loop].pc = "dropping", ![Loop].req = req,
                                  ![Loop].status = Silent]
          /\ current # None
      BY <2>2 DEF Transition, Goes
    <3>2. /\ Loop \in Tasks /\ task \in [Tasks -> TaskSet] /\ current \in TrackOrNone
          /\ Fits(task[Loop].status) /\ "dropping" \in Pcs
      BY <1>0 DEF Typed, Tasks, Pcs
    <3>3. index \in Nat /\ "delete" \in Kinds
      BY <3>2, FinishedIn DEF Kinds
    <3> HIDE DEF index
    <3>4. req \in Reqs /\ req.kind = "delete" /\ req.item = current
      BY <3>2, <3>3, ReqIs
    <3>5. current \in Tracks
      BY <3>1, <3>2 DEF TrackOrNone
    <3> HIDE DEF req
    <3>6. task' \in [Tasks -> TaskSet]
      BY <3>1, <3>2, <3>4, AtRest DEF TaskSet
    <3>7. Drops
      BY <3>1, <3>2, <3>4, <3>5, AtRest DEF Drops, TaskSet, Tasks, Loop, Command, Arm
    <3>8. QED
      BY <3>6, <3>7
  <2>3. QED
    BY <2>1, <2>2
<1>3. Undisturbed' => Undisturbed /\ task[Command].pc = "idle"
  BY <1>0, ActingIs
<1>4. Typed'
  BY <1>0, <1>1, <1>2, <1>3, AtRest DEF Typed, Tasks, TrackOrNone, Drops
<1>5. Shaped'
  BY <1>0, <1>1, <1>2, <1>3, AtRest DEF Shaped, Asks, Tasks, Drops
<1>6. Kept'
  BY <1>0, <1>1, <1>2, <1>3, AtRest DEF Kept, Held, Answered, Drops
<1>7. OneNext'
  BY <1>0, <1>1, <1>2, <1>3, AtRest DEF OneNext, Drops
<1>8. NotItself'
  BY <1>0, <1>1, <1>2, <1>3, AtRest DEF NotItself, Answered, Drops
<1>9. OrphanRead'
  BY <1>0, <1>1, <1>2, <1>3, AtRest DEF OrphanRead, Answered, Drops
<1>10. Believed'
  BY <1>0, <1>1, <1>2, <1>3, AtRest DEF Believed, Drops
<1>11. Sees'
  BY <1>0, <1>1, <1>2, <1>3, AtRest DEF Sees, Drops
<1>12. Undisturbed' => NotTwice'
  BY <1>0, <1>1, <1>2, <1>3, AtRest DEF NotTwice, Drops
<1>13. Undisturbed' => Modes'
  BY <1>0, <1>1, <1>2, <1>3, AtRest DEF Modes, HoldsStatus, Answered, Drops, Shown, Active
<1>14. Undisturbed' => Shown'
  BY <1>0, <1>1, <1>2, <1>3, AtRest DEF Shown, Active, Drops
<1>15. Undisturbed' => Removing'
  BY <1>0, <1>1, <1>2, <1>3, AtRest DEF Removing, Answered, Drops
<1>16. Undisturbed' => Known'
  BY <1>0, <1>1, <1>2, <1>3, AtRest DEF Known, Claimed, Started, Active, Answered, Drops, OneNext,
    NotTwice, Shown, Modes
<1>17. QED
  BY <1>4, <1>5, <1>6, <1>7, <1>8, <1>9, <1>10, <1>11, <1>12, <1>13, <1>14, <1>15, <1>16 DEF
    LmsInv, Always, Cleanly

\* The state loop removes an orphan that waits.
LEMMA RemovesKeeps ==
  ASSUME LmsInv, Acting, Steady(task[Loop].status), Ripe,
         RemovesOrphan(Loop, task[Loop].status, "removing"),
         UNCHANGED <<current, nxt, grace, state, player, seen>>
  PROVE  LmsInv'
<1>0. /\ Typed /\ Shaped /\ Kept /\ OneNext /\ NotItself /\ OrphanRead /\ Believed /\ Sees
      /\ Undisturbed => NotTwice /\ Modes /\ Shown /\ Removing /\ Known
  BY DEF LmsInv, Always, Cleanly
<1>1. /\ task[Loop].pc = "reading" /\ Answered(Loop) /\ orphan # None
      /\ Undisturbed' => orphan = task[Loop].old
      /\ Url(task[Loop].status) = current /\ orphan' = None
      /\ IndexOf(task[Loop].status, orphan) # 0
      /\ given' \in Flags
      /\ UNCHANGED <<lms, current, nxt, grace, state, player, seen, used>>
  BY <1>0, ActingIs DEF Acting, RemovesOrphan, Steady, Owns, Ripe, Unseen
<1>2. /\ task' \in [Tasks -> TaskSet]
      /\ \E r \in Reqs : /\ LoopTurns("removing", r, task[Loop].status, task[Loop].old)
                         /\ r.kind = "delete" /\ r.item = orphan /\ orphan \in Tracks
                         /\ r.index = Len(task[Loop].status.list)
      /\ Behind(task[Loop].status) = orphan
  <2> DEFINE index == IndexOf(task[Loop].status, orphan)
             req == Req("delete", orphan, index)
  <2>1. /\ Loop \in Tasks /\ task \in [Tasks -> TaskSet] /\ orphan \in Tracks
        /\ Fits(task[Loop].status) /\ "removing" \in Pcs /\ orphan \in TrackOrNone
        /\ "delete" \in Kinds
    BY <1>0, <1>1 DEF Typed, Tasks, Pcs, TrackOrNone, Kinds
  <2>2. /\ index \in Nat /\ index = Len(task[Loop].status.list)
        /\ Behind(task[Loop].status) = orphan
    BY <1>1, <2>1, BehindIs
  <2>3. task' = [task EXCEPT ![Loop].pc = "removing", ![Loop].req = req]
    BY DEF RemovesOrphan
  <2> HIDE DEF index
  <2>4. req \in Reqs /\ req.kind = "delete" /\ req.item = orphan /\ req.index = index
    BY <2>1, <2>2, ReqIs
  <2> HIDE DEF req
  <2>5. task' \in [Tasks -> TaskSet]
    BY <2>1, <2>3, <2>4 DEF TaskSet
  <2>6. LoopTurns("removing", req, task[Loop].status, task[Loop].old)
    BY <2>1, <2>3, <2>4 DEF LoopTurns, TaskSet, Tasks, Loop, Command, Arm
  <2>7. QED
    BY <2>1, <2>2, <2>4, <2>5, <2>6
<1>3. Undisturbed' => Undisturbed /\ task[Command].pc = "idle"
  BY <1>0, ActingIs
<1>4. Typed'
  BY <1>0, <1>1, <1>2, <1>3, AtRest DEF Typed, Tasks, TrackOrNone, LoopTurns
<1>5. Shaped'
  BY <1>0, <1>1, <1>2, <1>3, AtRest DEF Shaped, Asks, Tasks, LoopTurns
<1>6. Kept'
  BY <1>0, <1>1, <1>2, <1>3, AtRest DEF Kept, Held, Answered, LoopTurns
<1>7. OneNext'
  BY <1>0, <1>1, <1>2, <1>3, AtRest DEF OneNext, LoopTurns
<1>8. NotItself'
  BY <1>0, <1>1, <1>2, <1>3, AtRest DEF NotItself, Answered, LoopTurns
<1>9. OrphanRead'
  BY <1>0, <1>1, <1>2, <1>3, AtRest DEF OrphanRead, Answered, LoopTurns
<1>10. Believed'
  BY <1>0, <1>1, <1>2, <1>3, AtRest DEF Believed, LoopTurns
<1>11. Sees'
  BY <1>0, <1>1, <1>2, <1>3, AtRest DEF Sees, LoopTurns
<1>12. Undisturbed' => NotTwice'
  BY <1>0, <1>1, <1>2, <1>3, AtRest DEF NotTwice, LoopTurns
<1>13. Undisturbed' => Modes'
  BY <1>0, <1>1, <1>2, <1>3, AtRest DEF Modes, HoldsStatus, Answered, LoopTurns
<1>14. Undisturbed' => Shown'
  BY <1>0, <1>1, <1>2, <1>3, AtRest DEF Shown, Active, LoopTurns
<1>15. Undisturbed' => Removing'
  BY <1>0, <1>1, <1>2, <1>3, AtRest, LmsAssumption DEF Removing, Answered, LoopTurns, OrphanRead,
    NotTwice, OneNext, Typed, TrackOrNone
<1>16. Undisturbed' => Known'
  BY <1>0, <1>1, <1>2, <1>3, AtRest, LmsAssumption DEF Known, Claimed, Started, Active, Answered,
    LoopTurns, OrphanRead
<1>17. QED
  BY <1>4, <1>5, <1>6, <1>7, <1>8, <1>9, <1>10, <1>11, <1>12, <1>13, <1>14, <1>15, <1>16 DEF
    LmsInv, Always, Cleanly

\* The tail of an iteration: what the status tells of the mode.
LEMMA CompareStateKeeps ==
  ASSUME LmsInv, NEW s, s = task[Loop].status, HoldsStatus, ~Waiting(Loop), CompareState(s),
         given' \in Flags, UNCHANGED <<lms, current, grace, used>>,
         task[Loop].pc = "reading" => Url(s) = current,
         orphan' = orphan \/ (orphan' = None /\ (Undisturbed' => Behind(lms) # orphan)),
         Undisturbed' => Undisturbed /\ (task[Loop].pc = "reading" => task[Command].pc = "idle")
  PROVE  LmsInv'
<1>0. /\ Typed /\ Shaped /\ Kept /\ OneNext /\ NotItself /\ OrphanRead /\ Believed /\ Sees
      /\ Undisturbed => NotTwice /\ Modes /\ Shown /\ Removing /\ Known
  BY DEF LmsInv, Always, Cleanly
<1>1. /\ s = task[Loop].status /\ Fits(s) /\ task' \in [Tasks -> TaskSet] /\ LoopRests
      /\ task[Loop].pc \in {"reading", "removing"} /\ ~Waiting(Loop)
      /\ s.mode \in {"play", "pause", "stop"}
      /\ state' \in {"PLAYING", "PAUSED", "STOPPED"}
      /\ player' \in Beliefs /\ player'.track = player.track /\ seen' \in BOOLEAN
      /\ (seen' => s = lms /\ Url(lms) = current)
      /\ \/ /\ player'.armed = None /\ player'.mode = "stopped" /\ nxt' = None
            /\ s.mode = "stop" /\ state' = "STOPPED"
         \/ /\ UNCHANGED <<nxt, player, state>> /\ s.mode = "stop" /\ state = "PLAYING"
            /\ seen' = FALSE
         \/ /\ UNCHANGED <<nxt, player>>
            /\ \/ s.mode = "play" /\ state' = "PLAYING"
               \/ s.mode = "pause" /\ state' = "PAUSED"
               \/ s.mode = "stop" /\ state # "PLAYING" /\ state' = "STOPPED"
  <2>1. Rests(Loop) \/ RestsAfterEnd
    BY DEF CompareState
  <2>2. task' \in [Tasks -> TaskSet] /\ LoopRests
    BY <1>0, <2>1, LoopRestsIs
  <2>3. Fits(s) /\ s.mode \in {"play", "pause", "stop"}
    BY <1>0 DEF Typed, Tasks, Fits, Players
  <2>4. s = lms /\ task[Loop].pc = "reading" => Url(lms) = current
    OBVIOUS
  <2>5. player' = player \/ player' = [player EXCEPT !.mode = "stopped", !.armed = None]
    BY DEF CompareState, EndTold
  <2>6. player' \in Beliefs /\ player'.track = player.track
    BY <1>0, <2>5 DEF Typed, Beliefs, TrackOrNone
  <2>7. seen' \in BOOLEAN /\ (seen' => s = lms /\ task[Loop].pc = "reading")
    BY DEF CompareState, Saw
  <2>8. /\ s.mode = "play" => ModeToState(s) = "PLAYING"
        /\ s.mode = "pause" => ModeToState(s) = "PAUSED"
        /\ s.mode = "stop" => ModeToState(s) = "STOPPED"
    BY DEF ModeToState
  <2>9. \/ /\ player'.armed = None /\ player'.mode = "stopped" /\ nxt' = None
           /\ s.mode = "stop" /\ state' = "STOPPED"
        \/ /\ UNCHANGED <<nxt, player, state>> /\ s.mode = "stop" /\ state = "PLAYING"
           /\ seen' = FALSE
        \/ /\ UNCHANGED <<nxt, player>>
           /\ \/ s.mode = "play" /\ state' = "PLAYING"
              \/ s.mode = "pause" /\ state' = "PAUSED"
              \/ s.mode = "stop" /\ state # "PLAYING" /\ state' = "STOPPED"
    BY <1>0, <2>3, <2>8 DEF CompareState, EndTold, Typed, Beliefs
  <2>10. QED
    BY <2>2, <2>3, <2>4, <2>6, <2>7, <2>9 DEF HoldsStatus
<1>2. task[Loop].pc = "reading" => Answered(Loop)
  BY DEF HoldsStatus
<1>3. Typed'
  BY <1>0, <1>1, <1>2, AtRest DEF Typed, Tasks, TrackOrNone, LoopRests
<1>4. Shaped'
  BY <1>0, <1>1, <1>2, AtRest DEF Shaped, Asks, Tasks, LoopRests
<1>5. Kept'
  BY <1>0, <1>1, <1>2, AtRest DEF Kept, Held, Answered, LoopRests
<1>6. OneNext'
  BY <1>0, <1>1, <1>2, AtRest DEF OneNext, LoopRests
<1>7. NotItself'
  BY <1>0, <1>1, <1>2, AtRest DEF NotItself, Answered, LoopRests
<1>8. OrphanRead'
  BY <1>0, <1>1, <1>2, AtRest DEF OrphanRead, Answered, LoopRests
<1>9. Believed'
  BY <1>0, <1>1, <1>2, AtRest DEF Believed, LoopRests
<1>10. Sees'
  BY <1>0, <1>1, <1>2, AtRest DEF Sees, LoopRests
<1>11. Undisturbed' => NotTwice'
  BY <1>0, <1>1, <1>2, AtRest DEF NotTwice, LoopRests
<1>12. Undisturbed' => Modes'
  BY <1>0, <1>1, <1>2, AtRest DEF Modes, HoldsStatus, Answered, LoopRests, Shown
<1>13. Undisturbed' => Shown'
  BY <1>0, <1>1, <1>2, AtRest DEF Shown, Active, LoopRests
<1>14. Undisturbed' => Removing'
  BY <1>0, <1>1, <1>2, AtRest DEF Removing, Answered, LoopRests
<1>15. Undisturbed' => Known'
  BY <1>0, <1>1, <1>2, AtRest, LmsAssumption DEF Known, Claimed, Started, Active, Answered,
    LoopRests, Removing, Believed, Waiting
<1>16. QED
  BY <1>3, <1>4, <1>5, <1>6, <1>7, <1>8, <1>9, <1>10, <1>11, <1>12, <1>13, <1>14, <1>15 DEF
    LmsInv, Always, Cleanly

\* The arming goes on with a request.
LEMMA ArmGoesIs ==
  ASSUME Typed, NEW pc \in Pcs, NEW req \in Reqs, Goes(Arm, pc, req)
  PROVE  /\ task' \in [Tasks -> TaskSet]
         /\ ArmTurns(pc, req, Silent, task[Arm].item, task[Arm].old, task[Arm].stale)
<1>1. /\ Arm \in Tasks /\ task \in [Tasks -> TaskSet]
      /\ task' = [task EXCEPT ![Arm].pc = pc, ![Arm].req = req, ![Arm].status = Silent]
  BY DEF Typed, Tasks, Goes
<1>2. task' \in [Tasks -> TaskSet]
  BY <1>1, AtRest DEF TaskSet
<1>3. ArmTurns(pc, req, Silent, task[Arm].item, task[Arm].old, task[Arm].stale)
  BY <1>1 DEF ArmTurns, TaskSet, Tasks, Loop, Command, Arm
<1>4. QED
  BY <1>2, <1>3

\* The arming is over.
LEMMA ArmRestsIs ==
  ASSUME Typed, Rests(Arm)
  PROVE  task' \in [Tasks -> TaskSet] /\ ArmTurns("idle", NoReq, Silent, None, None, FALSE)
<1>1. /\ Arm \in Tasks /\ task \in [Tasks -> TaskSet] /\ task' = [task EXCEPT ![Arm] = IdleTask]
  BY DEF Typed, Tasks, Rests
<1>2. task' \in [Tasks -> TaskSet]
  BY <1>1, AtRest
<1>3. ArmTurns("idle", NoReq, Silent, None, None, FALSE)
  BY <1>1, AtRest DEF ArmTurns, Tasks, Loop, Command, Arm
<1>4. QED
  BY <1>2, <1>3

\* The arming reads a status to undo what is armed.
LEMMA ArmClearsIs ==
  ASSUME Typed, NEW pc \in Pcs, NEW t \in Tracks,
         task' = [task EXCEPT ![Arm].pc = pc, ![Arm].req = Status, ![Arm].old = t]
  PROVE  /\ task' \in [Tasks -> TaskSet]
         /\ ArmTurns(pc, Status, task[Arm].status, task[Arm].item, t, task[Arm].stale)
<1>1. Arm \in Tasks /\ task \in [Tasks -> TaskSet] /\ t \in TrackOrNone
  BY DEF Typed, Tasks, TrackOrNone
<1>2. task' \in [Tasks -> TaskSet]
  BY <1>1, AtRest DEF TaskSet
<1>3. ArmTurns(pc, Status, task[Arm].status, task[Arm].item, t, task[Arm].stale)
  BY <1>1 DEF ArmTurns, TaskSet, Tasks, Loop, Command, Arm
<1>4. QED
  BY <1>2, <1>3

\* The player starts to arm a next track.
LEMMA ArmStartsKeeps ==
  ASSUME LmsInv, NEW t \in Tracks, ArmStarts(t)
  PROVE  LmsInv'
<1>0. /\ Typed /\ Shaped /\ Kept /\ OneNext /\ NotItself /\ OrphanRead /\ Believed /\ Sees
      /\ Undisturbed => NotTwice /\ Modes /\ Shown /\ Removing /\ Known
  BY DEF LmsInv, Always, Cleanly
<1>1. /\ task[Arm].pc = "idle" /\ player.mode = "playing" /\ player.armed = None /\ t \in Tracks
      /\ used' \in [DOMAIN Bound -> Nat] /\ used'.failures = used.failures
      /\ task' = [task EXCEPT ![Arm].pc = "fetching", ![Arm].item = t, ![Arm].stale = FALSE]
      /\ UNCHANGED <<lms, current, nxt, orphan, grace, state, player, seen, given>>
  BY <1>0, SpendIs DEF ArmStarts, backendVars
<1>2. /\ task' \in [Tasks -> TaskSet]
      /\ ArmTurns("fetching", task[Arm].req, task[Arm].status, t, task[Arm].old, FALSE)
  <2>1. /\ Arm \in Tasks /\ task \in [Tasks -> TaskSet]
        /\ "fetching" \in Pcs
        /\ t \in TrackOrNone
    BY <1>0, <1>1, AtRest DEF Typed, Tasks, Pcs, TrackOrNone
  <2>2. task' \in [Tasks -> TaskSet]
    BY <1>1, <2>1, AtRest DEF TaskSet
  <2>3. ArmTurns("fetching", task[Arm].req, task[Arm].status, t, task[Arm].old, FALSE)
    BY <1>1, <2>1, AtRest DEF ArmTurns, TaskSet, Tasks, Loop, Command, Arm
  <2>4. QED
    BY <2>2, <2>3
<1>3. Undisturbed' => Undisturbed
  BY <1>1 DEF Undisturbed
<1>4. Typed'
  BY <1>0, <1>1, <1>2, <1>3, AtRest DEF Typed, Tasks, TrackOrNone, ArmTurns
<1>5. Shaped'
  BY <1>0, <1>1, <1>2, <1>3, AtRest DEF Shaped, Asks, Tasks, ArmTurns
<1>6. Kept'
  BY <1>0, <1>1, <1>2, <1>3, AtRest DEF Kept, Held, Answered, ArmTurns
<1>7. OneNext'
  BY <1>0, <1>1, <1>2, <1>3, AtRest DEF OneNext, ArmTurns
<1>8. NotItself'
  BY <1>0, <1>1, <1>2, <1>3, AtRest DEF NotItself, Answered, ArmTurns
<1>9. OrphanRead'
  BY <1>0, <1>1, <1>2, <1>3, AtRest DEF OrphanRead, Answered, ArmTurns
<1>10. Believed'
  BY <1>0, <1>1, <1>2, <1>3, AtRest DEF Believed, ArmTurns
<1>11. Sees'
  BY <1>0, <1>1, <1>2, <1>3, AtRest DEF Sees, ArmTurns
<1>12. Undisturbed' => NotTwice'
  BY <1>0, <1>1, <1>2, <1>3, AtRest DEF NotTwice, ArmTurns
<1>13. Undisturbed' => Modes'
  BY <1>0, <1>1, <1>2, <1>3, AtRest DEF Modes, HoldsStatus, Answered, ArmTurns
<1>14. Undisturbed' => Shown'
  BY <1>0, <1>1, <1>2, <1>3, AtRest DEF Shown, Active, ArmTurns
<1>15. Undisturbed' => Removing'
  BY <1>0, <1>1, <1>2, <1>3, AtRest DEF Removing, Answered, ArmTurns
<1>16. Undisturbed' => Known'
  BY <1>0, <1>1, <1>2, <1>3, AtRest DEF Known, Claimed, Started, Active, Answered, ArmTurns
<1>17. QED
  BY <1>4, <1>5, <1>6, <1>7, <1>8, <1>9, <1>10, <1>11, <1>12, <1>13, <1>14, <1>15, <1>16 DEF
    LmsInv, Always, Cleanly

\* The next track is resolved; a backend that plays another track asks for a status.
LEMMA SetNextTrackKeeps ==
  ASSUME LmsInv, SetNextTrack
  PROVE  LmsInv'
<1>0. /\ Typed /\ Shaped /\ Kept /\ OneNext /\ NotItself /\ OrphanRead /\ Believed /\ Sees
      /\ Undisturbed => NotTwice /\ Modes /\ Shown /\ Removing /\ Known
  BY DEF LmsInv, Always, Cleanly
<1>1. /\ task[Arm].pc = "fetching" /\ task' \in [Tasks -> TaskSet]
      /\ \/ ArmTurns("idle", NoReq, Silent, None, None, FALSE)
         \/ ArmTurns("setting", Status, Silent, task[Arm].item, task[Arm].old, task[Arm].stale)
      /\ UNCHANGED <<lms, current, nxt, orphan, grace, state, player, seen, given, used>>
  <2>1. "setting" \in Pcs
    BY DEF Pcs
  <2>2. \/ Rests(Arm)
        \/ Goes(Arm, "setting", Status)
    BY DEF SetNextTrack
  <2>3. CASE Rests(Arm)
    BY <1>0, <2>3, ArmRestsIs DEF SetNextTrack, backendVars
  <2>4. CASE Goes(Arm, "setting", Status)
    BY <1>0, <2>1, <2>4, ArmGoesIs, AtRest DEF SetNextTrack, backendVars
  <2>5. QED
    BY <2>2, <2>3, <2>4
<1>2. Undisturbed' => Undisturbed
  BY <1>1 DEF Undisturbed
<1>3. Typed'
  BY <1>0, <1>1, <1>2, AtRest DEF Typed, Tasks, TrackOrNone, ArmTurns
<1>4. Shaped'
  BY <1>0, <1>1, <1>2, AtRest DEF Shaped, Asks, Tasks, ArmTurns
<1>5. Kept'
  BY <1>0, <1>1, <1>2, AtRest DEF Kept, Held, Answered, ArmTurns
<1>6. OneNext'
  BY <1>0, <1>1, <1>2, AtRest DEF OneNext, ArmTurns
<1>7. NotItself'
  BY <1>0, <1>1, <1>2, AtRest DEF NotItself, Answered, ArmTurns
<1>8. OrphanRead'
  BY <1>0, <1>1, <1>2, AtRest DEF OrphanRead, Answered, ArmTurns
<1>9. Believed'
  BY <1>0, <1>1, <1>2, AtRest DEF Believed, ArmTurns
<1>10. Sees'
  BY <1>0, <1>1, <1>2, AtRest DEF Sees, ArmTurns
<1>11. Undisturbed' => NotTwice'
  BY <1>0, <1>1, <1>2, AtRest DEF NotTwice, ArmTurns
<1>12. Undisturbed' => Modes'
  BY <1>0, <1>1, <1>2, AtRest DEF Modes, HoldsStatus, Answered, ArmTurns
<1>13. Undisturbed' => Shown'
  BY <1>0, <1>1, <1>2, AtRest DEF Shown, Active, ArmTurns
<1>14. Undisturbed' => Removing'
  BY <1>0, <1>1, <1>2, AtRest DEF Removing, Answered, ArmTurns
<1>15. Undisturbed' => Known'
  BY <1>0, <1>1, <1>2, AtRest DEF Known, Claimed, Started, Active, Answered, ArmTurns, Shaped,
    Asks
<1>16. QED
  BY <1>3, <1>4, <1>5, <1>6, <1>7, <1>8, <1>9, <1>10, <1>11, <1>12, <1>13, <1>14, <1>15 DEF
    LmsInv, Always, Cleanly

\* An arming that has nothing more to do.
LEMMA ArmRestsKeeps ==
  ASSUME LmsInv, Rests(Arm),
         task[Arm].pc \in {"fetching", "setting", "removing", "rereading", "adding"},
         Answered(Arm) => task[Arm].pc # "adding", seen' \in BOOLEAN, seen' => seen,
         UNCHANGED <<lms, current, nxt, orphan, grace, state, player, given, used>>
  PROVE  LmsInv'
<1>0. /\ Typed /\ Shaped /\ Kept /\ OneNext /\ NotItself /\ OrphanRead /\ Believed /\ Sees
      /\ Undisturbed => NotTwice /\ Modes /\ Shown /\ Removing /\ Known
  BY DEF LmsInv, Always, Cleanly
<1>1. /\ task' \in [Tasks -> TaskSet]
      /\ ArmTurns("idle", NoReq, Silent, None, None, FALSE)
  BY <1>0, ArmRestsIs
<1>2. Undisturbed' => Undisturbed
  BY DEF Undisturbed
<1>3. Typed'
  BY <1>0, <1>1, <1>2, AtRest DEF Typed, Tasks, TrackOrNone, ArmTurns
<1>4. Shaped'
  BY <1>0, <1>1, <1>2, AtRest DEF Shaped, Asks, Tasks, ArmTurns
<1>5. Kept'
  BY <1>0, <1>1, <1>2, AtRest DEF Kept, Held, Answered, ArmTurns
<1>6. OneNext'
  BY <1>0, <1>1, <1>2, AtRest DEF OneNext, ArmTurns
<1>7. NotItself'
  BY <1>0, <1>1, <1>2, AtRest DEF NotItself, Answered, ArmTurns
<1>8. OrphanRead'
  BY <1>0, <1>1, <1>2, AtRest DEF OrphanRead, Answered, ArmTurns
<1>9. Believed'
  BY <1>0, <1>1, <1>2, AtRest DEF Believed, ArmTurns
<1>10. Sees'
  BY <1>0, <1>1, <1>2, AtRest DEF Sees, ArmTurns
<1>11. Undisturbed' => NotTwice'
  BY <1>0, <1>1, <1>2, AtRest DEF NotTwice, ArmTurns
<1>12. Undisturbed' => Modes'
  BY <1>0, <1>1, <1>2, AtRest DEF Modes, HoldsStatus, Answered, ArmTurns
<1>13. Undisturbed' => Shown'
  BY <1>0, <1>1, <1>2, AtRest DEF Shown, Active, ArmTurns
<1>14. Undisturbed' => Removing'
  BY <1>0, <1>1, <1>2, AtRest DEF Removing, Answered, ArmTurns
<1>15. Undisturbed' => Known'
  BY <1>0, <1>1, <1>2, AtRest DEF Known, Claimed, Started, Active, Answered, ArmTurns, Shaped,
    Asks
<1>16. QED
  BY <1>3, <1>4, <1>5, <1>6, <1>7, <1>8, <1>9, <1>10, <1>11, <1>12, <1>13, <1>14, <1>15 DEF
    LmsInv, Always, Cleanly

\* The status that the arming has read allows it to queue its track, or not.
LEMMA AddsKeeps ==
  ASSUME LmsInv, task[Arm].pc \in {"setting", "rereading"}, Answered(Arm), Adds(task[Arm].status),
         nxt = None, orphan = None, seen' \in BOOLEAN, seen' => seen,
         UNCHANGED <<lms, current, nxt, orphan, grace, state, player, given, used>>
  PROVE  LmsInv'
<1>0. /\ Typed /\ Shaped /\ Kept /\ OneNext /\ NotItself /\ OrphanRead /\ Believed /\ Sees
      /\ Undisturbed => NotTwice /\ Modes /\ Shown /\ Removing /\ Known
  BY DEF LmsInv, Always, Cleanly
<1>1. /\ task' \in [Tasks -> TaskSet]
      /\ \/ ArmTurns("idle", NoReq, Silent, None, None, FALSE)
         \/ /\ \E r \in Reqs :
                  /\ ArmTurns("adding", r, Silent, task[Arm].item, task[Arm].old, task[Arm].stale)
                  /\ r.kind = "add" /\ r.item = task[Arm].item
            /\ Url(task[Arm].status) = current /\ task[Arm].item # current
            /\ Behind(task[Arm].status) = None
  <2> DEFINE req == Req("add", task[Arm].item, 0)
  <2>1. /\ req \in Reqs /\ req.kind = "add" /\ req.item = task[Arm].item /\ "adding" \in Pcs
        /\ Fits(task[Arm].status)
    <3>1. task[Arm].item \in TrackOrNone /\ "add" \in Kinds /\ "adding" \in Pcs
      BY <1>0 DEF Typed, Tasks, TaskSet, Kinds, Pcs
    <3>2. QED
      BY <1>0, <3>1, ReqIs DEF Typed, Tasks
  <2> HIDE DEF req
  <2>2. CASE Rests(Arm)
    BY <1>0, <2>2, ArmRestsIs
  <2>3. CASE ~Rests(Arm)
    <3>1. /\ Goes(Arm, "adding", req) /\ Url(task[Arm].status) = current
          /\ task[Arm].item # current
          /\ ~(Len(task[Arm].status.list) > task[Arm].status.cur)
      BY <2>3 DEF Adds, Unreachable, req
    <3>2. Behind(task[Arm].status) = None
      BY <2>1, <3>1 DEF Behind, Fits, Players
    <3>3. QED
      BY <1>0, <2>1, <3>1, <3>2, ArmGoesIs
  <2>4. QED
    BY <2>2, <2>3
<1>2. Undisturbed' => Undisturbed
  BY DEF Undisturbed
<1>3. Typed'
  BY <1>0, <1>1, <1>2, AtRest DEF Typed, Tasks, TrackOrNone, ArmTurns
<1>4. Shaped'
  BY <1>0, <1>1, <1>2, AtRest DEF Shaped, Asks, Tasks, ArmTurns
<1>5. Kept'
  BY <1>0, <1>1, <1>2, AtRest, LmsAssumption DEF Kept, Held, Answered, ArmTurns
<1>6. OneNext'
  BY <1>0, <1>1, <1>2, AtRest DEF OneNext, ArmTurns, Kept, Held
<1>7. NotItself'
  BY <1>0, <1>1, <1>2, AtRest, LmsAssumption DEF NotItself, Answered, ArmTurns, Typed,
    TrackOrNone, Kept, Held, Shaped
<1>8. OrphanRead'
  BY <1>0, <1>1, <1>2, AtRest DEF OrphanRead, Answered, ArmTurns
<1>9. Believed'
  BY <1>0, <1>1, <1>2, AtRest DEF Believed, ArmTurns
<1>10. Sees'
  BY <1>0, <1>1, <1>2, AtRest DEF Sees, ArmTurns
<1>11. Undisturbed' => NotTwice'
  BY <1>0, <1>1, <1>2, AtRest DEF NotTwice, ArmTurns
<1>12. Undisturbed' => Modes'
  BY <1>0, <1>1, <1>2, AtRest DEF Modes, HoldsStatus, Answered, ArmTurns
<1>13. Undisturbed' => Shown'
  BY <1>0, <1>1, <1>2, AtRest DEF Shown, Active, ArmTurns
<1>14. Undisturbed' => Removing'
  BY <1>0, <1>1, <1>2, AtRest DEF Removing, Answered, ArmTurns
<1>15. Undisturbed' => Known'
  BY <1>0, <1>1, <1>2, AtRest DEF Known, Claimed, Started, Active, Answered, ArmTurns, Shaped,
    Asks, Kept, Held
<1>16. QED
  BY <1>3, <1>4, <1>5, <1>6, <1>7, <1>8, <1>9, <1>10, <1>11, <1>12, <1>13, <1>14, <1>15 DEF
    LmsInv, Always, Cleanly

\* The backend has armed the track, or the arming is outdated and to be undone.
LEMMA ArmedKeeps ==
  ASSUME LmsInv, NEW t, t = task[Arm].item, Armed(t),
         task[Arm].pc \in {"setting", "adding"}, Answered(Arm),
         nxt \in {None, t}, orphan \in {None, t}, nxt = None \/ orphan = None,
         Behind(lms) \in {None, t}, orphan' = None,
         Undisturbed /\ Behind(lms) = t /\ lms.mode # "stop" /\ ~task[Arm].stale => Url(lms) # t,
         seen' = FALSE, UNCHANGED <<lms, current, grace, state, given, used>>
  PROVE  LmsInv'
<1>0. /\ Typed /\ Shaped /\ Kept /\ OneNext /\ NotItself /\ OrphanRead /\ Believed /\ Sees
      /\ Undisturbed => NotTwice /\ Modes /\ Shown /\ Removing /\ Known
  BY DEF LmsInv, Always, Cleanly
<1>1. /\ task' \in [Tasks -> TaskSet] /\ t \in Tracks /\ t # None
      /\ player' \in Beliefs /\ player'.track = player.track /\ player'.mode = player.mode
      /\ \/ /\ task[Arm].stale /\ nxt' = None /\ player'.armed = player.armed
            /\ ArmTurns("clearing", Status, task[Arm].status, task[Arm].item, t, task[Arm].stale)
         \/ /\ ~task[Arm].stale /\ nxt' = t /\ player'.armed = t
            /\ ArmTurns("idle", NoReq, Silent, None, None, FALSE)
      /\ player.armed = None
  <2>1. t \in Tracks /\ t # None /\ player \in Beliefs /\ player.armed = None
    BY <1>0, LmsAssumption DEF Shaped, Believed, Typed
  <2>2. CASE task[Arm].stale
    <3>1. /\ nxt' = None /\ player' = player
          /\ task' = [task EXCEPT ![Arm].pc = "clearing", ![Arm].req = Status, ![Arm].old = t]
      BY <2>2 DEF Armed
    <3>2. "clearing" \in Pcs
      BY DEF Pcs
    <3>3. /\ task' \in [Tasks -> TaskSet]
          /\ ArmTurns("clearing", Status, task[Arm].status, task[Arm].item, t, task[Arm].stale)
      BY <1>0, <2>1, <3>1, <3>2, ArmClearsIs
    <3>4. QED
      BY <2>1, <2>2, <3>1, <3>3
  <2>3. CASE ~task[Arm].stale
    <3>1. nxt' = t /\ player' = [player EXCEPT !.armed = t] /\ Rests(Arm)
      BY <2>3 DEF Armed
    <3>2. /\ task' \in [Tasks -> TaskSet]
          /\ ArmTurns("idle", NoReq, Silent, None, None, FALSE)
      BY <1>0, <3>1, ArmRestsIs
    <3>3. /\ player' \in Beliefs /\ player'.track = player.track
          /\ player'.mode = player.mode /\ player'.armed = t
      BY <2>1, <3>1 DEF Beliefs, TrackOrNone
    <3>4. QED
      BY <2>1, <2>3, <3>1, <3>2, <3>3
  <2>4. QED
    BY <2>2, <2>3
<1>2. Undisturbed' => Undisturbed
  BY DEF Undisturbed
<1>3. Typed'
  BY <1>0, <1>1, <1>2, AtRest DEF Typed, Tasks, TrackOrNone, ArmTurns
<1>4. Shaped'
  BY <1>0, <1>1, <1>2, AtRest DEF Shaped, Asks, Tasks, ArmTurns
<1>5. Kept'
  BY <1>0, <1>1, <1>2, AtRest DEF Kept, Held, Answered, ArmTurns
<1>6. OneNext'
  BY <1>0, <1>1, <1>2, AtRest DEF OneNext, ArmTurns
<1>7. NotItself'
  BY <1>0, <1>1, <1>2, AtRest DEF NotItself, Answered, ArmTurns
<1>8. OrphanRead'
  BY <1>0, <1>1, <1>2, AtRest DEF OrphanRead, Answered, ArmTurns
<1>9. Believed'
  BY <1>0, <1>1, <1>2, AtRest DEF Believed, ArmTurns
<1>10. Sees'
  BY <1>0, <1>1, <1>2, AtRest DEF Sees, ArmTurns
<1>11. Undisturbed' => NotTwice'
  BY <1>0, <1>1, <1>2, AtRest DEF NotTwice, ArmTurns
<1>12. Undisturbed' => Modes'
  BY <1>0, <1>1, <1>2, AtRest DEF Modes, HoldsStatus, Answered, ArmTurns
<1>13. Undisturbed' => Shown'
  BY <1>0, <1>1, <1>2, AtRest DEF Shown, Active, ArmTurns
<1>14. Undisturbed' => Removing'
  BY <1>0, <1>1, <1>2, AtRest DEF Removing, Answered, ArmTurns
<1>15. Undisturbed' => Known'
  BY <1>0, <1>1, <1>2, AtRest DEF Known, Claimed, Started, Active, Answered, ArmTurns, Shaped,
    Asks
<1>16. QED
  BY <1>3, <1>4, <1>5, <1>6, <1>7, <1>8, <1>9, <1>10, <1>11, <1>12, <1>13, <1>14, <1>15 DEF
    LmsInv, Always, Cleanly

\* The arming has read a status to undo what was armed; the loop's memory of the orphan goes.
Clears(pc, req, item, old, stale) ==
  /\ task'[Arm].pc = pc /\ task'[Arm].req = req /\ task'[Arm].status = Silent
  /\ task'[Arm].item = item /\ task'[Arm].old = old /\ task'[Arm].stale = stale
  /\ task'[Command] = task[Command] /\ task'[Loop].pc = task[Loop].pc
  /\ task'[Loop].req = task[Loop].req /\ task'[Loop].status = task[Loop].status
  /\ task'[Loop].old = IF orphan' = orphan THEN task[Loop].old ELSE None

\* What the status tells of the track to be undone.
Undone ==
  /\ task[Arm].old \in Tracks /\ orphan = None /\ nxt = None
  /\ \/ Failed(Arm) /\ current' = current /\ orphan' = task[Arm].old
     \/ /\ Answered(Arm) /\ Url(task[Arm].status) = task[Arm].old
        /\ current' = task[Arm].old /\ orphan' = orphan
     \/ /\ Answered(Arm) /\ Url(task[Arm].status) # task[Arm].old /\ current' = current
        /\ IF Behind(task[Arm].status) = task[Arm].old THEN orphan' = task[Arm].old
                                                       ELSE orphan' = orphan

\* The track to be undone is found playing, waiting or gone.
LEMMA ClearedIs ==
  ASSUME Typed, Shaped, OneNext, task[Arm].pc \in {"clearing", "replacing"}, ~Waiting(Arm), Cleared
  PROVE  Undone
<1>1. /\ task[Arm].old \in Tracks /\ orphan = None /\ nxt = None /\ Fits(task[Arm].status)
      /\ Answered(Arm) \/ Failed(Arm)
  BY DEF Typed, Tasks, Shaped, Asks, OneNext, Waiting, Answered, Failed
<1>2. IndexOf(task[Arm].status, task[Arm].old) # 0 <=> Behind(task[Arm].status) = task[Arm].old
  BY <1>1, BehindIs
<1>3. CASE Failed(Arm)
  BY <1>1, <1>3 DEF Cleared, Undone
<1>4. CASE ~Failed(Arm) /\ Url(task[Arm].status) = task[Arm].old
  BY <1>1, <1>4 DEF Cleared, Undone
<1>5. CASE ~Failed(Arm) /\ Url(task[Arm].status) # task[Arm].old
  BY <1>1, <1>2, <1>5 DEF Cleared, Undone
<1>6. QED
  BY <1>3, <1>4, <1>5

\* Another track is armed: it is cleared first.
LEMMA ReplacesKeeps ==
  ASSUME LmsInv, task[Arm].pc = "setting", nxt # None, nxt' = None, seen' = FALSE,
         task' = [task EXCEPT ![Arm].pc = "replacing", ![Arm].req = Status, ![Arm].old = nxt],
         UNCHANGED <<lms, current, orphan, grace, state, player, given, used>>
  PROVE  LmsInv'
<1>0. /\ Typed /\ Shaped /\ Kept /\ OneNext /\ NotItself /\ OrphanRead /\ Believed /\ Sees
      /\ Undisturbed => NotTwice /\ Modes /\ Shown /\ Removing /\ Known
  BY DEF LmsInv, Always, Cleanly
<1>1. /\ nxt \in Tracks /\ task' \in [Tasks -> TaskSet]
      /\ ArmTurns("replacing", Status, task[Arm].status, task[Arm].item, nxt, task[Arm].stale)
  <2>1. nxt \in Tracks /\ "replacing" \in Pcs
    BY <1>0 DEF Typed, TrackOrNone, Pcs
  <2>2. QED
    BY <1>0, <2>1, ArmClearsIs
<1>2. Undisturbed' => Undisturbed
  BY DEF Undisturbed
<1>3. Typed'
  BY <1>0, <1>1, <1>2, AtRest DEF Typed, Tasks, TrackOrNone, ArmTurns
<1>4. Shaped'
  BY <1>0, <1>1, <1>2, AtRest DEF Shaped, Asks, Tasks, ArmTurns
<1>5. Kept'
  BY <1>0, <1>1, <1>2, AtRest DEF Kept, Held, Answered, ArmTurns
<1>6. OneNext'
  BY <1>0, <1>1, <1>2, AtRest DEF OneNext, ArmTurns
<1>7. NotItself'
  BY <1>0, <1>1, <1>2, AtRest DEF NotItself, Answered, ArmTurns
<1>8. OrphanRead'
  BY <1>0, <1>1, <1>2, AtRest DEF OrphanRead, Answered, ArmTurns
<1>9. Believed'
  BY <1>0, <1>1, <1>2, AtRest DEF Believed, ArmTurns
<1>10. Sees'
  BY <1>0, <1>1, <1>2, AtRest DEF Sees, ArmTurns
<1>11. Undisturbed' => NotTwice'
  BY <1>0, <1>1, <1>2, AtRest DEF NotTwice, ArmTurns
<1>12. Undisturbed' => Modes'
  BY <1>0, <1>1, <1>2, AtRest DEF Modes, HoldsStatus, Answered, ArmTurns
<1>13. Undisturbed' => Shown'
  BY <1>0, <1>1, <1>2, AtRest DEF Shown, Active, ArmTurns
<1>14. Undisturbed' => Removing'
  BY <1>0, <1>1, <1>2, AtRest DEF Removing, Answered, ArmTurns
<1>15. Undisturbed' => Known'
  BY <1>0, <1>1, <1>2, AtRest DEF Known, Claimed, Started, Active, Answered, ArmTurns, Shaped,
    Asks
<1>16. QED
  BY <1>3, <1>4, <1>5, <1>6, <1>7, <1>8, <1>9, <1>10, <1>11, <1>12, <1>13, <1>14, <1>15 DEF
    LmsInv, Always, Cleanly

\* An orphan has to be removed before another track is queued.
LEMMA LooksForOrphanKeeps ==
  ASSUME LmsInv, task[Arm].pc = "setting", nxt = None, seen' = FALSE, Goes(Arm, "removing", Status),
         UNCHANGED <<lms, current, nxt, orphan, grace, state, player, given, used>>
  PROVE  LmsInv'
<1>0. /\ Typed /\ Shaped /\ Kept /\ OneNext /\ NotItself /\ OrphanRead /\ Believed /\ Sees
      /\ Undisturbed => NotTwice /\ Modes /\ Shown /\ Removing /\ Known
  BY DEF LmsInv, Always, Cleanly
<1>1. /\ task' \in [Tasks -> TaskSet]
      /\ ArmTurns("removing", Status, Silent, task[Arm].item, task[Arm].old, task[Arm].stale)
  <2>1. "removing" \in Pcs
    BY DEF Pcs
  <2>2. QED
    BY <1>0, <2>1, ArmGoesIs, AtRest
<1>2. Undisturbed' => Undisturbed
  BY DEF Undisturbed
<1>3. Typed'
  BY <1>0, <1>1, <1>2, AtRest DEF Typed, Tasks, TrackOrNone, ArmTurns
<1>4. Shaped'
  BY <1>0, <1>1, <1>2, AtRest DEF Shaped, Asks, Tasks, ArmTurns
<1>5. Kept'
  BY <1>0, <1>1, <1>2, AtRest DEF Kept, Held, Answered, ArmTurns
<1>6. OneNext'
  BY <1>0, <1>1, <1>2, AtRest DEF OneNext, ArmTurns
<1>7. NotItself'
  BY <1>0, <1>1, <1>2, AtRest DEF NotItself, Answered, ArmTurns
<1>8. OrphanRead'
  BY <1>0, <1>1, <1>2, AtRest DEF OrphanRead, Answered, ArmTurns
<1>9. Believed'
  BY <1>0, <1>1, <1>2, AtRest DEF Believed, ArmTurns
<1>10. Sees'
  BY <1>0, <1>1, <1>2, AtRest DEF Sees, ArmTurns
<1>11. Undisturbed' => NotTwice'
  BY <1>0, <1>1, <1>2, AtRest DEF NotTwice, ArmTurns
<1>12. Undisturbed' => Modes'
  BY <1>0, <1>1, <1>2, AtRest DEF Modes, HoldsStatus, Answered, ArmTurns
<1>13. Undisturbed' => Shown'
  BY <1>0, <1>1, <1>2, AtRest DEF Shown, Active, ArmTurns
<1>14. Undisturbed' => Removing'
  BY <1>0, <1>1, <1>2, AtRest DEF Removing, Answered, ArmTurns
<1>15. Undisturbed' => Known'
  BY <1>0, <1>1, <1>2, AtRest DEF Known, Claimed, Started, Active, Answered, ArmTurns, Shaped,
    Asks
<1>16. QED
  BY <1>3, <1>4, <1>5, <1>6, <1>7, <1>8, <1>9, <1>10, <1>11, <1>12, <1>13, <1>14, <1>15 DEF
    LmsInv, Always, Cleanly

\* The arming has removed the orphan and reads again.
LEMMA OrphanDeletedKeeps ==
  ASSUME LmsInv, OrphanDeleted
  PROVE  LmsInv'
<1>0. /\ Typed /\ Shaped /\ Kept /\ OneNext /\ NotItself /\ OrphanRead /\ Believed /\ Sees
      /\ Undisturbed => NotTwice /\ Modes /\ Shown /\ Removing /\ Known
  BY DEF LmsInv, Always, Cleanly
<1>1. /\ task[Arm].pc = "deleting" /\ ~Waiting(Arm) /\ task' \in [Tasks -> TaskSet]
      /\ ArmTurns("rereading", Status, Silent, task[Arm].item, task[Arm].old, task[Arm].stale)
      /\ UNCHANGED <<lms, current, nxt, orphan, grace, state, player, seen, given, used>>
  <2>1. "rereading" \in Pcs
    BY DEF Pcs
  <2>2. QED
    BY <1>0, <2>1, ArmGoesIs, AtRest DEF OrphanDeleted, backendVars
<1>2. Undisturbed' => Undisturbed
  BY <1>1 DEF Undisturbed
<1>3. Typed'
  BY <1>0, <1>1, <1>2, AtRest DEF Typed, Tasks, TrackOrNone, ArmTurns
<1>4. Shaped'
  BY <1>0, <1>1, <1>2, AtRest DEF Shaped, Asks, Tasks, ArmTurns
<1>5. Kept'
  BY <1>0, <1>1, <1>2, AtRest DEF Kept, Held, Answered, ArmTurns
<1>6. OneNext'
  BY <1>0, <1>1, <1>2, AtRest DEF OneNext, ArmTurns
<1>7. NotItself'
  BY <1>0, <1>1, <1>2, AtRest DEF NotItself, Answered, ArmTurns
<1>8. OrphanRead'
  BY <1>0, <1>1, <1>2, AtRest DEF OrphanRead, Answered, ArmTurns
<1>9. Believed'
  BY <1>0, <1>1, <1>2, AtRest DEF Believed, ArmTurns
<1>10. Sees'
  BY <1>0, <1>1, <1>2, AtRest DEF Sees, ArmTurns
<1>11. Undisturbed' => NotTwice'
  BY <1>0, <1>1, <1>2, AtRest DEF NotTwice, ArmTurns
<1>12. Undisturbed' => Modes'
  BY <1>0, <1>1, <1>2, AtRest DEF Modes, HoldsStatus, Answered, ArmTurns
<1>13. Undisturbed' => Shown'
  BY <1>0, <1>1, <1>2, AtRest DEF Shown, Active, ArmTurns
<1>14. Undisturbed' => Removing'
  BY <1>0, <1>1, <1>2, AtRest DEF Removing, Answered, ArmTurns
<1>15. Undisturbed' => Known'
  BY <1>0, <1>1, <1>2, AtRest DEF Known, Claimed, Started, Active, Answered, ArmTurns, Waiting
<1>16. QED
  BY <1>3, <1>4, <1>5, <1>6, <1>7, <1>8, <1>9, <1>10, <1>11, <1>12, <1>13, <1>14, <1>15 DEF
    LmsInv, Always, Cleanly

\* The arming finds no orphan to remove and reads again.
LEMMA NoOrphanKeeps ==
  ASSUME LmsInv, task[Arm].pc = "removing", Answered(Arm), Goes(Arm, "rereading", Status),
         orphan' = None,
         Behind(lms) = orphan /\ orphan # None => Url(lms) = orphan,
         UNCHANGED <<lms, current, nxt, grace, state, player, seen, given, used>>
  PROVE  LmsInv'
<1>0. /\ Typed /\ Shaped /\ Kept /\ OneNext /\ NotItself /\ OrphanRead /\ Believed /\ Sees
      /\ Undisturbed => NotTwice /\ Modes /\ Shown /\ Removing /\ Known
  BY DEF LmsInv, Always, Cleanly
<1>1. /\ task' \in [Tasks -> TaskSet] /\ Fits(task[Arm].status) /\ orphan \in TrackOrNone
      /\ ArmTurns("rereading", Status, Silent, task[Arm].item, task[Arm].old, task[Arm].stale)
  <2>1. "rereading" \in Pcs
    BY DEF Pcs
  <2>2. QED
    BY <1>0, <2>1, ArmGoesIs, AtRest DEF Typed, Tasks
<1>2. Undisturbed' => Undisturbed
  BY DEF Undisturbed
<1>3. Typed'
  BY <1>0, <1>1, <1>2, AtRest DEF Typed, Tasks, TrackOrNone, ArmTurns
<1>4. Shaped'
  BY <1>0, <1>1, <1>2, AtRest DEF Shaped, Asks, Tasks, ArmTurns
<1>5. Kept'
  BY <1>0, <1>1, <1>2, AtRest DEF Kept, Held, Answered, ArmTurns
<1>6. OneNext'
  BY <1>0, <1>1, <1>2, AtRest DEF OneNext, ArmTurns
<1>7. NotItself'
  BY <1>0, <1>1, <1>2, AtRest DEF NotItself, Answered, ArmTurns
<1>8. OrphanRead'
  BY <1>0, <1>1, <1>2, AtRest DEF OrphanRead, Answered, ArmTurns
<1>9. Believed'
  BY <1>0, <1>1, <1>2, AtRest DEF Believed, ArmTurns
<1>10. Sees'
  BY <1>0, <1>1, <1>2, AtRest DEF Sees, ArmTurns
<1>11. Undisturbed' => NotTwice'
  BY <1>0, <1>1, <1>2, AtRest DEF NotTwice, ArmTurns
<1>12. Undisturbed' => Modes'
  BY <1>0, <1>1, <1>2, AtRest DEF Modes, HoldsStatus, Answered, ArmTurns
<1>13. Undisturbed' => Shown'
  BY <1>0, <1>1, <1>2, AtRest DEF Shown, Active, ArmTurns
<1>14. Undisturbed' => Removing'
  BY <1>0, <1>1, <1>2, AtRest DEF Removing, Answered, ArmTurns
<1>15. Undisturbed' => Known'
  BY <1>0, <1>1, <1>2, AtRest DEF Known, Claimed, Started, Active, Answered, ArmTurns, Shaped,
    Asks, NotTwice
<1>16. QED
  BY <1>3, <1>4, <1>5, <1>6, <1>7, <1>8, <1>9, <1>10, <1>11, <1>12, <1>13, <1>14, <1>15 DEF
    LmsInv, Always, Cleanly

\* The arming removes the orphan that the status tells of.
LEMMA DeletesOrphanKeeps ==
  ASSUME LmsInv, task[Arm].pc = "removing", Answered(Arm), orphan # None,
         RemovesOrphan(Arm, task[Arm].status, "deleting"),
         UNCHANGED <<lms, current, nxt, grace, state, player, seen, given, used>>
  PROVE  LmsInv'
<1>0. /\ Typed /\ Shaped /\ Kept /\ OneNext /\ NotItself /\ OrphanRead /\ Believed /\ Sees
      /\ Undisturbed => NotTwice /\ Modes /\ Shown /\ Removing /\ Known
  BY DEF LmsInv, Always, Cleanly
<1>1. /\ task' \in [Tasks -> TaskSet] /\ orphan \in Tracks
      /\ \E r \in Reqs : /\ ArmTurns("deleting", r, task[Arm].status, task[Arm].item, task[Arm].old,
                                     task[Arm].stale)
                         /\ r.kind = "delete" /\ r.item = orphan
                         /\ r.index = Len(task[Arm].status.list) /\ 1 <= r.index
      /\ Behind(task[Arm].status) = orphan /\ orphan' = None /\ Len(lms.list) \in Nat
  <2> DEFINE index == IndexOf(task[Arm].status, orphan)
             req == Req("delete", orphan, index)
  <2>1. /\ Arm \in Tasks /\ task \in [Tasks -> TaskSet] /\ orphan \in Tracks
        /\ Fits(task[Arm].status) /\ "deleting" \in Pcs /\ orphan \in TrackOrNone
        /\ "delete" \in Kinds
    BY <1>0 DEF Typed, Tasks, Pcs, TrackOrNone, Kinds
  <2>2. /\ index \in Nat /\ index = Len(task[Arm].status.list) /\ index # 0
        /\ Behind(task[Arm].status) = orphan
    BY <2>1, BehindIs DEF RemovesOrphan
  <2>3. task' = [task EXCEPT ![Arm].pc = "deleting", ![Arm].req = req] /\ orphan' = None
    BY DEF RemovesOrphan
  <2> HIDE DEF index
  <2>4. req \in Reqs /\ req.kind = "delete" /\ req.item = orphan /\ req.index = index
    BY <2>1, <2>2, ReqIs
  <2> HIDE DEF req
  <2>5. task' \in [Tasks -> TaskSet]
    BY <2>1, <2>3, <2>4 DEF TaskSet
  <2>6. ArmTurns("deleting", req, task[Arm].status, task[Arm].item, task[Arm].old,
                 task[Arm].stale)
    BY <2>1, <2>3, <2>4 DEF ArmTurns, TaskSet, Tasks, Loop, Command, Arm
  <2>7. 1 <= index /\ Len(lms.list) \in Nat
    BY <1>0, <2>2 DEF Typed, Fits, Players
  <2>8. QED
    BY <2>1, <2>2, <2>3, <2>4, <2>5, <2>6, <2>7
<1>2. Undisturbed' => Undisturbed
  BY DEF Undisturbed
<1>3. Typed'
  BY <1>0, <1>1, <1>2, AtRest DEF Typed, Tasks, TrackOrNone, ArmTurns
<1>4. Shaped'
  BY <1>0, <1>1, <1>2, AtRest DEF Shaped, Asks, Tasks, ArmTurns
<1>5. Kept'
  BY <1>0, <1>1, <1>2, AtRest DEF Kept, Held, Answered, ArmTurns
<1>6. OneNext'
  BY <1>0, <1>1, <1>2, AtRest DEF OneNext, ArmTurns
<1>7. NotItself'
  BY <1>0, <1>1, <1>2, AtRest DEF NotItself, Answered, ArmTurns
<1>8. OrphanRead'
  BY <1>0, <1>1, <1>2, AtRest DEF OrphanRead, Answered, ArmTurns
<1>9. Believed'
  BY <1>0, <1>1, <1>2, AtRest DEF Believed, ArmTurns
<1>10. Sees'
  BY <1>0, <1>1, <1>2, AtRest DEF Sees, ArmTurns
<1>11. Undisturbed' => NotTwice'
  BY <1>0, <1>1, <1>2, AtRest DEF NotTwice, ArmTurns
<1>12. Undisturbed' => Modes'
  BY <1>0, <1>1, <1>2, AtRest DEF Modes, HoldsStatus, Answered, ArmTurns
<1>13. Undisturbed' => Shown'
  BY <1>0, <1>1, <1>2, AtRest DEF Shown, Active, ArmTurns
<1>14. Undisturbed' => Removing'
  BY <1>0, <1>1, <1>2, AtRest DEF Removing, Answered, ArmTurns
<1>15. Undisturbed' => Known'
  BY <1>0, <1>1, <1>2, AtRest DEF Known, Claimed, Started, Active, Answered, ArmTurns, Shaped,
    Asks
<1>16. QED
  BY <1>3, <1>4, <1>5, <1>6, <1>7, <1>8, <1>9, <1>10, <1>11, <1>12, <1>13, <1>14, <1>15 DEF
    LmsInv, Always, Cleanly

\* The player clears the armed next track.
LEMMA ClearNextTrackKeeps ==
  ASSUME LmsInv, ClearNextTrack
  PROVE  LmsInv'
<1>0. /\ Typed /\ Shaped /\ Kept /\ OneNext /\ NotItself /\ OrphanRead /\ Believed /\ Sees
      /\ Undisturbed => NotTwice /\ Modes /\ Shown /\ Removing /\ Known
  BY DEF LmsInv, Always, Cleanly
<1>1. /\ task[Arm].pc = "idle" /\ task' \in [Tasks -> TaskSet]
      /\ player' \in Beliefs /\ player'.track = player.track /\ player'.mode = player.mode
      /\ player'.armed = None /\ nxt' = None
      /\ \/ nxt = None /\ task' = task
         \/ /\ nxt \in Tracks
            /\ ArmTurns("clearing", Status, task[Arm].status, task[Arm].item, nxt, task[Arm].stale)
      /\ used' \in [DOMAIN Bound -> Nat] /\ used'.failures = used.failures
      /\ UNCHANGED <<lms, current, orphan, grace, state, seen, given>>
  <2>1. nxt # None => nxt \in Tracks /\ "clearing" \in Pcs
    BY <1>0 DEF Typed, TrackOrNone, Pcs
  <2>2. nxt # None => /\ task' \in [Tasks -> TaskSet]
                      /\ ArmTurns("clearing", Status, task[Arm].status, task[Arm].item, nxt,
                                  task[Arm].stale)
    BY <1>0, <2>1, ArmClearsIs DEF ClearNextTrack
  <2>3. used' \in [DOMAIN Bound -> Nat] /\ used'.failures = used.failures
    BY <1>0, SpendIs DEF ClearNextTrack
  <2>4. QED
    BY <1>0, <2>1, <2>2, <2>3 DEF ClearNextTrack, Typed, Beliefs, TrackOrNone
<1>2. Undisturbed' => Undisturbed
  BY <1>1 DEF Undisturbed
<1>3. Typed'
  BY <1>0, <1>1, <1>2, AtRest DEF Typed, Tasks, TrackOrNone, ArmTurns
<1>4. Shaped'
  BY <1>0, <1>1, <1>2, AtRest DEF Shaped, Asks, Tasks, ArmTurns
<1>5. Kept'
  BY <1>0, <1>1, <1>2, AtRest DEF Kept, Held, Answered, ArmTurns
<1>6. OneNext'
  BY <1>0, <1>1, <1>2, AtRest, LmsAssumption DEF OneNext, ArmTurns
<1>7. NotItself'
  BY <1>0, <1>1, <1>2, AtRest DEF NotItself, Answered, ArmTurns
<1>8. OrphanRead'
  BY <1>0, <1>1, <1>2, AtRest DEF OrphanRead, Answered, ArmTurns
<1>9. Believed'
  BY <1>0, <1>1, <1>2, AtRest DEF Believed, ArmTurns
<1>10. Sees'
  BY <1>0, <1>1, <1>2, AtRest DEF Sees, ArmTurns
<1>11. Undisturbed' => NotTwice'
  BY <1>0, <1>1, <1>2, AtRest DEF NotTwice, ArmTurns
<1>12. Undisturbed' => Modes'
  BY <1>0, <1>1, <1>2, AtRest DEF Modes, HoldsStatus, Answered, ArmTurns
<1>13. Undisturbed' => Shown'
  BY <1>0, <1>1, <1>2, AtRest DEF Shown, Active, ArmTurns
<1>14. Undisturbed' => Removing'
  BY <1>0, <1>1, <1>2, AtRest DEF Removing, Answered, ArmTurns
<1>15. Undisturbed' => Known'
  BY <1>0, <1>1, <1>2, AtRest DEF Known, Claimed, Started, Active, Answered, ArmTurns, Shaped,
    Asks
<1>16. QED
  BY <1>3, <1>4, <1>5, <1>6, <1>7, <1>8, <1>9, <1>10, <1>11, <1>12, <1>13, <1>14, <1>15 DEF
    LmsInv, Always, Cleanly

\* A next track is cleared, found playing, or remembered as an orphan.
LEMMA ClearEndsKeeps ==
  ASSUME LmsInv, ClearEnds
  PROVE  LmsInv'
<1>0. /\ Typed /\ Shaped /\ Kept /\ OneNext /\ NotItself /\ OrphanRead /\ Believed /\ Sees
      /\ Undisturbed => NotTwice /\ Modes /\ Shown /\ Removing /\ Known
  BY DEF LmsInv, Always, Cleanly
<1>1. /\ task[Arm].pc = "clearing" /\ ~Waiting(Arm) /\ task' \in [Tasks -> TaskSet] /\ Undone
      /\ Clears("idle", NoReq, None, None, FALSE) /\ seen' = FALSE
      /\ given' \in Flags
      /\ given' = [given EXCEPT !.slipped =
                       @ \/ (Answered(Arm) /\ Url(task[Arm].status) = task[Arm].old)]
      /\ UNCHANGED <<lms, nxt, grace, state, player, used>>
  <2>1. task[Arm].pc = "clearing" /\ ~Waiting(Arm) /\ Undone
    BY <1>0, ClearedIs DEF ClearEnds
  <2>2. /\ Arm \in Tasks /\ Loop \in Tasks /\ Arm # Loop /\ task \in [Tasks -> TaskSet]
        /\ None \in TrackOrNone
        /\ task' = [task EXCEPT ![Arm] = IdleTask,
                                ![Loop].old = IF orphan' = orphan THEN @ ELSE None]
    BY <1>0 DEF ClearEnds, Typed, Tasks, TrackOrNone, Loop, Command, Arm
  <2>3. task' \in [Tasks -> TaskSet]
    BY <2>2, AtRest DEF TaskSet
  <2>4. Clears("idle", NoReq, None, None, FALSE)
    BY <2>2, AtRest DEF Clears, TaskSet, Tasks, Loop, Command, Arm
  <2>5. given' \in Flags
    BY <1>0 DEF ClearEnds, Slipped, Typed, Flags
  <2>6. QED
    BY <2>1, <2>3, <2>4, <2>5 DEF ClearEnds, Slipped
<1>2. Undisturbed' => Undisturbed /\ Answered(Arm) /\ Url(task[Arm].status) # task[Arm].old
  BY <1>0, <1>1 DEF Undisturbed, Typed, Flags, Shaped, Tasks, Undone, Failed, Answered
<1>3. Typed'
  BY <1>0, <1>1, <1>2, AtRest DEF Typed, Tasks, TrackOrNone, Clears, Failed, Undone
<1>4. Shaped'
  BY <1>0, <1>1, <1>2, AtRest DEF Shaped, Asks, Tasks, Clears, Undone
<1>5. Kept'
  BY <1>0, <1>1, <1>2, AtRest DEF Kept, Held, Answered, Clears, Undone
<1>6. OneNext'
  BY <1>0, <1>1, <1>2, AtRest DEF OneNext, Clears, Undone
<1>7. NotItself'
  BY <1>0, <1>1, <1>2, AtRest DEF NotItself, Answered, Clears, Undone
<1>8. OrphanRead'
  BY <1>0, <1>1, <1>2, AtRest, LmsAssumption DEF OrphanRead, Answered, Clears, Undone
<1>9. Believed'
  BY <1>0, <1>1, <1>2, AtRest, LmsAssumption DEF Believed, Clears, Undone
<1>10. Sees'
  BY <1>0, <1>1, <1>2, AtRest DEF Sees, Clears, Undone
<1>11. Undisturbed' => NotTwice'
  BY <1>0, <1>1, <1>2, AtRest, LmsAssumption DEF NotTwice, Clears, Kept, Held, Undone
<1>12. Undisturbed' => Modes'
  BY <1>0, <1>1, <1>2, AtRest DEF Modes, HoldsStatus, Answered, Clears, Undone
<1>13. Undisturbed' => Shown'
  BY <1>0, <1>1, <1>2, AtRest DEF Shown, Active, Clears, Undone
<1>14. Undisturbed' => Removing'
  BY <1>0, <1>1, <1>2, AtRest, LmsAssumption DEF Removing, Answered, Clears, Undone
<1>15. Undisturbed' => Known'
  BY <1>0, <1>1, <1>2, AtRest, LmsAssumption DEF Known, Claimed, Started, Active, Answered,
    Clears, Kept, Held, Undone
<1>16. QED
  BY <1>3, <1>4, <1>5, <1>6, <1>7, <1>8, <1>9, <1>10, <1>11, <1>12, <1>13, <1>14, <1>15 DEF
    LmsInv, Always, Cleanly

\* The replaced next track is cleared, found playing, or remembered as an orphan.
LEMMA ReplaceGoesOnKeeps ==
  ASSUME LmsInv, ReplaceGoesOn
  PROVE  LmsInv'
<1>0. /\ Typed /\ Shaped /\ Kept /\ OneNext /\ NotItself /\ OrphanRead /\ Believed /\ Sees
      /\ Undisturbed => NotTwice /\ Modes /\ Shown /\ Removing /\ Known
  BY DEF LmsInv, Always, Cleanly
<1>1. /\ task[Arm].pc = "replacing" /\ ~Waiting(Arm) /\ task' \in [Tasks -> TaskSet] /\ Undone
      /\ Clears(IF orphan' # None THEN "removing" ELSE "rereading", Status, task[Arm].item,
                task[Arm].old, task[Arm].stale)
      /\ seen' = FALSE /\ given' \in Flags
      /\ given' = [given EXCEPT !.slipped =
                       @ \/ (Answered(Arm) /\ Url(task[Arm].status) = task[Arm].old)]
      /\ UNCHANGED <<lms, nxt, grace, state, player, used>>
  <2> DEFINE pc == IF orphan' # None THEN "removing" ELSE "rereading"
  <2>1. task[Arm].pc = "replacing" /\ ~Waiting(Arm) /\ Undone
    BY <1>0, ClearedIs DEF ReplaceGoesOn
  <2>2. /\ Arm \in Tasks /\ Loop \in Tasks /\ Arm # Loop /\ task \in [Tasks -> TaskSet]
        /\ None \in TrackOrNone /\ pc \in Pcs
        /\ task' = [task EXCEPT ![Arm].pc = pc, ![Arm].req = Status, ![Arm].status = Silent,
                                ![Loop].old = IF orphan' = orphan THEN @ ELSE None]
    BY <1>0 DEF ReplaceGoesOn, Typed, Tasks, TrackOrNone, Pcs, Loop, Command, Arm
  <2> HIDE DEF pc
  <2>3. task' \in [Tasks -> TaskSet]
    BY <2>2, AtRest DEF TaskSet
  <2>4. Clears(pc, Status, task[Arm].item, task[Arm].old, task[Arm].stale)
    BY <2>2, AtRest DEF Clears, TaskSet, Tasks, Loop, Command, Arm
  <2>5. given' \in Flags
    BY <1>0 DEF ReplaceGoesOn, Slipped, Typed, Flags
  <2>6. QED
    BY <2>1, <2>3, <2>4, <2>5 DEF ReplaceGoesOn, Slipped, pc
<1>2. Undisturbed' => Undisturbed /\ Answered(Arm) /\ Url(task[Arm].status) # task[Arm].old
  BY <1>0, <1>1 DEF Undisturbed, Typed, Flags, Shaped, Tasks, Undone, Failed, Answered
<1>3. Typed'
  BY <1>0, <1>1, <1>2, AtRest DEF Typed, Tasks, TrackOrNone, Clears, Failed, Undone
<1>4. Shaped'
  BY <1>0, <1>1, <1>2, AtRest DEF Shaped, Asks, Tasks, Clears, Undone
<1>5. Kept'
  BY <1>0, <1>1, <1>2, AtRest DEF Kept, Held, Answered, Clears, Undone
<1>6. OneNext'
  BY <1>0, <1>1, <1>2, AtRest DEF OneNext, Clears, Undone
<1>7. NotItself'
  BY <1>0, <1>1, <1>2, AtRest DEF NotItself, Answered, Clears, Undone
<1>8. OrphanRead'
  BY <1>0, <1>1, <1>2, AtRest, LmsAssumption DEF OrphanRead, Answered, Clears, Undone
<1>9. Believed'
  BY <1>0, <1>1, <1>2, AtRest, LmsAssumption DEF Believed, Clears, Undone
<1>10. Sees'
  BY <1>0, <1>1, <1>2, AtRest DEF Sees, Clears, Undone
<1>11. Undisturbed' => NotTwice'
  BY <1>0, <1>1, <1>2, AtRest, LmsAssumption DEF NotTwice, Clears, Kept, Held, Undone
<1>12. Undisturbed' => Modes'
  BY <1>0, <1>1, <1>2, AtRest DEF Modes, HoldsStatus, Answered, Clears, Undone
<1>13. Undisturbed' => Shown'
  BY <1>0, <1>1, <1>2, AtRest DEF Shown, Active, Clears, Undone
<1>14. Undisturbed' => Removing'
  BY <1>0, <1>1, <1>2, AtRest, LmsAssumption DEF Removing, Answered, Clears, Undone
<1>15. Undisturbed' => Known'
  BY <1>0, <1>1, <1>2, AtRest, LmsAssumption DEF Known, Claimed, Started, Active, Answered,
    Clears, Kept, Held, Undone
<1>16. QED
  BY <1>3, <1>4, <1>5, <1>6, <1>7, <1>8, <1>9, <1>10, <1>11, <1>12, <1>13, <1>14, <1>15 DEF
    LmsInv, Always, Cleanly

\* The player after the request of a task.
After(t) == Effect(lms, task[t].req)

\* The server has served a request, or the request was lost before or after.
Served(t) ==
  /\ Waiting(t) /\ lms' \in {lms, After(t)}
  /\ UNCHANGED <<current, nxt, orphan, grace, state, player>>
  /\ seen' \in BOOLEAN /\ (seen' => seen /\ lms' = lms)
  /\ given' \in Flags /\ used' \in [DOMAIN Bound -> Nat]
  /\ used' = used \/ used'.failures # 0
  /\ task' \in [Tasks -> TaskSet]
  /\ task'[t].pc = task[t].pc /\ task'[t].item = task[t].item /\ task'[t].old = task[t].old
  /\ task'[t].stale = task[t].stale
  /\ \/ /\ task'[t].req.kind = "answered" /\ lms' = After(t)
     \/ task'[t].req.kind = "failed" /\ used'.failures # 0
  /\ task'[t].status = IF task[t].req # Status THEN task[t].status
                       ELSE IF task'[t].req.kind = "answered" THEN lms' ELSE Silent
  /\ task'[t].req.kind \notin {"status", "delete", "play", "add"}
  /\ t # Loop => task'[Loop] = task[Loop]
  /\ t # Command => task'[Command] = task[Command]
  /\ t # Arm => task'[Arm] = task[Arm]
  /\ Undisturbed' => /\ Undisturbed /\ task'[t].req.kind = "answered"
                     /\ lms' = After(t) /\ ~Missed(t)

\* What a served and what a lost request leave.
LEMMA ServedIs ==
  ASSUME Typed, NEW t \in Tasks, Serve(t) \/ TimeOut(t)
  PROVE  Served(t)
<1>1. ASSUME NEW kind \in {"answered", "failed"}, NEW l, task' = Reply(t, kind, l),
             task[t].req = Status => l \in Players
      PROVE  /\ task' \in [Tasks -> TaskSet]
             /\ task'[t].pc = task[t].pc /\ task'[t].item = task[t].item
             /\ task'[t].old = task[t].old /\ task'[t].stale = task[t].stale
             /\ task'[t].req.kind = kind
             /\ task'[t].status = IF task[t].req # Status THEN task[t].status ELSE l
             /\ \A s \in Tasks : s # t => task'[s] = task[s]
  <2> DEFINE req == [NoReq EXCEPT !.kind = kind]
             status == IF task[t].req = Status THEN l ELSE task[t].status
  <2>1. req \in Reqs /\ req.kind = kind
    BY DEF NoReq, Reqs, Kinds, TrackOrNone
  <2>2. task \in [Tasks -> TaskSet] /\ status \in Players
    BY <1>1 DEF Typed, TaskSet
  <2>3. task' = [task EXCEPT ![t].req = req, ![t].status = status]
    BY <1>1, <2>2 DEF Reply, TaskSet
  <2> HIDE DEF req
  <2>4. task' \in [Tasks -> TaskSet]
    <3> HIDE DEF status
    <3>1. QED
      BY <2>1, <2>2, <2>3 DEF TaskSet
  <2>5. QED
    BY <2>1, <2>2, <2>3, <2>4 DEF TaskSet
<1>2. /\ used \in [DOMAIN Bound -> Nat] /\ given \in Flags /\ seen \in BOOLEAN
      /\ Fits(lms) /\ lms \in Players /\ "failures" \in DOMAIN Bound
  BY DEF Typed, Bound, Fits
<1>3. Status.kind = "status" /\ Effect(lms, Status) = lms
  BY AtRest DEF Effect
<1>4. CASE Serve(t)
  <2>1. task[t].req = Status => lms' \in Players
    BY <1>2, <1>3, <1>4 DEF Serve
  <2>2. task' = Reply(t, "answered", lms')
    BY <1>4 DEF Serve
  <2>3. given' = [given EXCEPT !.missed = @ \/ Missed(t)] /\ given' \in Flags
    BY <1>2, <1>4 DEF Serve, Flags, Missed
  <2>4. Undisturbed' => Undisturbed /\ ~Missed(t)
    BY <1>2, <1>4, <2>3 DEF Serve, Undisturbed, Flags
  <2>5. QED
    BY <1>1, <1>2, <1>4, <2>1, <2>2, <2>3, <2>4
       DEF Served, After, Serve, backendVars, Tasks, Loop, Command, Arm
<1>5. CASE TimeOut(t)
  <2>1. used' \in [DOMAIN Bound -> Nat] /\ used'.failures # 0
    BY <1>5, SpendIs DEF TimeOut
  <2>2. task' = Reply(t, "failed", Silent)
    BY <1>5 DEF TimeOut
  <2>3. ~Undisturbed'
    BY <2>1 DEF Undisturbed
  <2>4. QED
    BY <1>1, <1>2, <1>5, <2>1, <2>2, <2>3, AtRest
       DEF Served, After, TimeOut, backendVars, Tasks, Loop, Command, Arm
<1>6. QED
  BY <1>4, <1>5

\* The state loop's status arrives or is lost.
LEMMA LoopReadsServedKeeps ==
  ASSUME LmsInv, Served(Loop), task[Loop].req.kind = "status"
  PROVE  LmsInv'
<1>0. /\ Typed /\ Shaped /\ Kept /\ OneNext /\ NotItself /\ OrphanRead /\ Believed /\ Sees
      /\ Undisturbed => NotTwice /\ Modes /\ Shown /\ Removing /\ Known
  BY DEF LmsInv, Always, Cleanly
<1>1. /\ Served(Loop) /\ task[Loop].pc = "reading" /\ task[Loop].req = Status
      /\ lms' = lms /\ After(Loop) = lms
  <2>1. Loop \in Tasks /\ task[Loop] \in TaskSet /\ task[Loop].req \in Reqs
    BY <1>0 DEF Typed, Tasks, TaskSet
  <2>2. QED
    BY <1>0, <2>1, Plays DEF Served, After, Typed, Shaped, Asks
<1>2. Undisturbed' => Undisturbed
  BY <1>1 DEF Served
<1>3. task'[Command] = task[Command] /\ task'[Arm] = task[Arm]
  BY <1>1 DEF Served, Loop, Command, Arm
<1>4. Typed'
  BY <1>0, <1>1, <1>2, <1>3, AtRest DEF Typed, Tasks, TrackOrNone, Served
<1>5. Shaped'
  BY <1>0, <1>1, <1>2, <1>3, AtRest DEF Shaped, Asks, Tasks, Served
<1>6. Kept'
  BY <1>0, <1>1, <1>2, <1>3, AtRest DEF Kept, Held, Answered, Served
<1>7. OneNext'
  BY <1>0, <1>1, <1>2, <1>3, AtRest DEF OneNext, Served
<1>8. NotItself'
  BY <1>0, <1>1, <1>2, <1>3, AtRest DEF NotItself, Answered, Served
<1>9. OrphanRead'
  BY <1>0, <1>1, <1>2, <1>3, AtRest DEF OrphanRead, Answered, Served
<1>10. Believed'
  BY <1>0, <1>1, <1>2, <1>3, AtRest DEF Believed, Served
<1>11. Sees'
  BY <1>0, <1>1, <1>2, <1>3, AtRest DEF Sees, Served
<1>12. Undisturbed' => NotTwice'
  BY <1>0, <1>1, <1>2, <1>3, AtRest DEF NotTwice, Served
<1>13. Undisturbed' => Modes'
  BY <1>0, <1>1, <1>2, <1>3, AtRest DEF Modes, HoldsStatus, Answered, Served
<1>14. Undisturbed' => Shown'
  BY <1>0, <1>1, <1>2, <1>3, AtRest DEF Shown, Active, Served
<1>15. Undisturbed' => Removing'
  BY <1>0, <1>1, <1>2, <1>3, AtRest DEF Removing, Answered, Served
<1>16. Undisturbed' => Known'
  BY <1>0, <1>1, <1>2, <1>3, AtRest DEF Known, Claimed, Started, Active, Answered, Served
<1>17. QED
  BY <1>4, <1>5, <1>6, <1>7, <1>8, <1>9, <1>10, <1>11, <1>12, <1>13, <1>14, <1>15, <1>16 DEF
    LmsInv, Always, Cleanly

\* A status arrives, or is lost, before a resume or a stop.
LEMMA CommandReadsServedKeeps ==
  ASSUME LmsInv, Served(Command), task[Command].req.kind = "status"
  PROVE  LmsInv'
<1>0. /\ Typed /\ Shaped /\ Kept /\ OneNext /\ NotItself /\ OrphanRead /\ Believed /\ Sees
      /\ Undisturbed => NotTwice /\ Modes /\ Shown /\ Removing /\ Known
  BY DEF LmsInv, Always, Cleanly
<1>1. /\ Served(Command) /\ task[Command].pc \in {"resuming", "stopping"}
      /\ task[Command].req = Status
      /\ lms' = lms /\ After(Command) = lms
  <2>1. Command \in Tasks /\ task[Command] \in TaskSet /\ task[Command].req \in Reqs
    BY <1>0 DEF Typed, Tasks, TaskSet
  <2>2. QED
    BY <1>0, <2>1, Plays DEF Served, After, Typed, Shaped, Asks
<1>2. Undisturbed' => Undisturbed
  BY <1>1 DEF Served
<1>3. task'[Loop] = task[Loop] /\ task'[Arm] = task[Arm]
  BY <1>1 DEF Served, Loop, Command, Arm
<1>4. Typed'
  BY <1>0, <1>1, <1>2, <1>3, AtRest DEF Typed, Tasks, TrackOrNone, Served
<1>5. Shaped'
  BY <1>0, <1>1, <1>2, <1>3, AtRest DEF Shaped, Asks, Tasks, Served
<1>6. Kept'
  BY <1>0, <1>1, <1>2, <1>3, AtRest DEF Kept, Held, Answered, Served
<1>7. OneNext'
  BY <1>0, <1>1, <1>2, <1>3, AtRest DEF OneNext, Served
<1>8. NotItself'
  BY <1>0, <1>1, <1>2, <1>3, AtRest DEF NotItself, Answered, Served
<1>9. OrphanRead'
  BY <1>0, <1>1, <1>2, <1>3, AtRest DEF OrphanRead, Answered, Served
<1>10. Believed'
  BY <1>0, <1>1, <1>2, <1>3, AtRest DEF Believed, Served
<1>11. Sees'
  BY <1>0, <1>1, <1>2, <1>3, AtRest DEF Sees, Served
<1>12. Undisturbed' => NotTwice'
  BY <1>0, <1>1, <1>2, <1>3, AtRest DEF NotTwice, Served
<1>13. Undisturbed' => Modes'
  BY <1>0, <1>1, <1>2, <1>3, AtRest DEF Modes, HoldsStatus, Answered, Served
<1>14. Undisturbed' => Shown'
  BY <1>0, <1>1, <1>2, <1>3, AtRest DEF Shown, Active, Served
<1>15. Undisturbed' => Removing'
  BY <1>0, <1>1, <1>2, <1>3, AtRest DEF Removing, Answered, Served
<1>16. Undisturbed' => Known'
  BY <1>0, <1>1, <1>2, <1>3, AtRest DEF Known, Claimed, Started, Active, Answered, Served
<1>17. QED
  BY <1>4, <1>5, <1>6, <1>7, <1>8, <1>9, <1>10, <1>11, <1>12, <1>13, <1>14, <1>15, <1>16 DEF
    LmsInv, Always, Cleanly

\* A status for the arming arrives or is lost.
LEMMA ArmReadsServedKeeps ==
  ASSUME LmsInv, Served(Arm), task[Arm].req.kind = "status"
  PROVE  LmsInv'
<1>0. /\ Typed /\ Shaped /\ Kept /\ OneNext /\ NotItself /\ OrphanRead /\ Believed /\ Sees
      /\ Undisturbed => NotTwice /\ Modes /\ Shown /\ Removing /\ Known
  BY DEF LmsInv, Always, Cleanly
<1>1. /\ Served(Arm)
      /\ task[Arm].pc \in {"setting", "replacing", "removing", "rereading", "clearing"}
      /\ task[Arm].req = Status
      /\ lms' = lms /\ After(Arm) = lms
  <2>1. Arm \in Tasks /\ task[Arm] \in TaskSet /\ task[Arm].req \in Reqs
    BY <1>0 DEF Typed, Tasks, TaskSet
  <2>2. QED
    BY <1>0, <2>1, Plays DEF Served, After, Typed, Shaped, Asks
<1>2. Undisturbed' => Undisturbed
  BY <1>1 DEF Served
<1>3. task'[Loop] = task[Loop] /\ task'[Command] = task[Command]
  BY <1>1 DEF Served, Loop, Command, Arm
<1>4. Typed'
  BY <1>0, <1>1, <1>2, <1>3, AtRest DEF Typed, Tasks, TrackOrNone, Served
<1>5. Shaped'
  BY <1>0, <1>1, <1>2, <1>3, AtRest DEF Shaped, Asks, Tasks, Served
<1>6. Kept'
  BY <1>0, <1>1, <1>2, <1>3, AtRest DEF Kept, Held, Answered, Served
<1>7. OneNext'
  BY <1>0, <1>1, <1>2, <1>3, AtRest DEF OneNext, Served
<1>8. NotItself'
  BY <1>0, <1>1, <1>2, <1>3, AtRest DEF NotItself, Answered, Served
<1>9. OrphanRead'
  BY <1>0, <1>1, <1>2, <1>3, AtRest DEF OrphanRead, Answered, Served
<1>10. Believed'
  BY <1>0, <1>1, <1>2, <1>3, AtRest DEF Believed, Served
<1>11. Sees'
  BY <1>0, <1>1, <1>2, <1>3, AtRest DEF Sees, Served
<1>12. Undisturbed' => NotTwice'
  BY <1>0, <1>1, <1>2, <1>3, AtRest DEF NotTwice, Served
<1>13. Undisturbed' => Modes'
  BY <1>0, <1>1, <1>2, <1>3, AtRest DEF Modes, HoldsStatus, Answered, Served
<1>14. Undisturbed' => Shown'
  BY <1>0, <1>1, <1>2, <1>3, AtRest DEF Shown, Active, Served
<1>15. Undisturbed' => Removing'
  BY <1>0, <1>1, <1>2, <1>3, AtRest DEF Removing, Answered, Served
<1>16. Undisturbed' => Known'
  BY <1>0, <1>1, <1>2, <1>3, AtRest DEF Known, Claimed, Started, Active, Answered, Served
<1>17. QED
  BY <1>4, <1>5, <1>6, <1>7, <1>8, <1>9, <1>10, <1>11, <1>12, <1>13, <1>14, <1>15, <1>16 DEF
    LmsInv, Always, Cleanly

\* The playlist is replaced, or the play is lost.
LEMMA PlayServedKeeps ==
  ASSUME LmsInv, Served(Command), task[Command].req.kind = "play"
  PROVE  LmsInv'
<1>0. /\ Typed /\ Shaped /\ Kept /\ OneNext /\ NotItself /\ OrphanRead /\ Believed /\ Sees
      /\ Undisturbed => NotTwice /\ Modes /\ Shown /\ Removing /\ Known
  BY DEF LmsInv, Always, Cleanly
<1>1. /\ Served(Command) /\ task[Command].pc = "playing"
      /\ task[Command].req.item = task[Command].item /\ task[Command].item \in Tracks
      /\ Fits(lms) /\ Fits(After(Command))
      /\ After(Command).mode = "play" /\ Behind(After(Command)) = None
      /\ Url(After(Command)) = task[Command].item /\ Len(After(Command).list) <= 1
  <2>1. Command \in Tasks /\ task[Command] \in TaskSet /\ task[Command].req \in Reqs
    BY <1>0 DEF Typed, Tasks, TaskSet
  <2>2. /\ Fits(lms) /\ task[Command].pc = "playing"
        /\ task[Command].req.item = task[Command].item /\ task[Command].item \in Tracks
    BY <1>0 DEF Typed, Shaped, Asks
  <2>3. QED
    BY <1>0, <2>1, <2>2, Plays DEF Served, After, Typed, Shaped, Asks
<1>2. Undisturbed' => Undisturbed
  BY <1>1 DEF Served
<1>3. task'[Loop] = task[Loop] /\ task'[Arm] = task[Arm]
  BY <1>1 DEF Served, Loop, Command, Arm
<1>4. Typed'
  BY <1>0, <1>1, <1>2, <1>3, AtRest DEF Typed, Tasks, TrackOrNone, Served
<1>5. Shaped'
  BY <1>0, <1>1, <1>2, <1>3, AtRest DEF Shaped, Asks, Tasks, Served
<1>6. Kept'
  BY <1>0, <1>1, <1>2, <1>3, AtRest, LmsAssumption DEF Kept, Held, Answered, Shaped, Typed, Tasks,
    TaskSet, Reqs, Served
<1>7. OneNext'
  BY <1>0, <1>1, <1>2, <1>3, AtRest DEF OneNext, Served
<1>8. NotItself'
  BY <1>0, <1>1, <1>2, <1>3, AtRest, LmsAssumption DEF NotItself, Answered, Shaped, Believed,
    Asks, Served
<1>9. OrphanRead'
  BY <1>0, <1>1, <1>2, <1>3, AtRest DEF OrphanRead, Answered, Served
<1>10. Believed'
  BY <1>0, <1>1, <1>2, <1>3, AtRest DEF Believed, Served
<1>11. Sees'
  BY <1>0, <1>1, <1>2, <1>3, AtRest DEF Sees, Served
<1>12. Undisturbed' => NotTwice'
  BY <1>0, <1>1, <1>2, <1>3, AtRest DEF NotTwice, Served
<1>13. Undisturbed' => Modes'
  BY <1>0, <1>1, <1>2, <1>3, AtRest DEF Modes, HoldsStatus, Answered, Served
<1>14. Undisturbed' => Shown'
  BY <1>0, <1>1, <1>2, <1>3, AtRest DEF Shown, Active, Served
<1>15. Undisturbed' => Removing'
  BY <1>0, <1>1, <1>2, <1>3, AtRest DEF Removing, Answered, Served
<1>16. Undisturbed' => Known'
  BY <1>0, <1>1, <1>2, <1>3, AtRest DEF Known, Claimed, Started, Active, Answered, Served
<1>17. QED
  BY <1>4, <1>5, <1>6, <1>7, <1>8, <1>9, <1>10, <1>11, <1>12, <1>13, <1>14, <1>15, <1>16 DEF
    LmsInv, Always, Cleanly

\* The player is stopped, or the request is lost.
LEMMA StopServedKeeps ==
  ASSUME LmsInv, Served(Command), task[Command].req.kind = "stop"
  PROVE  LmsInv'
<1>0. /\ Typed /\ Shaped /\ Kept /\ OneNext /\ NotItself /\ OrphanRead /\ Believed /\ Sees
      /\ Undisturbed => NotTwice /\ Modes /\ Shown /\ Removing /\ Known
  BY DEF LmsInv, Always, Cleanly
<1>1. /\ Served(Command) /\ task[Command].pc = "stopped"
      /\ Fits(lms) /\ Fits(After(Command))
      /\ Behind(After(Command)) = Behind(lms) /\ Url(After(Command)) = Url(lms)
      /\ After(Command).list = lms.list
      /\ After(Command).mode = "stop"
  <2>1. Command \in Tasks /\ task[Command] \in TaskSet /\ task[Command].req \in Reqs
    BY <1>0 DEF Typed, Tasks, TaskSet
  <2>2. Fits(lms) /\ task[Command].pc = "stopped"
    BY <1>0 DEF Typed, Shaped, Asks
  <2>3. QED
    BY <1>0, <2>1, <2>2, Plays DEF Served, After, Typed, Shaped, Asks
<1>2. Undisturbed' => Undisturbed
  BY <1>1 DEF Served
<1>3. task'[Loop] = task[Loop] /\ task'[Arm] = task[Arm]
  BY <1>1 DEF Served, Loop, Command, Arm
<1>4. Typed'
  BY <1>0, <1>1, <1>2, <1>3, AtRest DEF Typed, Tasks, TrackOrNone, Served
<1>5. Shaped'
  BY <1>0, <1>1, <1>2, <1>3, AtRest DEF Shaped, Asks, Tasks, Served
<1>6. Kept'
  BY <1>0, <1>1, <1>2, <1>3, AtRest DEF Kept, Held, Answered, Served
<1>7. OneNext'
  BY <1>0, <1>1, <1>2, <1>3, AtRest DEF OneNext, Served
<1>8. NotItself'
  BY <1>0, <1>1, <1>2, <1>3, AtRest DEF NotItself, Answered, Served
<1>9. OrphanRead'
  BY <1>0, <1>1, <1>2, <1>3, AtRest DEF OrphanRead, Answered, Served
<1>10. Believed'
  BY <1>0, <1>1, <1>2, <1>3, AtRest DEF Believed, Served
<1>11. Sees'
  BY <1>0, <1>1, <1>2, <1>3, AtRest DEF Sees, Served
<1>12. Undisturbed' => NotTwice'
  BY <1>0, <1>1, <1>2, <1>3, AtRest DEF NotTwice, Served
<1>13. Undisturbed' => Modes'
  BY <1>0, <1>1, <1>2, <1>3, AtRest DEF Modes, HoldsStatus, Answered, Served
<1>14. Undisturbed' => Shown'
  BY <1>0, <1>1, <1>2, <1>3, AtRest DEF Shown, Active, Served
<1>15. Undisturbed' => Removing'
  BY <1>0, <1>1, <1>2, <1>3, AtRest DEF Removing, Answered, Served
<1>16. Undisturbed' => Known'
  BY <1>0, <1>1, <1>2, <1>3, AtRest DEF Known, Claimed, Started, Active, Answered, Served
<1>17. QED
  BY <1>4, <1>5, <1>6, <1>7, <1>8, <1>9, <1>10, <1>11, <1>12, <1>13, <1>14, <1>15, <1>16 DEF
    LmsInv, Always, Cleanly

\* The player is paused, or the request is lost.
LEMMA PauseServedKeeps ==
  ASSUME LmsInv, Served(Command), task[Command].req.kind = "pause"
  PROVE  LmsInv'
<1>0. /\ Typed /\ Shaped /\ Kept /\ OneNext /\ NotItself /\ OrphanRead /\ Believed /\ Sees
      /\ Undisturbed => NotTwice /\ Modes /\ Shown /\ Removing /\ Known
  BY DEF LmsInv, Always, Cleanly
<1>1. /\ Served(Command) /\ task[Command].pc = "pausing"
      /\ Fits(lms) /\ Fits(After(Command))
      /\ Behind(After(Command)) = Behind(lms) /\ Url(After(Command)) = Url(lms)
      /\ After(Command).list = lms.list
      /\ After(Command).mode = "stop" \/ lms.mode # "stop"
  <2>1. Command \in Tasks /\ task[Command] \in TaskSet /\ task[Command].req \in Reqs
    BY <1>0 DEF Typed, Tasks, TaskSet
  <2>2. Fits(lms) /\ task[Command].pc = "pausing"
    BY <1>0 DEF Typed, Shaped, Asks
  <2>3. QED
    BY <1>0, <2>1, <2>2, Plays DEF Served, After, Typed, Shaped, Asks
<1>2. Undisturbed' => Undisturbed
  BY <1>1 DEF Served
<1>3. task'[Loop] = task[Loop] /\ task'[Arm] = task[Arm]
  BY <1>1 DEF Served, Loop, Command, Arm
<1>4. Typed'
  BY <1>0, <1>1, <1>2, <1>3, AtRest DEF Typed, Tasks, TrackOrNone, Served
<1>5. Shaped'
  BY <1>0, <1>1, <1>2, <1>3, AtRest DEF Shaped, Asks, Tasks, Served
<1>6. Kept'
  BY <1>0, <1>1, <1>2, <1>3, AtRest DEF Kept, Held, Answered, Served
<1>7. OneNext'
  BY <1>0, <1>1, <1>2, <1>3, AtRest DEF OneNext, Served
<1>8. NotItself'
  BY <1>0, <1>1, <1>2, <1>3, AtRest DEF NotItself, Answered, Served
<1>9. OrphanRead'
  BY <1>0, <1>1, <1>2, <1>3, AtRest DEF OrphanRead, Answered, Served
<1>10. Believed'
  BY <1>0, <1>1, <1>2, <1>3, AtRest DEF Believed, Served
<1>11. Sees'
  BY <1>0, <1>1, <1>2, <1>3, AtRest DEF Sees, Served
<1>12. Undisturbed' => NotTwice'
  BY <1>0, <1>1, <1>2, <1>3, AtRest DEF NotTwice, Served
<1>13. Undisturbed' => Modes'
  BY <1>0, <1>1, <1>2, <1>3, AtRest DEF Modes, HoldsStatus, Answered, Served
<1>14. Undisturbed' => Shown'
  BY <1>0, <1>1, <1>2, <1>3, AtRest DEF Shown, Active, Served
<1>15. Undisturbed' => Removing'
  BY <1>0, <1>1, <1>2, <1>3, AtRest DEF Removing, Answered, Served
<1>16. Undisturbed' => Known'
  BY <1>0, <1>1, <1>2, <1>3, AtRest DEF Known, Claimed, Started, Active, Answered, Served
<1>17. QED
  BY <1>4, <1>5, <1>6, <1>7, <1>8, <1>9, <1>10, <1>11, <1>12, <1>13, <1>14, <1>15, <1>16 DEF
    LmsInv, Always, Cleanly

\* The player is unpaused, or the request is lost.
LEMMA UnpauseServedKeeps ==
  ASSUME LmsInv, Served(Command), task[Command].req.kind = "unpause"
  PROVE  LmsInv'
<1>0. /\ Typed /\ Shaped /\ Kept /\ OneNext /\ NotItself /\ OrphanRead /\ Believed /\ Sees
      /\ Undisturbed => NotTwice /\ Modes /\ Shown /\ Removing /\ Known
  BY DEF LmsInv, Always, Cleanly
<1>1. /\ Served(Command) /\ task[Command].pc = "unpausing"
      /\ Fits(lms) /\ Fits(After(Command))
      /\ Behind(After(Command)) = Behind(lms) /\ Url(After(Command)) = Url(lms)
      /\ After(Command).list = lms.list
      /\ After(Command).mode # "pause"
      /\ After(Command).mode = "stop" \/ lms.mode # "stop"
  <2>1. Command \in Tasks /\ task[Command] \in TaskSet /\ task[Command].req \in Reqs
    BY <1>0 DEF Typed, Tasks, TaskSet
  <2>2. Fits(lms) /\ task[Command].pc = "unpausing"
    BY <1>0 DEF Typed, Shaped, Asks
  <2>3. QED
    BY <1>0, <2>1, <2>2, Plays DEF Served, After, Typed, Shaped, Asks
<1>2. Undisturbed' => Undisturbed
  BY <1>1 DEF Served
<1>3. task'[Loop] = task[Loop] /\ task'[Arm] = task[Arm]
  BY <1>1 DEF Served, Loop, Command, Arm
<1>4. Typed'
  BY <1>0, <1>1, <1>2, <1>3, AtRest DEF Typed, Tasks, TrackOrNone, Served
<1>5. Shaped'
  BY <1>0, <1>1, <1>2, <1>3, AtRest DEF Shaped, Asks, Tasks, Served
<1>6. Kept'
  BY <1>0, <1>1, <1>2, <1>3, AtRest DEF Kept, Held, Answered, Served
<1>7. OneNext'
  BY <1>0, <1>1, <1>2, <1>3, AtRest DEF OneNext, Served
<1>8. NotItself'
  BY <1>0, <1>1, <1>2, <1>3, AtRest DEF NotItself, Answered, Served
<1>9. OrphanRead'
  BY <1>0, <1>1, <1>2, <1>3, AtRest DEF OrphanRead, Answered, Served
<1>10. Believed'
  BY <1>0, <1>1, <1>2, <1>3, AtRest DEF Believed, Served
<1>11. Sees'
  BY <1>0, <1>1, <1>2, <1>3, AtRest DEF Sees, Served
<1>12. Undisturbed' => NotTwice'
  BY <1>0, <1>1, <1>2, <1>3, AtRest DEF NotTwice, Served
<1>13. Undisturbed' => Modes'
  BY <1>0, <1>1, <1>2, <1>3, AtRest DEF Modes, HoldsStatus, Answered, Served
<1>14. Undisturbed' => Shown'
  BY <1>0, <1>1, <1>2, <1>3, AtRest DEF Shown, Active, Served
<1>15. Undisturbed' => Removing'
  BY <1>0, <1>1, <1>2, <1>3, AtRest DEF Removing, Answered, Served
<1>16. Undisturbed' => Known'
  BY <1>0, <1>1, <1>2, <1>3, AtRest DEF Known, Claimed, Started, Active, Answered, Served
<1>17. QED
  BY <1>4, <1>5, <1>6, <1>7, <1>8, <1>9, <1>10, <1>11, <1>12, <1>13, <1>14, <1>15, <1>16 DEF
    LmsInv, Always, Cleanly

\* The next track is queued, or the request is lost.
LEMMA AddServedKeeps ==
  ASSUME LmsInv, Served(Arm), task[Arm].req.kind = "add"
  PROVE  LmsInv'
<1>0. /\ Typed /\ Shaped /\ Kept /\ OneNext /\ NotItself /\ OrphanRead /\ Believed /\ Sees
      /\ Undisturbed => NotTwice /\ Modes /\ Shown /\ Removing /\ Known
  BY DEF LmsInv, Always, Cleanly
<1>1. /\ Served(Arm) /\ task[Arm].pc = "adding" /\ task[Arm].req.item = task[Arm].item
      /\ task[Arm].item \in Tracks
      /\ Fits(lms) /\ Fits(After(Arm))
      /\ After(Arm).mode = lms.mode /\ Behind(After(Arm)) \in {None, task[Arm].item}
      /\ (Behind(After(Arm)) # None => Url(After(Arm)) = Url(lms))
      /\ Url(After(Arm)) \in {Url(lms), task[Arm].item} /\ Behind(lms) = None
  <2>1. Arm \in Tasks /\ task[Arm] \in TaskSet /\ task[Arm].req \in Reqs
    BY <1>0 DEF Typed, Tasks, TaskSet
  <2>2. /\ Fits(lms) /\ task[Arm].pc = "adding" /\ task[Arm].req.item = task[Arm].item
        /\ task[Arm].item \in Tracks
    BY <1>0 DEF Typed, Shaped, Asks
  <2>3. QED
    BY <1>0, <2>1, <2>2, AddsTo DEF Served, After, Typed, Shaped, Asks, Kept
<1>2. Undisturbed' => Undisturbed
  BY <1>1 DEF Served
<1>3. task'[Loop] = task[Loop] /\ task'[Command] = task[Command]
  BY <1>1 DEF Served, Loop, Command, Arm
<1>4. Typed'
  BY <1>0, <1>1, <1>2, <1>3, AtRest DEF Typed, Tasks, TrackOrNone, Served
<1>5. Shaped'
  BY <1>0, <1>1, <1>2, <1>3, AtRest DEF Shaped, Asks, Tasks, Served
<1>6. Kept'
  BY <1>0, <1>1, <1>2, <1>3, AtRest, LmsAssumption DEF Kept, Held, Answered, Served
<1>7. OneNext'
  BY <1>0, <1>1, <1>2, <1>3, AtRest DEF OneNext, Served
<1>8. NotItself'
  BY <1>0, <1>1, <1>2, <1>3, AtRest, LmsAssumption DEF NotItself, Answered, Served
<1>9. OrphanRead'
  BY <1>0, <1>1, <1>2, <1>3, AtRest DEF OrphanRead, Answered, OneNext, Served
<1>10. Believed'
  BY <1>0, <1>1, <1>2, <1>3, AtRest DEF Believed, Served
<1>11. Sees'
  BY <1>0, <1>1, <1>2, <1>3, AtRest DEF Sees, Served
<1>12. Undisturbed' => NotTwice'
  BY <1>0, <1>1, <1>2, <1>3, AtRest DEF NotTwice, OneNext, Served
<1>13. Undisturbed' => Modes'
  BY <1>0, <1>1, <1>2, <1>3, AtRest DEF Modes, HoldsStatus, Answered, Served
<1>14. Undisturbed' => Shown'
  BY <1>0, <1>1, <1>2, <1>3, AtRest DEF Shown, Active, Served
<1>15. Undisturbed' => Removing'
  BY <1>0, <1>1, <1>2, <1>3, AtRest DEF Removing, Answered, OneNext, Served
<1>16. Undisturbed' => Known'
  BY <1>0, <1>1, <1>2, <1>3, AtRest DEF Known, Claimed, Started, Active, Answered, Served
<1>17. QED
  BY <1>4, <1>5, <1>6, <1>7, <1>8, <1>9, <1>10, <1>11, <1>12, <1>13, <1>14, <1>15, <1>16 DEF
    LmsInv, Always, Cleanly

\* The arming's removal of an orphan is served or lost.
LEMMA ArmDeleteServedKeeps ==
  ASSUME LmsInv, Served(Arm), task[Arm].req.kind = "delete"
  PROVE  LmsInv'
<1>0. /\ Typed /\ Shaped /\ Kept /\ OneNext /\ NotItself /\ OrphanRead /\ Believed /\ Sees
      /\ Undisturbed => NotTwice /\ Modes /\ Shown /\ Removing /\ Known
  BY DEF LmsInv, Always, Cleanly
<1>1. /\ Served(Arm) /\ task[Arm].pc = "deleting"
      /\ Fits(lms) /\ Fits(After(Arm))
      /\ After(Arm).mode \in {lms.mode, "stop"}
      /\ Len(After(Arm).list) \in Nat /\ Len(lms.list) \in Nat
      /\ Len(After(Arm).list) <= Len(lms.list)
      /\ (Behind(After(Arm)) # None =>
            Behind(After(Arm)) = Behind(lms) /\ Url(After(Arm)) = Url(lms))
      /\ (After(Arm).mode # "stop" =>
            Url(After(Arm)) = Url(lms) \/ (Behind(lms) # None /\ Url(After(Arm)) = Behind(lms)))
      /\ (task[Arm].req.index = Len(lms.list) => Behind(After(Arm)) = None)
      /\ (task[Arm].req.index > Len(lms.list) => After(Arm) = lms)
      /\ task[Arm].req.index \in Nat
  <2>1. Arm \in Tasks /\ task[Arm] \in TaskSet /\ task[Arm].req \in Reqs
    BY <1>0 DEF Typed, Tasks, TaskSet
  <2>2. Fits(lms) /\ task[Arm].pc = "deleting"
    BY <1>0 DEF Typed, Shaped, Asks
  <2>3. /\ Fits(After(Arm)) /\ After(Arm).mode \in {lms.mode, "stop"}
        /\ Len(After(Arm).list) <= Len(lms.list)
        /\ (Behind(After(Arm)) # None =>
              Behind(After(Arm)) = Behind(lms) /\ Url(After(Arm)) = Url(lms))
        /\ (After(Arm).mode # "stop" =>
              \/ Url(After(Arm)) = Url(lms)
              \/ Behind(lms) # None /\ Url(After(Arm)) = Behind(lms))
        /\ (task[Arm].req.index = Len(lms.list) => Behind(After(Arm)) = None)
        /\ (task[Arm].req.index > Len(lms.list) => After(Arm) = lms)
    BY <2>1, <2>2, Deletes DEF After
  <2>4. task[Arm].req.index \in Nat /\ Len(After(Arm).list) \in Nat /\ Len(lms.list) \in Nat
    BY <2>1, <2>2, <2>3 DEF Reqs, Fits, Players
  <2>5. QED
    BY <2>2, <2>3, <2>4
<1>2. Undisturbed' => Undisturbed
  BY <1>1 DEF Served
<1>3. task'[Loop] = task[Loop] /\ task'[Command] = task[Command]
  BY <1>1 DEF Served, Loop, Command, Arm
<1>4. Typed'
  BY <1>0, <1>1, <1>2, <1>3, AtRest DEF Typed, Tasks, TrackOrNone, Served
<1>5. Shaped'
  BY <1>0, <1>1, <1>2, <1>3, AtRest DEF Shaped, Asks, Tasks, Served
<1>6. Kept'
  BY <1>0, <1>1, <1>2, <1>3, AtRest DEF Kept, Held, Answered, Reqs, Served
<1>7. OneNext'
  BY <1>0, <1>1, <1>2, <1>3, AtRest DEF OneNext, Served
<1>8. NotItself'
  BY <1>0, <1>1, <1>2, <1>3, AtRest DEF NotItself, Answered, Served
<1>9. OrphanRead'
  BY <1>0, <1>1, <1>2, <1>3, AtRest DEF OrphanRead, Answered, Kept, Served
<1>10. Believed'
  BY <1>0, <1>1, <1>2, <1>3, AtRest DEF Believed, Served
<1>11. Sees'
  BY <1>0, <1>1, <1>2, <1>3, AtRest DEF Sees, Served
<1>12. Undisturbed' => NotTwice'
  BY <1>0, <1>1, <1>2, <1>3, AtRest DEF NotTwice, Served
<1>13. Undisturbed' => Modes'
  BY <1>0, <1>1, <1>2, <1>3, AtRest DEF Modes, HoldsStatus, Answered, Served
<1>14. Undisturbed' => Shown'
  BY <1>0, <1>1, <1>2, <1>3, AtRest DEF Shown, Active, Served
<1>15. Undisturbed' => Removing'
  BY <1>0, <1>1, <1>2, <1>3, AtRest DEF Removing, Answered, Served
<1>16. Undisturbed' => Known'
  BY <1>0, <1>1, <1>2, <1>3, AtRest DEF Known, Claimed, Started, Active, Answered, Kept, Missed,
    After, Served
<1>17. QED
  BY <1>4, <1>5, <1>6, <1>7, <1>8, <1>9, <1>10, <1>11, <1>12, <1>13, <1>14, <1>15, <1>16 DEF
    LmsInv, Always, Cleanly

\* The state loop's removal of an item is served or lost.
LEMMA LoopDeleteServedKeeps ==
  ASSUME LmsInv, Served(Loop), task[Loop].req.kind = "delete"
  PROVE  LmsInv'
<1>0. /\ Typed /\ Shaped /\ Kept /\ OneNext /\ NotItself /\ OrphanRead /\ Believed /\ Sees
      /\ Undisturbed => NotTwice /\ Modes /\ Shown /\ Removing /\ Known
  BY DEF LmsInv, Always, Cleanly
<1>1. /\ Served(Loop) /\ task[Loop].pc \in {"dropping", "removing"}
      /\ Fits(lms) /\ Fits(After(Loop))
      /\ After(Loop).mode \in {lms.mode, "stop"}
      /\ Len(After(Loop).list) \in Nat /\ Len(lms.list) \in Nat
      /\ Len(After(Loop).list) <= Len(lms.list)
      /\ (Behind(After(Loop)) # None =>
            Behind(After(Loop)) = Behind(lms) /\ Url(After(Loop)) = Url(lms))
      /\ (After(Loop).mode # "stop" =>
            Url(After(Loop)) = Url(lms) \/ (Behind(lms) # None /\ Url(After(Loop)) = Behind(lms)))
      /\ (task[Loop].req.index = Len(lms.list) => Behind(After(Loop)) = None)
      /\ (task[Loop].req.index > Len(lms.list) => After(Loop) = lms)
      /\ task[Loop].req.index \in Nat
  <2>1. Loop \in Tasks /\ task[Loop] \in TaskSet /\ task[Loop].req \in Reqs
    BY <1>0 DEF Typed, Tasks, TaskSet
  <2>2. Fits(lms) /\ task[Loop].pc \in {"dropping", "removing"}
    BY <1>0 DEF Typed, Shaped, Asks
  <2>3. /\ Fits(After(Loop)) /\ After(Loop).mode \in {lms.mode, "stop"}
        /\ Len(After(Loop).list) <= Len(lms.list)
        /\ (Behind(After(Loop)) # None =>
              Behind(After(Loop)) = Behind(lms) /\ Url(After(Loop)) = Url(lms))
        /\ (After(Loop).mode # "stop" =>
              \/ Url(After(Loop)) = Url(lms)
              \/ Behind(lms) # None /\ Url(After(Loop)) = Behind(lms))
        /\ (task[Loop].req.index = Len(lms.list) => Behind(After(Loop)) = None)
        /\ (task[Loop].req.index > Len(lms.list) => After(Loop) = lms)
    BY <2>1, <2>2, Deletes DEF After
  <2>4. task[Loop].req.index \in Nat /\ Len(After(Loop).list) \in Nat /\ Len(lms.list) \in Nat
    BY <2>1, <2>2, <2>3 DEF Reqs, Fits, Players
  <2>5. QED
    BY <2>2, <2>3, <2>4
<1>2. Undisturbed' => Undisturbed
  BY <1>1 DEF Served
<1>3. task'[Command] = task[Command] /\ task'[Arm] = task[Arm]
  BY <1>1 DEF Served, Loop, Command, Arm
<1>4. Typed'
  BY <1>0, <1>1, <1>2, <1>3, AtRest DEF Typed, Tasks, TrackOrNone, Served
<1>5. Shaped'
  BY <1>0, <1>1, <1>2, <1>3, AtRest DEF Shaped, Asks, Tasks, Served
<1>6. Kept'
  BY <1>0, <1>1, <1>2, <1>3, AtRest DEF Kept, Held, Answered, Served
<1>7. OneNext'
  BY <1>0, <1>1, <1>2, <1>3, AtRest DEF OneNext, Served
<1>8. NotItself'
  BY <1>0, <1>1, <1>2, <1>3, AtRest DEF NotItself, Answered, Kept, Held, Served
<1>9. OrphanRead'
  BY <1>0, <1>1, <1>2, <1>3, AtRest DEF OrphanRead, Answered, Served
<1>10. Believed'
  BY <1>0, <1>1, <1>2, <1>3, AtRest DEF Believed, Served
<1>11. Sees'
  BY <1>0, <1>1, <1>2, <1>3, AtRest DEF Sees, Served
<1>12. Undisturbed' => NotTwice'
  BY <1>0, <1>1, <1>2, <1>3, AtRest DEF NotTwice, Served
<1>13. Undisturbed' => Modes'
  BY <1>0, <1>1, <1>2, <1>3, AtRest DEF Modes, HoldsStatus, Answered, Served
<1>14. Undisturbed' => Shown'
  BY <1>0, <1>1, <1>2, <1>3, AtRest DEF Shown, Active, Served
<1>15. Undisturbed' => Removing'
  BY <1>0, <1>1, <1>2, <1>3, AtRest DEF Removing, Answered, Served
<1>16. Undisturbed' => Known'
  BY <1>0, <1>1, <1>2, <1>3, AtRest DEF Known, Claimed, Started, Active, Answered, Served
<1>17. QED
  BY <1>4, <1>5, <1>6, <1>7, <1>8, <1>9, <1>10, <1>11, <1>12, <1>13, <1>14, <1>15, <1>16 DEF
    LmsInv, Always, Cleanly

\* The playing item ends: the one behind it plays, or the music stops.
LEMMA AdvanceKeeps ==
  ASSUME LmsInv, Advance
  PROVE  LmsInv'
<1>0. /\ Typed /\ Shaped /\ Kept /\ OneNext /\ NotItself /\ OrphanRead /\ Believed /\ Sees
      /\ Undisturbed => NotTwice /\ Modes /\ Shown /\ Removing /\ Known
  BY DEF LmsInv, Always, Cleanly
<1>1. /\ lms.mode = "play" /\ Fits(lms') /\ Behind(lms') = None /\ Len(lms'.list) = Len(lms.list)
      /\ \/ Behind(lms) # None /\ Url(lms') = Behind(lms) /\ lms'.mode = "play"
         \/ Behind(lms) = None /\ Url(lms') = Url(lms) /\ lms'.mode = "stop"
      /\ seen' = FALSE /\ used' \in [DOMAIN Bound -> Nat] /\ used'.failures = used.failures
      /\ UNCHANGED <<current, nxt, orphan, grace, state, task, player, given>>
  <2>1. /\ Fits(lms) /\ lms.list \in Seq(Items) /\ lms.cur \in Nat /\ Len(lms.list) \in Nat
        /\ lms.cur <= Len(lms.list) /\ Len(lms.list) <= lms.cur + 1
        /\ lms = [list |-> lms.list, cur |-> lms.cur, mode |-> lms.mode]
        /\ None \notin Items
    BY <1>0, LmsAssumption DEF Typed, Fits, Players, Items
  <2>2. used' \in [DOMAIN Bound -> Nat] /\ used'.failures = used.failures
    BY <1>0, SpendIs DEF Advance
  <2>3. CASE lms.cur < Len(lms.list)
    <3>1. PICK m : m = [list |-> lms.list, cur |-> lms.cur + 1, mode |-> "play"] /\ lms' = m
      BY <2>1, <2>3 DEF Advance
    <3>2. Fits(m) /\ Behind(m) = None /\ Url(m) = Behind(lms)
      BY <2>1, <2>3, <3>1 DEF Fits, Players, Behind, Url
    <3>3. Behind(lms) # None
      BY <2>1, <2>3 DEF Behind
    <3>4. QED
      BY <2>2, <3>1, <3>2, <3>3 DEF Advance, backendVars
  <2>4. CASE ~(lms.cur < Len(lms.list))
    <3>1. PICK m : m = [list |-> lms.list, cur |-> lms.cur, mode |-> "stop"] /\ lms' = m
      BY <2>1, <2>4 DEF Advance
    <3>2. Fits(m) /\ Behind(m) = None /\ Url(m) = Url(lms)
      BY <2>1, <2>4, <3>1 DEF Fits, Players, Behind, Url
    <3>3. Behind(lms) = None
      BY <2>4 DEF Behind
    <3>4. QED
      BY <2>2, <3>1, <3>2, <3>3 DEF Advance, backendVars
  <2>5. QED
    BY <2>3, <2>4
<1>2. Undisturbed' => Undisturbed
  BY <1>1 DEF Undisturbed
<1>3. Typed'
  BY <1>0, <1>1, <1>2, AtRest DEF Typed, Tasks, TrackOrNone
<1>4. Shaped'
  BY <1>0, <1>1, <1>2, AtRest DEF Shaped, Asks, Tasks
<1>5. Kept'
  BY <1>0, <1>1, <1>2, AtRest, LmsAssumption DEF Kept, Held, Answered, Shaped
<1>6. OneNext'
  BY <1>0, <1>1, <1>2, AtRest DEF OneNext
<1>7. NotItself'
  BY <1>0, <1>1, <1>2, AtRest, LmsAssumption DEF NotItself, Answered, Kept, Held, Shaped
<1>8. OrphanRead'
  BY <1>0, <1>1, <1>2, AtRest DEF OrphanRead, Answered
<1>9. Believed'
  BY <1>0, <1>1, <1>2, AtRest DEF Believed
<1>10. Sees'
  BY <1>0, <1>1, <1>2, AtRest DEF Sees
<1>11. Undisturbed' => NotTwice'
  BY <1>0, <1>1, <1>2, AtRest DEF NotTwice
<1>12. Undisturbed' => Modes'
  BY <1>0, <1>1, <1>2, AtRest DEF Modes, HoldsStatus, Answered
<1>13. Undisturbed' => Shown'
  BY <1>0, <1>1, <1>2, AtRest DEF Shown, Active
<1>14. Undisturbed' => Removing'
  BY <1>0, <1>1, <1>2, AtRest DEF Removing, Answered
<1>15. Undisturbed' => Known'
  BY <1>0, <1>1, <1>2, AtRest, LmsAssumption DEF Known, Claimed, Started, Active, Answered, Typed,
    TrackOrNone
<1>16. QED
  BY <1>3, <1>4, <1>5, <1>6, <1>7, <1>8, <1>9, <1>10, <1>11, <1>12, <1>13, <1>14, <1>15 DEF
    LmsInv, Always, Cleanly

\* Another controller takes over the player.
LEMMA ForeignPlaysKeeps ==
  ASSUME LmsInv, ForeignPlays
  PROVE  LmsInv'
<1>0. /\ Typed /\ Shaped /\ Kept /\ OneNext /\ NotItself /\ OrphanRead /\ Believed /\ Sees
      /\ Undisturbed => NotTwice /\ Modes /\ Shown /\ Removing /\ Known
  BY DEF LmsInv, Always, Cleanly
<1>1. /\ Fits(lms') /\ Behind(lms') = None /\ Url(lms') = Foreign /\ lms'.mode = "play"
      /\ Len(lms'.list) <= 1 /\ Len(lms'.list) \in Nat /\ seen' = FALSE
      /\ used' \in [DOMAIN Bound -> Nat] /\ used'.failures = used.failures
      /\ UNCHANGED <<current, nxt, orphan, grace, state, task, player, given>>
  <2>1. PICK m : m = [list |-> <<Foreign>>, cur |-> 1, mode |-> "play"] /\ lms' = m
    BY DEF ForeignPlays
  <2>2. <<Foreign>> \in Seq(Items) /\ Len(<<Foreign>>) = 1 /\ <<Foreign>>[1] = Foreign
    BY DEF Items
  <2>3. Fits(m) /\ Behind(m) = None /\ Url(m) = Foreign /\ m.mode = "play" /\ Len(m.list) <= 1
    BY <2>1, <2>2 DEF Fits, Players, Behind, Url
  <2>4. Len(m.list) \in Nat
    BY <2>3 DEF Fits, Players
  <2>5. used' \in [DOMAIN Bound -> Nat] /\ used'.failures = used.failures
    BY <1>0, SpendIs DEF ForeignPlays
  <2>6. QED
    BY <2>1, <2>3, <2>4, <2>5 DEF ForeignPlays, backendVars
<1>2. Undisturbed' => Undisturbed
  BY <1>1 DEF Undisturbed
<1>3. Typed'
  BY <1>0, <1>1, <1>2, AtRest DEF Typed, Tasks, TrackOrNone
<1>4. Shaped'
  BY <1>0, <1>1, <1>2, AtRest DEF Shaped, Asks, Tasks
<1>5. Kept'
  BY <1>0, <1>1, <1>2, AtRest, LmsAssumption DEF Kept, Held, Answered, Shaped, Typed, Tasks,
    TaskSet, Reqs
<1>6. OneNext'
  BY <1>0, <1>1, <1>2, AtRest DEF OneNext
<1>7. NotItself'
  BY <1>0, <1>1, <1>2, AtRest, LmsAssumption DEF NotItself, Answered, Shaped
<1>8. OrphanRead'
  BY <1>0, <1>1, <1>2, AtRest DEF OrphanRead, Answered
<1>9. Believed'
  BY <1>0, <1>1, <1>2, AtRest DEF Believed
<1>10. Sees'
  BY <1>0, <1>1, <1>2, AtRest DEF Sees
<1>11. Undisturbed' => NotTwice'
  BY <1>0, <1>1, <1>2, AtRest DEF NotTwice
<1>12. Undisturbed' => Modes'
  BY <1>0, <1>1, <1>2, AtRest DEF Modes, HoldsStatus, Answered
<1>13. Undisturbed' => Shown'
  BY <1>0, <1>1, <1>2, AtRest DEF Shown, Active
<1>14. Undisturbed' => Removing'
  BY <1>0, <1>1, <1>2, AtRest, LmsAssumption DEF Removing, Answered, Typed, TrackOrNone
<1>15. Undisturbed' => Known'
  BY <1>0, <1>1, <1>2, AtRest DEF Known, Claimed, Started, Active, Answered
<1>16. QED
  BY <1>3, <1>4, <1>5, <1>6, <1>7, <1>8, <1>9, <1>10, <1>11, <1>12, <1>13, <1>14, <1>15 DEF
    LmsInv, Always, Cleanly

\* Whatever the server is asked, it leaves the invariant.
LEMMA ServerKeeps ==
  ASSUME LmsInv, NEW t \in Tasks, Serve(t) \/ TimeOut(t)
  PROVE  LmsInv'
<1>1. Served(t) /\ Waiting(t) /\ Shaped
  BY ServedIs DEF LmsInv, Served
<1>2. CASE t = Loop
  <2>1. task[Loop].req.kind \in {"status", "delete"}
    BY <1>1, <1>2 DEF Shaped, Asks, Waiting
  <2>2. QED
    BY <1>1, <1>2, <2>1, LoopReadsServedKeeps, LoopDeleteServedKeeps
<1>3. CASE t = Command
  <2>1. task[Command].req.kind \in {"status", "play", "pause", "unpause", "stop"}
    BY <1>1, <1>3 DEF Shaped, Asks, Waiting
  <2>2. QED
    BY <1>1, <1>3, <2>1, CommandReadsServedKeeps, PlayServedKeeps, PauseServedKeeps,
       UnpauseServedKeeps, StopServedKeeps
<1>4. CASE t = Arm
  <2>1. task[Arm].req.kind \in {"status", "delete", "add"}
    BY <1>1, <1>4 DEF Shaped, Asks, Waiting
  <2>2. QED
    BY <1>1, <1>4, <2>1, ArmReadsServedKeeps, ArmDeleteServedKeeps, AddServedKeeps
<1>5. QED
  BY <1>2, <1>3, <1>4 DEF Tasks

\* The state loop acts on a status in which the claimed track still plays.
LEMMA StillPlaysKeeps ==
  ASSUME LmsInv, Acting, StillPlays(task[Loop].status)
  PROVE  LmsInv'
<1> DEFINE s == task[Loop].status
<1>1. /\ Typed /\ OrphanRead /\ Steady(s) /\ task[Loop].pc = "reading" /\ Answered(Loop)
      /\ UNCHANGED <<lms, current, grace, used>>
  BY DEF LmsInv, Always, Acting, StillPlays
<1>2. HoldsStatus /\ ~Waiting(Loop) /\ Url(s) = current
  BY <1>1 DEF HoldsStatus, Waiting, Answered, Steady, Owns
<1>3. given' \in Flags /\ (Undisturbed' => Undisturbed /\ task[Command].pc = "idle")
  BY <1>1, ActingIs
<1>4. CASE UNCHANGED orphan /\ CompareState(s)
  BY <1>1, <1>2, <1>3, <1>4, CompareStateKeeps
<1>5. CASE Ripe /\ IndexOf(s, orphan) = 0 /\ orphan' = None /\ CompareState(s)
  <2>1. /\ orphan \in Tracks /\ orphan # None /\ Fits(s)
        /\ Undisturbed' => orphan = task[Loop].old
    BY <1>1, <1>5, ActingIs DEF Ripe, Unseen, Typed, Tasks, TrackOrNone
  <2>2. Behind(s) # orphan
    BY <1>5, <2>1, BehindIs
  <2>3. Undisturbed' => Behind(lms) # orphan
    BY <1>1, <2>1, <2>2 DEF OrphanRead
  <2>4. QED
    BY <1>1, <1>2, <1>3, <1>5, <2>3, CompareStateKeeps
<1>6. CASE Ripe /\ RemovesOrphan(Loop, s, "removing") /\ UNCHANGED <<nxt, state, player, seen>>
  BY <1>1, <1>6, RemovesKeeps
<1>7. QED
  BY <1>4, <1>5, <1>6 DEF StillPlays

\* The state loop acts on a status.
LEMMA LoopActsKeeps ==
  ASSUME LmsInv, LoopActs
  PROVE  LmsInv'
<1> DEFINE s == task[Loop].status
<1>1. Acting
  BY DEF LoopActs, Acting
<1>2. Release(s) \/ ReachedOrphan(s) \/ WaitsInGrace(s) \/ Transition(s) \/ StillPlays(s)
  BY DEF LoopActs
<1>3. QED
  BY <1>1, <1>2, ReleaseKeeps, ReachedOrphanKeeps, WaitsInGraceKeeps, TransitionKeeps,
     StillPlaysKeeps

\* The state loop has removed an orphan and ends its iteration.
LEMMA OrphanRemovedKeeps ==
  ASSUME LmsInv, OrphanRemoved
  PROVE  LmsInv'
<1>1. /\ task[Loop].pc = "removing" /\ ~Waiting(Loop) /\ HoldsStatus
      /\ CompareState(task[Loop].status)
      /\ UNCHANGED <<lms, current, orphan, grace, given, used>> /\ given \in Flags
  BY DEF OrphanRemoved, HoldsStatus, LmsInv, Typed
<1>2. Undisturbed' => Undisturbed
  BY <1>1 DEF Undisturbed
<1>3. QED
  BY <1>1, <1>2, CompareStateKeeps

\* The arming sees what plays and what waits.
LEMMA SetNextReadsKeeps ==
  ASSUME LmsInv, SetNextReads
  PROVE  LmsInv'
<1> DEFINE s == task[Arm].status
           t == task[Arm].item
<1>1. /\ task[Arm].pc = "setting" /\ Answered(Arm) /\ seen' = FALSE /\ SetNextSees(s, t)
      /\ UNCHANGED <<lms, current, grace, state, given, used>>
  BY DEF SetNextReads
<1>2. /\ Typed /\ Shaped /\ Kept /\ OneNext /\ (Undisturbed => NotTwice)
      /\ t \in Tracks /\ Fits(s) /\ Held
  BY <1>1 DEF LmsInv, Always, Cleanly, Shaped, Typed, Tasks, Held
<1>3. IndexOf(s, t) # 0 <=> Behind(s) = t
  BY <1>2, BehindIs
<1>4. CASE Url(s) # current /\ Rests(Arm) /\ UNCHANGED <<nxt, orphan, player>>
  BY <1>1, <1>4, ArmRestsKeeps
<1>5. CASE t = nxt /\ IndexOf(s, t) # 0 /\ Armed(t) /\ UNCHANGED orphan
  <2>1. nxt # None /\ orphan = None /\ orphan' = None /\ Behind(lms) \in {None, t}
    BY <1>2, <1>5, LmsAssumption DEF OneNext
  <2>2. Undisturbed /\ Behind(lms) = t /\ lms.mode # "stop" => Url(lms) # t
    BY <1>2, <1>5, <2>1 DEF NotTwice
  <2>3. QED
    BY <1>1, <1>5, <2>1, <2>2, ArmedKeeps
<1>6. CASE t # nxt /\ t = orphan /\ IndexOf(s, t) # 0 /\ Armed(t) /\ orphan' = None
  <2>1. orphan # None /\ nxt = None
    BY <1>2, <1>6, LmsAssumption DEF OneNext
  <2>2. Behind(lms) \in {None, t}
    BY <1>2, <1>3, <1>6 DEF Kept
  <2>3. Undisturbed /\ Behind(lms) = t => Url(lms) # t
    BY <1>2, <1>6, <2>1 DEF NotTwice
  <2>4. QED
    BY <1>1, <1>6, <2>1, <2>2, <2>3, ArmedKeeps
<1>7. CASE /\ nxt # None /\ nxt' = None /\ UNCHANGED <<orphan, player>>
           /\ task' = [task EXCEPT ![Arm].pc = "replacing", ![Arm].req = Status,
                                   ![Arm].old = nxt]
  BY <1>1, <1>7, ReplacesKeeps
<1>8. CASE /\ nxt = None /\ UNCHANGED <<nxt, orphan, player>> /\ orphan # None
           /\ Goes(Arm, "removing", Status)
  BY <1>1, <1>8, LooksForOrphanKeeps
<1>9. CASE nxt = None /\ UNCHANGED <<nxt, orphan, player>> /\ orphan = None /\ Adds(s)
  BY <1>1, <1>9, AddsKeeps
<1>10. QED
  BY <1>1, <1>4, <1>5, <1>6, <1>7, <1>8, <1>9 DEF SetNextSees

\* The arming sees again what plays and what waits.
LEMMA SetNextRereadsKeeps ==
  ASSUME LmsInv, SetNextRereads
  PROVE  LmsInv'
<1>1. /\ task[Arm].pc = "rereading" /\ Answered(Arm) /\ Adds(task[Arm].status)
      /\ UNCHANGED <<lms, current, nxt, orphan, grace, state, player, seen, given, used>>
  BY DEF SetNextRereads, backendVars
<1>2. nxt = None /\ orphan = None /\ seen \in BOOLEAN
  BY <1>1 DEF LmsInv, Always, OneNext, Typed
<1>3. QED
  BY <1>1, <1>2, AddsKeeps

\* The next track is queued.
LEMMA AddedKeeps ==
  ASSUME LmsInv, Added
  PROVE  LmsInv'
<1>1. /\ task[Arm].pc = "adding" /\ Answered(Arm) /\ Armed(task[Arm].item) /\ seen' = FALSE
      /\ UNCHANGED <<lms, current, orphan, grace, state, given, used>>
  BY DEF Added
<1>2. /\ nxt = None /\ orphan = None /\ Behind(lms) \in {None, task[Arm].item}
      /\ Behind(lms) = task[Arm].item /\ lms.mode # "stop" /\ ~task[Arm].stale =>
           Url(lms) # task[Arm].item
  BY <1>1 DEF LmsInv, Always, OneNext, Kept, NotItself
<1>3. QED
  BY <1>1, <1>2, ArmedKeeps

\* A request of the arming was lost.
LEMMA ArmFailsKeeps ==
  ASSUME LmsInv, ArmFails
  PROVE  LmsInv'
<1>1. /\ task[Arm].pc \in {"setting", "removing", "rereading", "adding"} /\ Failed(Arm)
      /\ Rests(Arm)
      /\ UNCHANGED <<lms, current, nxt, orphan, grace, state, player, seen, given, used>>
  BY DEF ArmFails, backendVars
<1>2. ~Answered(Arm) /\ seen \in BOOLEAN
  BY <1>1 DEF Failed, Answered, LmsInv, Typed
<1>3. QED
  BY <1>1, <1>2, ArmRestsKeeps

\* The arming removes the orphan, if its status still tells of one.
LEMMA RemoveOrphanKeeps ==
  ASSUME LmsInv, RemoveOrphan
  PROVE  LmsInv'
<1> DEFINE s == task[Arm].status
<1>1. /\ task[Arm].pc = "removing" /\ Answered(Arm)
      /\ UNCHANGED <<lms, current, nxt, grace, state, player, seen, given, used>>
  BY DEF RemoveOrphan
<1>2. CASE orphan # None /\ ~Reached(s) /\ IndexOf(s, orphan) # 0
  <2>1. RemovesOrphan(Arm, s, "deleting")
    BY <1>2 DEF RemoveOrphan
  <2>2. QED
    BY <1>1, <1>2, <2>1, DeletesOrphanKeeps
<1>3. CASE ~(orphan # None /\ ~Reached(s) /\ IndexOf(s, orphan) # 0)
  <2>1. orphan' = None /\ Goes(Arm, "rereading", Status)
    BY <1>3 DEF RemoveOrphan
  <2>2. ASSUME Behind(lms) = orphan, orphan # None
        PROVE  Url(lms) = orphan
    <3>1. Fits(s) /\ orphan \in Tracks /\ Kept /\ Held
      BY <1>1, <2>2 DEF LmsInv, Always, Typed, Tasks, TrackOrNone, Held
    <3>2. Behind(s) = orphan /\ Url(s) = Url(lms)
      BY <2>2, <3>1 DEF Kept
    <3>3. Reached(s)
      BY <1>3, <2>2, <3>1, <3>2, BehindIs
    <3>4. QED
      BY <3>2, <3>3 DEF Reached
  <2>3. QED
    BY <1>1, <2>1, <2>2, NoOrphanKeeps
<1>4. QED
  BY <1>2, <1>3

\* A silent player, and nothing on its way.
LEMMA LmsInitInv ==
  ASSUME Init
  PROVE  LmsInv
<1>1. /\ lms = Silent /\ current = None /\ nxt = None /\ orphan = None /\ grace = FALSE
      /\ state = "STOPPED" /\ seen = TRUE /\ player.armed = None /\ player.mode = "stopped"
      /\ player \in Beliefs /\ given \in Flags /\ used \in [DOMAIN Bound -> Nat]
  BY DEF Init, Beliefs, Flags, TrackOrNone
<1>2. /\ task \in [Tasks -> TaskSet] /\ task[Loop] = IdleTask /\ task[Command] = IdleTask
      /\ task[Arm] = IdleTask
  BY AtRest DEF Init, Tasks
<1>3. Typed
  BY <1>1, <1>2, AtRest DEF Typed, Tasks, TrackOrNone
<1>4. Shaped
  BY <1>1, <1>2, AtRest DEF Shaped, Asks, Tasks
<1>5. Kept /\ OneNext /\ NotItself /\ OrphanRead /\ Believed /\ Sees
  BY <1>1, <1>2, AtRest
     DEF Kept, Held, OneNext, NotItself, OrphanRead, Believed, Sees, Answered
<1>6. NotTwice /\ Modes /\ Shown /\ Removing /\ Known
  BY <1>1, <1>2, AtRest
     DEF NotTwice, Modes, HoldsStatus, Shown, Active, Removing, Known, Claimed, Started, Answered
<1>7. QED
  BY <1>3, <1>4, <1>5, <1>6 DEF LmsInv, Always, Cleanly

\* Every step keeps the invariant.
LEMMA LmsNextInv ==
  ASSUME LmsInv, [Next]_vars
  PROVE  LmsInv'
<1>1. CASE UNCHANGED vars
  <2>1. /\ LmsInv
        /\ UNCHANGED <<lms, current, nxt, orphan, grace, state, task, player, seen, given, used>>
    BY <1>1 DEF vars, backendVars
  <2>2. Typed' /\ Shaped'
    BY <2>1 DEF LmsInv, Typed, Shaped, Asks
  <2>3. Kept' /\ OneNext' /\ NotItself' /\ OrphanRead' /\ Believed' /\ Sees'
    BY <2>1 DEF LmsInv, Always, Kept, Held, OneNext, NotItself, OrphanRead, Believed, Sees,
                Answered
  <2>4. (Undisturbed' => Undisturbed)
    BY <2>1 DEF Undisturbed
  <2>5. Undisturbed' => NotTwice' /\ Modes' /\ Shown' /\ Removing' /\ Known'
    BY <2>1, <2>4 DEF LmsInv, Cleanly, NotTwice, Modes, HoldsStatus, Shown, Active, Removing,
                      Known, Claimed, Started, Answered
  <2>6. QED
    BY <2>2, <2>3, <2>5 DEF LmsInv, Always, Cleanly
<1>2. CASE Environment
  <2>1. DOMAIN task = Tasks
    BY DEF LmsInv, Typed
  <2>2. QED
    BY <1>2, <2>1, AdvanceKeeps, ForeignPlaysKeeps, ServerKeeps DEF Environment
<1>3. CASE StateLoop
  BY <1>3, LoopReadsKeeps, GraceEndsKeeps, LoopActsKeeps, LoopContinuesKeeps, OrphanRemovedKeeps
     DEF StateLoop
<1>4. CASE Commands
  BY <1>4, PlayKeeps, PauseKeeps, ResumeKeeps, StopKeeps, PlayEndsKeeps, PauseEndsKeeps,
     ResumeGoesOnKeeps, ResumeEndsKeeps, StopGoesOnKeeps, StopEndsKeeps
     DEF Commands
<1>5. CASE Arming
  BY <1>5, ArmStartsKeeps, SetNextTrackKeeps, SetNextReadsKeeps, ClearNextTrackKeeps,
     ClearEndsKeeps, ReplaceGoesOnKeeps, RemoveOrphanKeeps, OrphanDeletedKeeps,
     SetNextRereadsKeeps, AddedKeeps, ArmFailsKeeps
     DEF Arming
<1>6. QED
  BY <1>1, <1>2, <1>3, <1>4, <1>5 DEF Next

\* The invariant is one.
THEOREM LmsInvHolds == Spec => []LmsInv
<1>1. Init => LmsInv
  BY LmsInitInv
<1>2. LmsInv /\ [Next]_vars => LmsInv'
  BY LmsNextInv
<1>3. QED
  BY <1>1, <1>2, PTL DEF Spec

-----------------------------------------------------------------------------
(***************************************************************************)
(* What follows of it for a backend at rest.                               *)
(***************************************************************************)
\* When nothing is on its way, what is claimed plays, and what is armed waits for it.
LEMMA AtCalm ==
  ASSUME LmsInv, Calm
  PROVE  /\ Url(lms) = current /\ current # None
         /\ player.armed # None => player.armed = nxt
         /\ Undisturbed /\ player.mode = "playing" =>
              /\ player.track = current /\ lms.mode # "stop"
              /\ Behind(lms) \in {None, nxt, orphan}
<1>1. /\ seen /\ current # None /\ task[Loop].pc = "idle" /\ task[Command].pc = "idle"
      /\ task[Arm].pc = "idle" /\ Typed /\ Shaped /\ Sees /\ Believed
      /\ Undisturbed => Modes /\ Shown /\ Known
  BY DEF LmsInv, Always, Cleanly, Calm, Typed, Tasks
<1>2. Url(lms) = current
  BY <1>1 DEF Sees
<1>3. player.armed # None => player.armed = nxt
  BY <1>1 DEF Believed
<1>4. ASSUME Undisturbed, player.mode = "playing"
      PROVE  /\ player.track = current /\ lms.mode # "stop"
             /\ Behind(lms) \in {None, nxt, orphan}
  <2>1. player.track = current
    BY <1>1, <1>4 DEF Shown, Active
  <2>2. lms.mode # "stop"
    BY <1>1, <1>4 DEF Modes
  <2>3. task[Arm].req.kind = "none"
    BY <1>1 DEF Shaped, Asks
  <2>4. Behind(lms) \in {None, nxt, orphan}
    BY <1>1, <1>2, <1>4, <2>2, <2>3 DEF Known, Claimed, Started, Active
  <2>5. QED
    BY <2>1, <2>2, <2>4
<1>5. QED
  BY <1>1, <1>2, <1>3, <1>4

\* At most the last item waits behind the playing one.
LEMMA UpcomingIs ==
  ASSUME Typed
  PROVE  /\ Upcoming = {} \/ Upcoming = {Len(lms.list)}
         /\ \A i \in Upcoming : lms.list[i] = Behind(lms) /\ Behind(lms) # None
<1>1. /\ lms.list \in Seq(Items) /\ lms.cur \in Nat /\ Len(lms.list) \in Nat
      /\ lms.cur <= Len(lms.list) /\ Len(lms.list) <= lms.cur + 1
      /\ DOMAIN lms.list = 1 .. Len(lms.list) /\ Fits(lms)
  BY DEF Typed, Fits, Players
<1>2. \A i \in Upcoming : i = Len(lms.list) /\ i = lms.cur + 1 /\ lms.cur < Len(lms.list)
  BY <1>1 DEF Upcoming
<1>3. Upcoming = {} \/ Upcoming = {Len(lms.list)}
  BY <1>2
<1>4. \A i \in Upcoming : lms.list[i] = Behind(lms)
  BY <1>2 DEF Behind
<1>5. lms.cur < Len(lms.list) => Behind(lms) # None
  BY <1>1, BehindIs
<1>6. QED
  BY <1>2, <1>3, <1>4, <1>5

\* A backend that claims the player, at rest, sits on one that plays its track, whatever requests
\* were lost and whatever raced (_owns_player, the state loop).
THEOREM BackendStaysInCharge == Spec => []InCharge
<1>1. LmsInv => InCharge
  <2> SUFFICES ASSUME LmsInv PROVE InCharge
    OBVIOUS
  <2>1. Calm => Url(lms) = current
    BY AtCalm
  <2>2. Typed /\ Fits(lms) /\ \A t \in Tasks : Fits(task[t].status) /\ task[t] \in TaskSet
    BY DEF LmsInv, Typed
  <2>3. DOMAIN task = Tasks
    BY <2>2 DEF Typed
  <2>4. TypeOK
    BY <2>2, <2>3 DEF TypeOK, Typed, Fits, TaskSet, Reqs, TrackOrNone
  <2>5. QED
    BY <2>1, <2>4 DEF InCharge
<1>2. QED
  BY <1>1, LmsInvHolds, PTL

\* At most one track waits behind the playing one, and at rest the backend knows it
\* (set_next_track, clear_next_track, _remove_orphan).
THEOREM PlaylistStaysKnown == Spec => []PlaylistIsKnown
<1>1. LmsInv => PlaylistIsKnown
  <2> SUFFICES ASSUME LmsInv PROVE PlaylistIsKnown
    OBVIOUS
  <2>1. /\ Upcoming = {} \/ Upcoming = {Len(lms.list)}
        /\ \A i \in Upcoming : lms.list[i] = Behind(lms) /\ Behind(lms) # None
    BY UpcomingIs DEF LmsInv
  <2>2. QueuedOnce
    <3>1. Cardinality({}) = 0 /\ Cardinality({Len(lms.list)}) = 1
      BY FS_EmptySet, FS_Singleton
    <3>2. Cardinality(Upcoming) \in {0, 1}
      BY <2>1, <3>1
    <3>3. QED
      BY <3>2 DEF QueuedOnce
  <2>3. NothingUnwanted
    BY <2>1, AtCalm DEF NothingUnwanted
  <2>4. QED
    BY <2>2, <2>3 DEF PlaylistIsKnown
<1>2. QED
  BY <1>1, LmsInvHolds, PTL

\* At rest the player shows the track that is heard, and what it holds for armed is so
\* (_handle_transition, the notifications).
THEOREM PlayerStaysRight == Spec => []PlayerIsRight
<1>1. LmsInv => PlayerIsRight
  BY AtCalm DEF PlayerIsRight, BelievedIsHeard, BelievedArmed
<1>2. QED
  BY <1>1, LmsInvHolds, PTL

\* A player that thinks it plays has been told when the music stopped (_poll_state_loop).
THEOREM EndStaysTold == Spec => []EndIsTold
<1>1. LmsInv => EndIsTold
  BY AtCalm DEF EndIsTold
<1>2. QED
  BY <1>1, LmsInvHolds, PTL
=============================================================================
