----------------------------- MODULE QueueProofs -----------------------------
(***************************************************************************)
(* Proofs about Queue, for lists of any length: the item that was meant    *)
(* stays current, and the queue implements a play order of the list.       *)
(***************************************************************************)
EXTENDS Queue, FunctionTheorems, FiniteSetTheorems, TLAPS

Different(ts) == \A i, j \in DOMAIN ts : ts[i] = ts[j] => i = j

\* The items of ts in the order p.
Ordered(ts, p) == [i \in DOMAIN p |-> ts[p[i]]]

-----------------------------------------------------------------------------
(***************************************************************************)
(* Orders of a list.                                                       *)
(***************************************************************************)
\* An order of n tracks reaches every one of them.
LEMMA PermIsOnto ==
  ASSUME NEW n \in Nat, NEW p \in Perms(n), NEW v \in 1 .. n
  PROVE  \E i \in 1 .. n : p[i] = v
<1> DEFINE S == 1 .. n
<1>1. p \in [S -> S] /\ \A a, b \in S : p[a] = p[b] => a = b
  BY DEF Perms
<1>2. IsFiniteSet(S)
  BY FS_Interval
<1> HIDE DEF S
<1>3. p \in Injection(S, S)
  BY <1>1, Fun_IsInj
<1>4. p \in Surjection(S, S)
  BY <1>2, <1>3, FS_Injection
<1>5. \A t \in S : \E s \in S : p[s] = t
  BY <1>4, Fun_SurjectionProperties
<1>6. QED
  BY <1>5 DEF S

LEMMA PlaceIsFound ==
  ASSUME NEW ts \in Seq(Items), NEW p \in Perms(Len(ts)), NEW item \in ToSet(ts)
  PROVE  PlaceOf(item, ts, p) \in DOMAIN ts /\ ts[p[PlaceOf(item, ts, p)]] = item
<1>1. PICK v \in DOMAIN ts : ts[v] = item
  BY DEF ToSet
<1>2. Len(ts) \in Nat /\ DOMAIN ts = 1 .. Len(ts) /\ DOMAIN p = DOMAIN ts
  BY DEF Perms
<1>3. \E i \in 1 .. Len(ts) : p[i] = v
  <2>1. v \in 1 .. Len(ts)
    BY <1>1, <1>2
  <2>2. QED
    BY <1>2, <2>1, PermIsOnto
<1>4. PICK i \in DOMAIN p : p[i] = v
  BY <1>2, <1>3
<1>5. ts[p[i]] = item
  BY <1>1, <1>4
<1>6. QED
  BY <1>2, <1>5 DEF PlaceOf

LEMMA SwapIsPerm ==
  ASSUME NEW n \in Nat, NEW p \in Perms(n), NEW i \in 1 .. n, NEW j \in 1 .. n
  PROVE  Swap(p, i, j) \in Perms(n) /\ Swap(p, i, j)[i] = p[j]
BY DEF Swap, Perms

LEMMA ShuffledIsPerm ==
  ASSUME NEW ts \in Seq(Items), NEW p \in Perms(Len(ts)), NEW pivot, NEW at,
         ts # <<>> => at \in DOMAIN ts
  PROVE  /\ Shuffled(p, ts, at, pivot) \in Perms(Len(ts))
         /\ pivot \in ToSet(ts) => ts[Shuffled(p, ts, at, pivot)[at]] = pivot
<1>1. CASE pivot \notin ToSet(ts)
  BY <1>1 DEF Shuffled
<1>2. CASE pivot \in ToSet(ts)
  <2>1. Len(ts) \in Nat /\ DOMAIN ts = 1 .. Len(ts) /\ at \in DOMAIN ts
    BY <1>2 DEF ToSet
  <2>2. Min({at, Len(ts)}) = at
    BY <2>1 DEF Min
  <2> DEFINE q == PlaceOf(pivot, ts, p)
  <2>3. q \in DOMAIN ts /\ ts[p[q]] = pivot
    BY <1>2, PlaceIsFound
  <2>4. Shuffled(p, ts, at, pivot) = Swap(p, at, q)
    BY <1>2, <2>2 DEF Shuffled
  <2>5. at \in 1 .. Len(ts) /\ q \in 1 .. Len(ts)
    BY <2>1, <2>3
  <2> HIDE DEF q
  <2>6. Swap(p, at, q) \in Perms(Len(ts)) /\ Swap(p, at, q)[at] = p[q]
    BY <2>1, <2>5, SwapIsPerm
  <2>7. QED
    BY <2>3, <2>4, <2>6
<1>3. QED
  BY <1>1, <1>2

\* Different tracks in any order are an arrangement of the list, and of any other order of it.
LEMMA OrderedIsArrangement ==
  ASSUME NEW ts \in Seq(Items), Different(ts), NEW p \in Perms(Len(ts)), NEW q \in Perms(Len(ts))
  PROVE  /\ Ordered(ts, p) \in PO!Arrangements(ts)
         /\ Ordered(ts, p) \in PO!Arrangements(Ordered(ts, q))
<1>1. /\ Len(ts) \in Nat /\ DOMAIN ts = 1 .. Len(ts)
      /\ p \in [DOMAIN ts -> DOMAIN ts] /\ DOMAIN p = DOMAIN ts
      /\ q \in [DOMAIN ts -> DOMAIN ts] /\ DOMAIN q = DOMAIN ts
  <2>1. Len(ts) \in Nat /\ DOMAIN ts = 1 .. Len(ts)
    OBVIOUS
  <2>2. \A r \in Perms(Len(ts)) : r \in [1 .. Len(ts) -> 1 .. Len(ts)]
    BY DEF Perms
  <2>3. QED
    BY <2>1, <2>2
<1>2. \A i, j \in DOMAIN ts : Ordered(ts, p)[i] = Ordered(ts, p)[j] => i = j
  BY <1>1 DEF Ordered, Different, Perms
<1>3. Ordered(ts, p) \in [DOMAIN ts -> ToSet(ts)]
  BY <1>1 DEF Ordered, ToSet
<1>4. ToSet(ts) \subseteq ToSet(Ordered(ts, q))
  <2>1. SUFFICES ASSUME NEW v \in DOMAIN ts PROVE ts[v] \in ToSet(Ordered(ts, q))
    BY DEF ToSet
  <2>2. \E i \in 1 .. Len(ts) : q[i] = v
    <3>1. v \in 1 .. Len(ts)
      BY <1>1, <2>1
    <3>2. QED
      BY <1>1, <3>1, PermIsOnto
  <2>3. PICK i \in DOMAIN ts : q[i] = v
    BY <1>1, <2>2
  <2>4. Ordered(ts, q)[i] = ts[v] /\ i \in DOMAIN Ordered(ts, q)
    BY <1>1, <2>3 DEF Ordered
  <2>5. QED
    BY <2>4 DEF ToSet
<1>5. DOMAIN Ordered(ts, q) = DOMAIN ts
  BY <1>1 DEF Ordered
<1>6. QED
  BY <1>2, <1>3, <1>4, <1>5 DEF PO!Arrangements, PO!ToSet, ToSet

LEMMA IdentityIsPerm == ASSUME NEW n \in Nat PROVE Identity(n) \in Perms(n)
BY DEF Identity, Perms
-----------------------------------------------------------------------------
(***************************************************************************)
(* What a step may do to the listener's queue.  Next to its effect on the  *)
(* abstract queue it keeps the shape of the queue and what was meant.      *)
(***************************************************************************)
Shape ==
  /\ tracks \in Seq(Items) /\ Different(tracks) /\ order \in Perms(Len(tracks))
  /\ IF tracks = <<>> THEN cur = 0 ELSE cur \in DOMAIN tracks

Meant == meant \in Items \cup {NoItem} /\ (meant # NoItem => CurrentItem = meant)

Place == Shape /\ Meant

LEMMA ShapeFacts ==
  ASSUME Shape
  PROVE  /\ Len(tracks) \in Nat /\ DOMAIN tracks = 1 .. Len(tracks)
         /\ DOMAIN order = DOMAIN tracks /\ Len(order) = Len(tracks)
         /\ order \in [DOMAIN tracks -> DOMAIN tracks]
         /\ tracks # <<>> => CurrentItem = tracks[order[cur]] /\ CurrentItem \in Items
<1>1. /\ Len(tracks) \in Nat /\ DOMAIN tracks = 1 .. Len(tracks)
      /\ order \in [1 .. Len(tracks) -> 1 .. Len(tracks)]
  BY DEF Shape, Perms
<1>2. Len(order) = Len(tracks)
  BY <1>1
<1>3. QED
  BY <1>1, <1>2 DEF CurrentItem, ItemAt, Shape

\* The abstract queue takes a step, and a new one is one of the server's.
LEMMA LoadsPlace ==
  ASSUME Place, NEW s \in Lists \cup {<<>>}, NEW at, NEW pivot, NEW shuffles \in BOOLEAN,
         s # <<>> => at \in DOMAIN s, pivot \in ToSet(s) \cup {NoItem},
         ~shuffles /\ pivot # NoItem => pivot = s[at],
         used \in [load : 0 .. MaxLoads, op : 0 .. MaxOps, failure : 0 .. MaxFailures],
         Loads(s, at, pivot, shuffles)
  PROVE  Place' /\ PO!Load(s)
<1>1. s \in Seq(Items) /\ Different(s)
  <2>1. CASE s = <<>>
    BY <2>1 DEF Different
  <2>2. CASE s \in Lists
    BY <2>2, QueueAssumption DEF Different
  <2>3. QED
    BY <2>1, <2>2
<1>2. Len(s) \in Nat /\ DOMAIN s = 1 .. Len(s) /\ (s = <<>> <=> Len(s) = 0)
  BY <1>1
<1>3. tracks' = s /\ cur' = (IF s = <<>> THEN 0 ELSE at) /\ meant' = pivot
  BY DEF Loads
<1>4. order' \in Perms(Len(s)) /\ (pivot # NoItem => s[order'[at]] = pivot)
  <2>1. CASE shuffles
    <3>1. PICK p \in Perms(Len(s)) : order' = Shuffled(p, s, at, pivot)
      BY <2>1 DEF Loads
    <3>2. QED
      BY <1>1, <3>1, ShuffledIsPerm
  <2>2. CASE ~shuffles
    <3>1. order' = Identity(Len(s))
      BY <2>2 DEF Loads
    <3>2. pivot # NoItem => at \in 1 .. Len(s) /\ pivot = s[at]
      BY <1>2, <2>2 DEF ToSet
    <3>3. QED
      BY <1>2, <3>1, <3>2, IdentityIsPerm DEF Identity
  <2>3. QED
    BY <2>1, <2>2
<1>5. Shape'
  BY <1>1, <1>2, <1>3, <1>4 DEF Shape, Different
<1>6. ToSet(s) \subseteq Items
  BY <1>1 DEF ToSet
<1>7. pivot # NoItem => s # <<>>
  BY <1>2 DEF ToSet
<1>8. DOMAIN order' = DOMAIN s
  BY <1>2, <1>4 DEF Perms
<1>9. Meant'
  BY <1>3, <1>4, <1>6, <1>7, <1>8 DEF Meant, CurrentItem, ItemAt
<1>10. used'.load = used.load + 1
  BY DEF Loads, Uses
<1>11. [i \in DOMAIN order' |-> tracks'[order'[i]]] \in PO!Arrangements(s)
  BY <1>1, <1>3, <1>4, OrderedIsArrangement DEF Ordered
<1>12. PO!Load(s)
  BY <1>3, <1>10, <1>11 DEF PO!Load, ItemAt
<1>13. QED
  BY <1>5, <1>9, <1>12 DEF Place

\* The order changes, around the current track or its place.
LEMMA ReorderPlace ==
  ASSUME Place, ShuffleOn \/ ShuffleOff,
         used \in [load : 0 .. MaxLoads, op : 0 .. MaxOps, failure : 0 .. MaxFailures]
  PROVE  Place' /\ PO!Reorder
<1> DEFINE n == Len(tracks)
<1>1. /\ n \in Nat /\ DOMAIN tracks = 1 .. n /\ DOMAIN order = DOMAIN tracks
      /\ order \in [DOMAIN tracks -> DOMAIN tracks]
      /\ tracks # <<>> => CurrentItem = tracks[order[cur]] /\ CurrentItem \in Items
  BY ShapeFacts DEF Place
<1>2. tracks # <<>> /\ cur \in DOMAIN tracks /\ tracks' = tracks
  BY DEF ShuffleOn, ShuffleOff, Place, Shape
<1>3. /\ order' \in Perms(n) /\ cur' \in DOMAIN tracks
      /\ (cur' = cur /\ meant' = NoItem) \/ (order'[cur'] = order[cur] /\ meant' = meant)
  <2>1. CASE ShuffleOn
    <3>1. PICK p \in Perms(n) : order' = Shuffled(p, tracks, cur, NoItem)
      BY <2>1 DEF ShuffleOn
    <3>2. tracks \in Seq(Items)
      BY DEF Place, Shape
    <3>3. Shuffled(p, tracks, cur, NoItem) \in Perms(Len(tracks))
      BY <1>2, <3>2, ShuffledIsPerm
    <3>4. QED
      BY <1>2, <2>1, <3>1, <3>3 DEF ShuffleOn
  <2>2. CASE ShuffleOff
    <3>1. order' = Identity(n) /\ cur' = order[cur] /\ meant' = meant
      BY <2>2 DEF ShuffleOff
    <3>2. order[cur] \in 1 .. n
      BY <1>1, <1>2
    <3>3. order'[cur'] = order[cur]
      BY <3>1, <3>2 DEF Identity
    <3>4. QED
      BY <1>1, <3>1, <3>2, <3>3, IdentityIsPerm
  <2>3. QED
    BY <2>1, <2>2
<1>4. Shape'
  BY <1>2, <1>3 DEF Place, Shape
<1>5. DOMAIN order' = DOMAIN tracks
  BY <1>1, <1>3 DEF Perms
<1>6. Meant'
  BY <1>1, <1>2, <1>3, <1>5 DEF Place, Meant, CurrentItem, ItemAt
<1>7. used'.load = used.load
  BY DEF ShuffleOn, ShuffleOff, Uses
<1>8. [i \in DOMAIN order' |-> tracks'[order'[i]]]
        \in PO!Arrangements([i \in DOMAIN order |-> tracks[order[i]]])
  <2>1. tracks \in Seq(Items) /\ Different(tracks) /\ order \in Perms(n)
    BY DEF Place, Shape
  <2>2. QED
    BY <1>2, <1>3, <2>1, OrderedIsArrangement DEF Ordered
<1>9. cur' \in DOMAIN order' /\ cur \in DOMAIN order
  BY <1>1, <1>2, <1>3, <1>5
<1>10. tracks'[order'[cur']] = tracks[order[cur]] \/ cur' = cur
  BY <1>2, <1>3
<1>11. [i \in DOMAIN order |-> tracks[order[i]]] # <<>>
  BY <1>9
<1>12. /\ cur' \in DOMAIN [i \in DOMAIN order |-> tracks[order[i]]]
       /\ \/ [i \in DOMAIN order' |-> tracks'[order'[i]]][cur']
              = [i \in DOMAIN order |-> tracks[order[i]]][cur]
          \/ cur' = cur
  BY <1>1, <1>3, <1>9, <1>10
<1>13. PO!Reorder
  BY <1>7, <1>8, <1>11, <1>12, Zenon DEF PO!Reorder, ItemAt
<1>14. QED
  BY <1>4, <1>6, <1>13 DEF Place

\* The queue stays, and its cursor goes to the item that is meant.
LEMMA GoPlace ==
  ASSUME Place, UNCHANGED <<tracks, order>>, cur' \in DOMAIN tracks,
         meant' = NoItem \/ meant' = tracks[order[cur']],
         used'.load = used.load
  PROVE  Place' /\ PO!Go
<1>1. /\ DOMAIN order = DOMAIN tracks
      /\ order \in [DOMAIN tracks -> DOMAIN tracks] /\ tracks \in Seq(Items)
  BY ShapeFacts DEF Place, Shape
<1>2. tracks # <<>>
  BY <1>1
<1>3. Shape'
  BY <1>2 DEF Place, Shape
<1>4. tracks[order[cur']] \in Items
  BY <1>1
<1>5. Meant'
  BY <1>1, <1>4 DEF Meant, CurrentItem, ItemAt
<1>6. PO!Go
  BY <1>1 DEF PO!Go, ItemAt
<1>7. QED
  BY <1>3, <1>5, <1>6 DEF Place

\* The queue stays with its cursor, and what was meant is forgotten at most.
LEMMA StayPlace ==
  ASSUME Place, UNCHANGED <<tracks, order, cur>>, meant' \in {meant, NoItem},
         used'.load = used.load
  PROVE  Place' /\ UNCHANGED PO!vars
<1>1. Place'
  BY DEF Place, Shape, Meant, CurrentItem, ItemAt
<1>2. UNCHANGED PO!vars
  BY DEF PO!vars, ItemAt
<1>3. QED
  BY <1>1, <1>2

-----------------------------------------------------------------------------
(***************************************************************************)
(* The invariant and the steps.                                            *)
(***************************************************************************)
LEMMA InitPlace == Init => TypeOK /\ Place /\ PO!Init
<1> SUFFICES ASSUME Init PROVE TypeOK /\ Place /\ PO!Init
  OBVIOUS
<1>1. tracks = <<>> /\ order = <<>> /\ cur = 0 /\ meant = NoItem /\ cache = <<>>
  BY DEF Init
<1>2. order \in Perms(Len(tracks)) /\ Len(tracks) = 0 /\ DOMAIN tracks = {} /\ DOMAIN order = {}
  BY <1>1 DEF Perms
<1>3. Place
  BY <1>1, <1>2 DEF Place, Shape, Meant, Different
<1>4. PO!Init
  BY <1>1, <1>2 DEF Init, PO!Init
<1>5. TypeOK
  <2>1. cache \in [DOMAIN tracks -> [url : BOOLEAN, meta : BOOLEAN]]
    BY <1>1, <1>2
  <2>2. loader \in [pc : {"off", "rest", "meta", "url"}, load : 0 .. used.load,
                   todo : Seq([track : Nat, item : Items])]
        /\ loader.pc = "off"
    BY DEF Init, At
  <2>3. used \in [load : 0 .. MaxLoads, op : 0 .. MaxOps, failure : 0 .. MaxFailures]
    BY QueueAssumption DEF Init
  <2>4. /\ tracks \in Seq(Items) /\ IF tracks = <<>> THEN cur = 0 ELSE cur \in DOMAIN tracks
        /\ preloaded \subseteq Items /\ playing \in Items \cup {NoItem} /\ meant \in Items \cup {NoItem}
        /\ shuffle \in BOOLEAN /\ repeat \in {"off", "one", "all"}
    <3>1. tracks \in Seq(Items)
      BY <1>1
    <3>2. QED
      BY <1>1, <3>1 DEF Init
  <2>5. QED
    BY <1>2, <2>1, <2>2, <2>3, <2>4, Zenon DEF TypeOK
<1>6. QED
  BY <1>3, <1>4, <1>5

LEMMA NextPlace ==
  ASSUME TypeOK, Place, [Next]_vars
  PROVE  Place' /\ [PO!Next]_PO!vars
<1>1. used \in [load : 0 .. MaxLoads, op : 0 .. MaxOps, failure : 0 .. MaxFailures]
  BY DEF TypeOK
<1>2. /\ Len(tracks) \in Nat /\ DOMAIN tracks = 1 .. Len(tracks)
      /\ DOMAIN order = DOMAIN tracks /\ Len(order) = Len(tracks)
      /\ order \in [DOMAIN tracks -> DOMAIN tracks] /\ tracks \in Seq(Items)
      /\ order \in Perms(Len(tracks)) /\ (tracks # <<>> => cur \in DOMAIN tracks)
  BY ShapeFacts DEF Place, Shape
<1>3. ASSUME NEW s \in Lists \cup {<<>>}, NEW at, NEW pivot, NEW shuffles \in BOOLEAN,
             s # <<>> => at \in DOMAIN s, pivot \in ToSet(s) \cup {NoItem},
             ~shuffles /\ pivot # NoItem => pivot = s[at],
             Loads(s, at, pivot, shuffles)
      PROVE  Place' /\ PO!Next
  BY <1>1, <1>3, LoadsPlace DEF PO!Next
<1>4. CASE QueueState
  <2>1. PICK s \in Lists, shuffles \in BOOLEAN : Loads(s, 1, NoItem, shuffles)
    BY <1>4 DEF QueueState
  <2>2. s # <<>> => 1 \in DOMAIN s
    BY QueueAssumption
  <2>3. QED
    BY <1>3, <2>1, <2>2
<1>5. CASE TracksLoaded
  <2>1. PICK s \in Lists : \/ \E at \in DOMAIN s : Loads(s, at, s[at], FALSE)
                          \/ \E at \in DOMAIN s, pivot \in ToSet(s) : Loads(s, at, pivot, TRUE)
    BY <1>5 DEF TracksLoaded
  <2>2. ASSUME NEW at \in DOMAIN s, Loads(s, at, s[at], FALSE)
        PROVE  Place' /\ PO!Next
    <3>1. s[at] \in ToSet(s)
      BY DEF ToSet
    <3>2. QED
      BY <1>3, <2>2, <3>1
  <2>3. ASSUME NEW at \in DOMAIN s, NEW pivot \in ToSet(s), Loads(s, at, pivot, TRUE)
        PROVE  Place' /\ PO!Next
    BY <1>3, <2>3
  <2>4. QED
    BY <2>1, <2>2, <2>3
<1>6. CASE Clear
  BY <1>3, <1>6 DEF Clear
<1>7. CASE ShuffleOn \/ ShuffleOff
  BY <1>1, <1>7, ReorderPlace DEF PO!Next
<1>8. ASSUME NEW item \in Items, SetState(item)
      PROVE  Place' /\ [PO!Next]_PO!vars
  <2>1. used'.load = used.load
    BY <1>1, <1>8 DEF SetState, Uses
  <2>2. CASE item \in ToSet(tracks)
    <3>1. cur' \in DOMAIN tracks /\ tracks[order[cur']] = item /\ meant' = item
      BY <1>2, <1>8, <2>2, PlaceIsFound DEF SetState
    <3>2. QED
      BY <1>8, <2>1, <3>1, GoPlace DEF SetState, PO!Next
  <2>3. CASE item \notin ToSet(tracks)
    BY <1>8, <2>1, <2>3, StayPlace DEF SetState
  <2>4. QED
    BY <2>2, <2>3
<1>9. ASSUME NEW p \in DOMAIN tracks, Plays(p), used'.load = used.load
      PROVE  Place' /\ PO!Next
  BY <1>9, GoPlace DEF Plays, ItemAt, PO!Next
<1>10. CASE NextTrack \/ PreviousTrack \/ PlayCurrent
  <2>1. used'.load = used.load
    BY <1>1, <1>10 DEF NextTrack, PreviousTrack, PlayCurrent, Uses
  <2>2. CASE EndOfQueue
    BY <2>1, <2>2, StayPlace DEF EndOfQueue, queueVars
  <2>3. CASE ~EndOfQueue
    <3>1. PICK p \in {AfterCurrent, BeforeCurrent, cur} : Plays(p) /\ p # 0 /\ tracks # <<>>
      BY <1>2, <1>10, <2>3 DEF NextTrack, PreviousTrack, PlayCurrent, BeforeCurrent
    <3>2. p \in DOMAIN tracks
      BY <1>2, <3>1 DEF AfterCurrent, BeforeCurrent
    <3>3. QED
      BY <1>9, <2>1, <3>1, <3>2
  <2>4. QED
    BY <2>2, <2>3
<1>11. CASE \/ SetRepeat \/ Start \/ Stop \/ Collect \/ MetadataFetched \/ UrlFetched
            \/ FetchRaises \/ UrlExpires \/ UNCHANGED vars
  <2>1. UNCHANGED <<tracks, order, cur, meant>>
    BY <1>11 DEF SetRepeat, Start, Stop, Collect, MetadataFetched, UrlFetched, FetchRaises,
                 UrlExpires, vars, queueVars
  <2>2. used'.load = used.load
    BY <1>1, <1>11 DEF SetRepeat, Start, Stop, Collect, MetadataFetched, UrlFetched, FetchRaises,
                       UrlExpires, vars, Uses, Fails
  <2>3. QED
    BY <2>1, <2>2, StayPlace
<1>12. QED
  BY <1>4, <1>5, <1>6, <1>7, <1>8, <1>10, <1>11 DEF Next

\* The types of what PlayOrder does not see: the cache, the loop and the player.
LEMMA NextTypes ==
  ASSUME TypeOK, Place, Place', [Next]_vars
  PROVE  TypeOK'
<1>1. /\ tracks' \in Seq(Items) /\ order' \in Perms(Len(tracks'))
      /\ IF tracks' = <<>> THEN cur' = 0 ELSE cur' \in DOMAIN tracks'
      /\ meant' \in Items \cup {NoItem}
  BY DEF Place, Shape, Meant
<1>2. shuffle' \in BOOLEAN /\ repeat' \in {"off", "one", "all"}
  BY DEF TypeOK, Next, vars, queueVars, preloadVars, QueueState, TracksLoaded, Clear, Loads, ShuffleOn,
         ShuffleOff, SetRepeat, SetState, NextTrack, PreviousTrack, PlayCurrent, Plays, EndOfQueue, Start, Stop,
         Collect, MetadataFetched, UrlFetched, FetchRaises, UrlExpires
<1>3. used' \in [load : 0 .. MaxLoads, op : 0 .. MaxOps, failure : 0 .. MaxFailures]
      /\ used.load <= used'.load
  <2> DEFINE Counted == /\ used' \in [load : 0 .. MaxLoads, op : 0 .. MaxOps, failure : 0 .. MaxFailures]
                        /\ used.load <= used'.load
  <2>1. used \in [load : 0 .. MaxLoads, op : 0 .. MaxOps, failure : 0 .. MaxFailures]
    BY DEF TypeOK
  <2>2. Uses("load", MaxLoads) => Counted
    BY <2>1, QueueAssumption DEF Uses
  <2>3. Uses("op", MaxOps) => Counted
    BY <2>1, QueueAssumption DEF Uses
  <2>4. Uses("failure", MaxFailures) => Counted
    BY <2>1, QueueAssumption DEF Uses
  <2>5. used' = used => Counted
    BY <2>1, QueueAssumption
  <2>6. Uses("load", MaxLoads) \/ Uses("op", MaxOps) \/ Uses("failure", MaxFailures) \/ used' = used
    BY DEF Next, vars, QueueState, TracksLoaded, Clear, Loads, ShuffleOn,
           ShuffleOff, SetRepeat, SetState, NextTrack, PreviousTrack, PlayCurrent, Start, Stop,
           Collect, MetadataFetched, UrlFetched, FetchRaises, UrlExpires, Fails
  <2>7. QED
    BY <2>2, <2>3, <2>4, <2>5, <2>6
<1>4. cache' \in [DOMAIN tracks' -> [url : BOOLEAN, meta : BOOLEAN]]
  <2>1. CASE QueueState \/ TracksLoaded \/ Clear
    <3>1. \A s, at, pivot, shuffles : Loads(s, at, pivot, shuffles) =>
            tracks' = s /\ cache' = [i \in DOMAIN s |-> [url |-> FALSE, meta |-> FALSE]]
      BY DEF Loads, Unfetched
    <3>2. cache' = [i \in DOMAIN tracks' |-> [url |-> FALSE, meta |-> FALSE]]
      BY <2>1, <3>1 DEF QueueState, TracksLoaded, Clear
    <3>3. QED
      BY <3>2
  <2>2. CASE tracks' = tracks /\ cache' = cache
    BY <2>2 DEF TypeOK
  <2>3. CASE MetadataFetched \/ UrlFetched
    <3>1. /\ tracks' = tracks
          /\ \/ cache' = cache
             \/ cache' = [cache EXCEPT ![InHand.track]["meta"] = TRUE]
             \/ cache' = [cache EXCEPT ![InHand.track]["url"] = TRUE]
      BY <2>3 DEF MetadataFetched, UrlFetched, Gets, Fails, queueVars
    <3>2. cache \in [DOMAIN tracks -> [url : BOOLEAN, meta : BOOLEAN]]
      BY DEF TypeOK
    <3>3. ASSUME NEW t
          PROVE  /\ [cache EXCEPT ![t]["meta"] = TRUE] \in [DOMAIN tracks -> [url : BOOLEAN, meta : BOOLEAN]]
                 /\ [cache EXCEPT ![t]["url"] = TRUE] \in [DOMAIN tracks -> [url : BOOLEAN, meta : BOOLEAN]]
      BY <3>2
    <3>4. QED
      BY <3>1, <3>2, <3>3
  <2>4. CASE UrlExpires
    BY <2>4 DEF UrlExpires, queueVars, TypeOK
  <2>5. QED
    BY <2>1, <2>2, <2>3, <2>4 DEF Next, vars, queueVars, preloadVars, ShuffleOn, ShuffleOff, SetRepeat,
           SetState, NextTrack, PreviousTrack, PlayCurrent, Plays, EndOfQueue, Start, Stop, Collect, FetchRaises,
           Fails
<1>5. /\ loader' \in [pc : {"off", "rest", "meta", "url"}, load : 0 .. used'.load,
                     todo : Seq([track : Nat, item : Items])]
      /\ loader'.pc \in {"meta", "url"} => loader'.todo # <<>>
  <2> DEFINE Todo == Seq([track : Nat, item : Items])
             Loader == [pc : {"off", "rest", "meta", "url"}, load : 0 .. used'.load, todo : Todo]
  <2>1. loader \in Loader /\ (loader.pc \in {"meta", "url"} => loader.todo # <<>>)
    BY <1>3, QueueAssumption DEF TypeOK
  <2>2. \A pc : At(pc).pc = pc /\ At(pc).todo = <<>> /\ At(pc).load = 0
    BY DEF At
  <2>3. At("off") \in Loader /\ At("rest") \in Loader
    BY <1>3 DEF At
  <2>4. CASE loader' \in {loader, At("off"), At("rest")}
    BY <2>1, <2>2, <2>3, <2>4
  <2>5. CASE Collect
    <3>1. PICK places \in InOrder({i \in Window : Wanted(i)}) :
            /\ places # <<>>
            /\ loader' = [pc |-> "meta", load |-> used.load,
                          todo |-> [k \in DOMAIN places |-> [track |-> order[places[k]],
                                                             item |-> ItemAt(places[k])]]]
      BY <2>5 DEF Collect
    <3>2. PICK n : DOMAIN places = 1 .. n /\ n = Cardinality({i \in Window : Wanted(i)})
      BY DEF InOrder
    <3>3. \A k \in DOMAIN places : places[k] \in DOMAIN order
      BY DEF InOrder, Window
    <3>4. /\ DOMAIN order = DOMAIN tracks /\ order \in [DOMAIN tracks -> DOMAIN tracks]
          /\ tracks \in Seq(Items)
      BY ShapeFacts DEF Place, Shape
    <3>5. \A i \in DOMAIN order : [track |-> order[i], item |-> ItemAt(i)] \in [track : Nat, item : Items]
      BY <3>4 DEF ItemAt
    <3>6. n \in Nat
      <4>1. IsFiniteSet({i \in Window : Wanted(i)})
        <5>1. IsFiniteSet(DOMAIN order)
          BY <3>4, FS_Interval
        <5>2. QED
          BY <5>1, FS_Subset DEF Window
      <4>2. QED
        BY <3>2, <4>1, FS_CardinalityType
    <3> DEFINE f == [k \in 1 .. n |-> [track |-> order[places[k]], item |-> ItemAt(places[k])]]
    <3>7. f \in Todo /\ DOMAIN f = 1 .. n
      <4>1. \A k \in 1 .. n : f[k] \in [track : Nat, item : Items]
        BY <3>2, <3>3, <3>5
      <4>2. QED
        BY <3>6, <4>1
    <3>8. n # 0
      <4>1. SUFFICES ASSUME n = 0 PROVE FALSE
        OBVIOUS
      <4>2. places = <<>>
        BY <3>2, <4>1 DEF InOrder
      <4>3. QED
        BY <3>1, <4>2
    <3>9. f # <<>>
      BY <3>6, <3>7, <3>8
    <3>10. loader'.pc = "meta" /\ loader' = [pc |-> "meta", load |-> used.load, todo |-> f]
      BY <3>1, <3>2
    <3> HIDE DEF f
    <3>11. used.load \in 0 .. used'.load
      BY <2>5 DEF Collect, TypeOK
    <3>12. QED
      BY <3>7, <3>9, <3>10, <3>11
  <2>6. CASE MetadataFetched
    BY <2>1, <2>6 DEF MetadataFetched
  <2>7. CASE Done /\ loader.pc \in {"meta", "url"}
    <3>1. CASE Len(loader.todo) = 1
      BY <2>2, <2>3, <2>7, <3>1 DEF Done
    <3>2. CASE Len(loader.todo) # 1
      <4>1. ASSUME NEW T, NEW t \in Seq(T), t # <<>>, Len(t) # 1
            PROVE  Tail(t) \in Seq(T) /\ Tail(t) # <<>>
        <5>1. Tail(t) \in Seq(T) /\ Len(Tail(t)) = Len(t) - 1 /\ Len(t) \in Nat /\ Len(t) # 0
          BY <4>1
        <5>2. Len(Tail(t)) # 0
          BY <4>1, <5>1
        <5>3. Len(<<>>) = 0
          OBVIOUS
        <5>4. Tail(t) # <<>>
          BY <5>2, <5>3, Zenon
        <5>5. QED
          BY <5>1, <5>4
      <4>2. Tail(loader.todo) \in Todo /\ Tail(loader.todo) # <<>>
        BY <2>1, <2>7, <3>2, <4>1
      <4>3. loader' = [loader EXCEPT !.pc = "meta", !.todo = Tail(loader.todo)]
        BY <2>7, <3>2 DEF Done
      <4>4. QED
        BY <2>1, <4>2, <4>3
    <3>3. QED
      BY <3>1, <3>2
  <2>8. QED
    BY <2>4, <2>5, <2>6, <2>7 DEF Next, vars, queueVars, preloadVars, QueueState, TracksLoaded, Clear, Loads, ShuffleOn,
         ShuffleOff, SetRepeat, SetState, NextTrack, PreviousTrack, PlayCurrent, Plays, EndOfQueue, Start, Stop,
         UrlFetched, FetchRaises, UrlExpires
<1>6. preloaded' \subseteq Items
  <2>1. preloaded \subseteq Items
    BY DEF TypeOK
  <2>2. preloaded' = {} \/ preloaded' \subseteq preloaded \/ UrlFetched
    BY DEF Next, vars, queueVars, preloadVars, QueueState, TracksLoaded, Clear, Loads, ShuffleOn,
         ShuffleOff, SetRepeat, SetState, NextTrack, PreviousTrack, PlayCurrent, Plays, EndOfQueue, Start, Stop,
         Collect, MetadataFetched, FetchRaises, UrlExpires
  <2>3. CASE UrlFetched
    <3>1. loader.todo \in Seq([track : Nat, item : Items]) /\ loader.todo # <<>>
      BY <2>3 DEF UrlFetched, TypeOK
    <3>2. Head(loader.todo) \in [track : Nat, item : Items]
      <4>1. \A T, t : t \in Seq(T) /\ t # <<>> => Head(t) \in T
        OBVIOUS
      <4>2. QED
        BY <3>1, <4>1, Zenon
    <3>3. QED
      BY <2>1, <2>3, <3>2 DEF UrlFetched, InHand
  <2>4. QED
    BY <2>1, <2>2, <2>3
<1>7. playing' \in Items \cup {NoItem}
  <2>1. \A p : Plays(p) => p = cur' /\ playing' = meant'
    BY DEF Plays
  <2>2. playing' = playing \/ playing' = meant' \/ playing' = NoItem \/ playing' \in Items
    BY <2>1 DEF Next, vars, queueVars, preloadVars, QueueState, TracksLoaded, Clear, Loads, ShuffleOn,
         ShuffleOff, SetRepeat, SetState, NextTrack, PreviousTrack, PlayCurrent, EndOfQueue, Start, Stop,
         Collect, MetadataFetched, UrlFetched, FetchRaises, UrlExpires
  <2>3. QED
    BY <1>1, <2>2 DEF TypeOK
<1>8. QED
  BY <1>1, <1>2, <1>3, <1>4, <1>5, <1>6, <1>7, Zenon DEF TypeOK

-----------------------------------------------------------------------------
(***************************************************************************)
(* Theorems.                                                               *)
(***************************************************************************)
QueueInv == TypeOK /\ Place

LEMMA InvHolds == Spec => []QueueInv /\ PO!Spec
<1>1. Init => QueueInv /\ PO!Init
  BY InitPlace DEF QueueInv
<1>2. QueueInv /\ [Next]_vars => QueueInv' /\ [PO!Next]_PO!vars
  <2> SUFFICES ASSUME TypeOK, Place, [Next]_vars
               PROVE  TypeOK' /\ Place' /\ [PO!Next]_PO!vars
    BY DEF QueueInv
  <2>1. Place' /\ [PO!Next]_PO!vars
    BY NextPlace
  <2>2. TypeOK'
    BY <2>1, NextTypes
  <2>3. QED
    BY <2>1, <2>2
<1>3. QED
  BY <1>1, <1>2, PTL DEF Spec, PO!Spec

\* The item that the server or the listener made current stays so through shuffling, a return to
\* the original order and the preload loop, for lists of any length.
THEOREM MeantStaysCurrent == Spec => []CursorHolds
<1>1. QueueInv => CursorHolds
  BY DEF QueueInv, Place, Meant, CursorHolds
<1>2. QED
  BY <1>1, InvHolds, PTL

\* Every step of the queue is a step of a play order of the server's list, or no step of it.
THEOREM QueueImplementsPlayOrder == Spec => ImplementsPlayOrder
BY InvHolds, PTL DEF ImplementsPlayOrder

\* A skip goes on to another item, unless the queue has one item, repeats it, or ends.
THEOREM SkipsMoveOn == Spec => SkipMovesOn
<1> DEFINE Moves ==
      NextTrack /\ playing # NoItem /\ meant = playing =>
        \/ repeat = "one" /\ playing' = playing
        \/ Len(tracks) = 1
        \/ playing' \notin {playing, NoItem}
        \/ playing' = NoItem /\ playing = ItemAt(Len(order)) /\ repeat = "off"
<1>1. QueueInv => Moves
  <2> SUFFICES ASSUME QueueInv, NextTrack, playing # NoItem, meant = playing, Len(tracks) # 1,
                      ~(repeat = "one" /\ playing' = playing)
               PROVE  \/ playing' \notin {playing, NoItem}
                      \/ playing' = NoItem /\ playing = ItemAt(Len(order)) /\ repeat = "off"
    OBVIOUS
  <2>1. /\ Len(tracks) \in Nat /\ DOMAIN tracks = 1 .. Len(tracks)
        /\ DOMAIN order = DOMAIN tracks /\ Len(order) = Len(tracks)
        /\ order \in [DOMAIN tracks -> DOMAIN tracks] /\ tracks \in Seq(Items)
        /\ NoItem \notin Items /\ repeat \in {"off", "one", "all"}
    BY ShapeFacts, QueueAssumption DEF QueueInv, TypeOK, Place, Shape
  <2>2. cur \in DOMAIN tracks /\ playing = tracks[order[cur]]
    BY <2>1 DEF QueueInv, Place, Meant, CurrentItem, ItemAt
  <2>3. \A i, j \in DOMAIN tracks : tracks[order[i]] = tracks[order[j]] => i = j
    BY <2>1 DEF QueueInv, Place, Shape, Different, Perms
  <2>4. tracks # <<>>
    BY <2>2
  <2>5. CASE AfterCurrent = 0
    BY <2>1, <2>2, <2>4, <2>5 DEF NextTrack, EndOfQueue, AfterCurrent, ItemAt
  <2>6. CASE AfterCurrent # 0
    <3>1. playing' = tracks[order[AfterCurrent]]
      BY <2>4, <2>6 DEF NextTrack, Plays, ItemAt
    <3>2. repeat # "one"
      BY <2>2, <3>1 DEF AfterCurrent
    <3>3. AfterCurrent \in DOMAIN tracks /\ AfterCurrent # cur
      BY <2>1, <2>2, <2>6, <3>2 DEF AfterCurrent
    <3>4. playing' # playing /\ playing' \in Items
      BY <2>1, <2>2, <2>3, <3>1, <3>3
    <3>5. QED
      BY <2>1, <3>4
  <2>7. QED
    BY <2>5, <2>6
<1>2. QED
  BY <1>1, InvHolds, PTL DEF Spec, SkipMovesOn
=============================================================================
