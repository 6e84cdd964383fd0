-------------------------------- MODULE Queue --------------------------------
(***************************************************************************)
(* playback/queue.py and queue_handler.py with the skips of the player     *)
(* that move through the queue.                                            *)
(*                                                                         *)
(* An operation holds the queue's lock without awaiting anything, so it is *)
(* one step; so is a queue message, which loads and then shuffles.  Only   *)
(* the preload loop awaits, outside the lock: the queue may be replaced    *)
(* while it fetches.  Positions count from 1 here, and 0 is the position   *)
(* in an empty queue.  A track is its queue item; the URL and the metadata *)
(* belong to the track object, which a new queue replaces.                 *)
(***************************************************************************)
EXTENDS Naturals, Sequences, SequencesExt, FiniteSetsExt

CONSTANTS
  Items, NoItem,
  Lists,          \* the queues the server may send, sequences of different items
  PreloadCount,   \* PRELOAD_COUNT
  MaxLoads,       \* bound: queues loaded
  MaxOps,         \* bound: other operations
  MaxFailures     \* bound: failing fetches and URLs that go stale

ASSUME QueueAssumption ==
  /\ NoItem \notin Items
  /\ \A s \in Lists : /\ s \in Seq(Items)
                      /\ \A i, j \in DOMAIN s : s[i] = s[j] => i = j
  /\ PreloadCount \in Nat \ {0} /\ MaxLoads \in Nat /\ MaxOps \in Nat /\ MaxFailures \in Nat

VARIABLES
  tracks,      \* _tracks: the items
  order,       \* _shuffled_indexes
  cur,         \* _current_index
  shuffle,     \* _shuffle_enabled
  repeat,      \* _repeat_mode
  cache,       \* of each track object: whether it has a fresh URL, and its metadata
  preloaded,   \* _preloaded_ids
  loader,      \* _preload_loop: where it is, the tracks left of this round, the queue they are of
  playing,     \* _current_track of the player
  used,        \* how much of each bound has been used
  meant        \* history: the item that was meant to be current, or NoItem

queueVars == <<tracks, order, cur, shuffle, repeat>>
preloadVars == <<cache, preloaded, loader>>
vars == <<queueVars, preloadVars, playing, used, meant>>

Identity(n) == [i \in 1 .. n |-> i]
Perms(n) == {p \in [1 .. n -> 1 .. n] : \A i, j \in 1 .. n : p[i] = p[j] => i = j}
Unfetched == [url |-> FALSE, meta |-> FALSE]
At(pc) == [pc |-> pc, todo |-> <<>>, load |-> 0]

Init ==
  /\ tracks = <<>> /\ order = <<>> /\ cur = 0 /\ shuffle = FALSE /\ repeat = "off"
  /\ cache = <<>> /\ preloaded = {} /\ loader = At("off")
  /\ playing = NoItem /\ used = [load |-> 0, op |-> 0, failure |-> 0] /\ meant = NoItem

Uses(what, max) == used[what] < max /\ used' = [used EXCEPT ![what] = @ + 1]

-----------------------------------------------------------------------------
(* Where the queue stands.                                                     *)

\* _get_current_track
ItemAt(p) == tracks[order[p]]
CurrentItem == IF cur \in DOMAIN order THEN ItemAt(cur) ELSE NoItem

\* The place in the order of an item of ts.
PlaceOf(item, ts, ord) == CHOOSE p \in DOMAIN ord : ts[ord[p]] = item

\* The items at p and after it, n of them.
Upcoming(p, n) == {ItemAt(i) : i \in {i \in DOMAIN order : p <= i /\ i < p + n}}

-----------------------------------------------------------------------------
(* Loading and shuffling.                                                      *)

\* _apply_shuffle: a random order; the pivot is swapped to the current place.
\* mutant: the current place is overwritten, not swapped
SwapLosesOne(p, i, j) == [p EXCEPT ![i] = p[j]]
Swap(p, i, j) == [p EXCEPT ![i] = p[j], ![j] = p[i]]
Shuffled(p, ts, place, pivot) ==
  IF pivot \in ToSet(ts) THEN Swap(p, Min({place, Len(ts)}), PlaceOf(pivot, ts, p)) ELSE p

\* load_queue: new track objects in their own order, at the given item or the first; the repeat
\* mode stays, and so does shuffle.  A message that says so shuffles them, around a pivot.
Loads(s, at, pivot, shuffles) ==
  /\ Uses("load", MaxLoads)
  /\ tracks' = s /\ cache' = [i \in DOMAIN s |-> Unfetched] /\ preloaded' = {}
  /\ cur' = IF s = <<>> THEN 0 ELSE at
  /\ IF shuffles
     THEN shuffle' = TRUE /\ \E p \in Perms(Len(s)) : order' = Shuffled(p, s, at, pivot)
     ELSE order' = Identity(Len(s)) /\ UNCHANGED shuffle
  /\ meant' = pivot
  /\ UNCHANGED <<repeat, loader, playing>>

\* SRVR_CTRL_QUEUE_STATE: no current item, and no pivot.
QueueState == \E s \in Lists, shuffles \in BOOLEAN : Loads(s, 1, NoItem, shuffles)

\* SRVR_CTRL_QUEUE_TRACKS_LOADED: at its position; the pivot is the one it names, or that item.
TracksLoaded ==
  \E s \in Lists :
    \/ \E at \in DOMAIN s : Loads(s, at, s[at], FALSE)
    \/ \E at \in DOMAIN s, pivot \in ToSet(s) : Loads(s, at, pivot, TRUE)

Clear == Loads(<<>>, 1, NoItem, FALSE)

\* set_shuffle by the player, which names no pivot.
ShuffleOn ==
  /\ Uses("op", MaxOps) /\ tracks # <<>>
  /\ shuffle' = TRUE /\ \E p \in Perms(Len(tracks)) : order' = Shuffled(p, tracks, cur, NoItem)
  /\ preloaded' = {} /\ meant' = NoItem
  /\ UNCHANGED <<tracks, cur, repeat, cache, loader, playing>>

\* mutant: the position stays a number
ShuffleOffKeepsPlace ==
  /\ Uses("op", MaxOps) /\ tracks # <<>>
  /\ shuffle' = FALSE /\ order' = Identity(Len(tracks)) /\ preloaded' = {}
  /\ UNCHANGED <<tracks, cur, repeat, cache, loader, playing, meant>>

\* mutant: the queue begins again
ShuffleOffRewinds ==
  /\ Uses("op", MaxOps) /\ tracks # <<>>
  /\ shuffle' = FALSE /\ order' = Identity(Len(tracks)) /\ cur' = 1 /\ preloaded' = {}
  /\ UNCHANGED <<tracks, repeat, cache, loader, playing, meant>>

\* _restore_original_order: the current track stays current.
ShuffleOff ==
  /\ Uses("op", MaxOps) /\ tracks # <<>>
  /\ shuffle' = FALSE /\ order' = Identity(Len(tracks))
  /\ cur' = order[cur] /\ preloaded' = {}
  /\ UNCHANGED <<tracks, repeat, cache, loader, playing, meant>>

\* set_repeat_mode
SetRepeat ==
  /\ Uses("op", MaxOps) /\ repeat' \in {"off", "one", "all"} \ {repeat}
  /\ UNCHANGED <<tracks, order, cur, shuffle, preloadVars, playing, meant>>

-----------------------------------------------------------------------------
(* Moving through the queue.                                                   *)

\* _set_index_by_item_id, with the player's load of the item (SET_STATE).  What is preloaded and
\* no longer upcoming is forgotten.  The queue may not have the item: then it stays where it is.
SetState(item) ==
  /\ Uses("op", MaxOps) /\ playing' = item
  /\ IF item \in ToSet(tracks)
     THEN /\ cur' = PlaceOf(item, tracks, order)
          /\ preloaded' = preloaded \cap Upcoming(cur', PreloadCount + 1)
          /\ meant' = item
     ELSE meant' = NoItem /\ UNCHANGED <<cur, preloaded>>
  /\ UNCHANGED <<tracks, order, shuffle, repeat, cache, loader>>

\* The player plays what the queue gives it; at the end of the queue it stops.
Plays(p) ==
  /\ cur' = p /\ playing' = ItemAt(p) /\ meant' = playing'
  /\ UNCHANGED <<tracks, order, shuffle, repeat, preloadVars>>

EndOfQueue == playing' = NoItem /\ UNCHANGED <<queueVars, preloadVars, meant>>

\* mutant: the last track is never reached
AfterCurrentStopsShort ==
  CASE repeat = "one" -> cur
    [] repeat # "one" /\ cur + 1 < Len(order) -> cur + 1
    [] repeat = "all" /\ cur + 1 >= Len(order) -> 1
    [] OTHER -> 0

\* advance_to_next: the next place, or 0 at the end.
AfterCurrent ==
  CASE repeat = "one" -> cur
    [] repeat # "one" /\ cur < Len(order) -> cur + 1
    [] repeat = "all" /\ cur = Len(order) -> 1
    [] OTHER -> 0

NextTrack ==
  /\ Uses("op", MaxOps)
  /\ IF tracks = <<>> \/ AfterCurrent = 0 THEN EndOfQueue ELSE Plays(AfterCurrent)

\* go_to_previous
BeforeCurrent ==
  CASE repeat = "one" -> cur
    [] repeat # "one" /\ cur > 1 -> cur - 1
    [] repeat = "all" /\ cur = 1 -> Len(order)
    [] OTHER -> 1

\* previous_track near the beginning of a track; further in, the track begins again.
PreviousTrack == Uses("op", MaxOps) /\ tracks # <<>> /\ Plays(BeforeCurrent)

\* play with no track loaded
PlayCurrent == Uses("op", MaxOps) /\ playing = NoItem /\ tracks # <<>> /\ Plays(cur)

-----------------------------------------------------------------------------
(* Preloading.                                                                 *)

Start ==
  /\ loader.pc = "off" /\ loader' = At("rest")
  /\ UNCHANGED <<queueVars, cache, preloaded, playing, used, meant>>

\* The loop is cancelled, wherever it is.
Stop ==
  /\ Uses("op", MaxOps) /\ loader.pc # "off" /\ loader' = At("off")
  /\ UNCHANGED <<queueVars, cache, preloaded, playing, meant>>

\* The places preloaded next: those whose item is not known to be preloaded, or has no fresh URL.
Window == {i \in DOMAIN order : cur <= i /\ i < cur + PreloadCount}
\* mutant: what was preloaded once is never looked at again
WantedOnce(i) == ItemAt(i) \notin preloaded
Wanted(i) == ~(ItemAt(i) \in preloaded /\ cache[order[i]].url)

\* The one way to go through the places of S in their order.
InOrder(S) == {s \in [1 .. Cardinality(S) -> S] : \A i, j \in DOMAIN s : i < j => s[i] < s[j]}

\* A round begins: its tracks are chosen under the lock.
Collect ==
  /\ loader.pc = "rest"
  /\ \E places \in InOrder({i \in Window : Wanted(i)}) :
       /\ places # <<>>
       /\ loader' = [pc |-> "meta", load |-> used.load,
                     todo |-> [k \in DOMAIN places |-> [track |-> order[places[k]],
                                                        item |-> ItemAt(places[k])]]]
  /\ UNCHANGED <<queueVars, cache, preloaded, playing, used, meant>>

\* The track in hand, and whether it still is one of the queue's.
InHand == Head(loader.todo)
OfQueue == loader.load = used.load
Gets(field) ==
  cache' = IF OfQueue THEN [cache EXCEPT ![InHand.track][field] = TRUE] ELSE cache

\* A fetch gives nothing: one that is made because the track has nothing (fresh) yet.
Fails(field) ==
  /\ Uses("failure", MaxFailures) /\ UNCHANGED cache
  /\ OfQueue => ~cache[InHand.track][field]

\* The metadata is fetched unless the track has it.
MetadataFetched ==
  /\ loader.pc = "meta" /\ loader' = [loader EXCEPT !.pc = "url"]
  /\ (Gets("meta") /\ UNCHANGED used) \/ Fails("meta")
  /\ UNCHANGED <<queueVars, preloaded, playing, meant>>

\* The track is done with; the loop sleeps when it was the last.
Done ==
  loader' = IF Len(loader.todo) = 1 THEN At("rest")
            ELSE [loader EXCEPT !.pc = "meta", !.todo = Tail(@)]

\* The URL is fetched unless it is fresh.  Fetched or not, the item counts as preloaded.
UrlFetched ==
  /\ loader.pc = "url" /\ Done
  /\ (Gets("url") /\ UNCHANGED used) \/ Fails("url")
  /\ preloaded' = preloaded \cup {InHand.item}
  /\ UNCHANGED <<queueVars, playing, meant>>

\* A fetch raises: the track is left.
FetchRaises ==
  /\ loader.pc \in {"meta", "url"} /\ Done /\ Fails(loader.pc)
  /\ UNCHANGED <<queueVars, preloaded, playing, meant>>

\* A cached URL passes its lifetime, or the player drops it to reload at another quality.
UrlExpires ==
  /\ Uses("failure", MaxFailures)
  /\ \E i \in DOMAIN cache : cache[i].url /\ cache' = [cache EXCEPT ![i].url = FALSE]
  /\ UNCHANGED <<queueVars, preloaded, loader, playing, meant>>

Next ==
  \/ QueueState \/ TracksLoaded \/ Clear \/ ShuffleOn \/ ShuffleOff \/ SetRepeat
  \/ (\E item \in Items : SetState(item)) \/ NextTrack \/ PreviousTrack \/ PlayCurrent
  \/ Start \/ Stop \/ Collect \/ MetadataFetched \/ UrlFetched \/ FetchRaises \/ UrlExpires

Spec == Init /\ [][Next]_vars

\* The loop runs for as long as the player does, and its fetches come back.
FairSpec ==
  Spec /\ WF_vars(Collect) /\ WF_vars(MetadataFetched) /\ WF_vars(UrlFetched)

-----------------------------------------------------------------------------
(* Properties.                                                                 *)

\* The order is always one of all the tracks, the position always in it, and there is one cache
\* entry per track object.
TypeOK ==
  /\ tracks \in Seq(Items) /\ order \in Perms(Len(tracks))
  /\ IF tracks = <<>> THEN cur = 0 ELSE cur \in DOMAIN tracks
  /\ shuffle \in BOOLEAN /\ repeat \in {"off", "one", "all"}
  /\ cache \in [DOMAIN tracks -> [url : BOOLEAN, meta : BOOLEAN]]
  /\ preloaded \subseteq Items /\ playing \in Items \cup {NoItem}
  /\ loader \in [pc : {"off", "rest", "meta", "url"}, load : 0 .. used.load,
                 todo : Seq([track : Nat, item : Items])]
  /\ loader.pc \in {"meta", "url"} => loader.todo # <<>>
  /\ used \in [load : 0 .. MaxLoads, op : 0 .. MaxOps, failure : 0 .. MaxFailures]
  /\ meant \in Items \cup {NoItem}

\* Whatever is loaded, shuffled or skipped, the listener's queue stays a play order of the server's
\* list: no track is lost or doubled, and turning shuffle off keeps the current one (queue.py).
PO == INSTANCE PlayOrder
        WITH Orders <- Lists \cup {<<>>}, list <- [i \in DOMAIN order |-> ItemAt(i)], at <- cur,
             loads <- used.load
ImplementsPlayOrder == PO!Spec

\* The item that the server or the listener made current stays so through a shuffle around it, a
\* return to the original order and everything the preload loop does (queue.py, queue_handler.py); with
\* the types.
CursorHolds == TypeOK /\ (meant # NoItem => CurrentItem = meant)

\* A skip from the item that plays never begins it again, unless it is alone or to be repeated, and
\* only the end of the queue stops the player (player.py:_next_track_locked).
SkipMovesOn ==
  [][ NextTrack /\ playing # NoItem /\ meant = playing =>
        \/ repeat = "one" /\ playing' = playing
        \/ Len(tracks) = 1
        \/ playing' \notin {playing, NoItem}
        \/ playing' = NoItem /\ playing = ItemAt(Len(order)) /\ repeat = "off" ]_vars

\* What is played next has a URL that is fresh, again and again, however often the queue is loaded
\* anew under the loop, fetches fail or URLs go stale (queue.py:_preload_upcoming).
PreloadKeepsUp == []<>(loader.pc = "off" \/ \A i \in Window : cache[order[i]].url)
=============================================================================
