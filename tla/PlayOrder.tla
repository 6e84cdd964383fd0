------------------------------ MODULE PlayOrder ------------------------------
(***************************************************************************)
(* What a queue promises its listener: the items the server sent, each one *)
(* once, in the order in which they are played, and which of them is       *)
(* current.  No indexes into an unshuffled list, no preloading.            *)
(***************************************************************************)
EXTENDS Naturals, Sequences, SequencesExt

CONSTANT Orders   \* the queues a server may send

VARIABLES
  list,   \* the items in play order
  at,     \* the place of the current one, 0 in an empty queue
  loads   \* the queues sent so far

vars == <<list, at, loads>>

\* The orders in which the items of s can be played.
Arrangements(s) ==
  {t \in [DOMAIN s -> ToSet(s)] : \A i, j \in DOMAIN s : t[i] = t[j] => i = j}

Init == list = <<>> /\ at = 0 /\ loads = 0

\* The server sends a queue, which may be played in any order from any item.
Load(s) ==
  /\ loads' = loads + 1 /\ list' \in Arrangements(s)
  /\ IF s = <<>> THEN at' = 0 ELSE at' \in DOMAIN s

\* Another item becomes current.
Go == at' \in DOMAIN list /\ UNCHANGED <<list, loads>>

\* The order changes around the current item, or around its place.
Reorder ==
  /\ list # <<>> /\ list' \in Arrangements(list) /\ at' \in DOMAIN list
  /\ list'[at'] = list[at] \/ at' = at
  /\ UNCHANGED loads

Next == (\E s \in Orders : Load(s)) \/ Go \/ Reorder
Spec == Init /\ [][Next]_vars
=============================================================================
