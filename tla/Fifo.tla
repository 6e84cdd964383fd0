-------------------------------- MODULE Fifo --------------------------------
(***************************************************************************)
(* What a bounded queue of audio frames promises: frames leave in the      *)
(* order in which they came, none is lost or doubled, and one that does    *)
(* not fit is refused, not stored over another.                            *)
(***************************************************************************)
EXTENDS Integers, Sequences

CONSTANTS
    Capacity,   \* frames the queue holds
    Batch       \* the sequences of frames that are put

VARIABLE queue

Least(a, b) == IF a < b THEN a ELSE b
Taken(q, n) == SubSeq(q, 1, Least(n, Len(q)))
Rest(q, n) == SubSeq(q, Least(n, Len(q)) + 1, Len(q))
Joined(q, data) == q \o Taken(data, Capacity - Len(q))

Init == queue = <<>>

Put(data) == queue' = Joined(queue, data)
Get(n) == queue' = Rest(queue, n)
Clear == queue' = <<>>

\* Cleared and filled again in one step of the writer.
Refill(data) == queue' = Joined(<<>>, data)

Next ==
    \/ \E data \in Batch : Put(data) \/ Refill(data)
    \/ \E n \in 0 .. Capacity : Get(n)
    \/ Clear

Spec == Init /\ [][Next]_queue
=============================================================================
