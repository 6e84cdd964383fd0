----------------------------- MODULE RingBuffer -----------------------------
(***************************************************************************)
(* The ring buffer of backends/local/ring_buffer.py, which the feeding     *)
(* loop writes and PortAudio's thread reads.  Every method holds the lock  *)
(* of the buffer from its first line to its last, so each is one step.     *)
(***************************************************************************)
EXTENDS Integers, Sequences

CONSTANTS
    Capacity,   \* frames the buffer holds
    Frame,      \* what a frame can be
    NoFrame,    \* what the slots hold before the first frame
    Batch       \* the sequences of frames a writer may hand over

ASSUME CapacityAssumption == Capacity \in Nat \ {0}
ASSUME BatchAssumption == Batch \subseteq Seq(Frame)

VARIABLE ring   \* [slots, write_pos, read_pos, available]

Empty == [slots |-> [i \in 0 .. Capacity - 1 |-> NoFrame],
          write_pos |-> 0, read_pos |-> 0, available |-> 0]

FitsAlways(r, data) == Len(data)                     \* mutant: overwrites
Fits(r, data) ==
    LET free == Capacity - r.available
    IN  IF Len(data) < free THEN Len(data) ELSE free

\* write: two copies when the frames run over the end of the array.
Written(r, data) ==
    LET frames == Fits(r, data)
        end_pos == r.write_pos + frames
        first_chunk == Capacity - r.write_pos
    IN  [slots |-> [i \in 0 .. Capacity - 1 |->
             IF r.write_pos <= i /\ i < end_pos
             THEN data[i - r.write_pos + 1]
             ELSE IF end_pos > Capacity /\ i < frames - first_chunk
             THEN data[first_chunk + i + 1]
             ELSE r.slots[i]],
         write_pos |-> (r.write_pos + frames) % Capacity,
         read_pos |-> r.read_pos,
         available |-> r.available + frames]

Actual(r, n) == IF n < r.available THEN n ELSE r.available

\* read: the frames that come before the zeros of an underrun, in two copies as well.
Output(r, n) ==
    LET first_chunk == Capacity - r.read_pos
    IN  [i \in 1 .. Actual(r, n) |->
            IF r.read_pos + Actual(r, n) <= Capacity \/ i <= first_chunk
            THEN r.slots[r.read_pos + i - 1]
            ELSE r.slots[i - first_chunk - 1]]

AfterRead(r, n) ==
    [slots |-> r.slots, write_pos |-> r.write_pos,
     read_pos |-> (r.read_pos + Actual(r, n)) % Capacity,
     available |-> r.available - Actual(r, n)]

ClearedPartly(r) == [r EXCEPT !.write_pos = 0, !.available = 0]   \* mutant: reads on from where it was
Cleared(r) == [slots |-> r.slots, write_pos |-> 0, read_pos |-> 0, available |-> 0]

(***************************************************************************)
(* The buffer by itself, and the queue it implements.                      *)
(***************************************************************************)
RingInit == ring = Empty

Write(data) == ring' = Written(ring, data)
Read(n) == ring' = AfterRead(ring, n)
Clear == ring' = Cleared(ring)

RingNext ==
    \/ \E data \in Batch : Write(data)
    \/ \E n \in Nat : Read(n)
    \/ Clear

RingSpec == RingInit /\ [][RingNext]_ring

Contents == Output(ring, ring.available)

Queue == INSTANCE Fifo WITH queue <- Contents
=============================================================================
