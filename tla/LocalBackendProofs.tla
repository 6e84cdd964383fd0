------------------------- MODULE LocalBackendProofs -------------------------
(***************************************************************************)
(* Proofs about LocalBackend, for all tracks, sizes and bounds: the types; *)
(* that whatever the feeding loop, the commands and the audio thread do to *)
(* the ring buffer, it remains a bounded queue; that pause, seek and play  *)
(* hold; that what is heard is complete and is what the player is told.    *)
(* The first part is about the ring buffer alone.                          *)
(***************************************************************************)
EXTENDS LocalBackend, SequenceTheorems, TLAPS

Slot == Frame \cup {NoFrame}

\* a + b on a circle of c.
Around(a, b, c) == IF a + b < c THEN a + b ELSE a + b - c

\* The write index is as far ahead of the read index as there are frames.
Ring(r) ==
    /\ r \in [slots : [0 .. Capacity - 1 -> Slot], write_pos : 0 .. Capacity - 1,
              read_pos : 0 .. Capacity - 1, available : 0 .. Capacity]
    /\ r.write_pos = Around(r.read_pos, r.available, Capacity)

\* The frame that is the i-th to be read, and all of them.
At(r, i) == r.slots[Around(r.read_pos, i - 1, Capacity)]
Held(r) == Output(r, r.available)

-----------------------------------------------------------------------------
(***************************************************************************)
(* Arithmetic on the circle: c slots, read index rp, write index wp, av    *)
(* frames held, n frames moved.                                            *)
(***************************************************************************)

\* The index read or written next comes from a division; the distance stays right.
LEMMA WriteIndex ==
  ASSUME NEW c \in Nat \ {0}, NEW rp \in 0 .. c - 1, NEW wp \in 0 .. c - 1,
         NEW av \in 0 .. c, NEW n \in Nat, av + n <= c, wp = Around(rp, av, c)
  PROVE  (wp + n) % c \in 0 .. c - 1 /\ (wp + n) % c = Around(rp, av + n, c)
BY DEF Around

LEMMA ReadIndex ==
  ASSUME NEW c \in Nat \ {0}, NEW rp \in 0 .. c - 1, NEW n \in 0 .. c
  PROVE  (rp + n) % c \in 0 .. c - 1 /\ (rp + n) % c = Around(rp, n, c)
BY DEF Around

LEMMA ReadDistance ==
  ASSUME NEW c \in Nat \ {0}, NEW rp \in 0 .. c - 1, NEW av \in 0 .. c, NEW n \in 0 .. av
  PROVE  Around(Around(rp, n, c), av - n, c) = Around(rp, av, c)
BY DEF Around

\* A write touches no slot that holds a frame, and puts the others where they are read: the
\* case it takes at slot p, where the i-th frame is.
Placed(c, wp, av, n, i, p) ==
    /\ p \in 0 .. c - 1
    /\ i <= av => ~(wp <= p /\ p < wp + n) /\ ~(wp + n > c /\ p < n - (c - wp))
    /\ i > av /\ wp <= p => p < wp + n /\ p - wp + 1 = i - av
    /\ i > av /\ p < wp => wp + n > c /\ p < n - (c - wp) /\ (c - wp) + p + 1 = i - av

LEMMA WriteSlot ==
  ASSUME NEW c \in Nat \ {0}, NEW rp \in 0 .. c - 1, NEW wp \in 0 .. c - 1,
         NEW av \in 0 .. c, NEW n \in Nat, av + n <= c, wp = Around(rp, av, c),
         NEW i \in 1 .. av + n
  PROVE  Placed(c, wp, av, n, i, Around(rp, i - 1, c))
BY DEF Around, Placed

\* The frames after n others are n further on.
LEMMA ReadSlot ==
  ASSUME NEW c \in Nat \ {0}, NEW rp \in 0 .. c - 1, NEW av \in 0 .. c, NEW n \in 0 .. av,
         NEW i \in 1 .. av - n
  PROVE  Around(Around(rp, n, c), i - 1, c) = Around(rp, i + n - 1, c)
BY DEF Around

-----------------------------------------------------------------------------
\* What the shape says, component by component.
LEMMA RingParts ==
  ASSUME NEW r, Ring(r)
  PROVE  /\ Capacity \in Nat \ {0}
         /\ r.slots \in [0 .. Capacity - 1 -> Slot]
         /\ r.write_pos \in 0 .. Capacity - 1 /\ r.read_pos \in 0 .. Capacity - 1
         /\ r.available \in 0 .. Capacity
         /\ r.write_pos = Around(r.read_pos, r.available, Capacity)
BY CapacityAssumption DEF Ring

\* What a read of n frames returns, frame by frame.
LEMMA OutputIs ==
  ASSUME NEW r, Ring(r), NEW n \in Nat
  PROVE  /\ Output(r, n) \in Seq(Slot)
         /\ Len(Output(r, n)) = Actual(r, n)
         /\ \A i \in 1 .. Actual(r, n) : Output(r, n)[i] = At(r, i)
<1>1. Actual(r, n) \in 0 .. r.available
  BY RingParts DEF Actual
<1>2. \A i \in 1 .. Actual(r, n) : Output(r, n)[i] = At(r, i)
  BY <1>1, RingParts DEF Output, At, Around
<1>3. \A i \in 1 .. Actual(r, n) : At(r, i) \in Slot
  <2>1. \A i \in 1 .. Actual(r, n) : Around(r.read_pos, i - 1, Capacity) \in 0 .. Capacity - 1
    BY <1>1, RingParts DEF Around
  <2>2. QED
    BY <2>1, RingParts DEF At
<1>4. Output(r, n) \in [1 .. Actual(r, n) -> Slot]
  <2>1. Output(r, n) = [i \in 1 .. Actual(r, n) |-> Output(r, n)[i]]
    BY DEF Output
  <2>2. QED
    BY <1>2, <1>3, <2>1
<1>5. Output(r, n) \in Seq(Slot) /\ Len(Output(r, n)) = Actual(r, n)
  BY <1>1, <1>4, RingParts
<1>6. QED
  BY <1>2, <1>5

\* What is written fits.
LEMMA FitsIs ==
  ASSUME NEW r, Ring(r), NEW data \in Seq(Frame)
  PROVE  /\ Fits(r, data) \in 0 .. Len(data)
         /\ r.available + Fits(r, data) \in 0 .. Capacity
         /\ Fits(r, data) = IF Len(data) < Capacity - r.available
                            THEN Len(data) ELSE Capacity - r.available
<1>1. r.available \in 0 .. Capacity /\ Len(data) \in Nat
  BY LenProperties DEF Ring
<1>2. QED
  BY <1>1, CapacityAssumption DEF Fits

\* What a write assigns, component by component.
LEMMA WrittenParts ==
  ASSUME NEW r, Ring(r), NEW data \in Seq(Frame), NEW w, w = Written(r, data),
         NEW n, n = Fits(r, data)
  PROVE  /\ w.read_pos = r.read_pos /\ w.available = r.available + n
         /\ w.write_pos = (r.write_pos + n) % Capacity
         /\ \A p \in 0 .. Capacity - 1 : w.slots[p] =
               IF r.write_pos <= p /\ p < r.write_pos + n
               THEN data[p - r.write_pos + 1]
               ELSE IF r.write_pos + n > Capacity /\ p < n - (Capacity - r.write_pos)
               THEN data[(Capacity - r.write_pos) + p + 1]
               ELSE r.slots[p]
BY DEF Written, Ring

\* A write keeps the shape of the buffer.
LEMMA WrittenShape ==
  ASSUME NEW r, Ring(r), NEW data \in Seq(Frame)
  PROVE  Ring(Written(r, data))
<1> DEFINE n == Fits(r, data)
           w == Written(r, data)
<1> HIDE DEF n, w
<1>1. n \in Nat /\ n <= Len(data) /\ r.available + n \in 0 .. Capacity /\ Len(data) \in Nat
  BY FitsIs, LenProperties DEF n
<1>2. /\ w.read_pos = r.read_pos /\ w.available = r.available + n
      /\ w.write_pos = (r.write_pos + n) % Capacity
  BY WrittenParts DEF n, w
<1>3. w.write_pos \in 0 .. Capacity - 1 /\ w.write_pos = Around(w.read_pos, w.available, Capacity)
  <2>1. /\ (r.write_pos + n) % Capacity \in 0 .. Capacity - 1
        /\ (r.write_pos + n) % Capacity = Around(r.read_pos, r.available + n, Capacity)
    <3>1. /\ Capacity \in Nat \ {0} /\ r.write_pos \in 0 .. Capacity - 1
          /\ r.read_pos \in 0 .. Capacity - 1 /\ r.available \in 0 .. Capacity
          /\ r.write_pos = Around(r.read_pos, r.available, Capacity)
          /\ n \in Nat /\ r.available + n <= Capacity
      BY <1>1, RingParts
    <3>2. QED
      BY <3>1, WriteIndex
  <2>2. QED
    BY <1>2, <2>1
<1>4. w.slots \in [0 .. Capacity - 1 -> Slot]
  <2>1. w.slots = [p \in 0 .. Capacity - 1 |-> w.slots[p]]
    BY DEF w, Written, Ring
  <2>2. \A j \in 1 .. n : data[j] \in Slot
    BY <1>1, ElementOfSeq DEF Slot
  <2>3. ASSUME NEW p \in 0 .. Capacity - 1
        PROVE  w.slots[p] \in Slot
    <3>1. CASE r.write_pos <= p /\ p < r.write_pos + n
      <4>1. p - r.write_pos + 1 \in 1 .. n
        BY <1>1, <3>1, RingParts
      <4>2. w.slots[p] = data[p - r.write_pos + 1]
        BY <3>1, WrittenParts DEF n, w
      <4>3. QED
        BY <2>2, <4>1, <4>2
    <3>2. CASE /\ ~(r.write_pos <= p /\ p < r.write_pos + n)
               /\ r.write_pos + n > Capacity /\ p < n - (Capacity - r.write_pos)
      <4>1. (Capacity - r.write_pos) + p + 1 \in 1 .. n
        BY <1>1, <3>2, RingParts
      <4>2. w.slots[p] = data[(Capacity - r.write_pos) + p + 1]
        BY <3>2, WrittenParts DEF n, w
      <4>3. QED
        BY <2>2, <4>1, <4>2
    <3>3. CASE /\ ~(r.write_pos <= p /\ p < r.write_pos + n)
               /\ ~(r.write_pos + n > Capacity /\ p < n - (Capacity - r.write_pos))
      <4>1. w.slots[p] = r.slots[p]
        BY <3>3, WrittenParts DEF n, w
      <4>2. QED
        BY <4>1, RingParts
    <3>4. QED
      BY <3>1, <3>2, <3>3
  <2>4. QED
    BY <2>1, <2>3
<1>5. w = [slots |-> w.slots, write_pos |-> w.write_pos, read_pos |-> w.read_pos,
           available |-> w.available]
  BY DEF w, Written, Ring
<1>6. QED
  BY <1>1, <1>2, <1>3, <1>4, <1>5, RingParts DEF Ring, w

\* After a write, what was held is held as before and the new frames follow it.
LEMMA WrittenFrames ==
  ASSUME NEW r, Ring(r), NEW data \in Seq(Frame),
         NEW i \in 1 .. r.available + Fits(r, data)
  PROVE  At(Written(r, data), i) =
           IF i <= r.available THEN At(r, i) ELSE data[i - r.available]
<1> DEFINE n == Fits(r, data)
           w == Written(r, data)
           p == Around(r.read_pos, i - 1, Capacity)
<1> HIDE DEF n, w, p
<1>1. n \in Nat /\ r.available + n <= Capacity /\ i \in 1 .. r.available + n
  BY FitsIs, RingParts DEF n
<1>2. Placed(Capacity, r.write_pos, r.available, n, i, p)
  <2>1. /\ Capacity \in Nat \ {0} /\ r.write_pos \in 0 .. Capacity - 1
        /\ r.read_pos \in 0 .. Capacity - 1 /\ r.available \in 0 .. Capacity
        /\ r.write_pos = Around(r.read_pos, r.available, Capacity)
    BY RingParts
  <2>2. QED
    BY <1>1, <2>1, WriteSlot DEF p
<1>3. At(w, i) = w.slots[p] /\ At(r, i) = r.slots[p]
  BY WrittenParts DEF At, w, p
<1>4. p \in 0 .. Capacity - 1
  BY <1>2 DEF Placed
<1>5. w.slots[p] = IF r.write_pos <= p /\ p < r.write_pos + n
                   THEN data[p - r.write_pos + 1]
                   ELSE IF r.write_pos + n > Capacity /\ p < n - (Capacity - r.write_pos)
                   THEN data[(Capacity - r.write_pos) + p + 1]
                   ELSE r.slots[p]
  BY <1>4, WrittenParts DEF n, w
<1>6. CASE i <= r.available
  <2>1. w.slots[p] = r.slots[p]
    BY <1>2, <1>5, <1>6 DEF Placed
  <2>2. QED
    BY <1>3, <1>6, <2>1 DEF w
<1>7. CASE i > r.available /\ r.write_pos <= p
  <2>1. w.slots[p] = data[i - r.available]
    BY <1>2, <1>5, <1>7 DEF Placed
  <2>2. ~(i <= r.available)
    BY <1>1, <1>7, RingParts
  <2>3. QED
    BY <1>3, <2>1, <2>2 DEF w
<1>8. CASE i > r.available /\ p < r.write_pos
  <2>1. ~(r.write_pos <= p)
    BY <1>4, <1>8, RingParts
  <2>2. w.slots[p] = data[i - r.available]
    BY <1>2, <1>5, <1>8, <2>1 DEF Placed
  <2>3. ~(i <= r.available)
    BY <1>1, <1>8, RingParts
  <2>4. QED
    BY <1>3, <2>2, <2>3 DEF w
<1>9. QED
  BY <1>1, <1>4, <1>6, <1>7, <1>8, RingParts

\* What is held is a sequence of the frames at the slots in turn.
LEMMA HeldIs ==
  ASSUME NEW r, Ring(r)
  PROVE  /\ Held(r) \in Seq(Slot) /\ Len(Held(r)) = r.available
         /\ \A i \in 1 .. r.available : Held(r)[i] = At(r, i)
<1>1. r.available \in Nat /\ Actual(r, r.available) = r.available
  BY RingParts DEF Actual
<1>2. QED
  BY <1>1, OutputIs DEF Held

\* A read moves the read index on by what it returned.
LEMMA ReadShape ==
  ASSUME NEW r, Ring(r), NEW n \in Nat
  PROVE  Ring(AfterRead(r, n))
<1> DEFINE m == Actual(r, n)
           w == AfterRead(r, n)
<1> HIDE DEF m
<1>1. m \in 0 .. r.available
  BY RingParts DEF Actual, m
<1>2. /\ (r.read_pos + m) % Capacity \in 0 .. Capacity - 1
      /\ (r.read_pos + m) % Capacity = Around(r.read_pos, m, Capacity)
      /\ Around(Around(r.read_pos, m, Capacity), r.available - m, Capacity) = r.write_pos
  <2>1. /\ Capacity \in Nat \ {0} /\ r.write_pos \in 0 .. Capacity - 1
        /\ r.read_pos \in 0 .. Capacity - 1 /\ r.available \in 0 .. Capacity
        /\ r.write_pos = Around(r.read_pos, r.available, Capacity)
    BY RingParts
  <2>2. m \in 0 .. Capacity
    BY <1>1, <2>1
  <2>3. /\ (r.read_pos + m) % Capacity \in 0 .. Capacity - 1
        /\ (r.read_pos + m) % Capacity = Around(r.read_pos, m, Capacity)
    BY <2>1, <2>2, ReadIndex
  <2>4. Around(Around(r.read_pos, m, Capacity), r.available - m, Capacity)
          = Around(r.read_pos, r.available, Capacity)
    BY <1>1, <2>1, ReadDistance
  <2>5. QED
    BY <2>1, <2>3, <2>4
<1>3. w = [slots |-> r.slots, write_pos |-> r.write_pos,
           read_pos |-> (r.read_pos + m) % Capacity, available |-> r.available - m]
  BY DEF AfterRead, m
<1>4. r.available - m \in 0 .. Capacity
  BY <1>1, RingParts
<1>5. QED
  BY <1>2, <1>3, <1>4, RingParts DEF Ring

\* After a read, what is held are the frames that followed.
LEMMA ReadFrames ==
  ASSUME NEW r, Ring(r), NEW n \in Nat, NEW i \in 1 .. r.available - Actual(r, n)
  PROVE  At(AfterRead(r, n), i) = At(r, i + Actual(r, n))
<1> DEFINE m == Actual(r, n)
<1> HIDE DEF m
<1>1. m \in 0 .. r.available /\ i \in 1 .. r.available - m
  BY RingParts DEF Actual, m
<1>2. /\ Capacity \in Nat \ {0} /\ r.write_pos \in 0 .. Capacity - 1
      /\ r.read_pos \in 0 .. Capacity - 1 /\ r.available \in 0 .. Capacity
      /\ r.write_pos = Around(r.read_pos, r.available, Capacity)
  BY RingParts
<1>3. (r.read_pos + m) % Capacity = Around(r.read_pos, m, Capacity)
  <2>1. m \in 0 .. Capacity
    BY <1>1, <1>2
  <2>2. QED
    BY <1>2, <2>1, ReadIndex
<1>4. Around(Around(r.read_pos, m, Capacity), i - 1, Capacity) = Around(r.read_pos, i + m - 1, Capacity)
  BY <1>1, <1>2, ReadSlot
<1>5. QED
  <2>1. AfterRead(r, n).read_pos = Around(r.read_pos, m, Capacity) /\ AfterRead(r, n).slots = r.slots
    BY <1>3 DEF AfterRead, m
  <2>2. At(r, i + m) = r.slots[Around(r.read_pos, i + m - 1, Capacity)]
    BY <1>1 DEF At
  <2>3. QED
    BY <1>4, <2>1, <2>2 DEF At, m

-----------------------------------------------------------------------------
(***************************************************************************)
(* The operations of the queue.                                            *)
(***************************************************************************)

\* write puts the frames that fit behind those held (ring_buffer.py, write).
THEOREM WriteIsPut ==
  ASSUME NEW r, Ring(r), NEW data \in Seq(Frame)
  PROVE  Held(Written(r, data)) = Queue!Joined(Held(r), data)
<1> DEFINE n == Fits(r, data)
           new == SubSeq(data, 1, n)
           w == Written(r, data)
<1> HIDE DEF n, w
<1>1. n \in 0 .. Len(data) /\ Len(data) \in Nat /\ r.available \in Nat
  BY FitsIs, LenProperties, RingParts DEF n
<1>2. new \in Seq(Slot) /\ Len(new) = n /\ \A j \in 1 .. n : new[j] = data[j]
  <2>1. \A j \in 1 .. n : data[j] \in Slot
    BY <1>1, ElementOfSeq DEF Slot
  <2>2. QED
    BY <1>1, <2>1, SubSeqProperties
<1>3. Queue!Joined(Held(r), data) = Held(r) \o new
  <2>1. Len(Held(r)) = r.available
    BY HeldIs
  <2>2. Queue!Least(Capacity - r.available, Len(data)) = n
    BY FitsIs, <1>1, RingParts DEF Queue!Least, n
  <2>3. QED
    BY <2>1, <2>2 DEF Queue!Joined, Queue!Taken
<1>4. /\ Held(r) \o new \in Seq(Slot) /\ Len(Held(r) \o new) = r.available + n
      /\ \A i \in 1 .. r.available + n :
            (Held(r) \o new)[i] = IF i <= r.available THEN At(r, i) ELSE data[i - r.available]
  <2>1. /\ Held(r) \o new \in Seq(Slot) /\ Len(Held(r) \o new) = r.available + n
        /\ \A i \in 1 .. r.available + n :
              (Held(r) \o new)[i] = IF i <= r.available THEN Held(r)[i] ELSE new[i - r.available]
    BY <1>2, HeldIs, ConcatProperties
  <2>2. \A i \in 1 .. r.available + n :
          IF i <= r.available THEN Held(r)[i] = At(r, i) ELSE new[i - r.available] = data[i - r.available]
    BY <1>1, <1>2, HeldIs
  <2>3. QED
    BY <2>1, <2>2
<1>5. /\ Held(w) \in Seq(Slot) /\ Len(Held(w)) = r.available + n
      /\ \A i \in 1 .. r.available + n :
            Held(w)[i] = IF i <= r.available THEN At(r, i) ELSE data[i - r.available]
  <2>1. Ring(w) /\ w.available = r.available + n
    BY WrittenShape, WrittenParts DEF n, w
  <2>2. \A i \in 1 .. r.available + n :
          At(w, i) = IF i <= r.available THEN At(r, i) ELSE data[i - r.available]
    BY WrittenFrames DEF n, w
  <2>3. QED
    BY <2>1, <2>2, HeldIs
<1>6. QED
  BY <1>3, <1>4, <1>5, SeqEqual DEF w

\* read returns the frames held longest, in order (ring_buffer.py, read).
THEOREM ReadIsTaken ==
  ASSUME NEW r, Ring(r), NEW n \in Nat
  PROVE  Output(r, n) = Queue!Taken(Held(r), n)
<1> DEFINE m == Actual(r, n)
<1> HIDE DEF m
<1>1. m \in 0 .. r.available /\ r.available \in Nat
  BY RingParts DEF Actual, m
<1>2. Queue!Taken(Held(r), n) = SubSeq(Held(r), 1, m)
  BY HeldIs, RingParts DEF Queue!Taken, Queue!Least, Actual, m
<1>3. /\ SubSeq(Held(r), 1, m) \in Seq(Slot) /\ Len(SubSeq(Held(r), 1, m)) = m
      /\ \A i \in 1 .. m : SubSeq(Held(r), 1, m)[i] = Held(r)[i]
  <2>1. \A i \in 1 .. m : Held(r)[i] \in Slot
    BY <1>1, HeldIs, ElementOfSeq
  <2>2. QED
    BY <1>1, <2>1, SubSeqProperties
<1>4. \A i \in 1 .. m : SubSeq(Held(r), 1, m)[i] = Output(r, n)[i]
  <2>1. \A i \in 1 .. m : Output(r, n)[i] = At(r, i)
    BY OutputIs DEF m
  <2>2. \A i \in 1 .. m : Held(r)[i] = At(r, i)
    BY <1>1, HeldIs
  <2>3. QED
    BY <1>3, <2>1, <2>2
<1>5. QED
  BY <1>2, <1>3, <1>4, OutputIs, SeqEqual DEF m

\* read leaves the others (ring_buffer.py, read).
THEOREM ReadIsGet ==
  ASSUME NEW r, Ring(r), NEW n \in Nat
  PROVE  Held(AfterRead(r, n)) = Queue!Rest(Held(r), n)
<1> DEFINE m == Actual(r, n)
           w == AfterRead(r, n)
           rest == SubSeq(Held(r), m + 1, r.available)
<1> HIDE DEF m, w
<1>1. m \in 0 .. r.available /\ r.available \in Nat
  BY RingParts DEF Actual, m
<1>2. Queue!Rest(Held(r), n) = rest
  <2>1. Len(Held(r)) = r.available
    BY HeldIs
  <2>2. Queue!Least(n, Len(Held(r))) = m
    BY <1>1, <2>1 DEF Queue!Least, Actual, m
  <2>3. QED
    BY <2>1, <2>2 DEF Queue!Rest
<1>3. /\ rest \in Seq(Slot) /\ Len(rest) = r.available - m
      /\ \A i \in 1 .. r.available - m : rest[i] = At(r, i + m)
  <2>1. \A i \in m + 1 .. r.available : Held(r)[i] \in Slot
    BY <1>1, HeldIs, ElementOfSeq
  <2>2. /\ rest \in Seq(Slot)
        /\ Len(rest) = IF m + 1 <= r.available THEN r.available - (m + 1) + 1 ELSE 0
        /\ \A i \in 1 .. r.available - (m + 1) + 1 : rest[i] = Held(r)[(m + 1) + i - 1]
    BY <1>1, <2>1, SubSeqProperties
  <2>3. \A i \in 1 .. r.available - m : (m + 1) + i - 1 = i + m /\ i + m \in 1 .. r.available
    BY <1>1
  <2>4. \A i \in 1 .. r.available - m : rest[i] = Held(r)[i + m]
    BY <1>1, <2>2, <2>3
  <2>5. QED
    BY <1>1, <2>2, <2>3, <2>4, HeldIs
<1>4. /\ Held(w) \in Seq(Slot) /\ Len(Held(w)) = r.available - m
      /\ \A i \in 1 .. r.available - m : Held(w)[i] = At(r, i + m)
  <2>1. Ring(w) /\ w.available = r.available - m
    BY ReadShape DEF AfterRead, m, w
  <2>2. \A i \in 1 .. r.available - m : At(w, i) = At(r, i + m)
    BY ReadFrames DEF m, w
  <2>3. QED
    BY <2>1, <2>2, HeldIs
<1>5. QED
  BY <1>2, <1>3, <1>4, SeqEqual DEF w

\* A new buffer is in shape and holds nothing.
LEMMA EmptyHeld == Ring(Empty) /\ Held(Empty) = <<>>
<1>1. Ring(Empty)
  BY CapacityAssumption DEF Ring, Empty, Around, Slot
<1>2. Held(Empty) \in Seq(Slot) /\ Len(Held(Empty)) = 0
  BY <1>1, HeldIs DEF Empty
<1>3. QED
  BY <1>1, <1>2, EmptySeq, SeqEqual

\* clear leaves nothing (ring_buffer.py, clear).
LEMMA ClearedHeld ==
  ASSUME NEW r, Ring(r)
  PROVE  Ring(Cleared(r)) /\ Held(Cleared(r)) = <<>>
<1>1. Ring(Cleared(r))
  BY RingParts DEF Ring, Cleared, Around
<1>2. Held(Cleared(r)) \in Seq(Slot) /\ Len(Held(Cleared(r))) = 0
  BY <1>1, HeldIs DEF Cleared
<1>3. QED
  BY <1>1, <1>2, EmptySeq, SeqEqual

-----------------------------------------------------------------------------
\* What the types rest on: a job belongs to a track, and so does whoever waits
\* to open a stream for one; positions lie within the track.
Named ==
    /\ cmd \in [op : {"none", "play", "stop", "seek"}, track : Tracks \cup {None},
                pc : {"idle", "cancelling", "clearing", "taking", "decoding", "giving_up", "loading"}]
    /\ arm \in Tracks \cup {None}
    /\ next.track = None => next = NoNext
    /\ feeder = "reformatting" => taken \in Tracks
    /\ cmd.op = "play" => cmd.track \in Tracks
    /\ cmd.pc \in {"loading", "taking", "decoding", "giving_up"} => cmd.op = "play"
    /\ seek_target # None /\ track # None => seek_target \in 0 .. Length[track]

LocalInv == TypeOK /\ Named /\ Ring(ring)

-----------------------------------------------------------------------------
\* Every chunk is a sequence of frames that the buffer knows, and ends with the track.
LEMMA Chunks ==
  ASSUME LocalInv, track # None, NEW f \in 0 .. Length[track]
  PROVE  /\ ChunkAt(f) \in Batch /\ ChunkAt(f) \in Seq(Frame)
         /\ Len(ChunkAt(f)) = IF f + Chunk < Total THEN Chunk ELSE Total - f
         /\ Total = Length[track] /\ Total \in Nat /\ f \in Nat
<1>1. track \in Tracks /\ Length[track] \in Nat \ {0} /\ Chunk \in Nat \ {0}
  BY LocalAssumption DEF LocalInv, TypeOK
<1>2. Total = Length[track]
  BY DEF Total
<1>3. ChunkAt(f) \in Batch
  BY <1>1, <1>2, ChunkAssumption DEF ChunkAt
<1>4. Len(ChunkAt(f)) = IF f + Chunk < Total THEN Chunk ELSE Total - f
  BY <1>1, <1>2 DEF ChunkAt, ChunkOf
<1>5. QED
  BY <1>1, <1>2, <1>3, <1>4, BatchAssumption

\* What one step may do to the ring buffer.
RingStep ==
    \/ UNCHANGED ring
    \/ ring' = AfterRead(ring, Block)
    \/ ring' = Cleared(ring)
    \/ ring' = Empty
    \/ \E data \in Batch : ring' \in {Written(ring, data), Written(Cleared(ring), data)}

\* Where an iteration of the feeding loop feeds from.
LEMMA Feeding ==
  ASSUME LocalInv, Feed
  PROVE  track # None /\ FeedFrom \in 0 .. Length[track] /\ ChunkAt(FeedFrom) \in Batch
<1>1. track # None
  BY DEF Feed, LocalInv, TypeOK, Total
<1>2. FeedFrom \in 0 .. Length[track]
  BY <1>1 DEF FeedFrom, LocalInv, TypeOK, Named, Total
<1>3. QED
  BY <1>1, <1>2, Chunks

LEMMA StepOnRing ==
  ASSUME LocalInv, [Next]_vars
  PROVE  RingStep
<1> USE DEF RingStep
<1>1. ASSUME AudioCallback PROVE RingStep
  BY <1>1 DEF AudioCallback, Read
<1>2. ASSUME JobEnds PROVE RingStep
  BY <1>2 DEF JobEnds
<1>3. ASSUME Feed PROVE RingStep
  <2>1. ChunkAt(FeedFrom) \in Batch
    BY <1>3, Feeding
  <2>2. ring' \in {ring, Cleared(ring), Written(ring, ChunkAt(FeedFrom)),
                   Written(Cleared(ring), ChunkAt(FeedFrom))}
    BY <1>3 DEF Feed
  <2>3. QED
    BY <2>1, <2>2
<1>4. ASSUME FedAll \/ FeederTakes \/ Drain PROVE RingStep
  BY <1>4 DEF FedAll, FeederTakes, Drain
<1>5. ASSUME Reformat PROVE RingStep
  BY <1>5 DEF Reformat
<1>6. ASSUME CommandStep PROVE RingStep
  BY <1>6 DEF CommandStep, PlayPrepares, PlayCleared, PlayTakes, Loaded, LoadFails, StopClears,
    StopCleared, SeekEnds, Silence, Stopped, Start, Quietly
<1>7. ASSUME NextTrackSet PROVE RingStep
  BY <1>7 DEF NextTrackSet
<1>8. ASSUME Calls PROVE RingStep
  BY <1>8 DEF Calls, Play, Stop, CancelFeeding, SetNextTrack, ClearNextTrack, Pause, Resume, Seek
<1>9. ASSUME UNCHANGED vars PROVE RingStep
  BY <1>9 DEF vars
<1>10. QED
  BY <1>1, <1>2, <1>3, <1>4, <1>5, <1>6, <1>7, <1>8, <1>9 DEF Next, FeederStep

\* Whatever a step does, the buffer keeps its shape and takes a step of the queue.
LEMMA StepOfQueue ==
  ASSUME LocalInv, RingStep
  PROVE  Ring(ring)' /\ [Queue!Next]_Contents
<1>1. Ring(ring) /\ Contents = Held(ring) /\ Contents' = Held(ring')
  BY DEF LocalInv, Contents, Held
<1>2. CASE UNCHANGED ring
  BY <1>1, <1>2 DEF Contents
<1>3. CASE ring' = AfterRead(ring, Block)
  <2>1. Block \in Nat
    BY LocalAssumption
  <2>2. Contents' = Queue!Rest(Contents, Block)
    BY <1>1, <1>3, <2>1, ReadIsGet
  <2>3. Actual(ring, Block) \in 0 .. Capacity
    BY <1>1, <2>1, RingParts DEF Actual
  <2>4. Queue!Rest(Contents, Block) = Queue!Rest(Contents, Actual(ring, Block))
    <3>1. Len(Contents) = ring.available /\ ring.available \in Nat
      BY <1>1, HeldIs, RingParts
    <3>2. Queue!Least(Block, ring.available) = Queue!Least(Actual(ring, Block), ring.available)
      BY <2>1, <3>1 DEF Queue!Least, Actual
    <3>3. QED
      BY <3>1, <3>2 DEF Queue!Rest
  <2>5. Queue!Next
    BY <2>2, <2>3, <2>4 DEF Queue!Next, Queue!Get
  <2>6. QED
    BY <1>1, <1>3, <2>1, <2>5, ReadShape
<1>4. CASE ring' = Cleared(ring) \/ ring' = Empty
  <2>1. Ring(ring') /\ Contents' = <<>>
    BY <1>1, <1>4, ClearedHeld, EmptyHeld
  <2>2. QED
    BY <2>1 DEF Queue!Next, Queue!Clear
<1>5. CASE \E data \in Batch : ring' \in {Written(ring, data), Written(Cleared(ring), data)}
  <2>1. PICK data \in Batch : ring' \in {Written(ring, data), Written(Cleared(ring), data)}
    BY <1>5
  <2>2. data \in Seq(Frame)
    BY BatchAssumption
  <2>3. CASE ring' = Written(ring, data)
    <3>1. Ring(ring') /\ Contents' = Queue!Joined(Contents, data)
      BY <1>1, <2>2, <2>3, WrittenShape, WriteIsPut
    <3>2. QED
      BY <3>1 DEF Queue!Next, Queue!Put
  <2>4. CASE ring' = Written(Cleared(ring), data)
    <3>1. Ring(Cleared(ring)) /\ Held(Cleared(ring)) = <<>>
      BY <1>1, ClearedHeld
    <3>2. Ring(ring') /\ Contents' = Queue!Joined(<<>>, data)
      BY <1>1, <2>2, <2>4, <3>1, WrittenShape, WriteIsPut
    <3>3. QED
      BY <3>2 DEF Queue!Next, Queue!Refill
  <2>5. QED
    BY <2>1, <2>3, <2>4
<1>6. QED
  BY <1>2, <1>3, <1>4, <1>5 DEF RingStep

-----------------------------------------------------------------------------
(***************************************************************************)
(* Types                                                                   *)
(***************************************************************************)
LEMMA InitLocalInv == Init => LocalInv
<1> SUFFICES ASSUME Init PROVE LocalInv
  OBVIOUS
<1>1. Ring(ring) /\ ring = Empty
  BY EmptyHeld DEF Init, RingInit
<1>2. TypeOK
  <2>1. ring.write_pos = 0 /\ ring.read_pos = 0 /\ ring.available = 0
    BY <1>1 DEF Empty
  <2>2. fed = 0 /\ Total = 0
    BY DEF Init, Total
  <2>3. /\ next \in [track : Tracks \cup {None}, prefetch : Jobs, decode : Jobs]
        /\ stream \in [running : BOOLEAN, paused : BOOLEAN]
    BY DEF Init, NoNext, Jobs
  <2>4. /\ ring.write_pos \in 0 .. Capacity - 1 /\ ring.read_pos \in 0 .. Capacity - 1
        /\ ring.available \in 0 .. Capacity
    BY <2>1, CapacityAssumption
  <2>5. fed \in 0 .. Total
    BY <2>2
  <2>6. QED
    BY <2>3, <2>4, <2>5 DEF Init, TypeOK
<1>3. Named
  BY DEF Init, Named, Idle, NoNext
<1>4. QED
  BY <1>1, <1>2, <1>3 DEF LocalInv

\* The fields of the next track after one step of _take_next_track_audio.
LEMMA OutcomeTypes ==
  ASSUME LocalInv, NEW pc, NEW o \in Outcomes(pc)
  PROVE  /\ o.next \in [track : Tracks \cup {None}, prefetch : Jobs, decode : Jobs]
         /\ o.next.track = None => o.next = NoNext
         /\ o.to = "audio" => o.next.track \in Tracks
         /\ o.to \in {"taking", "decoding", "giving_up", "nothing", "audio"}
BY DEF LocalInv, TypeOK, Named, Outcomes, NoNext, Jobs

LEMMA ForgottenTypes ==
  ASSUME LocalInv
  PROVE  /\ Forgotten(next) \in [track : Tracks \cup {None}, prefetch : Jobs, decode : Jobs]
         /\ Forgotten(next).track = None => Forgotten(next) = NoNext
BY DEF LocalInv, TypeOK, Named, Forgotten, NoNext, Jobs

\* The part of the type invariant that is not about the ring buffer.
LEMMA RingTypes ==
  ASSUME Ring(ring)'
  PROVE  /\ (ring.write_pos \in 0 .. Capacity - 1)' /\ (ring.read_pos \in 0 .. Capacity - 1)'
         /\ (ring.available \in 0 .. Capacity)'
BY DEF Ring

LEMMA FeederTypes ==
  ASSUME LocalInv, FeederStep, Ring(ring)'
  PROVE  TypeOK' /\ Named'
<1>1. CASE Feed
  <2>1. track # None /\ FeedFrom \in 0 .. Length[track]
    BY <1>1, Feeding
  <2>2. Length[track] \in Nat /\ Total = Length[track]
    BY <2>1, LocalAssumption DEF LocalInv, TypeOK, Total
  <2>3. fed' \in 0 .. Total
    <3>1. ChunkAt(FeedFrom) \in Seq(Frame) /\ FeedFrom + Len(ChunkAt(FeedFrom)) \in 0 .. Total
      BY <2>1, <2>2, Chunks, LocalAssumption
    <3>2. \A r : Ring(r) => FedTo(r, FeedFrom) \in 0 .. Total
      BY <2>1, <2>2, <3>1, FitsIs, LenProperties DEF FedTo
    <3>3. Ring(ring) /\ Ring(Cleared(ring))
      BY ClearedHeld DEF LocalInv
    <3>4. fed' = FeedFrom \/ fed' = FedTo(ring, FeedFrom) \/ fed' = FedTo(Cleared(ring), FeedFrom)
      BY <1>1 DEF Feed
    <3>5. QED
      BY <2>1, <2>2, <3>2, <3>3, <3>4
  <2>4. /\ next' \in [track : Tracks \cup {None}, prefetch : Jobs, decode : Jobs]
        /\ next'.track = None => next' = NoNext
        /\ pending' \in BOOLEAN
    BY <1>1, ForgottenTypes DEF Feed, CompleteTransition, LocalInv, TypeOK, Named
  <2>5. UNCHANGED <<track, rate, prev, state, stream, feeder, taken, cmd, arm>> /\ seek_target' = None
    BY <1>1 DEF Feed
  <2>6. QED
    BY <2>3, <2>4, <2>5, RingTypes DEF LocalInv, TypeOK, Named, Total
<1>2. CASE FedAll
  BY <1>2, RingTypes DEF FedAll, feedVars, LocalInv, TypeOK, Named, Total
<1>3. CASE FeederTakes
  <2>1. PICK o \in Outcomes(feeder) :
          /\ next' = o.next
          /\ \/ /\ o.to \in {"taking", "decoding", "giving_up"}
                /\ feeder' = o.to
                /\ UNCHANGED <<feedVars, taken>>
             \/ /\ feeder' = "draining"
                /\ UNCHANGED <<feedVars, taken>>
             \/ /\ o.to = "audio"
                /\ Swap(o.next.track)
                /\ prev' = track /\ pending' = TRUE
                /\ UNCHANGED <<rate, taken>>
             \/ /\ o.to = "audio"
                /\ feeder' = "reformatting" /\ taken' = o.next.track
                /\ UNCHANGED feedVars
    BY <1>3 DEF FeederTakes
  <2>2. UNCHANGED <<state, stream, cmd, arm>>
    BY <1>3 DEF FeederTakes
  <2>3. /\ o.next \in [track : Tracks \cup {None}, prefetch : Jobs, decode : Jobs]
        /\ o.next.track = None => o.next = NoNext
        /\ o.to = "audio" => o.next.track \in Tracks
    BY OutcomeTypes
  <2>4. CASE UNCHANGED <<feedVars, taken>> /\ feeder' \in {"taking", "decoding", "giving_up", "draining"}
    BY <2>1, <2>2, <2>3, <2>4, RingTypes DEF feedVars, LocalInv, TypeOK, Named, Total
  <2>5. CASE o.to = "audio" /\ UNCHANGED feedVars /\ feeder' = "reformatting" /\ taken' = o.next.track
    BY <2>1, <2>2, <2>3, <2>5, RingTypes DEF feedVars, LocalInv, TypeOK, Named, Total
  <2>6. CASE /\ o.to = "audio" /\ Swap(o.next.track) /\ prev' = track /\ pending' = TRUE
             /\ UNCHANGED <<rate, taken>>
    <3>1. track' \in Tracks /\ fed' \in 0 .. Total'
      BY <2>3, <2>6, LocalAssumption DEF Swap, Total
    <3>2. TypeOK'
      BY <2>1, <2>2, <2>3, <2>6, <3>1, RingTypes DEF Swap, LocalInv, TypeOK
    <3>3. Named'
      BY <2>1, <2>2, <2>3, <2>6 DEF Swap, LocalInv, Named
    <3>4. QED
      BY <3>2, <3>3
  <2>7. QED
    BY <2>1, <2>4, <2>5, <2>6
<1>4. CASE Reformat
  <2>1. taken \in Tracks /\ Length[taken] \in Nat /\ Format[taken] \in {Format[t] : t \in Tracks}
    BY <1>4, LocalAssumption DEF Reformat, LocalInv, Named
  <2>2. /\ next' \in [track : Tracks \cup {None}, prefetch : Jobs, decode : Jobs]
        /\ next'.track = None => next' = NoNext
    BY <1>4, ForgottenTypes DEF Reformat
  <2>3. /\ track' = taken /\ fed' = 0 /\ seek_target' = None /\ feeder' = "feeding"
        /\ rate' = Format[taken] /\ taken' = None /\ pending' = FALSE
        /\ stream' = [running |-> TRUE, paused |-> FALSE]
        /\ UNCHANGED <<prev, state, cmd, arm>>
    BY <1>4 DEF Reformat, Swap
  <2>4. fed' \in 0 .. Total'
    BY <2>1, <2>3, LocalAssumption DEF Total
  <2>5. TypeOK'
    BY <2>1, <2>2, <2>3, <2>4, RingTypes DEF LocalInv, TypeOK
  <2>6. Named'
    BY <2>1, <2>2, <2>3 DEF LocalInv, Named
  <2>7. QED
    BY <2>5, <2>6
<1>5. CASE Drain
  <2>1. /\ next' \in [track : Tracks \cup {None}, prefetch : Jobs, decode : Jobs]
        /\ next'.track = None => next' = NoNext
        /\ pending' \in BOOLEAN
    BY <1>5, ForgottenTypes DEF Drain, CompleteTransition, LocalInv, TypeOK, Named
  <2>2. /\ UNCHANGED <<track, fed, rate, seek_target, prev, stream, taken, cmd, arm>>
        /\ feeder' \in {"feeding", "none", "draining"} /\ state' \in {state, "STOPPED"}
    BY <1>5 DEF Drain
  <2>3. QED
    BY <2>1, <2>2, RingTypes DEF LocalInv, TypeOK, Named, Total
<1>6. QED
  BY <1>1, <1>2, <1>3, <1>4, <1>5 DEF FeederStep

\* What a command silences or stops keeps the types of what it does not touch.
LEMMA CommandTypes ==
  ASSUME LocalInv, CommandStep, Ring(ring)'
  PROVE  TypeOK' /\ Named'
<1> DEFINE Typed(n) == /\ n \in [track : Tracks \cup {None}, prefetch : Jobs, decode : Jobs]
                       /\ n.track = None => n = NoNext
<1>1. Typed(NoNext) /\ Typed(next)
  BY DEF NoNext, Jobs, LocalInv, TypeOK, Named
<1>2. ASSUME NEW t \in Tracks, Start(t), UNCHANGED <<pending, prev, taken, arm>>, Typed(next')
      PROVE  TypeOK' /\ Named'
  <2>1. track' \in Tracks /\ fed' \in 0 .. Total' /\ rate' \in {Format[u] : u \in Tracks} \cup {None}
    BY <1>2, LocalAssumption DEF Start, Total
  <2>2. TypeOK'
    BY <1>2, <2>1, RingTypes DEF Start, LocalInv, TypeOK
  <2>3. Named'
    BY <1>2 DEF Start, Idle, LocalInv, Named
  <2>4. QED
    BY <2>2, <2>3
<1>3. ASSUME NEW reuse \in BOOLEAN, PlayPrepares(reuse)
      PROVE  TypeOK' /\ Named'
  <2>1. Typed(next') /\ pending' = FALSE
    BY <1>1, <1>3 DEF PlayPrepares
  <2>2. /\ UNCHANGED <<track, fed, rate, seek_target, prev, feeder, taken, arm>>
        /\ \/ stream' = [stream EXCEPT !.paused = @ \/ rate # None] /\ state' = "LOADING"
           \/ UNCHANGED <<stream, state>>
        /\ \E pc \in {"taking", "clearing", "loading"} : cmd' = [cmd EXCEPT !.pc = pc]
        /\ cmd.op = "play"
    BY <1>3 DEF PlayPrepares, Silence, Quietly
  <2>3. TypeOK'
    BY <2>1, <2>2, RingTypes DEF LocalInv, TypeOK, Total
  <2>4. Named'
    BY <2>1, <2>2 DEF LocalInv, Named
  <2>5. QED
    BY <2>3, <2>4
<1>4. CASE PlayCleared
  <2>1. /\ UNCHANGED <<track, fed, rate, seek_target, prev, feeder, taken, arm, pending, next>>
        /\ stream' = [stream EXCEPT !.paused = @ \/ rate # None] /\ state' = "LOADING"
        /\ cmd' = [cmd EXCEPT !.pc = "loading"] /\ cmd.op = "play"
    BY <1>4 DEF PlayCleared, Silence, Quietly
  <2>2. TypeOK'
    BY <2>1, RingTypes DEF LocalInv, TypeOK, Total
  <2>3. Named'
    BY <2>1 DEF LocalInv, Named
  <2>4. QED
    BY <2>2, <2>3
<1>5. CASE PlayTakes
  <2>1. PICK o \in Outcomes(cmd.pc) :
          \/ /\ o.to \in {"taking", "decoding", "giving_up"}
             /\ cmd' = [cmd EXCEPT !.pc = o.to] /\ next' = o.next
             /\ UNCHANGED <<ring, track, rate, fed, seek_target, last, stream, feeder, state, believed>>
          \/ /\ o.to = "nothing"
             /\ cmd' = [cmd EXCEPT !.pc = "loading"] /\ next' = NoNext
             /\ UNCHANGED <<ring, track, rate, fed, seek_target, last, stream, feeder, state, believed>>
          \/ o.to = "audio" /\ next' = NoNext /\ Start(o.next.track)
    BY <1>5 DEF PlayTakes
  <2>2. UNCHANGED <<pending, prev, taken, arm>> /\ cmd.op = "play"
    BY <1>5 DEF PlayTakes
  <2>3. Typed(o.next) /\ (o.to = "audio" => o.next.track \in Tracks)
    BY OutcomeTypes
  <2>4. CASE o.to = "audio"
    BY <1>1, <1>2, <2>1, <2>2, <2>3, <2>4
  <2>5. CASE o.to # "audio"
    <3>1. /\ Typed(next')
          /\ \E pc \in {"taking", "decoding", "giving_up", "loading"} : cmd' = [cmd EXCEPT !.pc = pc]
          /\ UNCHANGED <<track, rate, fed, seek_target, stream, feeder, state>>
      BY <1>1, <2>1, <2>3, <2>5
    <3>2. TypeOK'
      BY <2>2, <3>1, RingTypes DEF LocalInv, TypeOK, Total
    <3>3. Named'
      BY <2>2, <3>1 DEF LocalInv, Named
    <3>4. QED
      BY <3>2, <3>3
  <2>6. QED
    BY <2>4, <2>5
<1>6. CASE Loaded
  <2>1. cmd.track \in Tracks /\ Start(cmd.track) /\ UNCHANGED <<pending, prev, next, taken, arm>>
    BY <1>6 DEF Loaded, LocalInv, Named
  <2>2. QED
    BY <1>1, <1>2, <2>1
<1>7. CASE LoadFails
  BY <1>7, RingTypes DEF LoadFails, Idle, feedVars, LocalInv, TypeOK, Named, Total
<1>8. ASSUME Stopped, Typed(next'), pending' \in BOOLEAN,
             UNCHANGED <<rate, seek_target, prev, feeder, taken, arm>>
      PROVE  TypeOK' /\ Named'
  <2>1. track' = None /\ fed' \in 0 .. Total' /\ cmd' = Idle /\ state' = "STOPPED"
        /\ stream' = [stream EXCEPT !.running = FALSE]
    BY <1>8 DEF Stopped, Total
  <2>2. TypeOK'
    BY <1>8, <2>1, RingTypes DEF LocalInv, TypeOK
  <2>3. Named'
    BY <1>8, <2>1 DEF Idle, LocalInv, Named
  <2>4. QED
    BY <2>2, <2>3
<1>9. CASE StopClears
  <2>1. /\ Typed(next') /\ pending' = FALSE /\ cmd.op = "stop"
        /\ UNCHANGED <<rate, seek_target, prev, feeder, taken, arm>>
        /\ \/ /\ cmd' = [cmd EXCEPT !.pc = "clearing"]
              /\ UNCHANGED <<stream, fed, track, state>>
           \/ Stopped
    BY <1>1, <1>9 DEF StopClears
  <2>2. CASE Stopped
    BY <1>8, <2>1, <2>2
  <2>3. CASE cmd' = [cmd EXCEPT !.pc = "clearing"] /\ UNCHANGED <<stream, fed, track, state>>
    <3>1. TypeOK'
      BY <2>1, <2>3, RingTypes DEF LocalInv, TypeOK, Total
    <3>2. Named'
      BY <2>1, <2>3 DEF LocalInv, Named
    <3>3. QED
      BY <3>1, <3>2
  <2>4. QED
    BY <2>1, <2>2, <2>3
<1>10. CASE StopCleared
  <2>1. /\ Stopped /\ Typed(next') /\ pending' \in BOOLEAN
        /\ UNCHANGED <<rate, seek_target, prev, feeder, taken, arm>>
    BY <1>1, <1>10 DEF StopCleared, LocalInv, TypeOK
  <2>2. QED
    BY <1>8, <2>1
<1>11. CASE SeekEnds
  <2>1. fed' = Total /\ Total' = Total /\ Total \in Nat
    BY <1>11, LocalAssumption DEF SeekEnds, Total, LocalInv, TypeOK
  <2>2. TypeOK'
    BY <1>11, <2>1, RingTypes DEF SeekEnds, LocalInv, TypeOK
  <2>3. Named'
    BY <1>11 DEF SeekEnds, Idle, LocalInv, Named
  <2>4. QED
    BY <2>2, <2>3
<1>12. QED
  BY <1>3, <1>4, <1>5, <1>6, <1>7, <1>9, <1>10, <1>11 DEF CommandStep

\* The player's calls, the arming of the next track and the downloads.
LEMMA CallTypes ==
  ASSUME LocalInv, AudioCallback \/ JobEnds \/ NextTrackSet \/ Calls \/ UNCHANGED vars, Ring(ring)'
  PROVE  TypeOK' /\ Named'
<1> DEFINE Typed(n) == /\ n \in [track : Tracks \cup {None}, prefetch : Jobs, decode : Jobs]
                       /\ n.track = None => n = NoNext
<1>1. Typed(NoNext) /\ Typed(next)
      /\ \A t \in Tracks : Typed([track |-> t, prefetch |-> "running", decode |-> "none"])
  BY LocalAssumption DEF NoNext, Jobs, LocalInv, TypeOK, Named
<1>2. ASSUME Typed(next'), cmd' = cmd, arm' \in Tracks \cup {None}, UNCHANGED <<feedVars, taken, feeder>>,
             stream' \in [running : BOOLEAN, paused : BOOLEAN], state' \in {state, "PLAYING", "PAUSED"}
      PROVE  TypeOK' /\ Named'
  <2>1. TypeOK'
    BY <1>2, RingTypes DEF feedVars, LocalInv, TypeOK, Total
  <2>2. Named'
    BY <1>2 DEF feedVars, LocalInv, Named
  <2>3. QED
    BY <2>1, <2>2
<1>3. arm \in Tracks \cup {None} /\ stream \in [running : BOOLEAN, paused : BOOLEAN]
  BY DEF LocalInv, TypeOK, Named
<1>4. CASE AudioCallback \/ UNCHANGED vars
  BY <1>1, <1>2, <1>3, <1>4 DEF AudioCallback, vars
<1>5. CASE JobEnds
  <2>1. Typed(next')
    BY <1>5 DEF JobEnds, Download, Decoding, Jobs, NoNext, LocalInv, TypeOK, Named
  <2>2. QED
    BY <1>2, <1>3, <1>5, <2>1 DEF JobEnds
<1>6. CASE NextTrackSet
  BY <1>1, <1>2, <1>3, <1>6 DEF NextTrackSet
<1>7. ASSUME NEW t \in Tracks, SetNextTrack(t)
      PROVE  TypeOK' /\ Named'
  BY <1>1, <1>2, <1>3, <1>7 DEF SetNextTrack
<1>8. CASE ClearNextTrack \/ Pause \/ Resume
  BY <1>1, <1>2, <1>3, <1>8 DEF ClearNextTrack, Pause, Resume, Hollow
<1>9. ASSUME NEW op \in {"play", "stop", "seek"}, NEW t \in Tracks \cup {None}, op = "play" => t \in Tracks,
             CancelFeeding(op, t), arm' \in Tracks \cup {None}
      PROVE  TypeOK' /\ Named'
  <2>1. /\ cmd' = [op |-> op, track |-> t, pc |-> "cancelling"]
        /\ feeder' \in {"giving_up", "none"} /\ taken' = None
        /\ UNCHANGED <<ring, feedVars, next, state, stream>>
    BY <1>9 DEF CancelFeeding
  <2>2. TypeOK'
    BY <2>1, RingTypes DEF feedVars, LocalInv, TypeOK, Total
  <2>3. Named'
    BY <1>9, <2>1 DEF feedVars, LocalInv, Named
  <2>4. QED
    BY <2>2, <2>3
<1>10. ASSUME NEW t \in Tracks, Play(t)
       PROVE  TypeOK' /\ Named'
  BY <1>9, <1>10 DEF Play
<1>11. ASSUME NEW t \in Tracks \cup {None}, Stop(t)
       PROVE  TypeOK' /\ Named'
  BY <1>9, <1>11 DEF Stop
<1>12. ASSUME NEW target \in Nat, Seek(target)
       PROVE  TypeOK' /\ Named'
  <2>1. CASE CancelFeeding("seek", None)
    BY <1>3, <1>9, <1>12, <2>1 DEF Seek
  <2>2. CASE /\ target < Total /\ seek_target' = target /\ fed' \in {target, fed}
             /\ UNCHANGED <<track, rate, pending, prev, next, state, stream, feeder, taken, cmd>>
    <3>1. Total' = Total /\ target \in 0 .. Total /\ (track # None => Total = Length[track])
      BY <2>2, LocalAssumption DEF Total, LocalInv, TypeOK
    <3>2. TypeOK'
      BY <1>12, <2>2, <3>1, RingTypes DEF LocalInv, TypeOK
    <3>3. Named'
      BY <1>12, <2>2, <3>1 DEF Seek, LocalInv, Named
    <3>4. QED
      BY <3>2, <3>3
  <2>3. QED
    BY <1>12, <2>1, <2>2 DEF Seek
<1>13. CASE Calls
  <2>1. \A t \in Tracks : Length[t] \in Nat
    BY LocalAssumption
  <2>2. QED
    BY <1>7, <1>8, <1>10, <1>11, <1>12, <1>13, <2>1 DEF Calls
<1>14. QED
  BY <1>4, <1>5, <1>6, <1>13

-----------------------------------------------------------------------------
LEMMA NextLocalInv == LocalInv /\ [Next]_vars => LocalInv' /\ [Queue!Next]_Contents
<1> SUFFICES ASSUME LocalInv, [Next]_vars
             PROVE  LocalInv' /\ [Queue!Next]_Contents
  OBVIOUS
<1>1. Ring(ring)' /\ [Queue!Next]_Contents
  BY StepOnRing, StepOfQueue
<1>2. TypeOK' /\ Named'
  BY <1>1, FeederTypes, CommandTypes, CallTypes DEF Next
<1>3. QED
  BY <1>1, <1>2 DEF LocalInv

\* The fields of the backend and of its ring buffer keep their types, and the
\* feeding position lies within the track.
THEOREM LocalTypes == Spec => []TypeOK
<1>1. Init => LocalInv
  BY InitLocalInv
<1>2. LocalInv /\ [Next]_vars => LocalInv'
  BY NextLocalInv
<1>3. LocalInv => TypeOK
  BY DEF LocalInv
<1>4. QED
  BY <1>1, <1>2, <1>3, PTL DEF Spec

\* The ring buffer of the running backend is a bounded queue: whatever the
\* feeding loop, the player's commands and the audio thread do, frames leave in the
\* order in which they came and none is lost, doubled or overwritten.
THEOREM BufferImplementsFifo == Spec => BufferIsFifo
<1>1. Init => LocalInv /\ Queue!Init
  <2>1. Init => Contents = <<>>
    BY EmptyHeld DEF Init, RingInit, Contents, Held
  <2>2. QED
    BY <2>1, InitLocalInv DEF Queue!Init
<1>2. LocalInv /\ [Next]_vars => LocalInv' /\ [Queue!Next]_Contents
  BY NextLocalInv
<1>3. QED
  BY <1>1, <1>2, PTL DEF Spec, BufferIsFifo, Queue!Spec

-----------------------------------------------------------------------------
(***************************************************************************)
(* Who waits for whom.  The frames are left out: what the fields of the    *)
(* backend, the feeding loop and the player's command say of one another.  *)
(***************************************************************************)
Exceptions == given \in [rearmed : BOOLEAN, unpaused : BOOLEAN, tail : BOOLEAN, survived : BOOLEAN,
                        hollow : BOOLEAN]

\* A command works alone: the loop it has cancelled is gone, unless it survived, and only
\* ever comes back with the command's end.  Play finds no arming in its way.
Commanding ==
    /\ cmd.op = "none" \/ cmd.pc = "idle" => cmd = Idle
    /\ cmd.pc \notin {"idle", "cancelling"} => feeder = "none"
    /\ cmd # Idle /\ ~given.survived => feeder = "none"
    /\ cmd.op = "play" => arm = None
    /\ cmd.op = "play" /\ cmd.pc # "cancelling" => ~pending
    /\ cmd.op = "play" /\ cmd.pc \in {"clearing", "loading"} => next = NoNext
    /\ cmd.pc \in {"taking", "decoding", "giving_up"} => next.track \in {None, cmd.track}
    /\ cmd.pc \in {"taking", "decoding", "giving_up", "loading"} => ring.available = 0
    /\ cmd.op = "seek" => given.tail
    /\ cmd = Idle /\ feeder # "none" => state \in {"PLAYING", "PAUSED"}

\* The loop has a track, and leaves it only when all its frames are fed.
Working ==
    /\ feeder # "none" => track # None
    /\ feeder \notin {"none", "feeding"} => fed = Total
    /\ taken # None <=> feeder = "reformatting"
    /\ seek_target # None /\ track # None => seek_target < Total

\* A track that was swapped in and not announced is the one the player armed; until then
\* the player believes in the one before, and after that in the one that is fed.
Announcing ==
    /\ ~given.rearmed /\ Swapped => next.prefetch = "none" /\ next.decode # "running"
    /\ ~given.rearmed /\ cmd = Idle /\ feeder # "none" =>
          /\ next.track # None => armed = next.track
          /\ pending => armed = track
          /\ taken # None => armed = taken /\ ~pending
    /\ ~given.rearmed /\ ~given.survived /\ (feeder # "none" \/ ring.available > 0)
          => believed = IF pending THEN prev ELSE track
    /\ ~given.rearmed /\ ~given.tail /\ cmd = Idle /\ ~Swapped /\ feeder # "none"
          => believed = track

\* A seek that is not carried out yet finds the loop feeding its track.
Seeking ==
    /\ sought # None /\ ~given.tail /\ ~given.rearmed
       => /\ seek_target # None /\ track = sought /\ fed < Total
          /\ feeder = "feeding" /\ cmd = Idle

ControlInv ==
    /\ Exceptions /\ Commanding /\ Working /\ Announcing /\ Seeking
    /\ PausedIsSilent /\ PlayingIsFed

\* PortAudio's thread only takes frames away.
LEMMA AudioControl ==
  ASSUME LocalInv, ControlInv, TypeOK', Named', AudioCallback
  PROVE  ControlInv'
<1>1. ring'.available <= ring.available /\ ring'.available \in Nat /\ ring.available \in Nat
  BY LocalAssumption, RingTypes DEF AudioCallback, Read, AfterRead, Actual, LocalInv, TypeOK
<1>2. /\ UNCHANGED <<feedVars, next, state, stream, feeder, taken, cmd, arm, ended, playerVars, used>>
      /\ ring.available > 0
  BY DEF AudioCallback
<1>3. Exceptions' /\ Commanding' /\ Working'
  BY <1>1, <1>2 DEF feedVars, playerVars, ControlInv, Exceptions, Commanding, Working, Total
<1>4. Announcing' /\ Seeking'
  BY <1>1, <1>2 DEF feedVars, playerVars, ControlInv, Announcing, Seeking, Total, Swapped
<1>5. PausedIsSilent' /\ PlayingIsFed'
  BY <1>1, <1>2 DEF feedVars, playerVars, ControlInv, PausedIsSilent, PlayingIsFed
<1>6. QED
  BY <1>3, <1>4, <1>5 DEF ControlInv

\* The loop asks for the next track: it goes on waiting, gives up, or holds the audio.
LEMMA TakingControl ==
  ASSUME LocalInv, ControlInv, TypeOK', Named', FeederTakes
  PROVE  ControlInv'
<1>1. PICK o \in Outcomes(feeder) :
          /\ next' = o.next
          /\ \/ /\ o.to \in {"taking", "decoding", "giving_up"}
                /\ feeder' = o.to
                /\ UNCHANGED <<feedVars, taken, given>>
             \/ /\ o.to = "nothing"
                /\ feeder' = "draining"
                /\ UNCHANGED <<feedVars, taken, given>>
             \/ /\ o.to = "audio"
                /\ Swap(o.next.track)
                /\ prev' = track /\ pending' = TRUE
                /\ given' = [given EXCEPT !.rearmed = @ \/ pending]
                /\ UNCHANGED <<rate, taken>>
             \/ /\ o.to = "audio"
                /\ feeder' = "reformatting" /\ taken' = o.next.track
                /\ given' = [given EXCEPT !.rearmed = @ \/ pending]
                /\ UNCHANGED feedVars
  BY DEF FeederTakes
<1>2. /\ feeder \in {"taking", "decoding", "giving_up"}
      /\ \/ o.next = NoNext
         \/ /\ o.next.track = next.track
            /\ o.next.prefetch \in {next.prefetch, "none"}
            /\ o.next.decode \in {next.decode, "running"}
      /\ o.next.decode = "running" /\ next.decode # "running" => next.prefetch # "none"
      /\ o.to = "audio" =>
            o.next.track = next.track /\ o.next.prefetch = "none" /\ o.next.decode = "done"
  BY DEF Outcomes, NoNext, LocalInv, TypeOK, Jobs
<1>3. UNCHANGED <<ring, state, stream, cmd, arm, last, ended, believed, armed, sought, used>>
  BY DEF FeederTakes
<1>4. o.to = "audio" => o.next.track \in Tracks
  BY OutcomeTypes
<1>5. CASE /\ UNCHANGED <<feedVars, taken, given>>
           /\ feeder' \in {"taking", "decoding", "giving_up", "draining"}
  BY <1>1, <1>2, <1>3, <1>5
  DEF feedVars, NoNext, Idle, LocalInv, TypeOK, Named, ControlInv, Exceptions, Commanding, Working,
    Total, Announcing, Seeking, Swapped, PausedIsSilent, PlayingIsFed
<1>6. CASE /\ o.to = "audio" /\ feeder' = "reformatting" /\ taken' = o.next.track
           /\ given' = [given EXCEPT !.rearmed = @ \/ pending] /\ UNCHANGED feedVars
  BY <1>1, <1>2, <1>3, <1>4, <1>6, LocalAssumption
  DEF feedVars, NoNext, Idle, LocalInv, TypeOK, Named, ControlInv, Exceptions, Commanding, Working,
    Total, Announcing, Seeking, Swapped, PausedIsSilent, PlayingIsFed
<1>7. CASE /\ o.to = "audio" /\ Swap(o.next.track) /\ prev' = track /\ pending' = TRUE
           /\ given' = [given EXCEPT !.rearmed = @ \/ pending] /\ UNCHANGED <<rate, taken>>
  BY <1>1, <1>2, <1>3, <1>4, <1>7, LocalAssumption
  DEF Swap, feedVars, NoNext, Idle, LocalInv, TypeOK, Named, ControlInv, Exceptions, Commanding, Working,
    Total, Announcing, Seeking, Swapped, PausedIsSilent, PlayingIsFed
<1>8. QED
  BY <1>1, <1>5, <1>6, <1>7

\* Every step of the loop.
LEMMA FeederControl ==
  ASSUME LocalInv, ControlInv, TypeOK', Named', FeederStep
  PROVE  ControlInv'
<1> USE DEF feedVars, playerVars, NoNext, Idle, Total, Swapped, ControlInv, Exceptions, Commanding,
  Working,
  Announcing, Seeking, PausedIsSilent, PlayingIsFed
<1>1. CASE Feed
  BY <1>1, LocalAssumption
  DEF Feed, FeedFrom, CompleteTransition, Completes, Forgotten, Announced, LocalInv, TypeOK
<1>2. CASE FedAll
  BY <1>2, LocalAssumption DEF FedAll
<1>3. CASE Reformat
  BY <1>3, LocalAssumption DEF Reformat, Swap, Forgotten, Announced, Empty, LocalInv, TypeOK
<1>4. CASE Drain
  BY <1>4, LocalAssumption
  DEF Drain, Drained, CompleteTransition, Completes, Forgotten, Announced, LocalInv, TypeOK
<1>5. QED
  BY <1>1, <1>2, <1>3, <1>4, TakingControl DEF FeederStep

\* A play has the feeding loop started: on the track that the player asked for.
LEMMA StartControl ==
  ASSUME LocalInv, ControlInv, TypeOK', Named', cmd.op = "play", cmd.track \in Tracks, Start(cmd.track),
         next' = NoNext, UNCHANGED <<pending, prev, taken, arm, armed, sought>>,
         cmd.pc # "cancelling", cmd # Idle
  PROVE  ControlInv'
<1>1. /\ Exceptions' /\ ~given'.hollow /\ given'.survived = given.survived
      /\ given'.tail = given.tail /\ given'.rearmed = given.rearmed
      /\ given'.unpaused = given.unpaused
  BY DEF Start, ControlInv, Exceptions
<1>2. /\ track' = cmd.track /\ fed' = 0 /\ seek_target' = None /\ ring'.available = 0
      /\ stream'.paused = FALSE /\ feeder' = "feeding" /\ state' = "PLAYING"
      /\ believed' = cmd.track /\ cmd' = Idle
  BY DEF Start, Empty
<1>3. ~pending /\ arm = None
  BY DEF ControlInv, Commanding, Idle, Named, LocalInv
<1>4. taken = None
  BY DEF ControlInv, Commanding, Working, Idle, Named, LocalInv
<1>5. Commanding' /\ Working'
  BY <1>1, <1>2, <1>3, <1>4, LocalAssumption DEF Commanding, Working, Idle, Total
<1>6. Announcing'
  BY <1>1, <1>2, <1>3, <1>4, LocalAssumption DEF Announcing, Swapped, NoNext, Idle
<1>7. Seeking'
  <2>1. sought # None /\ ~given.tail /\ ~given.rearmed => FALSE
    BY DEF ControlInv, Seeking
  <2>2. QED
    BY <1>1, <2>1 DEF Seeking
<1>8. PausedIsSilent' /\ PlayingIsFed'
  BY <1>2 DEF PausedIsSilent, PlayingIsFed
<1>9. QED
  BY <1>1, <1>5, <1>6, <1>7, <1>8 DEF ControlInv

\* Every step of a command that the player waits for.
LEMMA CommandControl ==
  ASSUME LocalInv, ControlInv, TypeOK', Named', CommandStep
  PROVE  ControlInv'
<1> USE DEF feedVars, playerVars, NoNext, Idle, Total, Swapped, ControlInv, Exceptions, Commanding,
  Working,
  Announcing, Seeking, PausedIsSilent, PlayingIsFed
<1>1. CASE \E reuse \in BOOLEAN : PlayPrepares(reuse)
  BY <1>1 DEF PlayPrepares, Fed, Silence, Running, Cleared, Quietly, LocalInv, TypeOK, Named
<1>2. CASE PlayCleared
  BY <1>2, LocalAssumption DEF PlayCleared, Silence, Cleared, Quietly, LocalInv, TypeOK, Named
<1>3. CASE PlayTakes
  <2>1. PICK o \in Outcomes(cmd.pc) :
          \/ /\ o.to \in {"taking", "decoding", "giving_up"}
             /\ cmd' = [cmd EXCEPT !.pc = o.to] /\ next' = o.next
             /\ UNCHANGED <<ring, track, rate, fed, seek_target, last, stream, feeder, state, believed,
                            given>>
          \/ /\ o.to = "nothing"
             /\ cmd' = [cmd EXCEPT !.pc = "loading"] /\ next' = NoNext
             /\ UNCHANGED <<ring, track, rate, fed, seek_target, last, stream, feeder, state, believed,
                            given>>
          \/ o.to = "audio" /\ next' = NoNext /\ Start(o.next.track)
    BY <1>3 DEF PlayTakes
  <2>2. cmd.op = "play" /\ UNCHANGED <<pending, prev, taken, arm, ended, armed, sought, used>>
    BY <1>3 DEF PlayTakes
  <2>3. CASE o.to = "audio" /\ next' = NoNext /\ Start(o.next.track)
    <3>1. o.next.track = cmd.track /\ cmd.pc # "cancelling"
      BY <2>3, OutcomeTypes, LocalAssumption DEF Outcomes
    <3>2. QED
      BY <2>2, <2>3, <3>1, StartControl DEF LocalInv, Named
  <2>4. CASE o.to # "audio"
    BY <2>1, <2>2, <2>4, LocalAssumption DEF Outcomes, LocalInv, TypeOK, Named
  <2>5. QED
    BY <2>1, <2>3, <2>4
<1>4. CASE Loaded
  <2>1. /\ cmd.op = "play" /\ cmd.track \in Tracks /\ Start(cmd.track) /\ next' = NoNext
        /\ UNCHANGED <<pending, prev, taken, arm, armed, sought>>
        /\ cmd.pc # "cancelling" /\ cmd # Idle
    BY <1>4 DEF Loaded, LocalInv, Named
  <2>2. QED
    BY <2>1, StartControl
<1>5. CASE LoadFails
  BY <1>5, LocalAssumption DEF LoadFails, LocalInv, TypeOK, Named
<1>6. CASE StopClears
  BY <1>6, LocalAssumption DEF StopClears, Fed, Stopped, Running, Cleared, LocalInv, TypeOK, Named
<1>7. CASE StopCleared
  BY <1>7, LocalAssumption DEF StopCleared, Stopped, Cleared, LocalInv, TypeOK, Named
<1>8. CASE SeekEnds
  BY <1>8, LocalAssumption DEF SeekEnds, Fed, Cleared, LocalInv, TypeOK, Named
<1>9. QED
  BY <1>1, <1>2, <1>3, <1>4, <1>5, <1>6, <1>7, <1>8 DEF CommandStep

\* Whoever cancels the loop leaves it dead, or about to drain what is buffered.
LEMMA CancelControl ==
  ASSUME LocalInv, ControlInv, TypeOK', Named', NEW op \in {"play", "stop", "seek"}, NEW t,
         CancelFeeding(op, t), believed' = believed,
         \/ op # "seek" /\ armed' = None /\ arm' = None /\ sought' = None
         \/ op = "seek" /\ armed' = armed /\ arm' = arm
  PROVE  ControlInv'
<1>1. /\ cmd' = [op |-> op, track |-> t, pc |-> "cancelling"] /\ taken' = None
      /\ feeder' = IF feeder = "giving_up" THEN feeder ELSE "none"
      /\ given' = [given EXCEPT !.survived = @ \/ feeder = "giving_up", !.tail = @ \/ op = "seek"]
      /\ UNCHANGED <<ring, feedVars, next, state, stream>>
  BY DEF CancelFeeding
<1>2. /\ Exceptions'
      /\ given'.survived <=> given.survived \/ feeder = "giving_up"
      /\ given'.tail <=> given.tail \/ op = "seek"
      /\ given'.rearmed = given.rearmed /\ given'.unpaused = given.unpaused
  BY <1>1 DEF ControlInv, Exceptions
<1>3. Commanding'
  BY <1>1, <1>2 DEF feedVars, Idle, LocalInv, ControlInv, Commanding
<1>4. Working'
  BY <1>1, <1>2 DEF feedVars, Total, ControlInv, Working
<1>5. Announcing' /\ Seeking'
  BY <1>1, <1>2
  DEF feedVars, Idle, Total, ControlInv, Announcing, Seeking, Working, Swapped, LocalInv, TypeOK
<1>6. PausedIsSilent' /\ PlayingIsFed'
  BY <1>1, <1>2 DEF feedVars, ControlInv, PausedIsSilent, PlayingIsFed
<1>7. QED
  BY <1>2, <1>3, <1>4, <1>5, <1>6 DEF ControlInv

\* The player arms a track, or forgets the armed one: too late, once it is swapped in.
LEMMA ArmControl ==
  ASSUME LocalInv, ControlInv, TypeOK', Named',
         given' = [given EXCEPT !.rearmed = @ \/ Swapped],
         next'.track # None => armed' = next'.track,
         cmd.op = "play" => arm' = None /\ next' = NoNext,
         UNCHANGED <<ring, feedVars, state, stream, feeder, taken, cmd, believed, sought>>
  PROVE  ControlInv'
<1>1. /\ Exceptions'
      /\ given'.rearmed <=> given.rearmed \/ Swapped
      /\ given'.tail = given.tail /\ given'.survived = given.survived
      /\ given'.unpaused = given.unpaused /\ given'.hollow = given.hollow /\ (Swapped' <=> Swapped)
  BY DEF Swapped, feedVars, ControlInv, Exceptions
<1>2. Commanding'
  BY <1>1 DEF feedVars, NoNext, ControlInv, Commanding, Named, LocalInv
<1>3. Working' /\ Seeking'
  BY <1>1 DEF feedVars, Total, ControlInv, Working, Seeking
<1>4. Announcing'
  BY <1>1 DEF feedVars, ControlInv, Announcing, Swapped
<1>5. PausedIsSilent' /\ PlayingIsFed'
  BY <1>1 DEF ControlInv, PausedIsSilent, PlayingIsFed
<1>6. QED
  BY <1>1, <1>2, <1>3, <1>4, <1>5 DEF ControlInv

LEMMA ArmingControl ==
  ASSUME LocalInv, ControlInv, TypeOK', Named',
         NextTrackSet \/ ClearNextTrack \/ \E t \in Tracks : SetNextTrack(t)
  PROVE  ControlInv'
<1>1. CASE NextTrackSet
  <2>1. cmd.op # "play"
    BY <1>1 DEF NextTrackSet, ControlInv, Commanding
  <2>2. QED
    BY <1>1, <2>1, ArmControl DEF NextTrackSet
<1>2. CASE ClearNextTrack
  <2>1. cmd.op = "play" => arm' = None
    BY <1>2 DEF ClearNextTrack
  <2>2. QED
    BY <1>2, <2>1, ArmControl DEF ClearNextTrack, NoNext
<1>3. CASE \E t \in Tracks : SetNextTrack(t)
  <2>1. PICK t \in Tracks : SetNextTrack(t)
    BY <1>3
  <2>2. next'.track # None => armed' = next'.track
    BY <2>1 DEF SetNextTrack, NoNext
  <2>3. QED
    BY <2>1, <2>2, ArmControl DEF SetNextTrack
<1>4. QED
  BY <1>1, <1>2, <1>3

\* A seek beyond the end of what is fed cancels the loop; any other leaves it a target.
LEMMA SeekControl ==
  ASSUME LocalInv, ControlInv, TypeOK', Named', NEW target \in Nat, Seek(target)
  PROVE  ControlInv'
<1>1. CASE CancelFeeding("seek", None)
  BY <1>1, CancelControl DEF Seek
<1>2. CASE /\ cmd = Idle /\ target < Total
           /\ seek_target' = target
           /\ given' = [given EXCEPT !.tail = @ \/ fed = Total \/ Swapped]
           /\ IF feeder = "none"
              THEN ring' = Cleared(ring) /\ last' = NoFrame /\ fed' = target /\ sought' = None
              ELSE sought' = believed /\ UNCHANGED <<ring, last, fed>>
           /\ UNCHANGED <<track, rate, pending, prev, next, state, stream, feeder, taken, cmd, ended>>
  <2>1. track # None /\ UNCHANGED <<arm, believed, armed>>
    BY DEF Seek
  <2>2. /\ Exceptions'
        /\ given'.tail <=> given.tail \/ fed = Total \/ Swapped
        /\ given'.survived = given.survived /\ given'.rearmed = given.rearmed
        /\ given'.unpaused = given.unpaused /\ given'.hollow = given.hollow
    BY <1>2 DEF ControlInv, Exceptions
  <2>3. ring'.available = 0 \/ (ring' = ring /\ fed' = fed /\ feeder # "none")
    BY <1>2 DEF Cleared
  <2>4. Commanding'
    BY <1>2, <2>1, <2>2, <2>3 DEF Idle, ControlInv, Commanding
  <2>5. Working'
    BY <1>2, <2>1, <2>2, <2>3 DEF Idle, ControlInv, Working, Total
  <2>6. Announcing'
    BY <1>2, <2>1, <2>2, <2>3 DEF Idle, ControlInv, Announcing, Swapped
  <2>7. Seeking'
    <3>1. sought' # None => feeder # "none" /\ sought' = believed
      BY <1>2
    <3>2. ~given'.tail /\ sought' # None
            => feeder = "feeding" /\ fed # Total /\ ~Swapped /\ ~given.tail
      BY <3>1, <2>2 DEF ControlInv, Working
    <3>3. ~given'.tail /\ ~given'.rearmed /\ sought' # None => believed = track
      BY <1>2, <2>1, <2>2, <3>1, <3>2 DEF ControlInv, Announcing
    <3>4. sought' # None => fed' = fed /\ fed \in 0 .. Total /\ Total' = Total
      BY <1>2, <3>1 DEF LocalInv, TypeOK, Total
    <3>5. target # None /\ track \in Tracks /\ Total = Length[track] /\ Length[track] \in Nat
      BY <2>1, <2>5, <1>2, LocalAssumption DEF LocalInv, TypeOK, Total, Working
    <3>6. QED
      BY <1>2, <2>1, <2>2, <3>1, <3>2, <3>3, <3>4, <3>5 DEF Seeking
  <2>8. PausedIsSilent' /\ PlayingIsFed'
    BY <1>2, <2>2 DEF ControlInv, PausedIsSilent, PlayingIsFed
  <2>9. QED
    BY <2>2, <2>4, <2>5, <2>6, <2>7, <2>8 DEF ControlInv
<1>3. QED
  BY <1>1, <1>2 DEF Seek

\* Pause and resume ask for no loop, and leave a mark where there is none.
LEMMA PauseControl ==
  ASSUME LocalInv, ControlInv, TypeOK', Named', Hollow, cmd = Idle,
         \/ stream'.paused = TRUE /\ state' = "PAUSED"
         \/ state' = "PLAYING",
         UNCHANGED <<ring, feedVars, next, feeder, taken, cmd, arm, believed, armed, sought>>
  PROVE  ControlInv'
<1>1. /\ Exceptions' /\ (given'.hollow <=> given.hollow \/ feeder = "none")
      /\ given'.survived = given.survived
      /\ given'.tail = given.tail /\ given'.rearmed = given.rearmed
      /\ given'.unpaused = given.unpaused
  BY DEF Hollow, ControlInv, Exceptions
<1>2. Commanding' /\ Working'
  BY <1>1 DEF ControlInv, Commanding, Working, Idle, Total, feedVars
<1>3. Announcing' /\ Seeking'
  BY <1>1 DEF ControlInv, Announcing, Seeking, Swapped, Total, feedVars
<1>4. PausedIsSilent' /\ PlayingIsFed'
  BY <1>1 DEF PausedIsSilent, PlayingIsFed
<1>5. QED
  BY <1>1, <1>2, <1>3, <1>4 DEF ControlInv

\* The calls of the player, and the jobs that end by themselves.
LEMMA CallControl ==
  ASSUME LocalInv, ControlInv, TypeOK', Named', JobEnds \/ NextTrackSet \/ Calls \/ UNCHANGED vars
  PROVE  ControlInv'
<1> USE DEF feedVars, playerVars, NoNext, Idle, Total, Swapped, ControlInv, Exceptions, Commanding,
  Working,
  Announcing, Seeking, PausedIsSilent, PlayingIsFed
<1>1. CASE JobEnds
  BY <1>1, LocalAssumption DEF JobEnds, Download, Decoding, LocalInv, TypeOK
<1>2. CASE Pause
  BY <1>2, PauseControl DEF Pause
<1>3. CASE Resume
  BY <1>3, PauseControl DEF Resume
<1>4. CASE UNCHANGED vars
  BY <1>4, LocalAssumption DEF vars
<1>5. CASE \E t \in Tracks : Play(t)
  BY <1>5, CancelControl DEF Play
<1>6. CASE \E keep \in Tracks \cup {None} : Stop(keep)
  BY <1>6, CancelControl DEF Stop
<1>7. CASE Calls
  <2>1. \A t \in Tracks : Length[t] \in Nat
    BY LocalAssumption
  <2>2. QED
    BY <1>2, <1>3, <1>5, <1>6, <1>7, <2>1, ArmingControl, SeekControl DEF Calls
<1>8. QED
  BY <1>1, <1>4, <1>7, ArmingControl

LEMMA ControlKept ==
  ASSUME LocalInv, ControlInv, [Next]_vars, LocalInv'
  PROVE  ControlInv'
<1>1. TypeOK' /\ Named'
  BY DEF LocalInv
<1>2. QED
  BY <1>1, AudioControl, FeederControl, CommandControl, CallControl DEF Next

-----------------------------------------------------------------------------
(***************************************************************************)
(* The frames: each follows the one before, what is buffered leads up to   *)
(* the frame that is fed next, and its place says which frame it is.       *)
(***************************************************************************)
FollowOn(r, l) ==
    /\ \A i \in 1 .. r.available - 1 : Follows(At(r, i), At(r, i + 1))
    /\ r.available > 0 /\ l # NoFrame => Follows(l, At(r, 1))

\* The last frame that came, be it buffered or heard.
Newest(r, l) == IF r.available > 0 THEN At(r, r.available) ELSE l

LeadUpTo(r, l, t, f) ==
    IF f > 0
    THEN Newest(r, l) = <<t, f - 1>>
    ELSE r.available > 0 \/ l # NoFrame => Newest(r, l)[2] = Length[Newest(r, l)[1]] - 1

\* The i-th frame of the buffer, when old of them are left of the track before.
FrameOf(i, old, t, p) ==
    IF i <= old THEN <<p, Length[p] - old + i - 1>> ELSE <<t, i - old - 1>>

Positioned(r, t, f, pend, p) ==
    /\ IF pend THEN p \in Tracks /\ r.available <= f + Length[p] ELSE r.available <= f
    /\ \A i \in 1 .. r.available : At(r, i) = FrameOf(i, r.available - f, t, p)

\* A buffer that was cleared.
LEMMA NoFrames ==
  ASSUME NEW r, NEW l, NEW t, NEW f \in Nat, NEW pend, NEW p, r.available = 0
  PROVE  /\ FollowOn(r, l)
         /\ (pend => p \in Tracks) => Positioned(r, t, f, pend, p)
         /\ l = NoFrame => LeadUpTo(r, l, t, 0)
BY LocalAssumption DEF FollowOn, Positioned, LeadUpTo

\* What the loop writes: the frames of its track, from the one it is at.
LEMMA AppendedFrames ==
  ASSUME NEW r, Ring(r), r.available < Capacity, NEW t \in Tracks, NEW f \in 0 .. Length[t] - 1,
         NEW data, data = ChunkOf(t, f, Length[t])
  PROVE  /\ data \in Seq(Frame) /\ Ring(Written(r, data))
         /\ Fits(r, data) \in 1 .. Length[t] - f
         /\ Written(r, data).available = r.available + Fits(r, data)
         /\ \A i \in 1 .. r.available + Fits(r, data) :
               At(Written(r, data), i) =
                 IF i <= r.available THEN At(r, i) ELSE <<t, f + (i - r.available) - 1>>
<1>1. Length[t] \in Nat \ {0} /\ Chunk \in Nat \ {0}
  BY LocalAssumption
<1>2. data \in Seq(Frame)
  BY <1>1, ChunkAssumption, BatchAssumption
<1>3. /\ Len(data) = IF f + Chunk < Length[t] THEN Chunk ELSE Length[t] - f
      /\ \A i \in 1 .. Len(data) : data[i] = <<t, f + i - 1>>
  <2> DEFINE n == IF f + Chunk < Length[t] THEN Chunk ELSE Length[t] - f
  <2>1. n \in Nat
    BY <1>1
  <2>2. data = [i \in 1 .. n |-> <<t, f + i - 1>>]
    BY DEF ChunkOf
  <2> HIDE DEF n
  <2>3. Len(data) = n /\ \A i \in 1 .. n : data[i] = <<t, f + i - 1>>
    BY <2>1, <2>2
  <2>4. QED
    BY <2>3 DEF n
<1>4. Fits(r, data) \in 1 .. Length[t] - f /\ Fits(r, data) <= Len(data)
  <2>1. Len(data) \in 1 .. Length[t] - f
    <3>1. Len(data) = Chunk \/ Len(data) = Length[t] - f
      BY <1>3
    <3>2. f \in Nat /\ f < Length[t]
      BY <1>1
    <3>3. Len(data) <= Length[t] - f
      BY <1>1, <1>3, <3>2
    <3>4. QED
      BY <1>1, <3>1, <3>2, <3>3
  <2>2. /\ Capacity \in Nat /\ r.available \in 0 .. Capacity
        /\ Fits(r, data) = IF Len(data) < Capacity - r.available
                           THEN Len(data) ELSE Capacity - r.available
    BY <1>2, FitsIs, RingParts
  <2>3. Length[t] - f \in Nat
    BY <1>1
  <2>4. Capacity - r.available \in Nat \ {0}
    BY <2>2
  <2>5. Fits(r, data) \in Nat \ {0} /\ Fits(r, data) <= Len(data)
    BY <2>1, <2>2, <2>3, <2>4
  <2>6. QED
    BY <2>1, <2>3, <2>5
<1>5. Ring(Written(r, data)) /\ Written(r, data).available = r.available + Fits(r, data)
  BY <1>2, WrittenShape, WrittenParts
<1>6. ASSUME NEW i \in 1 .. r.available + Fits(r, data)
      PROVE  At(Written(r, data), i) =
                 IF i <= r.available THEN At(r, i) ELSE <<t, f + (i - r.available) - 1>>
  <2>1. At(Written(r, data), i) = IF i <= r.available THEN At(r, i) ELSE data[i - r.available]
    BY <1>2, WrittenFrames
  <2>2. i > r.available => i - r.available \in 1 .. Len(data)
    <3>1. r.available \in Nat /\ Fits(r, data) \in Nat /\ Len(data) \in Nat
      BY <1>1, <1>2, <1>4, RingParts, LenProperties
    <3>2. Fits(r, data) <= Len(data)
      BY <1>4
    <3>3. QED
      BY <3>1, <3>2
  <2>3. i > r.available => data[i - r.available] = <<t, f + (i - r.available) - 1>>
    BY <1>3, <2>2
  <2>4. QED
    BY <2>1, <2>3, RingParts
<1>7. QED
  BY <1>2, <1>4, <1>5, <1>6

\* The loop writes on where it was, or into a buffer that was cleared.
LEMMA AppendFollows ==
  ASSUME NEW r, Ring(r), r.available < Capacity, NEW t \in Tracks, NEW f \in 0 .. Length[t] - 1,
         NEW data, data = ChunkOf(t, f, Length[t]), NEW l,
         FollowOn(r, l), LeadUpTo(r, l, t, f) \/ (r.available = 0 /\ l = NoFrame)
  PROVE  FollowOn(Written(r, data), l) /\ LeadUpTo(Written(r, data), l, t, f + Fits(r, data))
<1> DEFINE n == Fits(r, data)
           w == Written(r, data)
<1>1. /\ n \in 1 .. Length[t] - f /\ w.available = r.available + n
      /\ \A i \in 1 .. r.available + n :
               At(w, i) = IF i <= r.available THEN At(r, i) ELSE <<t, f + (i - r.available) - 1>>
  BY AppendedFrames
<1>2. r.available \in Nat /\ Length[t] \in Nat
  BY RingParts, LocalAssumption
<1> HIDE DEF n, w
<1>3. LeadUpTo(w, l, t, f + n)
  BY <1>1, <1>2 DEF LeadUpTo, Newest
<1>4. ASSUME NEW i \in 1 .. w.available - 1
      PROVE  Follows(At(w, i), At(w, i + 1))
  <2>1. CASE i < r.available
    BY <1>1, <1>2, <2>1 DEF FollowOn
  <2>2. CASE i = r.available
    <3>1. At(w, i) = Newest(r, l) /\ At(w, i + 1) = <<t, f>> /\ r.available > 0
      BY <1>1, <1>2, <2>2 DEF Newest
    <3>2. QED
      BY <1>2, <3>1 DEF LeadUpTo, Follows
  <2>3. CASE i > r.available
    <3>1. /\ At(w, i) = <<t, f + (i - r.available) - 1>>
          /\ At(w, i + 1) = <<t, f + (i + 1 - r.available) - 1>>
      BY <1>1, <1>2, <2>3
    <3>2. QED
      BY <1>1, <1>2, <3>1 DEF Follows
  <2>4. QED
    BY <1>1, <1>2, <2>1, <2>2, <2>3
<1>5. ASSUME w.available > 0, l # NoFrame
      PROVE  Follows(l, At(w, 1))
  <2>1. CASE r.available > 0
    BY <1>1, <1>2, <1>5, <2>1 DEF FollowOn
  <2>2. CASE r.available = 0
    <3>1. At(w, 1) = <<t, f>> /\ Newest(r, l) = l
      BY <1>1, <1>2, <2>2 DEF Newest
    <3>2. QED
      BY <1>2, <1>5, <2>2, <3>1 DEF LeadUpTo, Follows
  <2>3. QED
    BY <1>2, <2>1, <2>2
<1>6. QED
  BY <1>3, <1>4, <1>5 DEF FollowOn, n, w

LEMMA AppendPositions ==
  ASSUME NEW r, Ring(r), r.available < Capacity, NEW t \in Tracks, NEW f \in 0 .. Length[t] - 1,
         NEW data, data = ChunkOf(t, f, Length[t]), NEW pend, NEW p, Positioned(r, t, f, pend, p)
  PROVE  Positioned(Written(r, data), t, f + Fits(r, data), pend, p)
<1> DEFINE n == Fits(r, data)
           w == Written(r, data)
<1>1. /\ n \in 1 .. Length[t] - f /\ w.available = r.available + n
      /\ \A i \in 1 .. r.available + n :
               At(w, i) = IF i <= r.available THEN At(r, i) ELSE <<t, f + (i - r.available) - 1>>
  BY AppendedFrames
<1>2. r.available \in Nat /\ Length[t] \in Nat /\ \A q \in Tracks : Length[q] \in Nat
  BY RingParts, LocalAssumption
<1> HIDE DEF n, w
<1>3. IF pend THEN p \in Tracks /\ w.available <= (f + n) + Length[p] ELSE w.available <= f + n
  BY <1>1, <1>2 DEF Positioned
<1>4. ASSUME NEW i \in 1 .. w.available
      PROVE  At(w, i) = FrameOf(i, w.available - (f + n), t, p)
  <2>1. w.available - (f + n) = r.available - f
    BY <1>1, <1>2
  <2>2. FrameOf(i, w.available - (f + n), t, p) = FrameOf(i, r.available - f, t, p)
    BY <2>1
  <2>3. CASE i <= r.available
    BY <1>1, <1>2, <2>2, <2>3 DEF Positioned
  <2>4. CASE i > r.available
    BY <1>1, <1>2, <2>2, <2>4 DEF FrameOf
  <2>5. QED
    BY <1>1, <1>2, <2>3, <2>4
<1>5. QED
  BY <1>3, <1>4 DEF Positioned, n, w

\* PortAudio reads: the last frame it took is the last one heard.
LEMMA ReadOn ==
  ASSUME NEW r, Ring(r), r.available > 0, NEW n \in Nat \ {0}, NEW l, FollowOn(r, l),
         NEW m, m = Output(r, n)[Actual(r, n)], NEW t, NEW f \in Nat
  PROVE  /\ FollowOn(AfterRead(r, n), m)
         /\ LeadUpTo(r, l, t, f) => LeadUpTo(AfterRead(r, n), m, t, f)
<1> DEFINE k == Actual(r, n)
           w == AfterRead(r, n)
<1>1. k \in 1 .. r.available /\ r.available \in Nat /\ w.available = r.available - k
  BY RingParts DEF Actual, AfterRead
<1>2. m = At(r, k)
  <2>1. \A i \in 1 .. Actual(r, n) : Output(r, n)[i] = At(r, i)
    BY OutputIs
  <2>2. k \in 1 .. Actual(r, n)
    BY <1>1
  <2>3. QED
    BY <2>1, <2>2
<1>3. \A i \in 1 .. r.available - k : At(w, i) = At(r, i + k)
  BY ReadFrames
<1> HIDE DEF k, w
<1>4. Newest(w, m) = Newest(r, l)
  BY <1>1, <1>2, <1>3 DEF Newest
<1>5. LeadUpTo(r, l, t, f) => LeadUpTo(w, m, t, f)
  BY <1>1, <1>4 DEF LeadUpTo
<1>6. ASSUME NEW i \in 1 .. w.available - 1
      PROVE  Follows(At(w, i), At(w, i + 1))
  <2>1. At(w, i) = At(r, i + k) /\ At(w, i + 1) = At(r, (i + k) + 1) /\ i + k \in 1 .. r.available - 1
    BY <1>1, <1>3
  <2>2. QED
    BY <2>1 DEF FollowOn
<1>7. ASSUME w.available > 0
      PROVE  Follows(m, At(w, 1))
  <2>1. At(w, 1) = At(r, k + 1) /\ k \in 1 .. r.available - 1
    BY <1>1, <1>3, <1>7
  <2>2. QED
    BY <1>2, <2>1 DEF FollowOn
<1>8. QED
  BY <1>5, <1>6, <1>7 DEF FollowOn, w

LEMMA ReadPositions ==
  ASSUME NEW r, Ring(r), NEW n \in Nat, NEW t, NEW f \in Nat, NEW pend, NEW p,
         Positioned(r, t, f, pend, p)
  PROVE  Positioned(AfterRead(r, n), t, f, pend, p)
<1> DEFINE k == Actual(r, n)
           w == AfterRead(r, n)
<1>1. k \in 0 .. r.available /\ r.available \in Nat /\ w.available = r.available - k
  BY RingParts DEF Actual, AfterRead
<1>2. \A i \in 1 .. r.available - k : At(w, i) = At(r, i + k)
  BY ReadFrames
<1> HIDE DEF k, w
<1>3. IF pend THEN p \in Tracks /\ w.available <= f + Length[p] ELSE w.available <= f
  BY <1>1, LocalAssumption DEF Positioned
<1>4. ASSUME NEW i \in 1 .. w.available
      PROVE  At(w, i) = FrameOf(i, w.available - f, t, p)
  <2>1. At(w, i) = FrameOf(i + k, r.available - f, t, p)
    BY <1>1, <1>2 DEF Positioned
  <2>2. (i + k <= r.available - f) <=> (i <= w.available - f)
    BY <1>1
  <2>3. (i + k) - (r.available - f) - 1 = i - (w.available - f) - 1
    BY <1>1
  <2>4. i <= w.available - f => p \in Tracks
    BY <1>1 DEF Positioned
  <2>5. p \in Tracks => Length[p] - (r.available - f) + (i + k) - 1 = Length[p] - (w.available - f) + i - 1
    BY <1>1, LocalAssumption
  <2>6. QED
    BY <2>1, <2>2, <2>3, <2>4, <2>5 DEF FrameOf
<1>5. QED
  BY <1>3, <1>4 DEF Positioned, w

HeldFrames ==
    /\ FollowOn(ring, last)
    /\ feeder # "none" => LeadUpTo(ring, last, track, fed)
    /\ ~given.rearmed => Positioned(ring, track, fed, pending, prev)

HeardInv == LocalInv /\ ControlInv /\ HeldFrames

\* The transition is complete when nothing of the track before is buffered.
LEMMA TailIsOver ==
  ASSUME NEW r, Ring(r), NEW t, NEW f \in Nat, NEW pend, NEW p, Positioned(r, t, f, pend, p),
         r.available <= f
  PROVE  Positioned(r, t, f, FALSE, p)
BY RingParts DEF Positioned

\* A step that leaves the buffer alone.
LEMMA FramesKept ==
  ASSUME HeardInv, LocalInv', UNCHANGED <<ring, last, track, fed, prev>>,
         feeder' \in {feeder, "none"} \/ feeder # "none",
         ~given'.rearmed => /\ ~given.rearmed
                            /\ \/ pending' = pending
                               \/ pending' = FALSE /\ ring.available <= fed
  PROVE  HeldFrames'
<1>1. FollowOn(ring, last)' /\ (feeder # "none" => LeadUpTo(ring, last, track, fed))'
  BY DEF HeardInv, HeldFrames
<1>2. ASSUME ~given'.rearmed PROVE Positioned(ring, track, fed, pending, prev)'
  <2>1. Positioned(ring, track, fed, pending, prev)
    BY <1>2 DEF HeardInv, HeldFrames
  <2>2. CASE pending' = pending
    BY <2>1, <2>2
  <2>3. CASE pending' = FALSE /\ ring.available <= fed
    <3>1. Ring(ring) /\ fed \in Nat
      BY LocalAssumption DEF HeardInv, LocalInv, TypeOK, Total
    <3>2. Positioned(ring, track, fed, FALSE, prev)
      BY <2>1, <2>3, <3>1, TailIsOver
    <3>3. QED
      BY <2>3, <3>2
  <2>4. QED
    BY <1>2, <2>2, <2>3
<1>3. QED
  BY <1>1, <1>2 DEF HeldFrames

\* A step that clears it.
LEMMA FramesCleared ==
  ASSUME HeardInv, LocalInv', ring' = Cleared(ring) \/ ring' = Empty, last' = NoFrame, prev' = prev,
         feeder' = "none" \/ fed' = 0,
         ~given'.rearmed => ~given.rearmed /\ (pending' = pending \/ pending' = FALSE)
  PROVE  HeldFrames'
<1>1. ring'.available = 0 /\ fed' \in Nat
  BY LocalAssumption DEF Cleared, Empty, LocalInv, TypeOK, Total
<1>2. FollowOn(ring, last)' /\ (feeder # "none" => LeadUpTo(ring, last, track, fed))'
  <2>1. FollowOn(ring', last') /\ LeadUpTo(ring', last', track', 0)
    BY <1>1, NoFrames
  <2>2. QED
    BY <2>1
<1>3. ASSUME ~given'.rearmed PROVE Positioned(ring, track, fed, pending, prev)'
  <2>1. pending' => prev' \in Tracks
    BY <1>3 DEF HeardInv, HeldFrames, Positioned
  <2>2. Positioned(ring', track', fed', pending', prev')
    BY <1>1, <2>1, NoFrames
  <2>3. QED
    BY <2>2
<1>4. QED
  BY <1>2, <1>3 DEF HeldFrames

\* A listener who was given another next track too late stays an exception.
LEMMA Keeps ==
  ASSUME HeardInv, [Next]_vars
  PROVE  given'.rearmed \in BOOLEAN /\ (~given'.rearmed => ~given.rearmed)
BY DEF HeardInv, ControlInv, Exceptions, Next, vars, FeederStep, CommandStep, AudioCallback,
  JobEnds, Feed, FedAll,
  FeederTakes, Reformat, Drain, PlayPrepares, PlayCleared, PlayTakes, Loaded, LoadFails, StopClears,
  StopCleared, SeekEnds, NextTrackSet, Calls, Play, Stop, CancelFeeding, SetNextTrack, ClearNextTrack, Pause, Resume, Seek,
  Start, Hollow, playerVars, Quietly, feedVars

\* What the loop does to the frames.
LEMMA FeederFrames ==
  ASSUME HeardInv, LocalInv', FeederStep, ~given'.rearmed => ~given.rearmed
  PROVE  HeldFrames'
<1>1. /\ Ring(ring) /\ fed \in Nat
      /\ track # None => track \in Tracks /\ Total = Length[track] /\ Length[track] \in Nat \ {0}
  BY LocalAssumption DEF HeardInv, LocalInv, TypeOK, Total
<1>2. CASE Feed
  <2> DEFINE f == FeedFrom
             r == IF seek_target # None THEN Cleared(ring) ELSE ring
             data == ChunkAt(f)
  <2>1. track # None /\ f \in 0 .. Length[track] - 1
    BY <1>1, <1>2, Feeding DEF Feed, FeedFrom, HeardInv, ControlInv, Working
  <2>2. Ring(r)
    BY <1>1, ClearedHeld
  <2>3. /\ last' = IF seek_target # None THEN NoFrame ELSE last
        /\ UNCHANGED <<track, prev, feeder, given>> /\ feeder = "feeding"
        /\ pending' = pending \/ (pending' = FALSE /\ f >= r.available)
        /\ \/ HighWater(r) /\ ring' = r /\ fed' = f
           \/ ~HighWater(r) /\ ring' = Written(r, data) /\ fed' = f + Fits(r, data)
    BY <1>2 DEF Feed, CompleteTransition, Completes, FedTo
  <2>4. FollowOn(r, last') /\ (LeadUpTo(r, last', track, f) \/ (r.available = 0 /\ last' = NoFrame))
    <3>1. CASE seek_target # None
      <4>1. r.available = 0 /\ last' = NoFrame
        BY <2>3, <3>1 DEF Cleared
      <4>2. QED
        BY <4>1, <2>1, <1>1, NoFrames
    <3>2. CASE seek_target = None
      BY <2>3, <3>2 DEF FeedFrom, HeardInv, HeldFrames
    <3>3. QED
      BY <3>1, <3>2
  <2>5. ASSUME ~given'.rearmed PROVE Positioned(r, track, f, pending', prev)
    <3>1. Positioned(ring, track, fed, pending, prev)
      BY <1>2, <2>3, <2>5 DEF HeardInv, HeldFrames
    <3>2. Positioned(r, track, f, pending, prev)
      <4>1. CASE seek_target # None
        <5>1. r.available = 0 /\ (pending => prev \in Tracks) /\ f \in Nat
          BY <2>1, <3>1, <4>1, <1>1 DEF Cleared, Positioned
        <5>2. QED
          BY <5>1, NoFrames
      <4>2. CASE seek_target = None
        BY <3>1, <4>2 DEF FeedFrom
      <4>3. QED
        BY <4>1, <4>2
    <3>3. r.available \in Nat /\ f \in Nat
      BY <2>1, <2>2, RingParts, <1>1
    <3> HIDE DEF r, f
    <3>4. QED
      BY <2>3, <2>2, <3>2, <3>3, TailIsOver
  <2> HIDE DEF r, f
  <2>6. CASE ring' = r /\ fed' = f /\ HighWater(r)
    <3>1. r.available > 0
      BY <2>2, <2>6, RingParts DEF HighWater
    <3>2. QED
      BY <2>3, <2>4, <2>5, <2>6, <3>1 DEF HeldFrames
  <2>7. CASE ~HighWater(r) /\ ring' = Written(r, data) /\ fed' = f + Fits(r, data)
    <3>1. r.available < Capacity
      BY <2>2, <2>7, RingParts DEF HighWater
    <3>2. data = ChunkOf(track, f, Length[track]) /\ track \in Tracks
      BY <1>1, <2>1 DEF ChunkAt
    <3>3. FollowOn(ring', last') /\ LeadUpTo(ring', last', track, fed')
      <4> HIDE DEF data
      <4>1. FollowOn(Written(r, data), last') /\ LeadUpTo(Written(r, data), last', track, f + Fits(r, data))
        BY <2>1, <2>2, <2>4, <3>1, <3>2, AppendFollows
      <4>2. QED
        BY <4>1, <2>7
    <3>4. ASSUME ~given'.rearmed PROVE Positioned(ring', track, fed', pending', prev)
      <4> HIDE DEF data
      <4>1. Positioned(Written(r, data), track, f + Fits(r, data), pending', prev)
        BY <2>1, <2>2, <2>5, <3>1, <3>2, <3>4, AppendPositions
      <4>2. QED
        BY <4>1, <2>7
    <3>5. QED
      BY <2>3, <3>3, <3>4 DEF HeldFrames
  <2>8. QED
    BY <2>3, <2>6, <2>7
<1>3. CASE FedAll
  BY <1>3, FramesKept DEF FedAll, feedVars
<1>4. CASE FeederTakes
  <2>1. UNCHANGED <<ring, last>> /\ feeder # "none"
    BY <1>4 DEF FeederTakes, Outcomes
  <2>2. CASE UNCHANGED feedVars
    BY <2>1, <2>2, FramesKept DEF feedVars
  <2>3. CASE /\ track' \in Tracks /\ fed' = 0 /\ prev' = track /\ pending' = TRUE
             /\ given' = [given EXCEPT !.rearmed = @ \/ pending]
    <3>1. feeder \in {"taking", "decoding", "giving_up"}
      BY <1>4 DEF FeederTakes, Outcomes
    <3>2. track # None /\ fed = Length[track] /\ track \in Tracks
      BY <1>1, <3>1 DEF HeardInv, ControlInv, Working
    <3>3. LeadUpTo(ring, last, track, fed) /\ FollowOn(ring, last)
      BY <3>1 DEF HeardInv, HeldFrames
    <3>4. Newest(ring, last) = <<track, Length[track] - 1>>
      BY <3>2, <3>3, <1>1 DEF LeadUpTo
    <3>5. LeadUpTo(ring', last', track', fed') /\ FollowOn(ring', last')
      BY <2>1, <2>3, <3>3, <3>4 DEF LeadUpTo
    <3>6. ASSUME ~given'.rearmed PROVE Positioned(ring', track', fed', pending', prev')
      <4>1. ~given.rearmed /\ ~pending
        BY <2>3, <3>6 DEF HeardInv, ControlInv, Exceptions
      <4>2. Positioned(ring, track, fed, FALSE, prev)
        <5>1. pending = FALSE
          BY <4>1 DEF HeardInv, LocalInv, TypeOK
        <5>2. QED
          BY <4>1, <5>1 DEF HeardInv, HeldFrames
      <4>3. /\ ring.available <= Length[track] /\ ring.available \in Nat
        BY <4>2, <3>2, <1>1, RingParts DEF Positioned
      <4>4. \A i \in 1 .. ring.available : At(ring, i) = <<track, Length[track] - ring.available + i - 1>>
        <5>1. TAKE i \in 1 .. ring.available
        <5>2. At(ring, i) = FrameOf(i, ring.available - fed, track, prev)
          BY <4>2 DEF Positioned
        <5>3. FrameOf(i, ring.available - fed, track, prev) = <<track, i - (ring.available - fed) - 1>>
          BY <4>3, <3>2, <1>1 DEF FrameOf
        <5>4. i - (ring.available - fed) - 1 = Length[track] - ring.available + i - 1
          BY <4>3, <3>2, <1>1
        <5>5. QED
          BY <5>2, <5>3, <5>4
      <4>5. \A i \in 1 .. ring.available : FrameOf(i, ring.available - 0, track', track)
                                             = <<track, Length[track] - ring.available + i - 1>>
        BY <4>3 DEF FrameOf
      <4>6. QED
        BY <2>1, <2>3, <3>2, <1>1, <4>3, <4>4, <4>5 DEF Positioned
    <3>7. QED
      BY <3>5, <3>6 DEF HeldFrames
  <2>4. PICK o \in Outcomes(feeder) :
          \/ UNCHANGED feedVars
          \/ /\ o.to = "audio" /\ Swap(o.next.track) /\ prev' = track /\ pending' = TRUE
             /\ given' = [given EXCEPT !.rearmed = @ \/ pending]
    BY <1>4 DEF FeederTakes
  <2>5. o.to = "audio" => o.next.track \in Tracks
    BY OutcomeTypes DEF HeardInv
  <2>6. QED
    BY <2>2, <2>3, <2>4, <2>5 DEF Swap
<1>5. CASE Reformat
  BY <1>5, FramesCleared DEF Reformat, Swap
<1>6. CASE Drain
  <2>1. UNCHANGED <<ring, last, track, fed, prev>> /\ feeder # "none"
    BY <1>6 DEF Drain
  <2>2. pending' = pending \/ (pending' = FALSE /\ ring.available <= fed)
    BY <1>1, <1>6, RingParts DEF Drain, CompleteTransition, Completes
  <2>3. QED
    BY <2>1, <2>2, FramesKept
<1>7. QED
  BY <1>2, <1>3, <1>4, <1>5, <1>6 DEF FeederStep

\* What all others do to them.
LEMMA OtherFrames ==
  ASSUME HeardInv, LocalInv', ~given'.rearmed => ~given.rearmed,
         AudioCallback \/ JobEnds \/ CommandStep \/ NextTrackSet \/ Calls \/ UNCHANGED vars
  PROVE  HeldFrames'
<1>1. CASE AudioCallback
  <2>1. /\ Ring(ring) /\ fed \in Nat /\ ring.available > 0
        /\ last' = Output(ring, Block)[Actual(ring, Block)] /\ ring' = AfterRead(ring, Block)
        /\ UNCHANGED <<feedVars, feeder, given>>
    BY <1>1, LocalAssumption DEF AudioCallback, Read, HeardInv, LocalInv, TypeOK, Total, playerVars
  <2>2. Block \in Nat \ {0} /\ Block \in Nat
    BY LocalAssumption
  <2>3. FollowOn(ring', last') /\ (LeadUpTo(ring, last, track, fed) => LeadUpTo(ring', last', track, fed))
    BY <2>1, <2>2, ReadOn DEF HeardInv, HeldFrames
  <2>4. Positioned(ring, track, fed, pending, prev) => Positioned(ring', track, fed, pending, prev)
    BY <2>1, <2>2, ReadPositions
  <2>5. QED
    BY <2>1, <2>3, <2>4 DEF feedVars, HeardInv, HeldFrames
<1>2. CASE JobEnds \/ NextTrackSet \/ UNCHANGED vars
  BY <1>2, FramesKept DEF JobEnds, NextTrackSet, vars, feedVars
<1>3. CASE \E reuse \in BOOLEAN : PlayPrepares(reuse)
  <2>1. PICK reuse \in BOOLEAN : PlayPrepares(reuse)
    BY <1>3
  <2>2. CASE Silence
    BY <2>1, <2>2, FramesCleared DEF PlayPrepares, Silence, Fed, Quietly
  <2>3. CASE Running(next) /\ UNCHANGED <<ring, last>>
    <3>1. UNCHANGED <<track, fed, prev, feeder, given>> /\ pending' = FALSE
      BY <2>1 DEF PlayPrepares, Quietly, playerVars
    <3>2. ~given'.rearmed => ~pending
      BY <2>3, <3>1 DEF Running, HeardInv, ControlInv, Announcing, Swapped
    <3>3. ~given'.rearmed => pending' = pending
      BY <3>1, <3>2 DEF HeardInv, LocalInv, TypeOK
    <3>4. QED
      BY <2>3, <3>1, <3>3, FramesKept
  <2>4. QED
    BY <2>1, <2>2, <2>3 DEF PlayPrepares
<1>4. CASE PlayCleared
  BY <1>4, FramesCleared DEF PlayCleared, Silence, Quietly, HeardInv, ControlInv, Commanding
<1>5. CASE PlayTakes
  BY <1>5, FramesCleared, FramesKept DEF PlayTakes, Start
<1>6. CASE Loaded
  BY <1>6, FramesCleared DEF Loaded, Start
<1>7. CASE LoadFails
  BY <1>7, FramesKept DEF LoadFails, feedVars
<1>8. CASE StopClears
  <2>1. UNCHANGED <<prev, feeder, given>> /\ pending' = FALSE /\ feeder = "none"
    BY <1>8 DEF StopClears, Fed
  <2>2. CASE Stopped
    BY <2>1, <2>2, FramesCleared DEF Stopped
  <2>3. CASE Running(next) /\ UNCHANGED <<ring, last, fed, track>>
    <3>1. ~given'.rearmed => ~pending
      BY <2>3, <2>1 DEF Running, HeardInv, ControlInv, Announcing, Swapped
    <3>2. ~given'.rearmed => pending' = pending
      BY <2>1, <3>1 DEF HeardInv, LocalInv, TypeOK
    <3>3. QED
      BY <2>1, <2>3, <3>2, FramesKept
  <2>4. QED
    BY <1>8, <2>2, <2>3 DEF StopClears
<1>9. CASE StopCleared
  BY <1>9, FramesCleared DEF StopCleared, Stopped, HeardInv, ControlInv, Commanding
<1>10. CASE SeekEnds
  BY <1>10, FramesCleared DEF SeekEnds, Fed
<1>11. ASSUME NEW op, NEW t, CancelFeeding(op, t)
       PROVE  HeldFrames'
  BY <1>11, FramesKept DEF CancelFeeding, feedVars
<1>12. CASE \E t \in Tracks : Play(t) \/ SetNextTrack(t)
  BY <1>11, <1>12, FramesKept DEF Play, SetNextTrack, feedVars
<1>13. CASE \E keep \in Tracks \cup {None} : Stop(keep)
  BY <1>11, <1>13 DEF Stop
<1>14. CASE Pause \/ Resume \/ ClearNextTrack
  BY <1>14, FramesKept DEF Pause, Resume, ClearNextTrack, feedVars
<1>15. ASSUME NEW target, Seek(target)
       PROVE  HeldFrames'
  BY <1>11, <1>15, FramesKept, FramesCleared DEF Seek
<1>16. QED
  BY <1>1, <1>2, <1>3, <1>4, <1>5, <1>6, <1>7, <1>8, <1>9, <1>10, <1>12, <1>13, <1>14, <1>15
  DEF CommandStep, Calls

-----------------------------------------------------------------------------
LEMMA InitHeardInv == Init => HeardInv
<1> SUFFICES ASSUME Init PROVE HeardInv
  OBVIOUS
<1>1. LocalInv
  BY InitLocalInv
<1>2. ring.available = 0
  BY DEF Init, RingInit, Empty
<1>3. ControlInv
  BY <1>2 DEF Init, Idle, ControlInv, Exceptions, Commanding, Working, Total, Announcing, Swapped,
    Seeking,
    PausedIsSilent, PlayingIsFed
<1>4. FollowOn(ring, last) /\ Positioned(ring, track, fed, pending, prev)
  <2>1. fed \in Nat /\ ~pending
    BY DEF Init
  <2>2. QED
    BY <1>2, <2>1, NoFrames
<1>5. QED
  BY <1>1, <1>3, <1>4 DEF Init, HeardInv, HeldFrames

LEMMA NextHeardInv == HeardInv /\ [Next]_vars => HeardInv'
<1> SUFFICES ASSUME HeardInv, [Next]_vars PROVE HeardInv'
  OBVIOUS
<1>1. LocalInv'
  BY NextLocalInv DEF HeardInv
<1>2. ControlInv'
  BY <1>1, ControlKept DEF HeardInv
<1>3. ~given'.rearmed => ~given.rearmed
  BY Keeps
<1>4. HeldFrames'
  BY <1>1, <1>3, FeederFrames, OtherFrames DEF Next
<1>5. QED
  BY <1>1, <1>2, <1>4 DEF HeardInv

\* What was paused stays silent until it is resumed, a seek finds the loop feeding
\* the track it was meant for, and a backend that says PLAYING or PAUSED has a loop that
\* feeds the buffer, but for a pause or a resume of one that had stopped or failed to load
\* (pause, resume, seek, _cancel_feeding, play).
THEOREM CommandsAreHeld == Spec => []CommandsHold
<1>1. HeardInv => CommandsHold
  BY DEF HeardInv, ControlInv, Seeking, SeekIsCarriedOut, CommandsHold
<1>2. QED
  BY <1>1, InitHeardInv, NextHeardInv, PTL DEF Spec

LEMMA HeardFacts == HeardInv => HeardAsTold
<1> SUFFICES ASSUME HeardInv PROVE HeardAsTold
  OBVIOUS
<1>1. /\ Ring(ring) /\ ring.available \in Nat /\ fed \in Nat
      /\ \A i \in 1 .. ring.available : Contents[i] = At(ring, i)
  BY HeldIs, RingParts, LocalAssumption DEF HeardInv, LocalInv, TypeOK, Total, Contents, Held
<1>2. AudioIsContinuous
  BY <1>1 DEF HeardInv, HeldFrames, FollowOn, AudioIsContinuous
<1>3. ASSUME ring.available > 0, ~given.rearmed
      PROVE  /\ PositionFrames = Contents[1][2]
             /\ Contents[1][1] = IF pending /\ ring.available > fed THEN prev ELSE track
  <2>1. /\ Positioned(ring, track, fed, pending, prev)
        /\ Contents[1] = FrameOf(1, ring.available - fed, track, prev)
    BY <1>1, <1>3 DEF HeardInv, HeldFrames, Positioned
  <2>2. CASE pending /\ ring.available > fed
    <3>1. prev \in Tracks /\ Length[prev] \in Nat /\ ring.available - fed <= Length[prev]
      BY <1>1, <2>1, <2>2, LocalAssumption DEF Positioned
    <3>2. Contents[1] = <<prev, Length[prev] - (ring.available - fed)>>
      BY <1>1, <2>1, <2>2, <3>1 DEF FrameOf
    <3>3. QED
      BY <1>1, <2>2, <3>1, <3>2 DEF PositionFrames
  <2>3. CASE ~(pending /\ ring.available > fed)
    <3>1. ring.available <= fed
      BY <1>1, <2>1, <2>3 DEF Positioned
    <3>2. Contents[1] = <<track, fed - ring.available>>
      BY <1>1, <2>1, <3>1 DEF FrameOf
    <3>3. QED
      BY <1>1, <2>3, <3>1, <3>2 DEF PositionFrames
  <2>4. QED
    BY <2>2, <2>3
<1>4. PositionIsHeard
  BY <1>3 DEF PositionIsHeard
<1>5. BelievedIsHeard
  BY <1>1, <1>3 DEF BelievedIsHeard, Completes, HeardInv, ControlInv, Announcing
<1>6. QED
  BY <1>2, <1>4, <1>5 DEF HeardAsTold, HeardInv, LocalInv

\* Gapless and complete: frames are buffered and heard one after the other, the
\* position told is that of the next frame heard, and the track the player believes is
\* playing is the one of that frame (_feed_current_track, _transition_to_next_track,
\* _maybe_complete_transition, _playback_position_ms).
THEOREM HeardIsTold == Spec => []HeardAsTold
BY HeardFacts, InitHeardInv, NextHeardInv, PTL DEF Spec

\* The end of a track is announced when its last frame was heard (_feeding_loop).
THEOREM EndIsAnnouncedWhenHeard == Spec => EndIsHeard
<1>1. ASSUME HeardInv, [Next]_vars
      PROVE  ended' # ended /\ cmd.op # "seek" => last = <<track, Total - 1>>
  <2>1. Drain \/ SeekEnds \/ ended' = ended
    BY <1>1 DEF Next, vars, FeederStep, CommandStep, AudioCallback, JobEnds, Feed, FedAll,
      FeederTakes, Reformat, PlayPrepares, PlayCleared, PlayTakes, Loaded, LoadFails, StopClears,
      StopCleared, NextTrackSet, Calls, Play, Stop, CancelFeeding, SetNextTrack, ClearNextTrack,
      Pause, Resume, Seek, Quietly
  <2>2. CASE SeekEnds
    BY <2>2 DEF SeekEnds
  <2>3. CASE Drain /\ ended' # ended
    <3>1. feeder = "draining" /\ ring.available = 0
      BY <2>3 DEF Drain, Drained
    <3>2. track \in Tracks /\ fed = Total /\ Total = Length[track] /\ Length[track] \in Nat \ {0}
      BY <1>1, <3>1, LocalAssumption DEF HeardInv, LocalInv, TypeOK, ControlInv, Working, Total
    <3>3. LeadUpTo(ring, last, track, fed)
      BY <1>1, <3>1 DEF HeardInv, HeldFrames
    <3>4. QED
      BY <3>1, <3>2, <3>3 DEF LeadUpTo, Newest
  <2>4. QED
    BY <2>1, <2>2, <2>3
<1>2. QED
  BY <1>1, InitHeardInv, NextHeardInv, PTL DEF Spec, EndIsHeard
=============================================================================
