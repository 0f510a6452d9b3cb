-------------------------- MODULE RingBufferProofs --------------------------
(***************************************************************************)
(* Theorems of RingBuffer for every capacity, every set of element counts  *)
(* and every number of elements.  The index arithmetic is stated once, in  *)
(* terms of Wrap; the inductive invariant then relates every value of an   *)
(* index that a thread may still load to the current one of the other      *)
(* thread, and the contents of the slots to their place in the stream.     *)
(***************************************************************************)
EXTENDS RingBuffer, TLAPS

\* The slot k places after slot i.
Wrap(i, k) == IF i + k < capacity_ THEN i + k ELSE i + k - capacity_

LEMMA IncrementIsWrap ==
  ASSUME NEW i \in Slots, NEW k \in 0..capacity_
  PROVE  increment_index(i, k) = Wrap(i, k)
  BY CapacityAssumption DEF Slots, increment_index, Wrap

LEMMA SlotIsWrap ==
  ASSUME NEW i \in Slots, NEW k \in Slots
  PROVE  Slot(i, k) = Wrap(i, k)
  BY CapacityAssumption DEF Slots, Slot, Wrap

LEMMA WrapInSlots ==
  ASSUME NEW i \in Slots, NEW k \in 0..capacity_
  PROVE  Wrap(i, k) \in Slots
  BY CapacityAssumption DEF Slots, Wrap

LEMMA WrapWrap ==
  ASSUME NEW i \in Slots, NEW j \in Slots, NEW k \in Slots, j + k < capacity_
  PROVE  Wrap(Wrap(i, j), k) = Wrap(i, j + k)
  BY CapacityAssumption DEF Slots, Wrap

LEMMA WrapInjective ==
  ASSUME NEW i \in Slots, NEW j \in Slots, NEW k \in Slots, Wrap(i, j) = Wrap(i, k)
  PROVE  j = k
  BY CapacityAssumption DEF Slots, Wrap

\* What the index arithmetic computes for two indices d elements apart.
LEMMA IndexArithmetic ==
  ASSUME NEW i \in Slots, NEW d \in Slots
  PROVE  /\ available_read_internal(i, Wrap(i, d)) = d
         /\ available_write_internal(i, Wrap(i, d)) = capacity_ - 1 - d
         /\ empty_internal(i, Wrap(i, d)) <=> d = 0
         /\ full_internal(i, Wrap(i, d)) <=> d = capacity_ - 1
<1>1. Wrap(i, d) \in Slots
  BY CapacityAssumption, WrapInSlots DEF Slots
<1>2. (Wrap(i, d) + 1) % capacity_ = Wrap(Wrap(i, d), 1)
  BY <1>1, CapacityAssumption, IncrementIsWrap DEF increment_index
<1>3. QED
  BY <1>1, <1>2, CapacityAssumption
  DEF Slots, Wrap, available_read_internal, available_write_internal, empty_internal, full_internal
----------------------------------------------------------------------------
(* The inductive invariant. *)

RD == read_index.count
WR == write_index.count

\* Every value of read_index_ the producer may load is recent enough for the
\* arithmetic: write_index_ is less than a whole turn ahead of it.
ReadsInv ==
  \A x \in oldReads \cup {read_index} :
    /\ x.count <= RD
    /\ WR - x.count \in Slots
    /\ write_index.index = Wrap(x.index, WR - x.count)

\* Every value of write_index_ the consumer may load is at or after read_index_.
WritesInv ==
  \A x \in oldWrites \cup {write_index} :
    /\ x.count <= WR
    /\ x.count - RD \in Slots
    /\ x.index = Wrap(read_index.index, x.count - RD)

\* What a call in progress transfers fits, whatever view it was computed from,
\* and so does what available_write answered.
ProducerInv ==
  /\ producer.done <= producer.n
  /\ producer.count = 0 => producer.at = Idle /\ producer.n = 0
  /\ \A x \in oldReads \cup {read_index} :
       /\ producer.at = "copying" => WR + producer.n - x.count <= capacity_ - 1
       /\ producer.count = 0 => WR + producer.room - x.count <= capacity_ - 1

ConsumerInv ==
  /\ consumer.done <= consumer.n
  /\ consumer.count = 0 => consumer.at = Idle /\ consumer.n = 0
  /\ consumer.at = "copying" /\ ~consumer.stored => consumer.from = read_index
  /\ consumer.at = "copying" /\ consumer.stored /\ ~RelaxedStore => consumer.done = consumer.n
  /\ \A x \in oldWrites \cup {write_index} :
       /\ consumer.at = "copying" /\ ~consumer.stored => RD + consumer.n <= x.count
       /\ consumer.count = 0 => RD + consumer.ready <= x.count

\* Elements published, and those already copied by the enqueue in progress.
Written == WR - RD + (IF producer.at = "copying" THEN producer.done ELSE 0)
DataInv ==
  \A j \in Slots : j < Written => data[Wrap(read_index.index, j)] = RD + j

\* The copy of the dequeue in progress has got as far as "done" says.
CopyInv ==
  /\ consumer.at = "copying" /\ consumer.done < consumer.n => Len(got) = consumer.done
  /\ FifoOrder

IndexInv == TypeOK /\ ReadsInv /\ WritesInv /\ ProducerInv /\ ConsumerInv
                  /\ RoomIsKept /\ ReadyIsKept
----------------------------------------------------------------------------
(* The indices: for both values of RelaxedStore. *)

LEMMA IndexInit == Init => IndexInv
<1> SUFFICES ASSUME Init PROVE IndexInv
  OBVIOUS
<1> USE CapacityAssumption DEF Init, Slots, NoPut, NoTake, Idle, RD, WR
<1>1. TypeOK
  BY DEF TypeOK, Stores
<1>2. ReadsInv /\ WritesInv
  BY DEF ReadsInv, WritesInv, Wrap
<1>3. ProducerInv /\ ConsumerInv
  BY DEF ProducerInv, ConsumerInv
<1>4. RoomIsKept /\ ReadyIsKept
  BY DEF RoomIsKept, ReadyIsKept, Least
<1>5. QED
  BY <1>1, <1>2, <1>3, <1>4 DEF IndexInv

\* A store moves an index to the slot Wrap names and counts what went through.
LEMMA AdvanceStore ==
  ASSUME NEW x \in Stores, NEW n \in Slots
  PROVE  /\ Advance(x, n) \in Stores
         /\ Advance(x, n).count = x.count + n
         /\ Advance(x, n).index = Wrap(x.index, n)
<1>1. x.index \in Slots /\ x.count \in Nat /\ n \in Nat /\ n \in 0..capacity_
  BY CapacityAssumption DEF Stores, Slots
<1>2. increment_index(x.index, n) = Wrap(x.index, n) /\ Wrap(x.index, n) \in Slots
  BY <1>1, IncrementIsWrap, WrapInSlots
<1>3. QED
  BY <1>1, <1>2 DEF Advance, Stores

LEMMA EnqueueLoadIndex ==
  ASSUME IndexInv, NEW count \in Counts, EnqueueLoad(count)
  PROVE  IndexInv'
<1>1. PICK v \in oldReads \cup {read_index} :
        /\ ProducerLoads(v)
        /\ LET full == full_internal(v.index, write_index.index)
               n    == Least(available_write_internal(v.index, write_index.index), count)
           IN  producer' = [at    |-> IF full THEN Idle ELSE "copying",
                            count |-> count,
                            n     |-> IF full THEN 0 ELSE n,
                            done  |-> 0,
                            room  |-> IF producer.count = 0 THEN producer.room ELSE 0]
  BY DEF EnqueueLoad
<1> DEFINE d == WR - v.count
<1> DEFINE full == d = capacity_ - 1
<1> DEFINE n == IF full THEN 0 ELSE Least(capacity_ - 1 - d, count)
<1> DEFINE room == IF producer.count = 0 THEN producer.room ELSE 0
<1>0. WR \in Nat /\ RD \in Nat /\ v.count \in Nat /\ d = WR - v.count
  BY DEF IndexInv, TypeOK, Stores, WR, RD
<1>2. v \in Stores /\ d \in Slots /\ write_index.index = Wrap(v.index, d) /\ v.index \in Slots
  BY DEF IndexInv, TypeOK, ReadsInv, Stores
<1>3. /\ available_write_internal(v.index, write_index.index) = capacity_ - 1 - d
      /\ full_internal(v.index, write_index.index) <=> full
  BY <1>2, IndexArithmetic
<1> HIDE DEF d
<1>4. producer' = [at |-> IF full THEN Idle ELSE "copying", count |-> count,
                   n |-> n, done |-> 0, room |-> room]
  BY <1>1, <1>3
<1>5. count \in Nat \ {0} /\ n \in Slots /\ n <= capacity_ - 1 - d /\ room \in Slots
  <2>1. count \in Nat \ {0}
    BY CountsAssumption
  <2>2. room \in Slots
    BY CapacityAssumption, SMTT(40) DEF IndexInv, TypeOK, Slots
  <2>3. QED
    BY <1>2, <2>1, <2>2, CapacityAssumption DEF Least, Slots
<1>6. /\ oldReads' = {x \in oldReads : x.count >= v.count}
      /\ UNCHANGED <<read_index, write_index, oldWrites, data, consumer, got>>
  BY <1>1 DEF ProducerLoads, EnqueueLoad
<1>7. \A x \in oldReads' \cup {read_index} : x \in oldReads \cup {read_index} /\ x.count >= v.count
                                            /\ x.count \in Nat
  BY <1>1, <1>6 DEF IndexInv, ReadsInv, RD, TypeOK, Stores
<1>8. TypeOK'
  <2>1. producer' \in [at : {Idle, "copying"}, count : Nat, n : Slots, done : Slots, room : Slots]
    <3> HIDE DEF full, n, room
    <3>1. 0 \in Slots
      BY CapacityAssumption DEF Slots
    <3>2. QED
      BY <1>4, <1>5, <3>1
  <2>2. oldReads' \subseteq Stores
    BY <1>6 DEF IndexInv, TypeOK
  <2>3. QED
    BY <1>6, <2>1, <2>2 DEF IndexInv, TypeOK
<1>9. ReadsInv'
  BY <1>6, <1>7 DEF IndexInv, ReadsInv, RD, WR
<1>10. WritesInv'
  BY <1>6 DEF IndexInv, WritesInv, RD, WR
<1>11. ProducerInv'
  <2>1. \A x \in oldReads' \cup {read_index} : WR + n - x.count <= capacity_ - 1
    <3>1. n \in Nat /\ n <= capacity_ - 1 - WR + v.count
      BY <1>0, <1>5, CapacityAssumption DEF Slots
    <3> HIDE DEF n
    <3>2. QED
      BY <1>0, <1>7, <3>1, CapacityAssumption DEF Slots
  <2>2. QED
    BY <1>4, <1>5, <1>6, <2>1 DEF ProducerInv, WR, Slots, Idle
<1>12. ConsumerInv' /\ ReadyIsKept'
  BY <1>6 DEF IndexInv, ConsumerInv, ReadyIsKept, RD
<1>13. RoomIsKept'
  <2>1. CASE producer.count = 0
    <3>1. WR + producer.room - v.count <= capacity_ - 1
      BY <2>1 DEF IndexInv, ProducerInv
    <3>2. producer.room <= capacity_ - 1 - d
      <4>1. producer.room \in Nat
        BY CapacityAssumption DEF IndexInv, TypeOK, Slots
      <4>2. QED
        BY <1>0, <3>1, <4>1, CapacityAssumption
    <3>3. n >= Least(count, room)
      <4>1. room = producer.room /\ room \in Nat /\ count \in Nat /\ d \in Nat
        BY <1>2, <1>5, <2>1 DEF Slots
      <4> HIDE DEF room, full
      <4>2. CASE full
        BY <4>1, <4>2, <3>2, CapacityAssumption DEF full, Least
      <4>3. CASE ~full
        BY <4>1, <4>3, <3>2, CapacityAssumption DEF Least
      <4>4. QED
        BY <4>2, <4>3
    <3>4. QED
      BY <1>4, <3>3 DEF RoomIsKept
  <2>2. CASE producer.count # 0
    BY <1>4, <1>5, <2>2 DEF RoomIsKept, Least, Slots
  <2>3. QED
    BY <2>1, <2>2
<1>14. QED
  BY <1>8, <1>9, <1>10, <1>11, <1>12, <1>13 DEF IndexInv
LEMMA EnqueueStoreIndex ==
  ASSUME IndexInv, EnqueueStore
  PROVE  IndexInv'
<1> DEFINE n == producer.n
<1>1. /\ producer.at = "copying" /\ oldWrites' = oldWrites \cup {write_index}
      /\ write_index' = Advance(write_index, n)
      /\ producer' = [producer EXCEPT !.at = Idle]
      /\ UNCHANGED <<read_index, oldReads, data, consumer, got>>
  BY DEF EnqueueStore
<1>2. /\ n \in Slots /\ n \in Nat /\ RD \in Nat /\ WR \in Nat
      /\ write_index \in Stores /\ read_index \in Stores
      /\ write_index.index \in Slots /\ read_index.index \in Slots
  BY DEF IndexInv, TypeOK, Stores, RD, WR, Slots
<1>3. /\ write_index' \in Stores /\ write_index'.count = WR + n
      /\ write_index'.index = Wrap(write_index.index, n)
  BY <1>1, <1>2, AdvanceStore DEF WR
<1>4. \A x \in oldReads \cup {read_index} : x \in Stores /\ x.index \in Slots /\ x.count \in Nat
                                           /\ x.count <= RD
  BY DEF IndexInv, TypeOK, Stores, ReadsInv
<1>5. producer.count # 0
  BY <1>1 DEF IndexInv, ProducerInv, Idle
<1>6. TypeOK'
  <2>1. producer' \in [at : {Idle, "copying"}, count : Nat, n : Slots, done : Slots, room : Slots]
    BY <1>1 DEF IndexInv, TypeOK
  <2>2. QED
    BY <1>1, <1>3, <2>1 DEF IndexInv, TypeOK
\* The elements put are counted from every view the producer may load.
<1>7a. ASSUME NEW x \in oldReads \cup {read_index}
       PROVE  /\ x.count <= RD
              /\ WR + n - x.count \in Slots
              /\ write_index'.index = Wrap(x.index, WR + n - x.count)
  <2> DEFINE d == WR - x.count
  <2>1. d \in Slots /\ write_index.index = Wrap(x.index, d) /\ x.count <= RD
    BY DEF IndexInv, ReadsInv
  <2>2. d + n <= capacity_ - 1 /\ d + n = WR + n - x.count
    BY <1>1, <1>2, <1>4 DEF IndexInv, ProducerInv
  <2> HIDE DEF d
  <2>3. Wrap(Wrap(x.index, d), n) = Wrap(x.index, d + n)
    BY <1>2, <1>4, <2>1, <2>2, WrapWrap, CapacityAssumption DEF Slots
  <2>4. d + n \in Slots
    BY <1>2, <2>1, <2>2, CapacityAssumption DEF Slots
  <2>5. QED
    BY <1>3, <2>1, <2>2, <2>3, <2>4
<1>7b. RD' = RD /\ WR' = WR + n
  BY <1>1, <1>3 DEF RD, WR
<1>7. ReadsInv'
  <2>1. oldReads' = oldReads /\ read_index' = read_index
    BY <1>1
  <2> HIDE DEF n
  <2>2. QED
    BY <1>2, <1>4, <1>7a, <1>7b, <2>1 DEF ReadsInv
<1>8. WritesInv'
  <2> DEFINE e == WR - RD
  <2>1. e \in Slots /\ write_index.index = Wrap(read_index.index, e)
    BY DEF IndexInv, ReadsInv, RD
  <2>2. e + n <= capacity_ - 1 /\ e + n = WR + n - RD
    BY <1>1, <1>2 DEF IndexInv, ProducerInv, RD
  <2> HIDE DEF e
  <2>3. e + n \in Slots /\ Wrap(Wrap(read_index.index, e), n) = Wrap(read_index.index, e + n)
    BY <1>2, <2>1, <2>2, WrapWrap, CapacityAssumption DEF Slots
  <2>4. \A x \in oldWrites' : /\ x.count <= WR + n
                              /\ x.count - RD \in Slots
                              /\ x.index = Wrap(read_index.index, x.count - RD)
    <3> SUFFICES ASSUME NEW x \in oldWrites \cup {write_index}
                 PROVE  /\ x.count <= WR + n
                        /\ x.count - RD \in Slots
                        /\ x.index = Wrap(read_index.index, x.count - RD)
      BY <1>1
    <3>1. x.count \in Nat /\ x.count <= WR
      BY DEF IndexInv, TypeOK, Stores, WritesInv
    <3>2. QED
      BY <1>2, <3>1 DEF IndexInv, WritesInv
  <2>5. QED
    BY <1>1, <1>2, <1>3, <2>1, <2>2, <2>3, <2>4 DEF WritesInv, RD, WR
<1>9. ProducerInv'
  BY <1>1, <1>5 DEF IndexInv, ProducerInv, TypeOK, Idle
<1>10. ConsumerInv'
  <2>1. \A x \in oldWrites' \cup {write_index'} :
          x.count \in Nat /\ \E y \in oldWrites \cup {write_index} : y.count \in Nat /\ y.count <= x.count
    <3>1. SUFFICES ASSUME NEW x \in oldWrites' \cup {write_index'}
                   PROVE  x.count \in Nat
                          /\ \E y \in oldWrites \cup {write_index} : y.count \in Nat /\ y.count <= x.count
      OBVIOUS
    <3>2. CASE x \in oldWrites \cup {write_index}
      <4>1. x.count \in Nat
        BY <3>2 DEF IndexInv, TypeOK, Stores
      <4>2. QED
        BY <3>2, <4>1
    <3>3. CASE x = write_index'
      <4>1. write_index.count \in Nat /\ x.count \in Nat /\ write_index.count <= x.count
        BY <1>2, <1>3, <3>3 DEF WR
      <4>2. QED
        BY <4>1
    <3>4. QED
      BY <1>1, <3>1, <3>2, <3>3
  <2>2. consumer.n \in Nat /\ consumer.ready \in Nat
    BY CapacityAssumption DEF IndexInv, TypeOK, Slots
  <2>3. \A x \in oldWrites' \cup {write_index'} :
          /\ consumer.at = "copying" /\ ~consumer.stored => RD + consumer.n <= x.count
          /\ consumer.count = 0 => RD + consumer.ready <= x.count
    BY <1>2, <2>1, <2>2 DEF IndexInv, ConsumerInv
  <2>4. QED
    BY <1>1, <2>3 DEF IndexInv, ConsumerInv, RD
<1>11. RoomIsKept' /\ ReadyIsKept'
  BY <1>1 DEF IndexInv, RoomIsKept, ReadyIsKept, TypeOK
<1>12. QED
  BY <1>6, <1>7, <1>8, <1>9, <1>10, <1>11 DEF IndexInv

LEMMA AvailableWriteIndex ==
  ASSUME IndexInv, AvailableWrite
  PROVE  IndexInv'
<1>1. PICK v \in oldReads \cup {read_index} :
        /\ ProducerLoads(v)
        /\ producer' = [NoPut EXCEPT !.room = available_write_internal(v.index, write_index.index)]
  BY DEF AvailableWrite
<1> DEFINE d == WR - v.count
<1>2. /\ WR \in Nat /\ RD \in Nat /\ v.count \in Nat /\ d = WR - v.count
      /\ v \in Stores /\ d \in Slots /\ write_index.index = Wrap(v.index, d) /\ v.index \in Slots
  BY DEF IndexInv, TypeOK, ReadsInv, Stores, WR, RD
<1>3. available_write_internal(v.index, write_index.index) = capacity_ - 1 - d
  BY <1>2, IndexArithmetic
<1> HIDE DEF d
<1>4. producer' = [at |-> Idle, count |-> 0, n |-> 0, done |-> 0, room |-> capacity_ - 1 - d]
  BY <1>1, <1>3 DEF NoPut
<1>5. capacity_ - 1 - d \in Slots /\ 0 \in Slots
  BY <1>2, CapacityAssumption DEF Slots
<1>6. /\ oldReads' = {x \in oldReads : x.count >= v.count}
      /\ UNCHANGED <<read_index, write_index, oldWrites, data, consumer, got>>
  BY <1>1 DEF ProducerLoads, AvailableWrite
<1>7. \A x \in oldReads' \cup {read_index} : x \in oldReads \cup {read_index} /\ x.count >= v.count
                                            /\ x.count \in Nat
  BY <1>1, <1>6 DEF IndexInv, ReadsInv, RD, TypeOK, Stores
<1>8. TypeOK'
  <2>1. producer' \in [at : {Idle, "copying"}, count : Nat, n : Slots, done : Slots, room : Slots]
    BY <1>4, <1>5
  <2>2. QED
    BY <1>6, <2>1 DEF IndexInv, TypeOK
<1>9. ReadsInv' /\ WritesInv'
  BY <1>6, <1>7 DEF IndexInv, ReadsInv, WritesInv, RD, WR
<1>10. ProducerInv'
  <2>1. \A x \in oldReads' \cup {read_index} : WR + (capacity_ - 1 - d) - x.count <= capacity_ - 1
    BY <1>2, <1>7, CapacityAssumption DEF Slots
  <2>2. QED
    BY <1>4, <1>6, <2>1 DEF ProducerInv, WR, Idle
<1>11. ConsumerInv' /\ ReadyIsKept'
  BY <1>6 DEF IndexInv, ConsumerInv, ReadyIsKept, RD
<1>12. RoomIsKept'
  BY <1>4, <1>5, CapacityAssumption DEF RoomIsKept, Least, Slots
<1>13. QED
  BY <1>8, <1>9, <1>10, <1>11, <1>12 DEF IndexInv

LEMMA DequeueLoadIndex ==
  ASSUME IndexInv, NEW count \in Counts, NEW discard \in BOOLEAN, DequeueLoad(count, discard)
  PROVE  IndexInv'
<1>1. PICK v \in oldWrites \cup {write_index} :
        /\ ConsumerLoads(v)
        /\ LET empty == empty_internal(read_index.index, v.index)
               n     == Least(available_read_internal(read_index.index, v.index), count)
           IN  consumer' = [at     |-> IF empty THEN Idle ELSE "copying",
                            count  |-> count,
                            n      |-> IF empty THEN 0 ELSE n,
                            done   |-> IF empty THEN 0 ELSE IF discard THEN n ELSE 0,
                            ready  |-> IF consumer.count = 0 THEN consumer.ready ELSE 0,
                            from   |-> read_index,
                            stored |-> FALSE]
  BY DEF DequeueLoad
<1> DEFINE d == v.count - RD
<1> DEFINE n == IF d = 0 THEN 0 ELSE Least(d, count)
<1> DEFINE ready == IF consumer.count = 0 THEN consumer.ready ELSE 0
<1>2. /\ WR \in Nat /\ RD \in Nat /\ v.count \in Nat /\ d = v.count - RD
      /\ v \in Stores /\ d \in Slots /\ v.index = Wrap(read_index.index, d)
      /\ read_index.index \in Slots /\ read_index \in Stores
  BY DEF IndexInv, TypeOK, WritesInv, Stores, WR, RD
<1>3. /\ available_read_internal(read_index.index, v.index) = d
      /\ empty_internal(read_index.index, v.index) <=> d = 0
  BY <1>2, IndexArithmetic
<1> HIDE DEF d
<1>4. consumer' = [at |-> IF d = 0 THEN Idle ELSE "copying", count |-> count, n |-> n,
                   done |-> IF discard THEN n ELSE 0, ready |-> ready,
                   from |-> read_index, stored |-> FALSE]
  BY <1>1, <1>3
<1>5. count \in Nat \ {0} /\ n \in Slots /\ n <= d /\ ready \in Slots /\ 0 \in Slots
  <2>1. count \in Nat \ {0}
    BY CountsAssumption
  <2>2. ready \in Slots /\ 0 \in Slots
    BY CapacityAssumption, SMTT(40) DEF IndexInv, TypeOK, Slots
  <2>3. QED
    BY <1>2, <2>1, <2>2, CapacityAssumption DEF Least, Slots
<1>6. /\ oldWrites' = {x \in oldWrites : x.count >= v.count} /\ got' = <<>>
      /\ UNCHANGED <<read_index, write_index, oldReads, data, producer>>
  BY <1>1 DEF ConsumerLoads, DequeueLoad
<1>7. \A x \in oldWrites' \cup {write_index} : x \in oldWrites \cup {write_index}
                                              /\ x.count >= v.count /\ x.count \in Nat
  BY <1>1, <1>6 DEF IndexInv, WritesInv, WR, TypeOK, Stores
<1>8. TypeOK'
  <2>1. consumer' \in [at : {Idle, "copying"}, count : Nat, n : Slots, done : Slots,
                       ready : Slots, from : Stores, stored : BOOLEAN]
    <3> HIDE DEF n, ready
    <3>1. QED
      BY <1>2, <1>4, <1>5
  <2>2. oldWrites' \subseteq Stores /\ got' \in Seq(Nat)
    BY <1>6 DEF IndexInv, TypeOK
  <2>3. QED
    BY <1>6, <2>1, <2>2 DEF IndexInv, TypeOK
<1>9. ReadsInv' /\ WritesInv'
  BY <1>6, <1>7 DEF IndexInv, ReadsInv, WritesInv, RD, WR
<1>10. ProducerInv' /\ RoomIsKept'
  BY <1>6 DEF IndexInv, ProducerInv, RoomIsKept, WR
<1>11. ConsumerInv'
  <2>1. \A x \in oldWrites' \cup {write_index} : RD + n <= x.count
    <3>1. n \in Nat /\ RD + n <= v.count
      BY <1>2, <1>5, CapacityAssumption DEF Slots
    <3> HIDE DEF n
    <3>2. QED
      BY <1>2, <1>7, <3>1
  <2>2. n \in Nat /\ n <= n
    BY <1>5, CapacityAssumption DEF Slots
  <2> HIDE DEF n, ready
  <2>3. QED
    BY <1>4, <1>5, <1>6, <2>1, <2>2 DEF ConsumerInv, RD, Idle
<1>12. ReadyIsKept'
  <2>1. CASE consumer.count = 0
    <3>1. ready = consumer.ready /\ ready \in Nat /\ RD + ready <= v.count
      BY <1>5, <2>1, CapacityAssumption DEF IndexInv, ConsumerInv, Slots
    <3>2. ready <= d
      BY <1>2, <3>1
    <3> HIDE DEF ready
    <3>3. n >= Least(count, ready)
      BY <1>2, <1>5, <3>1, <3>2 DEF Least, Slots
    <3>4. QED
      BY <1>4, <3>3 DEF ReadyIsKept
  <2>2. CASE consumer.count # 0
    <3>1. ready = 0 /\ n \in Nat
      BY <1>5, <2>2, CapacityAssumption DEF Slots
    <3> HIDE DEF n, ready
    <3>2. n >= Least(count, ready)
      BY <1>5, <3>1 DEF Least
    <3>3. QED
      BY <1>4, <3>2 DEF ReadyIsKept
  <2>3. QED
    BY <2>1, <2>2
<1>13. QED
  BY <1>8, <1>9, <1>10, <1>11, <1>12 DEF IndexInv
LEMMA DequeueStoreIndex ==
  ASSUME IndexInv, DequeueStore
  PROVE  IndexInv'
<1> DEFINE n == consumer.n
<1>1. /\ consumer.at = "copying" /\ ~consumer.stored /\ oldReads' = oldReads \cup {read_index}
      /\ RelaxedStore \/ consumer.done = consumer.n
      /\ read_index' = Advance(read_index, n)
      /\ consumer' = [consumer EXCEPT !.stored = TRUE]
      /\ UNCHANGED <<write_index, oldWrites, data, producer, got>>
  BY DEF DequeueStore
<1>2. /\ n \in Slots /\ n \in Nat /\ RD \in Nat /\ WR \in Nat
      /\ write_index \in Stores /\ read_index \in Stores
      /\ write_index.index \in Slots /\ read_index.index \in Slots
  BY DEF IndexInv, TypeOK, Stores, RD, WR, Slots
<1>3. /\ read_index' \in Stores /\ read_index'.count = RD + n
      /\ read_index'.index = Wrap(read_index.index, n)
  BY <1>1, <1>2, AdvanceStore DEF RD
<1>4. RD' = RD + n /\ WR' = WR
  BY <1>1, <1>3 DEF RD, WR
<1>5. consumer.count # 0
  BY <1>1 DEF IndexInv, ConsumerInv, Idle
<1>6. TypeOK'
  <2>1. consumer' \in [at : {Idle, "copying"}, count : Nat, n : Slots, done : Slots,
                       ready : Slots, from : Stores, stored : BOOLEAN]
    BY <1>1 DEF IndexInv, TypeOK
  <2>2. QED
    BY <1>1, <1>2, <1>3, <2>1 DEF IndexInv, TypeOK
\* What is still stored after the take starts at the new read index.
<1>7. ASSUME NEW x \in oldWrites \cup {write_index}
      PROVE  /\ x.count - (RD + n) \in Slots
             /\ x.index = Wrap(read_index'.index, x.count - (RD + n))
             /\ x.count <= WR
  <2> DEFINE e == x.count - (RD + n)
  <2>1. x.count \in Nat /\ x.count <= WR /\ x.count - RD \in Slots
        /\ x.index = Wrap(read_index.index, x.count - RD) /\ RD + n <= x.count
    BY <1>1 DEF IndexInv, TypeOK, Stores, WritesInv, ConsumerInv
  <2>2. e \in Slots /\ n + e = x.count - RD /\ n + e < capacity_
    BY <1>2, <2>1, CapacityAssumption DEF Slots
  <2> HIDE DEF e
  <2>3. Wrap(Wrap(read_index.index, n), e) = Wrap(read_index.index, n + e)
    BY <1>2, <2>2, WrapWrap
  <2>4. QED
    BY <1>3, <2>1, <2>2, <2>3 DEF e
<1>8. WritesInv'
  BY <1>1, <1>4, <1>7 DEF WritesInv
<1>9. ReadsInv'
  <2>1. ASSUME NEW x \in oldReads \cup {read_index}
        PROVE  /\ x.count <= RD + n /\ WR - x.count \in Slots
               /\ write_index.index = Wrap(x.index, WR - x.count)
    <3>1. x.count \in Nat /\ x.count <= RD
      BY DEF IndexInv, ReadsInv, TypeOK, Stores
    <3>2. x.count <= RD + n
      BY <1>2, <3>1
    <3>3. QED
      BY <3>2 DEF IndexInv, ReadsInv
  <2>2. WR - (RD + n) \in Slots /\ write_index.index = Wrap(read_index'.index, WR - (RD + n))
    BY <1>7 DEF WR
  <2>3. QED
    BY <1>1, <1>2, <1>3, <1>4, <2>1, <2>2 DEF ReadsInv
<1>10. ProducerInv'
  <2>1. \A x \in oldReads' \cup {read_index'} :
          x.count \in Nat /\ \E y \in oldReads \cup {read_index} : y.count \in Nat /\ y.count <= x.count
    <3>1. SUFFICES ASSUME NEW x \in oldReads' \cup {read_index'}
                   PROVE  x.count \in Nat
                          /\ \E y \in oldReads \cup {read_index} : y.count \in Nat /\ y.count <= x.count
      OBVIOUS
    <3>2. CASE x \in oldReads \cup {read_index}
      <4>1. x.count \in Nat
        BY <3>2 DEF IndexInv, TypeOK, Stores
      <4>2. QED
        BY <3>2, <4>1
    <3>3. CASE x = read_index'
      <4>1. read_index.count \in Nat /\ x.count \in Nat /\ read_index.count <= x.count
        BY <1>2, <1>3, <3>3 DEF RD
      <4>2. QED
        BY <4>1
    <3>4. QED
      BY <1>1, <3>1, <3>2, <3>3
  <2>2. producer.n \in Nat /\ producer.room \in Nat
    BY CapacityAssumption DEF IndexInv, TypeOK, Slots
  <2>3. \A x \in oldReads' \cup {read_index'} :
          /\ producer.at = "copying" => WR + producer.n - x.count <= capacity_ - 1
          /\ producer.count = 0 => WR + producer.room - x.count <= capacity_ - 1
    BY <1>2, <2>1, <2>2, CapacityAssumption DEF IndexInv, ProducerInv
  <2>4. QED
    BY <1>1, <1>4, <2>3 DEF IndexInv, ProducerInv
<1>11. ConsumerInv'
  BY <1>1, <1>5 DEF IndexInv, ConsumerInv, TypeOK
<1>12. RoomIsKept' /\ ReadyIsKept'
  BY <1>1 DEF IndexInv, RoomIsKept, ReadyIsKept, TypeOK
<1>13. QED
  BY <1>6, <1>8, <1>9, <1>10, <1>11, <1>12 DEF IndexInv

LEMMA AvailableReadIndex ==
  ASSUME IndexInv, AvailableRead
  PROVE  IndexInv'
<1>1. PICK v \in oldWrites \cup {write_index} :
        /\ ConsumerLoads(v)
        /\ consumer' = [NoTake EXCEPT !.ready = available_read_internal(read_index.index, v.index)]
  BY DEF AvailableRead
<1> DEFINE d == v.count - RD
<1>2. /\ WR \in Nat /\ RD \in Nat /\ v.count \in Nat /\ d = v.count - RD
      /\ d \in Slots /\ v.index = Wrap(read_index.index, d) /\ read_index.index \in Slots
  BY DEF IndexInv, TypeOK, WritesInv, Stores, WR, RD
<1>3. available_read_internal(read_index.index, v.index) = d
  BY <1>2, IndexArithmetic
<1> HIDE DEF d
<1>4. consumer' = [at |-> Idle, count |-> 0, n |-> 0, done |-> 0, ready |-> d,
                   from |-> [index |-> 0, count |-> 0], stored |-> FALSE]
  BY <1>1, <1>3 DEF NoTake
<1>5. /\ oldWrites' = {x \in oldWrites : x.count >= v.count} /\ got' = <<>>
      /\ UNCHANGED <<read_index, write_index, oldReads, data, producer>>
  BY <1>1 DEF ConsumerLoads, AvailableRead
<1>6. \A x \in oldWrites' \cup {write_index} : x \in oldWrites \cup {write_index}
                                              /\ x.count >= v.count /\ x.count \in Nat
  BY <1>1, <1>5 DEF IndexInv, WritesInv, WR, TypeOK, Stores
<1>7. 0 \in Slots /\ [index |-> 0, count |-> 0] \in Stores
  BY CapacityAssumption DEF Slots, Stores
<1>8. TypeOK'
  <2>1. consumer' \in [at : {Idle, "copying"}, count : Nat, n : Slots, done : Slots,
                       ready : Slots, from : Stores, stored : BOOLEAN]
    BY <1>2, <1>4, <1>7
  <2>2. oldWrites' \subseteq Stores /\ got' \in Seq(Nat)
    BY <1>5 DEF IndexInv, TypeOK
  <2>3. QED
    BY <1>5, <2>1, <2>2 DEF IndexInv, TypeOK
<1>9. ReadsInv' /\ WritesInv'
  BY <1>5, <1>6 DEF IndexInv, ReadsInv, WritesInv, RD, WR
<1>10. ProducerInv' /\ RoomIsKept'
  BY <1>5 DEF IndexInv, ProducerInv, RoomIsKept, WR
<1>11. ConsumerInv'
  <2>1. \A x \in oldWrites' \cup {write_index} : RD + d <= x.count
    BY <1>2, <1>6
  <2>2. QED
    BY <1>4, <1>5, <2>1 DEF ConsumerInv, RD, Idle
<1>12. ReadyIsKept'
  BY <1>2, <1>4, CapacityAssumption DEF ReadyIsKept, Least, Slots
<1>13. QED
  BY <1>8, <1>9, <1>10, <1>11, <1>12 DEF IndexInv

\* The copies touch the data and count what they have done; no index moves.
LEMMA CopyIndex ==
  ASSUME IndexInv, CopyIn \/ CopyOut \/ DequeueReturn
  PROVE  IndexInv'
<1> USE DEF Slots, Idle
<1>1. CASE CopyIn
  <2>1. /\ producer.done \in Nat /\ producer.n \in Slots /\ producer.done < producer.n
        /\ producer' = [producer EXCEPT !.done = @ + 1]
        /\ UNCHANGED <<read_index, write_index, oldReads, oldWrites, consumer, got>>
    BY <1>1 DEF CopyIn, IndexInv, TypeOK
  <2>2. data' \in [Slots -> Nat]
    <3>1. WR + producer.done \in Nat
      <4>1. WR \in Nat
        BY DEF IndexInv, TypeOK, Stores, WR
      <4>2. QED
        BY <2>1, <4>1
    <3>2. QED
      BY <1>1, <3>1 DEF CopyIn, IndexInv, TypeOK, WR
  <2>3. producer' \in [at : {Idle, "copying"}, count : Nat, n : Slots, done : Slots, room : Slots]
    <3>1. producer.done + 1 \in Slots
      BY <2>1, CapacityAssumption
    <3>2. QED
      BY <2>1, <3>1 DEF IndexInv, TypeOK
  <2>4. TypeOK'
    BY <2>1, <2>2, <2>3 DEF IndexInv, TypeOK
  <2>5. ReadsInv' /\ WritesInv' /\ ConsumerInv'
    BY <2>1 DEF IndexInv, ReadsInv, WritesInv, ConsumerInv, RD, WR
  <2>6. ProducerInv' /\ RoomIsKept' /\ ReadyIsKept'
    BY <2>1, CapacityAssumption
    DEF IndexInv, TypeOK, ProducerInv, RoomIsKept, ReadyIsKept, RD, WR
  <2>7. QED
    BY <2>4, <2>5, <2>6 DEF IndexInv
<1>2. CASE CopyOut
  <2>1. /\ consumer.done \in Nat /\ consumer.n \in Slots /\ consumer.done < consumer.n
        /\ consumer.at = "copying"
        /\ consumer' = [consumer EXCEPT !.done = @ + 1]
        /\ UNCHANGED <<read_index, write_index, oldReads, oldWrites, data, producer>>
    BY <1>2 DEF CopyOut, IndexInv, TypeOK
  <2>2. got' \in Seq(Nat)
    <3>1. consumer.from.index \in Slots
      BY DEF IndexInv, TypeOK, Stores
    <3>2. Slot(consumer.from.index, consumer.done) \in Slots
      BY <2>1, <3>1, CapacityAssumption DEF Slot
    <3>3. data[Slot(consumer.from.index, consumer.done)] \in Nat
      BY <3>2 DEF IndexInv, TypeOK
    <3>4. QED
      BY <1>2, <3>3 DEF CopyOut, IndexInv, TypeOK
  <2>3. consumer' \in [at : {Idle, "copying"}, count : Nat, n : Slots, done : Slots,
                       ready : Slots, from : Stores, stored : BOOLEAN]
    <3>1. consumer.done + 1 \in Slots
      BY <2>1, CapacityAssumption
    <3>2. QED
      BY <2>1, <3>1 DEF IndexInv, TypeOK
  <2>4. TypeOK'
    BY <2>1, <2>2, <2>3 DEF IndexInv, TypeOK
  <2>5. ReadsInv' /\ WritesInv' /\ ProducerInv'
    BY <2>1 DEF IndexInv, ReadsInv, WritesInv, ProducerInv, RD, WR
  <2>6. ConsumerInv' /\ RoomIsKept' /\ ReadyIsKept'
    BY <2>1, CapacityAssumption, SMTT(40)
    DEF IndexInv, TypeOK, ConsumerInv, RoomIsKept, ReadyIsKept, RD, WR
  <2>7. QED
    BY <2>4, <2>5, <2>6 DEF IndexInv
<1>3. CASE DequeueReturn
  <2>1. /\ consumer.at = "copying" /\ consumer' = [consumer EXCEPT !.at = Idle]
        /\ UNCHANGED <<read_index, write_index, oldReads, oldWrites, data, producer, got>>
    BY <1>3 DEF DequeueReturn
  <2>2. TypeOK'
    <3>1. consumer' \in [at : {Idle, "copying"}, count : Nat, n : Slots, done : Slots,
                         ready : Slots, from : Stores, stored : BOOLEAN]
      BY <2>1 DEF IndexInv, TypeOK
    <3>2. QED
      BY <2>1, <3>1 DEF IndexInv, TypeOK
  <2>3. ReadsInv' /\ WritesInv' /\ ProducerInv' /\ RoomIsKept'
    BY <2>1 DEF IndexInv, ReadsInv, WritesInv, ProducerInv, RoomIsKept, RD, WR
  <2>4. ConsumerInv' /\ ReadyIsKept'
    BY <2>1 DEF IndexInv, TypeOK, ConsumerInv, ReadyIsKept, RD
  <2>5. QED
    BY <2>2, <2>3, <2>4 DEF IndexInv
<1>4. QED
  BY <1>1, <1>2, <1>3

LEMMA IndexStep == IndexInv /\ [Next]_vars => IndexInv'
<1> SUFFICES ASSUME IndexInv, [Next]_vars PROVE IndexInv'
  OBVIOUS
<1>1. CASE Producer
  BY <1>1, EnqueueLoadIndex, EnqueueStoreIndex, AvailableWriteIndex, CopyIndex DEF Producer
<1>2. CASE Consumer
  BY <1>2, DequeueLoadIndex, DequeueStoreIndex, AvailableReadIndex, CopyIndex DEF Consumer
<1>3. CASE UNCHANGED vars
  BY <1>3 DEF vars, IndexInv, TypeOK, ReadsInv, WritesInv, ProducerInv, ConsumerInv,
     RoomIsKept, ReadyIsKept, RD, WR
<1>4. QED
  BY <1>1, <1>2, <1>3 DEF Next

\* Whatever the build does with the relaxed store, the indices stay consistent
\* with every value of them a thread may still load.
THEOREM IndexInvariance == Spec => []IndexInv
  BY IndexInit, IndexStep, PTL DEF Spec
----------------------------------------------------------------------------
(* The contents: for builds that keep the store of read_index_ after the    *)
(* copies.                                                                  *)

DataIInv == DataInv /\ CopyInv

\* The facts about the current indices that the contents depend on.
LEMMA Stored ==
  ASSUME IndexInv
  PROVE  /\ RD \in Nat /\ WR \in Nat /\ WR - RD \in Slots
         /\ read_index.index \in Slots /\ write_index.index \in Slots
         /\ write_index.index = Wrap(read_index.index, WR - RD)
         /\ producer.n \in Slots /\ producer.done \in Slots /\ producer.done <= producer.n
         /\ consumer.n \in Slots /\ consumer.done \in Slots /\ consumer.done <= consumer.n
         /\ producer.at = "copying" => WR - RD + producer.n <= capacity_ - 1
         /\ consumer.at = "copying" /\ ~consumer.stored =>
              consumer.n <= WR - RD /\ consumer.from = read_index
<1>1. /\ RD \in Nat /\ WR \in Nat /\ read_index.index \in Slots /\ write_index.index \in Slots
      /\ producer.n \in Slots /\ producer.done \in Slots
      /\ consumer.n \in Slots /\ consumer.done \in Slots
  BY DEF IndexInv, TypeOK, Stores, RD, WR
<1>2. WR - RD \in Slots /\ write_index.index = Wrap(read_index.index, WR - RD)
  BY DEF IndexInv, ReadsInv, RD
<1>3. /\ producer.done <= producer.n /\ consumer.done <= consumer.n
      /\ producer.at = "copying" => WR + producer.n - RD <= capacity_ - 1
      /\ consumer.at = "copying" /\ ~consumer.stored =>
           RD + consumer.n <= WR /\ consumer.from = read_index
  BY DEF IndexInv, ProducerInv, ConsumerInv, RD, WR
<1>4. QED
  BY <1>1, <1>2, <1>3, CapacityAssumption DEF Slots

LEMMA DataInit == Init => DataIInv
<1> SUFFICES ASSUME Init PROVE DataIInv
  OBVIOUS
<1>1. Written = 0 /\ got = <<>>
  BY DEF Init, Written, RD, WR, NoPut, Idle
<1>2. QED
  BY <1>1 DEF Init, NoTake, Idle, DataIInv, DataInv, CopyInv, FifoOrder, Slots

\* A copy into the buffer extends what is written by one element and leaves
\* the elements before it alone.
LEMMA CopyInData ==
  ASSUME IndexInv, DataIInv, CopyIn
  PROVE  DataIInv'
<1> DEFINE w == WR - RD
<1> DEFINE done == producer.done
<1>1. /\ producer.at = "copying" /\ done < producer.n
      /\ data' = [data EXCEPT ![Slot(write_index.index, done)] = WR + done]
      /\ producer' = [producer EXCEPT !.done = @ + 1]
      /\ UNCHANGED <<read_index, write_index, consumer, got>>
  BY DEF CopyIn, WR
<1>2. /\ RD \in Nat /\ WR \in Nat /\ w \in Slots /\ read_index.index \in Slots
      /\ write_index.index \in Slots /\ write_index.index = Wrap(read_index.index, w)
      /\ done \in Slots /\ producer.n \in Slots /\ w + producer.n <= capacity_ - 1
  BY <1>1, Stored
<1>3. w + done \in Slots /\ w + done < capacity_ /\ RD + (w + done) = WR + done
  BY <1>1, <1>2, CapacityAssumption DEF Slots
<1>4. Written = w + done /\ Written' = w + done + 1
  <2>1. producer' \in [at : {"copying"}, count : Nat, n : Slots, done : {done + 1}, room : Slots]
    BY <1>1, <1>2 DEF IndexInv, TypeOK
  <2>2. RD' = RD /\ WR' = WR /\ producer'.at = "copying" /\ producer'.done = done + 1
    BY <1>1, <2>1 DEF RD, WR
  <2> HIDE DEF done
  <2>3. QED
    BY <1>1, <1>2, <1>3, <2>2, CapacityAssumption DEF Written, done, Slots
<1> HIDE DEF w
<1>5. Slot(write_index.index, done) = Wrap(read_index.index, w + done)
  BY <1>2, <1>3, SlotIsWrap, WrapWrap
<1>6. data \in [Slots -> Nat] /\ Wrap(read_index.index, w + done) \in Slots
  <2>1. w + done \in 0..capacity_
    BY <1>3, CapacityAssumption DEF Slots
  <2>2. QED
    BY <1>2, <2>1, WrapInSlots DEF IndexInv, TypeOK
<1> HIDE DEF done
<1>7. DataInv'
  <2> SUFFICES ASSUME NEW j \in Slots, j < w + done + 1
               PROVE  data'[Wrap(read_index.index, j)] = RD + j
    <3>1. RD' = RD /\ read_index' = read_index
      BY <1>1 DEF RD
    <3>2. QED
      BY <1>4, <3>1 DEF DataInv, Wrap
  <2>1. CASE j = w + done
    BY <1>1, <1>3, <1>5, <1>6, <2>1 DEF done
  <2>2. CASE j # w + done
    <3>1. j < w + done
      BY <1>2, <1>3, <2>2, CapacityAssumption DEF Slots
    <3>2. data[Wrap(read_index.index, j)] = RD + j
      BY <1>4, <3>1 DEF DataIInv, DataInv
    <3>3. Wrap(read_index.index, j) # Wrap(read_index.index, w + done)
      BY <1>2, <1>3, <2>2, WrapInjective
    <3>4. Wrap(read_index.index, j) \in Slots
      <4>1. j \in 0..capacity_
        BY CapacityAssumption DEF Slots
      <4>2. QED
        BY <1>2, <4>1, WrapInSlots
    <3>5. QED
      BY <1>1, <1>5, <1>6, <3>2, <3>3, <3>4 DEF done
  <2>3. QED
    BY <2>1, <2>2
<1>8. CopyInv'
  BY <1>1 DEF DataIInv, CopyInv, FifoOrder
<1>9. QED
  BY <1>7, <1>8 DEF DataIInv

\* The published elements and those being copied never fill the last slot.
LEMMA WrittenBound ==
  ASSUME IndexInv
  PROVE  Written \in Slots /\ WR - RD <= Written
  BY Stored, CapacityAssumption DEF Written, Slots

\* Publishing changes nothing: the copied elements become stored ones.
LEMMA EnqueueStoreData ==
  ASSUME IndexInv, DataIInv, EnqueueStore
  PROVE  DataIInv'
<1>1. /\ producer.at = "copying" /\ producer.done = producer.n
      /\ write_index' = Advance(write_index, producer.n)
      /\ producer' = [producer EXCEPT !.at = Idle]
      /\ UNCHANGED <<read_index, data, consumer, got>>
  BY DEF EnqueueStore
<1>2. producer.n \in Slots /\ WR \in Nat /\ RD \in Nat
  BY Stored
<1>3. WR' = WR + producer.n /\ RD' = RD
  BY <1>1 DEF Advance, WR, RD
<1>4. producer'.at # "copying"
  BY <1>1 DEF IndexInv, TypeOK, Idle
<1>5. Written' = Written
  BY <1>1, <1>2, <1>3, <1>4, CapacityAssumption DEF Written, Slots
<1>6. DataInv'
  BY <1>1, <1>3, <1>5 DEF DataIInv, DataInv, Wrap
<1>7. CopyInv'
  BY <1>1 DEF DataIInv, CopyInv, FifoOrder
<1>8. QED
  BY <1>6, <1>7 DEF DataIInv

\* A take drops the oldest elements; the others keep their slots.
LEMMA DequeueStoreData ==
  ASSUME IndexInv, DataIInv, DequeueStore
  PROVE  DataIInv'
<1> DEFINE n == consumer.n
<1>1. /\ consumer.at = "copying" /\ ~consumer.stored
      /\ read_index' = Advance(read_index, n)
      /\ consumer' = [consumer EXCEPT !.stored = TRUE]
      /\ UNCHANGED <<write_index, data, producer, got>>
  BY DEF DequeueStore
<1>2. /\ n \in Slots /\ WR \in Nat /\ RD \in Nat /\ read_index.index \in Slots
      /\ read_index \in Stores /\ n <= WR - RD
      /\ Written \in Slots /\ WR - RD <= Written
  BY <1>1, Stored, WrittenBound DEF IndexInv, TypeOK
<1>3. RD' = RD + n /\ WR' = WR /\ read_index'.index = Wrap(read_index.index, n)
  BY <1>1, <1>2, AdvanceStore DEF RD, WR
<1>4. Written' = Written - n
  BY <1>1, <1>2, <1>3, Stored, CapacityAssumption DEF Written, Slots
<1>5. ASSUME NEW j \in Slots, j < Written - n
      PROVE  data[Wrap(read_index'.index, j)] = RD + n + j
  <2>1. n + j \in Slots /\ n + j < capacity_ /\ n + j < Written
    BY <1>2, <1>5, CapacityAssumption DEF Slots
  <2>2. Wrap(read_index'.index, j) = Wrap(read_index.index, n + j)
    BY <1>2, <1>3, <2>1, WrapWrap
  <2>3. data[Wrap(read_index.index, n + j)] = RD + (n + j)
    BY <2>1 DEF DataIInv, DataInv
  <2>4. RD + (n + j) = RD + n + j
    BY <1>2, CapacityAssumption DEF Slots
  <2>5. QED
    BY <2>2, <2>3, <2>4
<1>6. DataInv'
  <2>1. data' = data
    BY <1>1
  <2> HIDE DEF n
  <2>2. QED
    BY <1>3, <1>4, <1>5, <2>1 DEF DataInv
<1>7. CopyInv'
  BY <1>1 DEF DataIInv, CopyInv, FifoOrder, IndexInv, TypeOK
<1>8. QED
  BY <1>6, <1>7 DEF DataIInv

\* The element copied out is the next one of the stream.
LEMMA CopyOutData ==
  ASSUME RelaxedStore = FALSE, IndexInv, DataIInv, CopyOut
  PROVE  DataIInv'
<1> DEFINE done == consumer.done
<1>1. /\ consumer.at = "copying" /\ done < consumer.n
      /\ got' = Append(got, data[Slot(consumer.from.index, done)])
      /\ consumer' = [consumer EXCEPT !.done = @ + 1]
      /\ UNCHANGED <<read_index, write_index, data, producer>>
  BY DEF CopyOut
<1>2. done \in Slots /\ consumer.n \in Slots /\ Written \in Slots /\ WR - RD <= Written
      /\ read_index.index \in Slots /\ RD \in Nat /\ WR \in Nat
  BY Stored, WrittenBound
<1>3. ~consumer.stored
  BY <1>1, <1>2, CapacityAssumption DEF IndexInv, ConsumerInv, Slots
<1>4. consumer.from = read_index /\ consumer.n <= WR - RD
  BY <1>1, <1>3, Stored
<1>5. Slot(consumer.from.index, done) = Wrap(read_index.index, done)
  BY <1>2, <1>4, SlotIsWrap
<1>6. done < Written
  BY <1>1, <1>2, <1>4, CapacityAssumption DEF Slots
<1>7. data[Slot(consumer.from.index, done)] = RD + done
  BY <1>2, <1>5, <1>6 DEF DataIInv, DataInv
<1>8. got \in Seq(Nat) /\ Len(got) = done /\ RD + done \in Nat
  <2>1. got \in Seq(Nat)
    BY DEF IndexInv, TypeOK
  <2>2. Len(got) = done
    BY <1>1 DEF DataIInv, CopyInv
  <2>3. QED
    BY <1>2, <2>1, <2>2, CapacityAssumption DEF Slots
<1>9. /\ consumer'.from = consumer.from /\ consumer'.done = done + 1
      /\ consumer'.n = consumer.n /\ consumer'.at = consumer.at
  BY <1>1 DEF IndexInv, TypeOK
<1>10. CopyInv'
  <2>1. Len(got') = done + 1
    BY <1>1, <1>7, <1>8
  <2>2. ASSUME NEW i \in 1..Len(got')
        PROVE  got'[i] = consumer'.from.count + i - 1
    <3>1. CASE i = done + 1
      BY <1>1, <1>4, <1>7, <1>8, <1>9, <3>1 DEF RD
    <3>2. CASE i # done + 1
      <4>1. i \in 1..Len(got)
        BY <1>8, <2>1, <3>2
      <4>2. got'[i] = got[i]
        BY <1>1, <1>7, <1>8, <4>1
      <4>3. QED
        BY <1>9, <4>1, <4>2 DEF DataIInv, CopyInv, FifoOrder
    <3>3. QED
      BY <3>1, <3>2
  <2>3. QED
    BY <1>9, <2>1, <2>2 DEF CopyInv, FifoOrder
<1>11. DataInv'
  <2>1. Written' = Written /\ RD' = RD
    BY <1>1 DEF Written, RD, WR
  <2>2. QED
    BY <1>1, <2>1 DEF DataIInv, DataInv, Wrap
<1>12. QED
  BY <1>10, <1>11 DEF DataIInv

LEMMA DataStep == RelaxedStore = FALSE /\ IndexInv /\ DataIInv /\ [Next]_vars => DataIInv'
<1> SUFFICES ASSUME RelaxedStore = FALSE, IndexInv, DataIInv, [Next]_vars PROVE DataIInv'
  OBVIOUS
<1>1. ASSUME NEW count \in Counts, EnqueueLoad(count) PROVE DataIInv'
  <2>1. /\ producer.at = Idle /\ producer'.done = 0
        /\ UNCHANGED <<read_index, write_index, data, consumer, got>>
    BY <1>1 DEF EnqueueLoad
  <2>2. Written' = Written /\ RD' = RD
    BY <2>1, Stored, CapacityAssumption DEF Written, RD, WR, Idle, Slots
  <2>3. QED
    BY <2>1, <2>2 DEF DataIInv, DataInv, CopyInv, FifoOrder, Wrap
<1>2. CASE AvailableWrite
  <2>1. /\ producer.at = Idle /\ producer'.at = Idle
        /\ UNCHANGED <<read_index, write_index, data, consumer, got>>
    BY <1>2 DEF AvailableWrite, NoPut
  <2>2. Written' = Written /\ RD' = RD
    BY <2>1 DEF Written, RD, WR, Idle
  <2>3. QED
    BY <2>1, <2>2 DEF DataIInv, DataInv, CopyInv, FifoOrder, Wrap
<1>3. ASSUME NEW count \in Counts, NEW discard \in BOOLEAN, DequeueLoad(count, discard)
      PROVE  DataIInv'
  <2>1. /\ got' = <<>> /\ UNCHANGED <<read_index, write_index, data, producer>>
        /\ consumer'.done = 0 \/ consumer'.done = consumer'.n
    BY <1>3 DEF DequeueLoad
  <2>2. Written' = Written /\ RD' = RD
    BY <2>1 DEF Written, RD, WR
  <2>3. DataInv'
    BY <2>1, <2>2 DEF DataIInv, DataInv, Wrap
  <2>4. Len(got') = 0 /\ consumer'.n \in Nat
    <3>1. IndexInv'
      BY <1>3, DequeueLoadIndex
    <3>2. QED
      BY <2>1, <3>1, Stored, CapacityAssumption DEF IndexInv, TypeOK, Slots
  <2>5. CopyInv'
    BY <2>1, <2>4 DEF CopyInv, FifoOrder
  <2>6. QED
    BY <2>3, <2>5 DEF DataIInv
<1>4. CASE AvailableRead
  <2>1. /\ got' = <<>> /\ consumer'.at = Idle
        /\ UNCHANGED <<read_index, write_index, data, producer>>
    BY <1>4 DEF AvailableRead, NoTake
  <2>2. Written' = Written /\ RD' = RD
    BY <2>1 DEF Written, RD, WR
  <2>3. QED
    BY <2>1, <2>2 DEF DataIInv, DataInv, CopyInv, FifoOrder, Wrap, Idle
<1>5. CASE DequeueReturn
  <2>1. /\ consumer' = [consumer EXCEPT !.at = Idle]
        /\ UNCHANGED <<read_index, write_index, data, producer, got>>
    BY <1>5 DEF DequeueReturn
  <2>2. Written' = Written /\ RD' = RD
    BY <2>1 DEF Written, RD, WR
  <2>3. consumer'.at = Idle /\ consumer'.from = consumer.from
    BY <2>1 DEF IndexInv, TypeOK
  <2>4. QED
    BY <2>1, <2>2, <2>3 DEF DataIInv, DataInv, CopyInv, FifoOrder, Wrap, Idle
<1>6. CASE UNCHANGED vars
  BY <1>6 DEF vars, DataIInv, DataInv, CopyInv, FifoOrder, Written, Wrap, RD, WR
<1>7. QED
  BY <1>1, <1>2, <1>3, <1>4, <1>5, <1>6, CopyInData, EnqueueStoreData, DequeueStoreData,
     CopyOutData DEF Next, Producer, Consumer

THEOREM DataInvariance == RelaxedStore = FALSE => (Spec => [](IndexInv /\ DataIInv))
<1>1. RelaxedStore = FALSE /\ IndexInv /\ DataIInv /\ [Next]_vars => IndexInv' /\ DataIInv'
  BY IndexStep, DataStep
<1>2. SUFFICES ASSUME RelaxedStore = FALSE PROVE Spec => [](IndexInv /\ DataIInv)
  OBVIOUS
<1>3. IndexInv /\ DataIInv /\ [Next]_vars => IndexInv' /\ DataIInv'
  BY <1>1, <1>2
<1>4. QED
  BY IndexInit, DataInit, <1>3, PTL DEF Spec
----------------------------------------------------------------------------
\* Every variable keeps to its values, for every capacity.
THEOREM TypeCorrect == Spec => []TypeOK
<1>1. IndexInv => TypeOK
  BY DEF IndexInv
<1>2. QED
  BY IndexInvariance, <1>1, PTL

\* The indices count the stored elements through every wrap-around, even in a
\* build that reorders the relaxed store.
THEOREM IndicesAlwaysCount == Spec => []IndicesCount
<1>1. IndexInv => IndicesCount
  <2> SUFFICES ASSUME IndexInv PROVE IndicesCount
    OBVIOUS
  <2>1. QED
    BY Stored, IndexArithmetic, CapacityAssumption DEF IndicesCount, RD, WR, Slots
<1>2. QED
  BY IndexInvariance, <1>1, PTL

\* An answer of available_write() holds until the next enqueue.
THEOREM RoomAlwaysKept == Spec => []RoomIsKept
<1>1. IndexInv => RoomIsKept
  BY DEF IndexInv
<1>2. QED
  BY IndexInvariance, <1>1, PTL

\* An answer of available_read() holds until the next dequeue.
THEOREM ReadyAlwaysKept == Spec => []ReadyIsKept
<1>1. IndexInv => ReadyIsKept
  BY DEF IndexInv
<1>2. QED
  BY IndexInvariance, <1>1, PTL

\* The arithmetic of the indices and the answers of available_read and
\* available_write hold, in every build.
THEOREM CountsAlwaysHold == Spec => []CountsHold
<1>1. IndicesCount /\ RoomIsKept /\ ReadyIsKept => CountsHold
  BY DEF CountsHold
<1>2. QED
  BY IndicesAlwaysCount, RoomAlwaysKept, ReadyAlwaysKept, <1>1, PTL

\* Elements leave the buffer in the order they entered it, none lost, repeated
\* or overwritten, when the store of read_index_ stays after the copies.
THEOREM FifoOrderKept == RelaxedStore = FALSE => (Spec => []FifoOrder)
<1> SUFFICES ASSUME RelaxedStore = FALSE PROVE Spec => []FifoOrder
  OBVIOUS
<1>1. IndexInv /\ DataIInv => FifoOrder
  BY DEF DataIInv, CopyInv
<1>2. QED
  BY DataInvariance, <1>1, PTL

\* Under the same condition the two threads never touch the same slot.
THEOREM SlotsNotShared == RelaxedStore = FALSE => (Spec => []NoSlotShared)
<1> SUFFICES ASSUME RelaxedStore = FALSE PROVE Spec => []NoSlotShared
  OBVIOUS
<1>1. IndexInv => NoSlotShared
  <2> SUFFICES ASSUME IndexInv, producer.at = "copying", consumer.at = "copying",
                      NEW i \in producer.done .. (producer.n - 1),
                      NEW j \in consumer.done .. (consumer.n - 1),
                      Slot(write_index.index, i) = Slot(consumer.from.index, j)
               PROVE  FALSE
    BY DEF IndexInv, TypeOK, NoSlotShared, BeingWritten, BeingRead, Idle
  <2> DEFINE w == WR - RD
  <2>1. w \in Slots /\ i \in Slots /\ j \in Slots /\ w + i < capacity_ /\ w + i \in Slots
        /\ j < consumer.n
    BY Stored, CapacityAssumption DEF Slots
  <2>2. ~consumer.stored
    BY <2>1, Stored, CapacityAssumption DEF IndexInv, ConsumerInv, Slots
  <2>3. consumer.from = read_index /\ consumer.n <= w
    BY <2>2, Stored
  <2>4. read_index.index \in Slots /\ write_index.index = Wrap(read_index.index, w)
        /\ write_index.index \in Slots
    BY Stored
  <2>5. Slot(write_index.index, i) = Wrap(write_index.index, i)
    BY <2>1, <2>4, SlotIsWrap
  <2>6. Slot(consumer.from.index, j) = Wrap(read_index.index, j)
    BY <2>1, <2>3, <2>4, SlotIsWrap
  <2> HIDE DEF w
  <2>7. Wrap(read_index.index, w + i) = Wrap(read_index.index, j)
    <3>1. Wrap(Wrap(read_index.index, w), i) = Wrap(read_index.index, w + i)
      BY <2>1, <2>4, WrapWrap, ZenonT(60)
    <3>2. Wrap(write_index.index, i) = Wrap(read_index.index, j)
      BY <2>5, <2>6
    <3>3. QED
      BY <2>4, <3>1, <3>2
  <2>8. w + i = j
    BY <2>1, <2>4, <2>7, WrapInjective
  <2>9. QED
    BY <2>1, <2>3, <2>8, Stored, CapacityAssumption DEF Slots
<1>2. QED
  BY IndexInvariance, <1>1, PTL
----------------------------------------------------------------------------
(* The refinement: the buffer implements BoundedFifo. *)

\* The n numbers from a on.
Numbers(a, n) == [i \in 1..n |-> a + i - 1]

LEMMA NumbersAppend ==
  ASSUME NEW a \in Nat, NEW k \in Nat, NEW n \in Nat
  PROVE  Numbers(a, k) \o Numbers(a + k, n) = Numbers(a, k + n)
<1> DEFINE joined == Numbers(a, k) \o Numbers(a + k, n)
<1>1. Numbers(a, k) \in Seq(Nat) /\ Len(Numbers(a, k)) = k
      /\ Numbers(a + k, n) \in Seq(Nat) /\ Len(Numbers(a + k, n)) = n
  BY DEF Numbers
<1>2. joined \in Seq(Nat) /\ Len(joined) = k + n
  BY <1>1
<1>3. \A i \in 1..(k + n) : joined[i] = IF i <= k THEN Numbers(a, k)[i] ELSE Numbers(a + k, n)[i - k]
  BY <1>1
<1>4. \A i \in 1..(k + n) : joined[i] = a + i - 1
  BY <1>3 DEF Numbers
<1>5. joined = [i \in 1..(k + n) |-> joined[i]]
  BY <1>2, SMTT(40)
<1>6. QED
  BY <1>4, <1>5 DEF Numbers

LEMMA NumbersTail ==
  ASSUME NEW a \in Nat, NEW k \in Nat, NEW n \in 0..k
  PROVE  SubSeq(Numbers(a, k), n + 1, k) = Numbers(a + n, k - n)
<1> DEFINE rest == SubSeq(Numbers(a, k), n + 1, k)
<1>1. Numbers(a, k) \in Seq(Nat) /\ Len(Numbers(a, k)) = k
  BY DEF Numbers
<1>2. rest = [i \in 1..(k - n) |-> Numbers(a, k)[i + n]]
  BY <1>1
<1>3. QED
  BY <1>2 DEF Numbers

\* The buffer's contents are the numbers of the elements stored and not yet taken.
Counted == Contents = Numbers(RD, WR - RD)

LEMMA ContentsAreNumbers == IndexInv /\ DataInv => Counted
<1> SUFFICES ASSUME IndexInv, DataInv PROVE Counted
  OBVIOUS
<1>1. /\ RD \in Nat /\ WR \in Nat /\ WR - RD \in Slots /\ read_index.index \in Slots
      /\ producer.done \in Slots
  BY Stored
<1>2. ASSUME NEW i \in 1..(WR - RD) PROVE data[Slot(read_index.index, i - 1)] = RD + i - 1
  <2>1. i - 1 \in Slots /\ i - 1 < Written
    BY <1>1, CapacityAssumption DEF Slots, Written
  <2>2. Slot(read_index.index, i - 1) = Wrap(read_index.index, i - 1)
    BY <1>1, <2>1, SlotIsWrap
  <2>3. QED
    BY <1>1, <2>1, <2>2, CapacityAssumption DEF DataInv, Slots
<1>3. QED
  BY <1>2 DEF Counted, Contents, Numbers, RD, WR

LEMMA ContentsStayNumbers == IndexInv' /\ DataInv' => Counted'
  BY ContentsAreNumbers, PTL

LEMMA FifoInit == Init => Fifo!Init
<1> SUFFICES ASSUME Init PROVE Fifo!Init
  OBVIOUS
<1>1. write_index.count = 0 /\ read_index.count = 0
  BY DEF Init
<1>2. Contents = <<>>
  BY <1>1 DEF Contents
<1>3. QED
  BY <1>1, <1>2 DEF Fifo!Init

\* A put is the store of write_index_, a take that of read_index_; no other step
\* changes what is stored.
LEMMA FifoStep ==
  ASSUME IndexInv, IndexInv', DataInv, DataInv', [Next]_vars
  PROVE  [Fifo!Next]_(Fifo!fifoVars)
<1> DEFINE k == WR - RD
<1>1. /\ RD \in Nat /\ WR \in Nat /\ k \in Slots /\ producer.n \in Slots /\ consumer.n \in Slots
      /\ producer.at = "copying" => k + producer.n <= capacity_ - 1
      /\ consumer.at = "copying" /\ ~consumer.stored => consumer.n <= k
  BY Stored
<1>2. k \in Nat /\ producer.n \in Nat /\ consumer.n \in Nat /\ capacity_ - 1 \in Nat
  BY <1>1, CapacityAssumption DEF Slots
<1>3. Contents = Numbers(RD, k) /\ Contents' = Numbers(RD', WR' - RD')
  BY ContentsAreNumbers, ContentsStayNumbers DEF Counted
<1>4. Len(Contents) = k
  BY <1>2, <1>3 DEF Numbers
<1>5. CASE RD' = RD /\ WR' = WR
  BY <1>3, <1>5 DEF Fifo!fifoVars, WR
<1>6. CASE EnqueueStore
  <2>1. RD' = RD /\ WR' = WR + producer.n /\ producer.at = "copying"
    BY <1>6 DEF EnqueueStore, Advance, RD, WR
  <2>2. WR = RD + k /\ WR' - RD' = k + producer.n
    BY <1>1, <1>2, <2>1
  <2>3. Contents' = Contents \o Numbers(WR, producer.n)
    <3>1. Contents' = Numbers(RD, k + producer.n)
      BY <1>3, <2>1, <2>2
    <3> HIDE DEF k
    <3>2. Numbers(RD, k) \o Numbers(RD + k, producer.n) = Numbers(RD, k + producer.n)
      BY <1>1, <1>2, NumbersAppend
    <3>3. QED
      BY <1>3, <2>2, <3>1, <3>2
  <2>4. CASE producer.n = 0
    BY <1>1, <1>5, <2>1, <2>4
  <2>5. CASE producer.n > 0
    <3>1. producer.n \in 1..(capacity_ - 1)
      BY <1>1, <1>2, <2>5 DEF Slots
    <3>2. Fifo!Put(producer.n)
      BY <1>1, <1>2, <1>4, <2>1, <2>3 DEF Fifo!Put, Numbers, WR
    <3>3. QED
      BY <3>1, <3>2 DEF Fifo!Next
  <2>6. QED
    BY <1>2, <2>4, <2>5
<1>7. CASE DequeueStore
  <2>1. RD' = RD + consumer.n /\ WR' = WR /\ consumer.n \in 0..k
    BY <1>1, <1>2, <1>7 DEF DequeueStore, Advance, RD, WR
  <2>2. WR' - RD' = k - consumer.n
    BY <1>1, <1>2, <2>1
  <2>3. Contents' = SubSeq(Contents, consumer.n + 1, k)
    <3>1. Contents' = Numbers(RD + consumer.n, k - consumer.n)
      BY <1>3, <2>1, <2>2
    <3> HIDE DEF k
    <3>2. SubSeq(Numbers(RD, k), consumer.n + 1, k) = Numbers(RD + consumer.n, k - consumer.n)
      BY <1>1, <1>2, <2>1, NumbersTail
    <3>3. QED
      BY <1>3, <3>1, <3>2
  <2>4. CASE consumer.n = 0
    BY <1>1, <1>5, <2>1, <2>4
  <2>5. CASE consumer.n > 0
    <3>1. consumer.n \in 1..(capacity_ - 1)
      BY <1>1, <1>2, <2>5 DEF Slots
    <3>2. Fifo!Take(consumer.n)
      BY <1>1, <1>2, <1>4, <2>1, <2>3 DEF Fifo!Take, WR
    <3>3. QED
      BY <3>1, <3>2 DEF Fifo!Next
  <2>6. QED
    BY <1>2, <2>4, <2>5
<1>8. QED
  BY <1>5, <1>6, <1>7 DEF Next, Producer, Consumer, EnqueueLoad, CopyIn, AvailableWrite, DequeueLoad,
     CopyOut, DequeueReturn, AvailableRead, vars, RD, WR

\* What the two threads see is a FIFO of one element less than the storage, in
\* which every enqueue and every dequeue happens at one instant.
THEOREM FifoImplemented == RelaxedStore = FALSE => (Spec => ImplementsFifo)
<1> SUFFICES ASSUME RelaxedStore = FALSE PROVE Spec => ImplementsFifo
  OBVIOUS
<1>1. (IndexInv /\ DataIInv) /\ (IndexInv /\ DataIInv)' /\ [Next]_vars
        => [Fifo!Next]_(Fifo!fifoVars)
  BY FifoStep DEF DataIInv
<1>2. QED
  BY FifoInit, DataInvariance, <1>1, PTL DEF Spec, ImplementsFifo, Fifo!Spec
----------------------------------------------------------------------------
(* A user that only asks for multiples of a unit, of a buffer with room for   *)
(* a multiple of it: AudioRingBuffer, whose unit is the frame.                *)

Multiple(c, k) == k \in Nat /\ \E q \in Nat : k = q * c

LEMMA MultipleSum ==
  ASSUME NEW c \in Nat, NEW a, NEW b, Multiple(c, a), Multiple(c, b)
  PROVE  Multiple(c, a + b)
<1>1. PICK p \in Nat : a = p * c
  BY DEF Multiple
<1>2. PICK q \in Nat : b = q * c
  BY DEF Multiple
<1>3. (p + q) * c = p * c + q * c /\ p + q \in Nat
  OBVIOUS
<1>4. a + b = (p + q) * c /\ a + b \in Nat
  BY <1>1, <1>2, <1>3 DEF Multiple
<1>5. QED
  BY <1>3, <1>4 DEF Multiple

LEMMA MultipleRest ==
  ASSUME NEW c \in Nat, NEW a, NEW b, Multiple(c, a), Multiple(c, b), b <= a
  PROVE  Multiple(c, a - b)
<1>1. PICK p \in Nat : a = p * c
  BY DEF Multiple
<1>2. PICK q \in Nat : b = q * c
  BY DEF Multiple
<1>3. CASE q <= p
  <2>1. PICK d \in Nat : p = q + d
    <3>1. p - q \in Nat /\ p = q + (p - q)
      BY <1>3
    <3>2. QED
      BY <3>1
  <2>2. p * c = q * c + d * c /\ q * c \in Nat /\ d * c \in Nat
    BY <2>1
  <2>3. a - b = d * c /\ a - b \in Nat
    BY <1>1, <1>2, <2>2
  <2>4. QED
    BY <2>3 DEF Multiple
<1>4. CASE ~(q <= p)
  <2>1. PICK d \in Nat : q = p + d
    <3>1. q - p \in Nat /\ q = p + (q - p)
      BY <1>4
    <3>2. QED
      BY <3>1
  <2>2. q * c = p * c + d * c /\ p * c \in Nat /\ d * c \in Nat
    BY <2>1
  <2>3. a - b = 0
    BY <1>1, <1>2, <2>2
  <2>4. 0 = 0 * c /\ 0 \in Nat
    OBVIOUS
  <2>5. QED
    BY <2>3, <2>4 DEF Multiple
<1>5. QED
  BY <1>3, <1>4

LEMMA MultipleNone == ASSUME NEW c \in Nat PROVE Multiple(c, 0)
<1>1. 0 = 0 * c /\ 0 \in Nat
  OBVIOUS
<1>2. QED
  BY <1>1 DEF Multiple

\* The buffer and what is asked of it.
Units(c) ==
  /\ c \in Nat /\ Multiple(c, capacity_ - 1)
  /\ \A count \in Counts : Multiple(c, count)

UnitsInv(c) ==
  /\ \A x \in oldReads \cup {read_index} : Multiple(c, x.count)
  /\ \A x \in oldWrites \cup {write_index} : Multiple(c, x.count)
  /\ Multiple(c, producer.n) /\ Multiple(c, producer.room)
  /\ Multiple(c, consumer.n) /\ Multiple(c, consumer.ready)
  /\ Multiple(c, consumer.from.count)

LEMMA UnitsInit == ASSUME NEW c, Units(c), Init PROVE UnitsInv(c)
BY MultipleNone DEF Units, UnitsInv, Init, NoPut, NoTake

LEMMA EnqueueLoadUnits ==
  ASSUME NEW c, Units(c), IndexInv, UnitsInv(c), NEW count \in Counts, EnqueueLoad(count)
  PROVE  UnitsInv(c)'
<1>1. PICK v \in oldReads \cup {read_index} :
        /\ ProducerLoads(v)
        /\ LET full == full_internal(v.index, write_index.index)
               n    == Least(available_write_internal(v.index, write_index.index), count)
           IN  producer' = [at    |-> IF full THEN Idle ELSE "copying",
                            count |-> count,
                            n     |-> IF full THEN 0 ELSE n,
                            done  |-> 0,
                            room  |-> IF producer.count = 0 THEN producer.room ELSE 0]
  BY DEF EnqueueLoad
<1> DEFINE d == WR - v.count
<1>2. /\ WR \in Nat /\ v.count \in Nat /\ v.count <= WR
      /\ d \in Slots /\ write_index.index = Wrap(v.index, d) /\ v.index \in Slots
  <2>1. /\ WR \in Nat /\ v.count \in Nat /\ v.index \in Slots
        /\ d \in Slots /\ write_index.index = Wrap(v.index, d)
    BY DEF IndexInv, TypeOK, ReadsInv, Stores, WR
  <2>2. v.count <= WR
    BY <2>1, CapacityAssumption DEF Slots
  <2>3. QED
    BY <2>1, <2>2
<1>3. available_write_internal(v.index, write_index.index) = capacity_ - 1 - d
  BY <1>2, IndexArithmetic
<1>4. Multiple(c, v.count) /\ Multiple(c, WR) /\ Multiple(c, capacity_ - 1) /\ c \in Nat
      /\ Multiple(c, count)
  BY DEF Units, UnitsInv, WR
<1>5. Multiple(c, d)
  BY <1>2, <1>4, MultipleRest
<1>6. Multiple(c, capacity_ - 1 - d)
  <2>1. d <= capacity_ - 1
    BY <1>2, CapacityAssumption DEF Slots
  <2>2. QED
    BY <1>4, <1>5, <2>1, MultipleRest
<1> HIDE DEF d
<1>7. Multiple(c, producer'.n) /\ Multiple(c, producer'.room)
  <2>1. Multiple(c, 0) /\ Multiple(c, producer.room)
    BY <1>4, MultipleNone DEF UnitsInv
  <2>2. producer'.n \in {0, capacity_ - 1 - d, count} /\ producer'.room \in {0, producer.room}
    BY <1>1, <1>3 DEF Least
  <2>3. QED
    BY <1>4, <1>6, <2>1, <2>2
<1>8. /\ oldReads' = {x \in oldReads : x.count >= v.count}
      /\ UNCHANGED <<read_index, write_index, oldWrites, consumer>>
  BY <1>1 DEF ProducerLoads, EnqueueLoad
<1>9. QED
  BY <1>7, <1>8 DEF UnitsInv

LEMMA EnqueueStoreUnits ==
  ASSUME NEW c, Units(c), IndexInv, UnitsInv(c), EnqueueStore
  PROVE  UnitsInv(c)'
<1>1. /\ oldWrites' = oldWrites \cup {write_index} /\ write_index' = Advance(write_index, producer.n)
      /\ producer' = [producer EXCEPT !.at = Idle]
      /\ UNCHANGED <<read_index, oldReads, consumer>>
  BY DEF EnqueueStore
<1>2. producer'.n = producer.n /\ producer'.room = producer.room
      /\ write_index'.count = write_index.count + producer.n
  BY <1>1 DEF IndexInv, TypeOK, Advance
<1>3. Multiple(c, write_index'.count)
  BY <1>2, MultipleSum DEF Units, UnitsInv
<1>4. QED
  BY <1>1, <1>2, <1>3 DEF UnitsInv

LEMMA AvailableWriteUnits ==
  ASSUME NEW c, Units(c), IndexInv, UnitsInv(c), AvailableWrite
  PROVE  UnitsInv(c)'
<1>1. PICK v \in oldReads \cup {read_index} :
        /\ ProducerLoads(v)
        /\ producer' = [NoPut EXCEPT !.room = available_write_internal(v.index, write_index.index)]
  BY DEF AvailableWrite
<1> DEFINE d == WR - v.count
<1>2. /\ WR \in Nat /\ v.count \in Nat /\ v.count <= WR
      /\ d \in Slots /\ write_index.index = Wrap(v.index, d) /\ v.index \in Slots
  <2>1. /\ WR \in Nat /\ v.count \in Nat /\ v.index \in Slots
        /\ d \in Slots /\ write_index.index = Wrap(v.index, d)
    BY DEF IndexInv, TypeOK, ReadsInv, Stores, WR
  <2>2. v.count <= WR
    BY <2>1, CapacityAssumption DEF Slots
  <2>3. QED
    BY <2>1, <2>2
<1>3. available_write_internal(v.index, write_index.index) = capacity_ - 1 - d
  BY <1>2, IndexArithmetic
<1>4. Multiple(c, v.count) /\ Multiple(c, WR) /\ Multiple(c, capacity_ - 1) /\ c \in Nat
  BY DEF Units, UnitsInv, WR
<1>5. Multiple(c, d)
  BY <1>2, <1>4, MultipleRest
<1>6. Multiple(c, capacity_ - 1 - d)
  <2>1. d <= capacity_ - 1
    BY <1>2, CapacityAssumption DEF Slots
  <2>2. QED
    BY <1>4, <1>5, <2>1, MultipleRest
<1> HIDE DEF d
<1>7. producer'.n = 0 /\ producer'.room = capacity_ - 1 - d
  BY <1>1, <1>3 DEF NoPut
<1>8. /\ oldReads' = {x \in oldReads : x.count >= v.count}
      /\ UNCHANGED <<read_index, write_index, oldWrites, consumer>>
  BY <1>1 DEF ProducerLoads, AvailableWrite
<1>9. QED
  BY <1>4, <1>6, <1>7, <1>8, MultipleNone DEF UnitsInv

LEMMA DequeueLoadUnits ==
  ASSUME NEW c, Units(c), IndexInv, UnitsInv(c), NEW count \in Counts, NEW discard \in BOOLEAN,
         DequeueLoad(count, discard)
  PROVE  UnitsInv(c)'
<1>1. PICK v \in oldWrites \cup {write_index} :
        /\ ConsumerLoads(v)
        /\ LET empty == empty_internal(read_index.index, v.index)
               n     == Least(available_read_internal(read_index.index, v.index), count)
           IN  consumer' = [at     |-> IF empty THEN Idle ELSE "copying",
                            count  |-> count,
                            n      |-> IF empty THEN 0 ELSE n,
                            done   |-> IF empty THEN 0 ELSE IF discard THEN n ELSE 0,
                            ready  |-> IF consumer.count = 0 THEN consumer.ready ELSE 0,
                            from   |-> read_index,
                            stored |-> FALSE]
  BY DEF DequeueLoad
<1> DEFINE d == v.count - RD
<1>2. /\ RD \in Nat /\ v.count \in Nat
      /\ d \in Slots /\ v.index = Wrap(read_index.index, d) /\ read_index.index \in Slots
  BY DEF IndexInv, TypeOK, WritesInv, Stores, RD
<1>3. available_read_internal(read_index.index, v.index) = d
  BY <1>2, IndexArithmetic
<1>4. Multiple(c, v.count) /\ Multiple(c, RD) /\ c \in Nat /\ Multiple(c, count)
  BY DEF Units, UnitsInv, RD
<1>5. Multiple(c, d)
  <2>1. RD <= v.count
    BY <1>2, CapacityAssumption DEF Slots
  <2>2. QED
    BY <1>4, <2>1, MultipleRest
<1> HIDE DEF d
<1>6. Multiple(c, consumer'.n) /\ Multiple(c, consumer'.ready) /\ consumer'.from = read_index
  <2>1. Multiple(c, 0) /\ Multiple(c, consumer.ready)
    BY <1>4, MultipleNone DEF UnitsInv
  <2>2. /\ consumer'.n \in {0, d, count} /\ consumer'.ready \in {0, consumer.ready}
        /\ consumer'.from = read_index
    BY <1>1, <1>3 DEF Least
  <2>3. QED
    BY <1>4, <1>5, <2>1, <2>2
<1>7. /\ oldWrites' = {x \in oldWrites : x.count >= v.count}
      /\ UNCHANGED <<read_index, write_index, oldReads, producer>>
  BY <1>1 DEF ConsumerLoads, DequeueLoad
<1>8. QED
  BY <1>6, <1>7 DEF UnitsInv

LEMMA DequeueStoreUnits ==
  ASSUME NEW c, Units(c), IndexInv, UnitsInv(c), DequeueStore
  PROVE  UnitsInv(c)'
<1>1. /\ oldReads' = oldReads \cup {read_index} /\ read_index' = Advance(read_index, consumer.n)
      /\ consumer' = [consumer EXCEPT !.stored = TRUE]
      /\ UNCHANGED <<write_index, oldWrites, producer>>
  BY DEF DequeueStore
<1>2. /\ consumer'.n = consumer.n /\ consumer'.ready = consumer.ready
      /\ consumer'.from = consumer.from /\ read_index'.count = read_index.count + consumer.n
  BY <1>1 DEF IndexInv, TypeOK, Advance
<1>3. Multiple(c, read_index'.count)
  BY <1>2, MultipleSum DEF Units, UnitsInv
<1>4. QED
  BY <1>1, <1>2, <1>3 DEF UnitsInv

LEMMA AvailableReadUnits ==
  ASSUME NEW c, Units(c), IndexInv, UnitsInv(c), AvailableRead
  PROVE  UnitsInv(c)'
<1>1. PICK v \in oldWrites \cup {write_index} :
        /\ ConsumerLoads(v)
        /\ consumer' = [NoTake EXCEPT !.ready = available_read_internal(read_index.index, v.index)]
  BY DEF AvailableRead
<1> DEFINE d == v.count - RD
<1>2. /\ RD \in Nat /\ v.count \in Nat
      /\ d \in Slots /\ v.index = Wrap(read_index.index, d) /\ read_index.index \in Slots
  BY DEF IndexInv, TypeOK, WritesInv, Stores, RD
<1>3. available_read_internal(read_index.index, v.index) = d
  BY <1>2, IndexArithmetic
<1>4. Multiple(c, v.count) /\ Multiple(c, RD) /\ c \in Nat
  BY DEF Units, UnitsInv, RD
<1>5. Multiple(c, d)
  <2>1. RD <= v.count
    BY <1>2, CapacityAssumption DEF Slots
  <2>2. QED
    BY <1>4, <2>1, MultipleRest
<1> HIDE DEF d
<1>6. consumer'.n = 0 /\ consumer'.ready = d /\ consumer'.from.count = 0
  BY <1>1, <1>3 DEF NoTake
<1>7. /\ oldWrites' = {x \in oldWrites : x.count >= v.count}
      /\ UNCHANGED <<read_index, write_index, oldReads, producer>>
  BY <1>1 DEF ConsumerLoads, AvailableRead
<1>8. QED
  BY <1>4, <1>5, <1>6, <1>7, MultipleNone DEF UnitsInv

LEMMA CopyUnits ==
  ASSUME NEW c, IndexInv, UnitsInv(c), CopyIn \/ CopyOut \/ DequeueReturn
  PROVE  UnitsInv(c)'
<1>1. /\ UNCHANGED <<read_index, write_index, oldReads, oldWrites>>
      /\ producer'.n = producer.n /\ producer'.room = producer.room
      /\ consumer'.n = consumer.n /\ consumer'.ready = consumer.ready
      /\ consumer'.from = consumer.from
  BY DEF CopyIn, CopyOut, DequeueReturn, IndexInv, TypeOK
<1>2. QED
  BY <1>1 DEF UnitsInv

\* No call ever moves or promises a part of a unit, however stale the view it was
\* computed from.
LEMMA UnitsStep ==
  ASSUME NEW c, Units(c), IndexInv, UnitsInv(c), [Next]_vars
  PROVE  UnitsInv(c)'
<1>1. CASE Producer
  BY <1>1, EnqueueLoadUnits, EnqueueStoreUnits, AvailableWriteUnits, CopyUnits DEF Producer
<1>2. CASE Consumer
  BY <1>2, DequeueLoadUnits, DequeueStoreUnits, AvailableReadUnits, CopyUnits DEF Consumer
<1>3. CASE UNCHANGED vars
  BY <1>3 DEF vars, UnitsInv
<1>4. QED
  BY <1>1, <1>2, <1>3 DEF Next
=============================================================================
