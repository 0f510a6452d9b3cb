----------------------------- MODULE RingBuffer -----------------------------
(***************************************************************************)
(* ring_buffer_base (cubeb_ringbuffer.h): the lock-free queue between one  *)
(* producer thread and one consumer thread.  Each call is several steps:   *)
(* load the other thread's index, copy element by element, store the own   *)
(* index.  A thread may load any value the other one stored since the last *)
(* value it loaded: a relaxed load of an atomic is coherent, not current.  *)
(*                                                                         *)
(* An element is represented by its number in the stream the producer      *)
(* enqueues, so the contents of the buffer show whether an element was     *)
(* lost, duplicated, reordered or overwritten.                             *)
(***************************************************************************)
EXTENDS Integers, Sequences

CONSTANTS
  capacity_,       \* size of the storage: one more than the elements it holds
  Counts,          \* the element counts the two threads ask for
  RelaxedStore,    \* the build lets the relaxed store of read_index_ pass the
                   \* loads of the copy before it (weakly ordered processors)
  MaxElements      \* bound of the model: elements enqueued in one run

ASSUME CapacityAssumption == capacity_ \in Nat \ {0, 1}
ASSUME CountsAssumption   == Counts \subseteq Nat \ {0}
ASSUME RelaxedAssumption  == RelaxedStore \in BOOLEAN
ASSUME BoundAssumption    == MaxElements \in Nat

Slots  == 0..(capacity_ - 1)
\* A value of an index: what the code stores and, as history, how many
\* elements had gone through when it was stored.
Stores == [index : Slots, count : Nat]

VARIABLES
  read_index, write_index,   \* the last value stored
  oldReads, oldWrites,       \* values stored earlier that the other thread may still load
  data,                      \* data_: the number of the element in each slot
  producer, consumer,        \* the calls in progress
  got                        \* the elements copied out by the last dequeue

vars == <<read_index, write_index, oldReads, oldWrites, data, producer, consumer, got>>

\* count: elements asked for; n: elements the call transfers; done: elements
\* copied so far; room, ready: the last answer of available_write / _read.
Idle == "idle"
NoPut  == [at |-> Idle, count |-> 0, n |-> 0, done |-> 0, room |-> 0]
NoTake == [at |-> Idle, count |-> 0, n |-> 0, done |-> 0, ready |-> 0,
           from |-> [index |-> 0, count |-> 0], stored |-> FALSE]

Init ==
  /\ read_index = [index |-> 0, count |-> 0]
  /\ write_index = [index |-> 0, count |-> 0]
  /\ oldReads = {} /\ oldWrites = {}
  /\ data = [s \in Slots |-> 0]
  /\ producer = NoPut
  /\ consumer = NoTake
  /\ got = <<>>
----------------------------------------------------------------------------
(* The index arithmetic. *)

Least(a, b) == IF a <= b THEN a ELSE b

empty_internal(rd, wr) == wr = rd

full_internal(rd, wr) == (wr + 1) % capacity_ = rd

MutAvailableRead(rd, wr) ==         \* mutant: the storage is counted when the indices are equal
  IF wr > rd THEN wr - rd ELSE wr + capacity_ - rd
available_read_internal(rd, wr) ==
  IF wr >= rd THEN wr - rd ELSE wr + capacity_ - rd

MutAvailableWrite(rd, wr) ==        \* mutant: no slot is kept free
  rd - wr + (IF wr >= rd THEN capacity_ ELSE 0)
available_write_internal(rd, wr) ==
  rd - wr - 1 + (IF wr >= rd THEN capacity_ ELSE 0)

MutIncrementIndex(index, increment) ==  \* mutant: wraps around one slot too late
  (index + increment) % (capacity_ + 1)
increment_index(index, increment) == (index + increment) % capacity_

MutSlot(index, i) ==                \* mutant: the second part starts one slot too far
  IF i < capacity_ - index THEN index + i ELSE (i - (capacity_ - index) + 1) % capacity_
\* Where the i-th element of a transfer lies: the first part runs to the end
\* of the storage, the second one starts at its beginning.
Slot(index, i) ==
  IF i < capacity_ - index THEN index + i ELSE i - (capacity_ - index)

Advance(store, n) ==
  [index |-> increment_index(store.index, n), count |-> store.count + n]
----------------------------------------------------------------------------
(* enqueue, available_write: the producer thread. *)

\* The producer loads read_index_: v or any later value is what it may see next.
ProducerLoads(v) ==
  /\ v \in oldReads \cup {read_index}
  /\ oldReads' = {x \in oldReads : x.count >= v.count}

EnqueueLoad(count) ==
  /\ producer.at = Idle
  /\ write_index.count + count <= MaxElements
  /\ \E v \in oldReads \cup {read_index} :
       /\ ProducerLoads(v)
       /\ LET full == full_internal(v.index, write_index.index)
              n    == Least(available_write_internal(v.index, write_index.index), count)
          IN  producer' = [at    |-> IF full THEN Idle ELSE "copying",
                           count |-> count,
                           n     |-> IF full THEN 0 ELSE n,
                           done  |-> 0,
                           room  |-> IF producer.count = 0 THEN producer.room ELSE 0]
  /\ UNCHANGED <<read_index, write_index, oldWrites, data, consumer, got>>

CopyIn ==
  /\ producer.at = "copying" /\ producer.done < producer.n
  /\ data' = [data EXCEPT ![Slot(write_index.index, producer.done)] =
                             write_index.count + producer.done]
  /\ producer' = [producer EXCEPT !.done = @ + 1]
  /\ UNCHANGED <<read_index, write_index, oldReads, oldWrites, consumer, got>>

MutEnqueueStore ==                  \* mutant: the index is published before the last copy
  /\ producer.at = "copying" /\ producer.done + 1 >= producer.n
  /\ oldWrites' = oldWrites \cup {write_index}
  /\ write_index' = Advance(write_index, producer.n)
  /\ producer' = [producer EXCEPT !.at = Idle]
  /\ UNCHANGED <<read_index, oldReads, data, consumer, got>>

EnqueueStore ==
  /\ producer.at = "copying" /\ producer.done = producer.n
  /\ oldWrites' = oldWrites \cup {write_index}
  /\ write_index' = Advance(write_index, producer.n)
  /\ producer' = [producer EXCEPT !.at = Idle]
  /\ UNCHANGED <<read_index, oldReads, data, consumer, got>>

AvailableWrite ==
  /\ producer.at = Idle
  /\ \E v \in oldReads \cup {read_index} :
       /\ ProducerLoads(v)
       /\ producer' = [NoPut EXCEPT !.room =
                         available_write_internal(v.index, write_index.index)]
  /\ UNCHANGED <<read_index, write_index, oldWrites, data, consumer, got>>
----------------------------------------------------------------------------
(* dequeue, available_read: the consumer thread. *)

ConsumerLoads(v) ==
  /\ v \in oldWrites \cup {write_index}
  /\ oldWrites' = {x \in oldWrites : x.count >= v.count}

\* With elements = nullptr the call discards: there is nothing to copy.
DequeueLoad(count, discard) ==
  /\ consumer.at = Idle
  /\ got' = <<>>
  /\ \E v \in oldWrites \cup {write_index} :
       /\ ConsumerLoads(v)
       /\ LET empty == empty_internal(read_index.index, v.index)
              n     == Least(available_read_internal(read_index.index, v.index), count)
          IN  consumer' = [at     |-> IF empty THEN Idle ELSE "copying",
                           count  |-> count,
                           n      |-> IF empty THEN 0 ELSE n,
                           done   |-> IF empty THEN 0 ELSE IF discard THEN n ELSE 0,
                           ready  |-> IF consumer.count = 0 THEN consumer.ready ELSE 0,
                           from   |-> read_index,
                           stored |-> FALSE]
  /\ UNCHANGED <<read_index, write_index, oldReads, data, producer>>

CopyOut ==
  /\ consumer.at = "copying" /\ consumer.done < consumer.n
  /\ got' = Append(got, data[Slot(consumer.from.index, consumer.done)])
  /\ consumer' = [consumer EXCEPT !.done = @ + 1]
  /\ UNCHANGED <<read_index, write_index, oldReads, oldWrites, data, producer>>

MutDequeueStore ==                  \* mutant: the index is stored before the copies
  /\ consumer.at = "copying" /\ ~consumer.stored
  /\ oldReads' = oldReads \cup {read_index}
  /\ read_index' = Advance(read_index, consumer.n)
  /\ consumer' = [consumer EXCEPT !.stored = TRUE]
  /\ UNCHANGED <<write_index, oldWrites, data, producer, got>>

\* The store of read_index_ comes after the copies in the source, but it is
\* relaxed: nothing orders the copies' loads before it.
DequeueStore ==
  /\ consumer.at = "copying" /\ ~consumer.stored
  /\ RelaxedStore \/ consumer.done = consumer.n
  /\ oldReads' = oldReads \cup {read_index}
  /\ read_index' = Advance(read_index, consumer.n)
  /\ consumer' = [consumer EXCEPT !.stored = TRUE]
  /\ UNCHANGED <<write_index, oldWrites, data, producer, got>>

DequeueReturn ==
  /\ consumer.at = "copying" /\ consumer.stored /\ consumer.done = consumer.n
  /\ consumer' = [consumer EXCEPT !.at = Idle]
  /\ UNCHANGED <<read_index, write_index, oldReads, oldWrites, data, producer, got>>

AvailableRead ==
  /\ consumer.at = Idle
  /\ \E v \in oldWrites \cup {write_index} :
       /\ ConsumerLoads(v)
       /\ consumer' = [NoTake EXCEPT !.ready =
                         available_read_internal(read_index.index, v.index)]
  /\ got' = <<>>
  /\ UNCHANGED <<read_index, write_index, oldReads, data, producer>>

Producer == (\E count \in Counts : EnqueueLoad(count)) \/ CopyIn \/ EnqueueStore \/ AvailableWrite
Consumer == \/ \E count \in Counts, discard \in BOOLEAN : DequeueLoad(count, discard)
            \/ CopyOut \/ DequeueStore \/ DequeueReturn \/ AvailableRead

Next == Producer \/ Consumer
Spec == Init /\ [][Next]_vars
----------------------------------------------------------------------------
(* Properties *)

\* Every variable keeps to its values: no slot, index or transfer leaves its range.
TypeOK ==
  /\ read_index \in Stores /\ write_index \in Stores
  /\ oldReads \subseteq Stores /\ oldWrites \subseteq Stores
  /\ data \in [Slots -> Nat]
  /\ producer \in [at : {Idle, "copying"}, count : Nat, n : Slots, done : Slots, room : Slots]
  /\ consumer \in [at : {Idle, "copying"}, count : Nat, n : Slots, done : Slots, ready : Slots,
                   from : Stores, stored : BOOLEAN]
  /\ got \in Seq(Nat)

\* The two indices always tell how many elements are stored, through every
\* wrap-around: no element is counted twice or forgotten, and an empty buffer
\* is never taken for a full one.
IndicesCount ==
  LET stored == write_index.count - read_index.count IN
    /\ available_read_internal(read_index.index, write_index.index) = stored
    /\ available_write_internal(read_index.index, write_index.index) = capacity_ - 1 - stored
    /\ full_internal(read_index.index, write_index.index) <=> stored = capacity_ - 1

\* The slots a thread has still to touch in the call it is in.
BeingWritten ==
  IF producer.at = Idle THEN {}
  ELSE {Slot(write_index.index, i) : i \in producer.done .. (producer.n - 1)}
BeingRead ==
  IF consumer.at = Idle THEN {}
  ELSE {Slot(consumer.from.index, i) : i \in consumer.done .. (consumer.n - 1)}

\* cubeb_ringbuffer.h:41-43: "each thread can only touch a portion of the
\* buffer that is not touched by the other thread."
NoSlotShared == BeingWritten \cap BeingRead = {}

\* The consumer copies out exactly the elements that were enqueued, in order:
\* none is lost, repeated or overwritten before it is read.
FifoOrder ==
  \A i \in 1..Len(got) : got[i] = consumer.from.count + i - 1

\* Room the producer was told of is still there when it enqueues: an enqueue of
\* at most that many elements is never cut short by the other thread.
RoomIsKept == producer.n >= Least(producer.count, producer.room)

\* And what the consumer was told it can read, it can dequeue.
ReadyIsKept == consumer.n >= Least(consumer.count, consumer.ready)

\* The indices count what is stored, and what a thread was told of the count
\* stays true for it, however old the index was that it was told from.
CountsHold == IndicesCount /\ RoomIsKept /\ ReadyIsKept

\* The buffer implements the FIFO: a put happens when write_index_ is stored, a
\* take when read_index_ is.
Contents ==
  [i \in 1..(write_index.count - read_index.count) |->
     data[Slot(read_index.index, i - 1)]]
Fifo == INSTANCE BoundedFifo WITH
          Capacity <- capacity_ - 1, queue <- Contents, sent <- write_index.count
ImplementsFifo == Fifo!Spec
=============================================================================
