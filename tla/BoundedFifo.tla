---------------------------- MODULE BoundedFifo ----------------------------
(***************************************************************************)
(* What a single-producer single-consumer queue promises its two threads:  *)
(* a FIFO of at most Capacity elements in which a put and a take of        *)
(* several elements each happen at one instant.  Elements are numbered in  *)
(* the order the producer puts them.                                       *)
(***************************************************************************)
EXTENDS Integers, Sequences

CONSTANT Capacity   \* a positive number

VARIABLES
  queue,   \* the elements put and not yet taken
  sent     \* how many elements have been put so far

fifoVars == <<queue, sent>>

Init == queue = <<>> /\ sent = 0

Put(n) ==
  /\ Len(queue) + n <= Capacity
  /\ queue' = queue \o [i \in 1..n |-> sent + i - 1]
  /\ sent' = sent + n

Take(n) ==
  /\ n <= Len(queue)
  /\ queue' = SubSeq(queue, n + 1, Len(queue))
  /\ UNCHANGED sent

Next == \E n \in 1..Capacity : Put(n) \/ Take(n)

Spec == Init /\ [][Next]_fifoVars
=============================================================================
