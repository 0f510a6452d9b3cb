--------------------------- MODULE DynamicBitset ---------------------------
(***************************************************************************)
(* utils/dynamic_bitset.h: bits kept in a vector of bytes that is rounded  *)
(* up to whole bytes, so that a byte may hold bits beyond the size.  A     *)
(* byte is the set of its offsets that are on, a 64-bit value the set of   *)
(* its bit numbers: shifts and masks become unions and differences.        *)
(***************************************************************************)
EXTENDS Integers, Sequences, FiniteSets

CONSTANTS
  Sizes,    \* sizes
  Values    \* initial values, subsets of 0..63

ASSUME SizesAssumption  == Sizes \subseteq Nat
ASSUME ValuesAssumption == Values \subseteq SUBSET (0..63)

Offsets == 0..7

VARIABLES
  num_bits,    \* _num_bits
  data,        \* _data, its elements numbered from 1
  stray        \* the bytes beyond _data that the last operation stored to

bitVars == <<num_bits, data, stray>>

BitsetInit == num_bits = 0 /\ data = <<>> /\ stray = {}   \* dynamic_bitset() = default
----------------------------------------------------------------------------
(* Storage and single bits. *)

MutNumBytes(n) ==                   \* mutant: rounds down
  IF n < 8 THEN 1 ELSE n \div 8
NumBytes(n) == IF n < 8 THEN 1 ELSE 1 + (n - 1) \div 8

Test(bytes, pos) == (pos % 8) \in bytes[pos \div 8 + 1]

MutWithBit(bytes, pos, value) ==    \* mutant: the byte is assigned, not or-ed
  [bytes EXCEPT ![pos \div 8 + 1] = IF value THEN {pos % 8} ELSE @ \ {pos % 8}]
WithBit(bytes, pos, value) ==
  [bytes EXCEPT ![pos \div 8 + 1] = IF value THEN @ \cup {pos % 8} ELSE @ \ {pos % 8}]

\* Byte i, from zero, of a 64-bit value.
ByteOf(value, i) == {o \in Offsets : 8 * i + o \in value}

\* The vector of bytes after _data.resize(n): new bytes are zero.
ResizedBytes(bytes, n) == [i \in 1..n |-> IF i <= Len(bytes) THEN bytes[i] ELSE {}]

\* The loops of flip and setall: a Set for every position below n, after
\* which those of "on" are on.
Rewritten(bytes, n, on) ==
  [i \in 1..Len(bytes) |->
     {o \in Offsets : LET pos == 8 * (i - 1) + o
                      IN  IF pos < n THEN pos \in on ELSE o \in bytes[i]}]
----------------------------------------------------------------------------
(* Operations. *)

\* Fewer than sizeof(uint64_t) = 8 bits: the value is masked, with one bit too
\* many.  Otherwise all eight bytes of the value are stored, also when the
\* vector is shorter.  What such a store hits is undefined; with the allocators
\* of the builds it is the slack of the vector's own allocation, which nothing
\* reads and a vector that grows writes anew, so the bitset goes on.
Stored(n, value) ==
  IF n < 8 THEN <<ByteOf(value \cap (0..n), 0)>>
  ELSE [i \in 1..8 |-> ByteOf(value, i - 1)]

Construct(n, value) ==
  /\ num_bits' = n
  /\ data' = [i \in 1..NumBytes(n) |->
                IF i <= Len(Stored(n, value)) THEN Stored(n, value)[i] ELSE {}]
  /\ stray' = DOMAIN Stored(n, value) \ DOMAIN data'

\* The bytes that a Set of these positions stores to.
BytesOf(positions) == {pos \div 8 + 1 : pos \in positions}

Set(pos, value) ==
  /\ data' = WithBit(data, pos, value)
  /\ stray' = BytesOf({pos}) \ DOMAIN data
  /\ UNCHANGED num_bits

Flip ==
  /\ data' = Rewritten(data, num_bits, {pos \in 0..(num_bits - 1) : ~Test(data, pos)})
  /\ stray' = BytesOf(0..(num_bits - 1)) \ DOMAIN data
  /\ UNCHANGED num_bits

FlipOne(pos) == Set(pos, ~Test(data, pos))

SetAll(value) ==
  /\ data' = Rewritten(data, num_bits, IF value THEN 0..(num_bits - 1) ELSE {})
  /\ stray' = BytesOf(0..(num_bits - 1)) \ DOMAIN data
  /\ UNCHANGED num_bits

Reset ==
  /\ data' = [i \in DOMAIN data |-> {}]
  /\ stray' = {}
  /\ UNCHANGED num_bits

\* A vector that shrinks drops whole bytes; the last byte keeps all its bits.
Resize(n) ==
  /\ num_bits' = n
  /\ data' = ResizedBytes(data, NumBytes(n))
  /\ stray' = {}

BitsetNext ==
  \/ \E n \in Sizes, value \in Values : Construct(n, value)
  \/ \E pos \in 0..(num_bits - 1) : FlipOne(pos) \/ \E value \in BOOLEAN : Set(pos, value)
  \/ Flip
  \/ \E value \in BOOLEAN : SetAll(value)
  \/ Reset
  \/ \E n \in Sizes : Resize(n)

BitsetSpec == BitsetInit /\ [][BitsetNext]_bitVars
----------------------------------------------------------------------------
(* Properties *)

\* Every position below the size has a byte in the vector, through any resize, and
\* every store of the class is inside it, with one exception: the constructor of
\* 8 to 56 bits stores its value up to the eighth byte (dynamic_bitset.h:90).
StorageCovers ==
  /\ num_bits \in Nat
  /\ data \in Seq(SUBSET Offsets)
  /\ num_bits <= 8 * Len(data)
  /\ stray # {} => num_bits \in 8..56 /\ stray = (Len(data) + 1)..8

\* The positions any(), all(), none(), count(), to_ulong() and to_string() look at,
\* and those in the vector that they do not.
Bits == {pos \in 0..(num_bits - 1) : Test(data, pos)}
Leftover == {pos \in num_bits..(8 * Len(data) - 1) : Test(data, pos)}

\* The vector of bytes implements a set of positions below the size: no operation
\* touches a neighbour, and what a resize adds is off, but for the bits left over
\* in the last byte by the constructor or by a smaller resize.
Abstract == INSTANCE BitsetSpec WITH size <- num_bits, bits <- Bits, stale <- Leftover
ImplementsBitset == Abstract!Spec
----------------------------------------------------------------------------
(* What does not hold, see README.md. *)

\* "Resize behavior is similar to std::vector::resize" (dynamic_bitset.h:160): the
\* bits that it adds are off.
GrownBitsAreOff == [][\A n \in Sizes : Resize(n) => Bits' \subseteq Bits]_bitVars

\* Every store is inside the vector.
StoresFit == stray = {}
=============================================================================
