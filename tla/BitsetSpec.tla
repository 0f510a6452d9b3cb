----------------------------- MODULE BitsetSpec -----------------------------
(***************************************************************************)
(* What dynamic_bitset is to its users: a number of bits and the set of    *)
(* the positions that are on.  Growing keeps the bits there were and adds  *)
(* bits that are off, as std::vector::resize does (dynamic_bitset.h:160),  *)
(* with one exception: a bit that was on beyond the size, in the rest of   *)
(* the last byte, comes back.  Such a bit was left there by a constructor  *)
(* or by a resize to less.                                                 *)
(***************************************************************************)
EXTENDS Integers, FiniteSets

CONSTANTS Sizes, Values   \* sizes asked for; values as sets of bit numbers

VARIABLES
  size, bits,
  stale        \* positions beyond the size that are still on

bitsetVars == <<size, bits, stale>>

Positions(n) == 0..(n - 1)
Spare(n) == n..(IF n < 8 THEN 7 ELSE 8 * ((n - 1) \div 8) + 7)   \* the rest of the last byte

Init == size = 0 /\ bits = {} /\ stale = {}

Construct(n, value) ==
  /\ size' = n
  /\ bits' = value \cap Positions(n)
  /\ stale' \subseteq value \cap Spare(n)
Set(pos, value) ==
  /\ pos \in Positions(size) /\ UNCHANGED <<size, stale>>
  /\ bits' = IF value THEN bits \cup {pos} ELSE bits \ {pos}
FlipAll  == bits' = Positions(size) \ bits /\ UNCHANGED <<size, stale>>
SetAll(value) == bits' = (IF value THEN Positions(size) ELSE {}) /\ UNCHANGED <<size, stale>>
Reset == bits' = {} /\ stale' = {} /\ UNCHANGED size
Resize(n) ==
  /\ size' = n
  /\ bits' = (bits \cup stale) \cap Positions(n)
  /\ stale' = (bits \cup stale) \cap Spare(n)

Next ==
  \/ \E n \in Sizes, value \in Values : Construct(n, value)
  \/ \E pos \in Positions(size), value \in BOOLEAN : Set(pos, value)
  \/ FlipAll
  \/ \E value \in BOOLEAN : SetAll(value)
  \/ Reset
  \/ \E n \in Sizes : Resize(n)

Spec == Init /\ [][Next]_bitsetVars
=============================================================================
