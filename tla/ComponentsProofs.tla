-------------------------- MODULE ComponentsProofs --------------------------
(***************************************************************************)
(* Theorems of ListView, for every window height, every longest list and   *)
(* every overshoot of the cursor, and of DynamicBitset, for every set of   *)
(* sizes and values; of AlsaFrames and AudioRingBuffer, for every size of  *)
(* a buffer and of a frame; and what they, those of Serializer and those   *)
(* of the resamplers say of all parts side by side.                        *)
(***************************************************************************)
EXTENDS ResamplerProofs, SerializerProofs

----------------------------------------------------------------------------
(* ListView: the window on the screen is the one WindowStart chooses for the *)
(* highlighted row; the rest is arithmetic about WindowStart.               *)

LEMMA RowsBounded ==
  ASSUME NEW n \in Nat
  PROVE  RowsOf(n) \in 0..n /\ RowsOf(n) <= numberVisibleListElements
                            /\ (n > 0 => RowsOf(n) > 0)
  BY VisibleAssumption DEF RowsOf

\* A row count and its half, which is all WindowStart needs of the division.
LEMMA HalfBounded ==
  ASSUME NEW k \in Nat
  PROVE  k \div 2 \in Nat /\ k - k \div 2 \in Nat /\ (k > 0 => k - k \div 2 > 0)
  OBVIOUS

LEMMA ClampedInList ==
  ASSUME NEW n \in Nat, NEW cur \in Int
  PROVE  Clamped(cur, n) \in Nat /\ (n > 0 => Clamped(cur, n) < n)
  BY DEF Clamped

\* The window lies in the list and holds the cursor.
LEMMA WindowInList ==
  ASSUME NEW n \in Nat, NEW cur \in Nat
  PROVE  /\ WindowStart(cur, n) \in Nat
         /\ WindowStart(cur, n) + RowsOf(n) <= n
         /\ cur < n => WindowStart(cur, n) <= cur /\ cur < WindowStart(cur, n) + RowsOf(n)
<1> DEFINE k == RowsOf(n)
<1> DEFINE h == k \div 2
<1>1. k \in Nat /\ k <= n /\ (n > 0 => k > 0)
  BY RowsBounded
<1>2. h \in Nat /\ k - h \in Nat /\ (k > 0 => k - h > 0)
  BY <1>1, HalfBounded
<1>3. WindowStart(cur, n) = LET s == IF cur - h + k > n THEN n - k ELSE cur - h
                            IN  IF s < 0 THEN 0 ELSE s
  BY DEF WindowStart
<1> HIDE DEF h, k
<1>4. QED
  BY <1>1, <1>2, <1>3 DEF k

\* Moving the cursor by one moves the window by at most one.
LEMMA WindowMovesSmoothly ==
  ASSUME NEW n \in Nat, NEW c \in Nat, NEW d \in Nat, d - c \in {-1, 0, 1}
  PROVE  WindowStart(d, n) - WindowStart(c, n) \in {-1, 0, 1}
<1> DEFINE k == RowsOf(n)
<1> DEFINE h == k \div 2
<1>1. k \in Nat /\ k <= n
  BY RowsBounded
<1>2. h \in Nat
  BY <1>1, HalfBounded
<1>3. \A x \in Nat : WindowStart(x, n) = LET s == IF x - h + k > n THEN n - k ELSE x - h
                                         IN  IF s < 0 THEN 0 ELSE s
  BY DEF WindowStart
<1> HIDE DEF h, k
<1>4. QED
  BY <1>1, <1>2, <1>3
----------------------------------------------------------------------------
\* The screen shows the window of its highlighted row, and a cursor that has
\* left that row is waiting for a redraw.
ScreenInv ==
  /\ screen.rows = RowsOf(screen.of)
  /\ screen.of > 0 => screen.inverted < screen.of
  /\ screen # Blank => screen.start = WindowStart(screen.inverted, screen.of)
  /\ screen.rows = 0 => screen.start = 0

ListInv == ListTypeOK /\ ScreenInv /\ NoStaleHighlight

LEMMA ListStarts == ListInit => ListInv
  BY VisibleAssumption, BoundAssumption
  DEF ListInit, ListInv, ListTypeOK, ScreenInv, NoStaleHighlight, Screens, Blank, RowsOf

LEMMA DrawStep == ListInv /\ DoListSelection => ListInv'
<1> SUFFICES ASSUME ListInv, DoListSelection PROVE ListInv'
  OBVIOUS
<1> DEFINE cur == Clamped(cursorPosInList, size)
<1>1. size \in Nat /\ size <= MaxSize /\ cursorPosInList \in Int
  BY BoundAssumption DEF ListInv, ListTypeOK
<1>2. cur \in Nat /\ (size > 0 => cur < size)
  BY <1>1, ClampedInList
<1>3. WindowStart(cur, size) \in Nat /\ WindowStart(cur, size) + RowsOf(size) <= size
  BY <1>1, <1>2, WindowInList
<1>4. RowsOf(size) \in 0..numberVisibleListElements
  BY <1>1, RowsBounded, VisibleAssumption
<1>5. cursorPosInList' = cur /\ redrawNeeded' = FALSE /\ size' = size
      /\ screen' = [start |-> WindowStart(cur, size), rows |-> RowsOf(size),
                    of |-> size, inverted |-> cur]
  BY DEF DoListSelection
<1>6. cur \in (-Overshoot)..(MaxSize + Overshoot)
  BY <1>1, BoundAssumption DEF ListInv, ListTypeOK, Clamped
<1> HIDE DEF cur
<1>7. ListTypeOK'
  BY <1>1, <1>2, <1>3, <1>4, <1>5, <1>6, BoundAssumption DEF ListInv, ListTypeOK, Screens
<1>8. ScreenInv'
  <2>1. screen'.rows = 0 => screen'.start = 0
    BY <1>1, <1>3, <1>5, RowsBounded
  <2>2. QED
    BY <1>2, <1>5, <2>1 DEF ScreenInv
<1>9. NoStaleHighlight'
  BY <1>5 DEF NoStaleHighlight
<1>10. QED
  BY <1>7, <1>8, <1>9 DEF ListInv

LEMMA ListSteps == ListInv /\ [ListNext]_listVars => ListInv'
<1> SUFFICES ASSUME ListInv, [ListNext]_listVars PROVE ListInv'
  OBVIOUS
<1>1. ASSUME NEW step \in {-1, 1}, MoveCursor(step) PROVE ListInv'
  <2>1. ListTypeOK'
    BY <1>1, BoundAssumption DEF MoveCursor, ListInv, ListTypeOK
  <2>2. ScreenInv'
    BY <1>1 DEF MoveCursor, ListInv, ScreenInv
  <2>3. NoStaleHighlight'
    BY <1>1 DEF MoveCursor, NoStaleHighlight
  <2>4. QED
    BY <2>1, <2>2, <2>3 DEF ListInv
<1>2. CASE MarkRedraw
  BY <1>2 DEF MarkRedraw, ListInv, ListTypeOK, ScreenInv, NoStaleHighlight
<1>3. CASE ChangeList
  <2>1. ListTypeOK'
    BY <1>3 DEF ChangeList, ListInv, ListTypeOK
  <2>2. ScreenInv'
    BY <1>3 DEF ChangeList, ListInv, ScreenInv
  <2>3. NoStaleHighlight'
    BY <1>3 DEF ChangeList, ListInv, ListTypeOK, NoStaleHighlight
  <2>4. QED
    BY <2>1, <2>2, <2>3 DEF ListInv
<1>4. CASE DoListSelection
  BY <1>4, DrawStep
<1>5. CASE UNCHANGED listVars
  BY <1>5 DEF listVars, ListInv, ListTypeOK, ScreenInv, NoStaleHighlight
<1>6. QED
  BY <1>1, <1>2, <1>3, <1>4, <1>5 DEF ListNext

LEMMA ListStays == ASSUME [Next]_vars PROVE [ListNext]_listVars
BY DEF Next, OwnNext, SharedNext, vars

THEOREM ListInvariance == Spec => []ListInv
<1>1. Init => ListInv
  <2>1. ASSUME ListRests PROVE ListInv
    <3>1. screen = Blank /\ cursorPosInList = 0 /\ size = 0 /\ redrawNeeded \in BOOLEAN
      BY <2>1 DEF ListRests
    <3>2. Blank \in Screens
      BY VisibleAssumption, BoundAssumption DEF Blank, Screens
    <3>3. ListTypeOK
      BY <3>1, <3>2, BoundAssumption DEF ListTypeOK
    <3>4. ScreenInv
      <4>1. RowsOf(0) = 0
        BY VisibleAssumption DEF RowsOf
      <4>2. QED
        BY <3>1, <4>1 DEF ScreenInv, Blank
    <3>5. QED
      BY <3>1, <3>3, <3>4 DEF ListInv, NoStaleHighlight
  <2>2. QED
    BY <2>1, ListStarts DEF Init
<1>2. ListInv /\ [Next]_vars => ListInv'
  BY ListStays, ListSteps
<1>3. QED
  BY <1>1, <1>2, PTL DEF Spec
----------------------------------------------------------------------------
\* Every variable keeps to its values.
THEOREM ListTypeCorrect == Spec => []ListTypeOK
<1>1. ListInv => ListTypeOK
  BY DEF ListInv
<1>2. QED
  BY ListInvariance, <1>1, PTL

\* doListSelection never indexes the list outside its bounds.
THEOREM RowsAreInBounds == Spec => []RowsInBounds
<1>1. ListInv => RowsInBounds
  <2> SUFFICES ASSUME ListInv PROVE RowsInBounds
    OBVIOUS
  <2>1. screen.inverted \in Nat /\ screen.of \in Nat
    BY BoundAssumption DEF ListInv, ListTypeOK, Screens
  <2>2. CASE screen = Blank
    BY <2>2 DEF RowsInBounds, Blank
  <2>3. CASE screen # Blank
    <3>1. WindowStart(screen.inverted, screen.of) \in Nat
          /\ WindowStart(screen.inverted, screen.of) + RowsOf(screen.of) <= screen.of
      BY <2>1, WindowInList
    <3>2. screen.start = WindowStart(screen.inverted, screen.of) /\ screen.rows = RowsOf(screen.of)
      BY <2>3 DEF ListInv, ScreenInv
    <3>3. QED
      BY <3>1, <3>2 DEF RowsInBounds
  <2>4. QED
    BY <2>2, <2>3
<1>2. QED
  BY ListInvariance, <1>1, PTL

\* The highlighted entry is always inside the window.
THEOREM SelectionIsVisible == Spec => []SelectionVisible
<1>1. ListInv => SelectionVisible
  <2> SUFFICES ASSUME ListInv, screen.of > 0
               PROVE  screen.inverted \in screen.start .. (screen.start + screen.rows - 1)
    BY DEF SelectionVisible
  <2>1. screen.inverted \in Nat /\ screen.of \in Nat /\ screen # Blank
    BY BoundAssumption DEF ListInv, ListTypeOK, Screens, Blank
  <2>2. screen.start \in Nat /\ screen.rows \in Nat
    BY VisibleAssumption DEF ListInv, ListTypeOK, Screens
  <2>3. QED
    <3>1. screen.inverted < screen.of /\ screen.start = WindowStart(screen.inverted, screen.of)
          /\ screen.rows = RowsOf(screen.of)
      BY <2>1 DEF ListInv, ScreenInv
    <3>2. WindowStart(screen.inverted, screen.of) <= screen.inverted
          /\ screen.inverted < WindowStart(screen.inverted, screen.of) + RowsOf(screen.of)
      BY <2>1, <3>1, WindowInList
    <3>3. QED
      BY <2>1, <2>2, <3>1, <3>2
<1>2. QED
  BY ListInvariance, <1>1, PTL

\* A moved cursor is never left without a redraw request.
THEOREM HighlightNotStale == Spec => []NoStaleHighlight
<1>1. ListInv => NoStaleHighlight
  BY DEF ListInv
<1>2. QED
  BY ListInvariance, <1>1, PTL

\* What the last draw shows is right, or another one is due: doListSelection.
THEOREM DrawsRight == Spec => []DrawnRight
<1>1. RowsInBounds /\ SelectionVisible /\ NoStaleHighlight => DrawnRight
  BY DEF DrawnRight
<1>2. QED
  BY RowsAreInBounds, SelectionIsVisible, HighlightNotStale, <1>1, PTL

\* The window scrolls by at most one row when the cursor moves by at most one.
THEOREM ScrollIsSmooth == Spec => SmoothScroll
<1>1. ListInv /\ ListInv' /\ [Next]_vars => [ScrollsByOne]_listVars
  <2> SUFFICES ASSUME ListInv, ListInv', screen # Blank, screen'.of = screen.of,
                      screen'.inverted - screen.inverted \in {-1, 0, 1}
               PROVE  screen'.start - screen.start \in {-1, 0, 1}
    BY DEF ScrollsByOne
  <2>1. screen.inverted \in Nat /\ screen.of \in Nat /\ screen'.inverted \in Nat
        /\ screen.start \in Nat /\ screen'.start \in Nat
    BY BoundAssumption DEF ListInv, ListTypeOK, Screens
  <2>2. screen.start = WindowStart(screen.inverted, screen.of)
    BY DEF ListInv, ScreenInv
  <2>3. CASE screen' # Blank
    <3>1. screen'.start = WindowStart(screen'.inverted, screen'.of)
      BY <2>3 DEF ListInv, ScreenInv
    <3>2. WindowStart(screen'.inverted, screen.of) - WindowStart(screen.inverted, screen.of)
            \in {-1, 0, 1}
      BY <2>1, WindowMovesSmoothly
    <3>3. QED
      BY <2>2, <3>1, <3>2
  <2>4. CASE screen' = Blank
    <3>1. screen.of = 0 /\ screen'.start = 0
      BY <2>4 DEF Blank
    <3>2. WindowStart(screen.inverted, 0) + RowsOf(0) <= 0 /\ RowsOf(0) \in Nat
          /\ WindowStart(screen.inverted, 0) \in Nat
      <4>1. RowsOf(0) \in 0..0
        BY RowsBounded
      <4>2. WindowStart(screen.inverted, 0) \in Nat
            /\ WindowStart(screen.inverted, 0) + RowsOf(0) <= 0
        BY <2>1, WindowInList
      <4>3. QED
        BY <4>1, <4>2
    <3>3. QED
      BY <2>2, <3>1, <3>2
  <2>5. QED
    BY <2>3, <2>4
<1>2. QED
  BY ListInvariance, <1>1, PTL DEF Spec, SmoothScroll
----------------------------------------------------------------------------
(* DynamicBitset: the bytes cover the bits, and the vector of bytes          *)
(* implements the set of positions of BitsetSpec.                           *)

\* numBytes (dynamic_bitset.h:66-71) rounds up, and never to nothing.
LEMMA NumBytesCovers ==
  ASSUME NEW n \in Nat
  PROVE  NumBytes(n) \in Nat \ {0} /\ n <= 8 * NumBytes(n)
  BY DEF NumBytes

LEMMA ByteOfType ==
  ASSUME NEW value, NEW i
  PROVE  ByteOf(value, i) \subseteq Offsets
  BY DEF ByteOf

\* A new vector of NumBytes(n) bytes covers n bits, whatever the bytes are.
LEMMA FreshCovers ==
  ASSUME NEW n \in Nat, num_bits' = n,
         data' \in [1..NumBytes(n) -> SUBSET Offsets],
         stray' # {} => n \in 8..56 /\ stray' = (NumBytes(n) + 1)..8
  PROVE  StorageCovers'
<1>1. NumBytes(n) \in Nat /\ n <= 8 * NumBytes(n)
  BY NumBytesCovers
<1>2. data' \in Seq(SUBSET Offsets) /\ Len(data') = NumBytes(n)
  BY <1>1
<1>3. QED
  BY <1>1, <1>2 DEF StorageCovers

\* Bytes rewritten in place cover the same bits.
LEMMA InPlaceCovers ==
  ASSUME StorageCovers, num_bits' = num_bits,
         data' \in [1..Len(data) -> SUBSET Offsets], stray' = {}
  PROVE  StorageCovers'
<1>1. Len(data) \in Nat /\ num_bits \in Nat /\ num_bits <= 8 * Len(data)
  BY DEF StorageCovers
<1>2. data' \in Seq(SUBSET Offsets) /\ Len(data') = Len(data)
  BY <1>1
<1>3. QED
  BY <1>1, <1>2 DEF StorageCovers

\* The byte of a position below the size is in the vector.
LEMMA StoresInside ==
  ASSUME StorageCovers, NEW S \in SUBSET (0..(num_bits - 1))
  PROVE  BytesOf(S) \ DOMAIN data = {}
<1>1. num_bits \in Nat /\ Len(data) \in Nat /\ num_bits <= 8 * Len(data) /\ DOMAIN data = 1..Len(data)
  BY DEF StorageCovers
<1>2. \A pos \in S : pos \div 8 + 1 \in 1..Len(data)
  BY <1>1
<1>3. QED
  BY <1>1, <1>2 DEF BytesOf

LEMMA StepCovers ==
  ASSUME StorageCovers, BitsetNext
  PROVE  StorageCovers'
<1> USE SizesAssumption
<1>0. /\ num_bits \in Nat
      /\ data \in [1..Len(data) -> SUBSET Offsets]
      /\ Len(data) \in Nat
      /\ DOMAIN data = 1..Len(data)
  BY DEF StorageCovers
<1>1. ASSUME NEW n \in Sizes, NEW value \in Values, Construct(n, value)
      PROVE  StorageCovers'
  <2>1. \A i \in 1..Len(Stored(n, value)) : Stored(n, value)[i] \subseteq Offsets
    <3>1. CASE n < 8
      BY <3>1, ByteOfType DEF Stored
    <3>2. CASE ~(n < 8)
      <4>1. Stored(n, value) = [i \in 1..8 |-> ByteOf(value, i - 1)]
        BY <3>2 DEF Stored
      <4>2. Len(Stored(n, value)) = 8
        BY <4>1
      <4>3. QED
        BY <4>1, <4>2, ByteOfType
    <3>3. QED
      BY <3>1, <3>2
  <2>2. data' \in [1..NumBytes(n) -> SUBSET Offsets]
    <3>1. \A i \in 1..NumBytes(n) : i >= 1 /\ i \in Int
      BY NumBytesCovers
    <3>2. Len(Stored(n, value)) \in Nat
      <4>1. CASE n < 8
        BY <4>1 DEF Stored
      <4>2. CASE ~(n < 8)
        BY <4>2 DEF Stored
      <4>3. QED
        BY <4>1, <4>2
    <3>3. QED
      BY <1>1, <2>1, <3>1, <3>2 DEF Construct
  <2>3. stray' # {} => n \in 8..56 /\ stray' = (NumBytes(n) + 1)..8
    <3>1. NumBytes(n) \in Nat \ {0} /\ DOMAIN data' = 1..NumBytes(n)
      BY <2>2, NumBytesCovers
    <3>2. CASE n < 8
      <4>1. DOMAIN Stored(n, value) = 1..1
        BY <3>2 DEF Stored
      <4>2. QED
        BY <1>1, <3>1, <4>1 DEF Construct
    <3>3. CASE ~(n < 8)
      <4>1. DOMAIN Stored(n, value) = 1..8
        BY <3>3 DEF Stored
      <4>2. stray' = (1..8) \ (1..NumBytes(n))
        BY <1>1, <3>1, <4>1 DEF Construct
      <4>3. stray' = (NumBytes(n) + 1)..8
        BY <3>1, <4>2
      <4>4. n > 56 => NumBytes(n) >= 8
        BY <3>3 DEF NumBytes
      <4>5. stray' # {} => NumBytes(n) < 8
        BY <3>1, <4>3
      <4>6. QED
        BY <3>1, <3>3, <4>3, <4>4, <4>5
    <3>4. QED
      BY <3>2, <3>3
  <2>4. QED
    BY <1>1, <2>2, <2>3, FreshCovers DEF Construct
<1>2. ASSUME NEW pos \in 0..(num_bits - 1), NEW value \in BOOLEAN, Set(pos, value)
      PROVE  StorageCovers'
  <2>1. pos % 8 \in Offsets
    BY <1>0 DEF Offsets
  <2>2. data' \in [1..Len(data) -> SUBSET Offsets]
    BY <1>0, <1>2, <2>1 DEF Set, WithBit
  <2>3. stray' = {}
    BY <1>2, StoresInside DEF Set
  <2>4. QED
    BY <1>2, <2>2, <2>3, InPlaceCovers DEF Set
<1>3. ASSUME NEW pos \in 0..(num_bits - 1), FlipOne(pos)
      PROVE  StorageCovers'
  BY <1>2, <1>3 DEF FlipOne, Test
<1>4. CASE Flip
  <2>1. data' \in [1..Len(data) -> SUBSET Offsets]
    BY <1>4 DEF Flip, Rewritten
  <2>2. stray' = {}
    BY <1>4, StoresInside DEF Flip
  <2>3. QED
    BY <1>4, <2>1, <2>2, InPlaceCovers DEF Flip
<1>5. ASSUME NEW value \in BOOLEAN, SetAll(value)
      PROVE  StorageCovers'
  <2>1. data' \in [1..Len(data) -> SUBSET Offsets]
    BY <1>5 DEF SetAll, Rewritten
  <2>2. stray' = {}
    BY <1>5, StoresInside DEF SetAll
  <2>3. QED
    BY <1>5, <2>1, <2>2, InPlaceCovers DEF SetAll
<1>6. CASE Reset
  <2>1. data' \in [1..Len(data) -> SUBSET Offsets]
    BY <1>0, <1>6 DEF Reset
  <2>2. QED
    BY <1>6, <2>1, InPlaceCovers DEF Reset
<1>7. ASSUME NEW n \in Sizes, Resize(n)
      PROVE  StorageCovers'
  <2>1. data' \in [1..NumBytes(n) -> SUBSET Offsets]
    BY <1>0, <1>7, NumBytesCovers DEF Resize, ResizedBytes
  <2>2. QED
    BY <1>7, <2>1, FreshCovers DEF Resize
<1>8. QED
  BY <1>1, <1>2, <1>3, <1>4, <1>5, <1>6, <1>7 DEF BitsetNext

\* No bit of the bitset lies outside its vector of bytes, through every
\* construction and resize: the accesses of test, set, flip and setall
\* (dynamic_bitset.h:140-221, 265-270) stay inside it, and of the constructor's
\* stores exactly those of 8 to 56 bits go beyond it, to the eighth byte (90-93).
THEOREM StorageAlwaysCovers == BitsetSpec => []StorageCovers
<1>1. BitsetInit => StorageCovers
  BY DEF BitsetInit, StorageCovers
<1>2. StorageCovers /\ [BitsetNext]_bitVars => StorageCovers'
  BY StepCovers DEF bitVars, StorageCovers
<1>3. QED
  BY <1>1, <1>2, PTL DEF BitsetSpec
----------------------------------------------------------------------------
(* The refinement: what Test reads from the result of each helper. *)

LEMMA Address ==
  ASSUME NEW p \in Nat
  PROVE  /\ p % 8 \in Offsets
         /\ p \div 8 \in Nat
         /\ p = 8 * (p \div 8) + (p % 8)
         /\ \A n \in Nat : p < 8 * n => p \div 8 + 1 \in 1..n
  BY DEF Offsets

LEMMA TestWithBit ==
  ASSUME NEW bytes \in Seq(SUBSET Offsets), NEW value \in BOOLEAN,
         NEW p \in Nat, p < 8 * Len(bytes), NEW q \in Nat, q < 8 * Len(bytes)
  PROVE  Test(WithBit(bytes, p, value), q) <=> IF q = p THEN value ELSE Test(bytes, q)
<1>1. /\ p \div 8 + 1 \in 1..Len(bytes) /\ q \div 8 + 1 \in 1..Len(bytes)
      /\ p \div 8 \in Nat /\ q \div 8 \in Nat /\ p % 8 \in Nat /\ q % 8 \in Nat
  BY Address DEF Offsets
<1>2. p = q <=> (p \div 8 = q \div 8 /\ p % 8 = q % 8)
  BY Address
<1>3. CASE p \div 8 = q \div 8
  <2>1. WithBit(bytes, p, value)[q \div 8 + 1] =
          IF value THEN bytes[q \div 8 + 1] \cup {p % 8} ELSE bytes[q \div 8 + 1] \ {p % 8}
    <3>1. q \div 8 + 1 \in DOMAIN bytes /\ p \div 8 + 1 = q \div 8 + 1
      BY <1>1, <1>3
    <3>2. QED
      BY <3>1 DEF WithBit
  <2>2. QED
    BY <1>2, <1>3, <2>1 DEF Test
<1>4. CASE p \div 8 # q \div 8
  <2>1. WithBit(bytes, p, value)[q \div 8 + 1] = bytes[q \div 8 + 1]
    BY <1>1, <1>4 DEF WithBit
  <2>2. QED
    BY <1>2, <1>4, <2>1 DEF Test
<1>5. QED
  BY <1>3, <1>4

LEMMA TestRewritten ==
  ASSUME NEW bytes \in Seq(SUBSET Offsets), NEW n \in Nat, n <= 8 * Len(bytes),
         NEW on, NEW p \in 0..(n - 1)
  PROVE  Test(Rewritten(bytes, n, on), p) <=> p \in on
<1>1. /\ p \div 8 + 1 \in 1..Len(bytes) /\ p % 8 \in Offsets
      /\ 8 * ((p \div 8 + 1) - 1) + (p % 8) = p /\ p < n
  BY Address
<1>2. Rewritten(bytes, n, on)[p \div 8 + 1] =
        {o \in Offsets : LET pos == 8 * ((p \div 8 + 1) - 1) + o
                         IN  IF pos < n THEN pos \in on ELSE o \in bytes[p \div 8 + 1]}
  BY <1>1 DEF Rewritten
<1>3. QED
  BY <1>1, <1>2 DEF Test

\* A position beyond the size, in the vector, is left as it is.
LEMMA TestLeft ==
  ASSUME NEW bytes \in Seq(SUBSET Offsets), NEW n \in Nat, NEW on,
         NEW p \in n..(8 * Len(bytes) - 1)
  PROVE  Test(Rewritten(bytes, n, on), p) <=> Test(bytes, p)
<1>1. /\ p \in Nat /\ Len(bytes) \in Nat /\ p \div 8 + 1 \in 1..Len(bytes) /\ p % 8 \in Offsets
      /\ 8 * ((p \div 8 + 1) - 1) + (p % 8) = p /\ ~(p < n)
  BY Address
<1>2. Rewritten(bytes, n, on)[p \div 8 + 1] =
        {o \in Offsets : LET pos == 8 * ((p \div 8 + 1) - 1) + o
                         IN  IF pos < n THEN pos \in on ELSE o \in bytes[p \div 8 + 1]}
  BY <1>1 DEF Rewritten
<1>3. QED
  BY <1>1, <1>2 DEF Test

\* A byte that the constructor stores.
LEMMA StoredByte ==
  ASSUME NEW m, NEW stored, NEW bytes,
         bytes = [k \in 1..m |-> IF k <= Len(stored) THEN stored[k] ELSE {}],
         NEW i \in 1..m, i <= Len(stored)
  PROVE  bytes[i] = stored[i]
OBVIOUS

\* The masked or unmasked value, read below the size.
LEMMA TestStored ==
  ASSUME NEW n \in Nat, NEW value \in SUBSET (0..63), NEW p \in 0..(n - 1),
         NEW bytes,
         bytes = [i \in 1..NumBytes(n) |->
                   IF i <= Len(Stored(n, value)) THEN Stored(n, value)[i] ELSE {}]
  PROVE  Test(bytes, p) <=> p \in value
<1>1. /\ p \div 8 + 1 \in 1..NumBytes(n) /\ p % 8 \in Offsets
      /\ 8 * ((p \div 8 + 1) - 1) + (p % 8) = p
  <2>1. NumBytes(n) \in Nat /\ p \in Nat /\ p < 8 * NumBytes(n)
    BY NumBytesCovers, SMTT(40)
  <2>2. QED
    BY <2>1, Address
<1>2. CASE n < 8
  <2>1. p \div 8 + 1 = 1 /\ p % 8 = p
    BY <1>2
  <2>2. Stored(n, value) = <<ByteOf(value \cap (0..n), 0)>>
    BY <1>2 DEF Stored
  <2>3. bytes[1] = ByteOf(value \cap (0..n), 0)
    BY <1>1, <2>1, <2>2
  <2>4. Test(bytes, p) <=> p \in ByteOf(value \cap (0..n), 0)
    BY <2>1, <2>3 DEF Test
  <2>5. p \in ByteOf(value \cap (0..n), 0) <=> p \in value
    BY <1>1, <2>1 DEF ByteOf, Offsets
  <2>6. QED
    BY <2>4, <2>5
<1>3. CASE ~(n < 8)
  <2> DEFINE i == p \div 8 + 1
  <2>1. Stored(n, value) = [k \in 1..8 |-> ByteOf(value, k - 1)]
    BY <1>3 DEF Stored
  <2>2. Len(Stored(n, value)) = 8 /\ i \in Nat /\ i >= 1
    BY <1>1, <2>1
  <2>3. CASE i <= 8
    <3>1. bytes[i] = ByteOf(value, i - 1)
      <4>1. i \in 1..NumBytes(n)
        BY <1>1, Zenon
      <4>2. i \in 1..8 /\ i <= Len(Stored(n, value))
        BY <2>2, <2>3
      <4>3. bytes[i] = Stored(n, value)[i]
        BY <4>1, <4>2, StoredByte, Zenon
      <4>4. Stored(n, value)[i] = ByteOf(value, i - 1)
        BY <4>2, <2>1
      <4>5. QED
        BY <4>3, <4>4, Zenon
    <3>2. QED
      BY <1>1, <3>1 DEF Test, ByteOf
  <2>4. CASE ~(i <= 8)
    <3>1. bytes[i] = {} /\ p > 63
      BY <1>1, <2>2, <2>4
    <3>2. QED
      BY <1>1, <3>1 DEF Test
  <2>5. QED
    BY <2>3, <2>4
<1>4. QED
  BY <1>2, <1>3

\* What is beyond the size in the last byte is of the value, too.
LEMMA StoredBeyond ==
  ASSUME NEW n \in Nat, NEW value \in SUBSET (0..63), NEW p \in n..(8 * NumBytes(n) - 1),
         NEW bytes,
         bytes = [i \in 1..NumBytes(n) |->
                   IF i <= Len(Stored(n, value)) THEN Stored(n, value)[i] ELSE {}],
         Test(bytes, p)
  PROVE  p \in value
<1>1. /\ p \in Nat /\ p \div 8 + 1 \in 1..NumBytes(n) /\ p % 8 \in Offsets
      /\ 8 * ((p \div 8 + 1) - 1) + (p % 8) = p /\ p % 8 \in bytes[p \div 8 + 1]
  <2>1. NumBytes(n) \in Nat /\ p \in Nat /\ p < 8 * NumBytes(n)
    BY NumBytesCovers, SMTT(40)
  <2>2. QED
    BY <2>1, Address DEF Test
<1>2. CASE n < 8
  <2>1. Stored(n, value) = <<ByteOf(value \cap (0..n), 0)>> /\ NumBytes(n) = 1
    BY <1>2 DEF Stored, NumBytes
  <2>2. p \div 8 + 1 = 1 /\ p % 8 = p
    BY <1>1, <2>1
  <2>3. bytes[1] = ByteOf(value \cap (0..n), 0)
    BY <1>1, <2>1, <2>2
  <2>4. p \in ByteOf(value \cap (0..n), 0)
    BY <1>1, <2>2, <2>3
  <2>5. QED
    BY <1>1, <2>4 DEF ByteOf
<1>3. CASE ~(n < 8)
  <2> DEFINE i == p \div 8 + 1
  <2>1. Stored(n, value) = [k \in 1..8 |-> ByteOf(value, k - 1)]
    BY <1>3 DEF Stored
  <2>2. Len(Stored(n, value)) = 8 /\ i \in Nat /\ i >= 1
    BY <1>1, <2>1
  <2>3. CASE i <= 8
    <3>1. bytes[i] = ByteOf(value, i - 1)
      <4>1. i \in 1..NumBytes(n)
        BY <1>1, Zenon
      <4>2. i \in 1..8 /\ i <= Len(Stored(n, value))
        BY <2>2, <2>3
      <4>3. bytes[i] = Stored(n, value)[i]
        BY <4>1, <4>2, StoredByte, Zenon
      <4>4. Stored(n, value)[i] = ByteOf(value, i - 1)
        BY <4>2, <2>1
      <4>5. QED
        BY <4>3, <4>4, Zenon
    <3>2. QED
      BY <1>1, <3>1 DEF ByteOf
  <2>4. CASE ~(i <= 8)
    <3>1. bytes[i] = {}
      BY <1>1, <2>2, <2>4
    <3>2. QED
      BY <1>1, <3>1
  <2>5. QED
    BY <2>3, <2>4
<1>4. QED
  BY <1>2, <1>3

\* A vector that was resized: what it kept, and zeros.
LEMMA TestResized ==
  ASSUME NEW bytes \in Seq(SUBSET Offsets), NEW n \in Nat, NEW p \in 0..(8 * n - 1)
  PROVE  Test(ResizedBytes(bytes, n), p) <=> p < 8 * Len(bytes) /\ Test(bytes, p)
<1>1. /\ p \in Nat /\ p \div 8 \in Nat /\ p \div 8 + 1 \in 1..n /\ Len(bytes) \in Nat
      /\ p < 8 * Len(bytes) <=> p \div 8 + 1 <= Len(bytes)
  BY Address
<1>2. ResizedBytes(bytes, n)[p \div 8 + 1] =
        IF p \div 8 + 1 <= Len(bytes) THEN bytes[p \div 8 + 1] ELSE {}
  BY <1>1 DEF ResizedBytes
<1>3. QED
  BY <1>1, <1>2 DEF Test

\* The rest of the last byte.
LEMMA SpareIs ==
  ASSUME NEW n \in Nat
  PROVE  Abstract!Spare(n) = n..(8 * NumBytes(n) - 1)
  BY DEF Abstract!Spare, NumBytes

\* Each operation on the bytes is the operation of BitsetSpec on the positions.
LEMMA StepImplements ==
  ASSUME StorageCovers, BitsetNext
  PROVE  Abstract!Next
<1> USE SizesAssumption, ValuesAssumption
<1>0. /\ num_bits \in Nat /\ data \in Seq(SUBSET Offsets)
      /\ num_bits <= 8 * Len(data) /\ Len(data) \in Nat
  BY DEF StorageCovers
<1>1. ASSUME NEW n \in Sizes, NEW value \in Values, Construct(n, value)
      PROVE  Abstract!Next
  <2>1. \A p \in 0..(n - 1) : Test(data', p) <=> p \in value
    BY <1>1, TestStored DEF Construct
  <2>2. Bits' = value \cap (0..(n - 1))
    BY <1>1, <2>1 DEF Bits, Construct
  <2>3. Leftover' \subseteq value \cap Abstract!Spare(n)
    <3>1. n \in Nat /\ NumBytes(n) \in Nat /\ num_bits' = n
      BY <1>1, NumBytesCovers DEF Construct
    <3>2. Len(data') = NumBytes(n)
      BY <1>1, <3>1 DEF Construct
    <3>3. \A p \in n..(8 * NumBytes(n) - 1) : Test(data', p) => p \in value
      BY <1>1, <3>1, StoredBeyond DEF Construct
    <3>4. QED
      BY <3>1, <3>2, <3>3, SpareIs DEF Leftover
  <2>4. Abstract!Construct(n, value)
    BY <1>1, <2>2, <2>3 DEF Construct, Abstract!Construct, Abstract!Positions
  <2>5. QED
    BY <2>4 DEF Abstract!Next
<1>2. ASSUME NEW pos \in 0..(num_bits - 1), NEW value \in BOOLEAN, Set(pos, value)
      PROVE  Abstract!Next
  <2>1. \A q \in 0..(num_bits - 1) :
          Test(data', q) <=> IF q = pos THEN value ELSE Test(data, q)
    BY <1>0, <1>2, TestWithBit DEF Set
  <2>2. Bits' = IF value THEN Bits \cup {pos} ELSE Bits \ {pos}
    BY <1>2, <2>1 DEF Bits, Set
  <2>3. Leftover' = Leftover
    <3>1. Len(data') = Len(data)
      BY <1>0, <1>2 DEF Set, WithBit
    <3>2. \A q \in num_bits..(8 * Len(data) - 1) : Test(data', q) <=> Test(data, q)
      BY <1>0, <1>2, TestWithBit DEF Set
    <3>3. QED
      BY <1>2, <3>1, <3>2 DEF Leftover, Set
  <2>4. Abstract!Set(pos, value) /\ pos \in Abstract!Positions(num_bits)
    BY <1>2, <2>2, <2>3 DEF Set, Abstract!Set, Abstract!Positions
  <2>5. QED
    BY <2>4 DEF Abstract!Next
<1>3. ASSUME NEW pos \in 0..(num_bits - 1), FlipOne(pos)
      PROVE  Abstract!Next
  BY <1>2, <1>3 DEF FlipOne, Test
<1>4. CASE Flip
  <2>1. \A q \in 0..(num_bits - 1) : Test(data', q) <=> ~Test(data, q)
    BY <1>0, <1>4, TestRewritten DEF Flip
  <2>2. Bits' = (0..(num_bits - 1)) \ Bits
    BY <1>4, <2>1 DEF Bits, Flip
  <2>3. Leftover' = Leftover
    <3>1. Len(data') = Len(data)
      BY <1>0, <1>4 DEF Flip, Rewritten
    <3>2. \A q \in num_bits..(8 * Len(data) - 1) : Test(data', q) <=> Test(data, q)
      BY <1>0, <1>4, TestLeft DEF Flip
    <3>3. QED
      BY <1>4, <3>1, <3>2 DEF Leftover, Flip
  <2>4. Abstract!FlipAll
    BY <1>4, <2>2, <2>3 DEF Flip, Abstract!FlipAll, Abstract!Positions
  <2>5. QED
    BY <2>4 DEF Abstract!Next
<1>5. ASSUME NEW value \in BOOLEAN, SetAll(value)
      PROVE  Abstract!Next
  <2>1. \A q \in 0..(num_bits - 1) : Test(data', q) <=> value
    BY <1>0, <1>5, TestRewritten DEF SetAll
  <2>2. Bits' = IF value THEN 0..(num_bits - 1) ELSE {}
    BY <1>5, <2>1 DEF Bits, SetAll
  <2>3. Leftover' = Leftover
    <3>1. Len(data') = Len(data)
      BY <1>0, <1>5 DEF SetAll, Rewritten
    <3>2. \A q \in num_bits..(8 * Len(data) - 1) : Test(data', q) <=> Test(data, q)
      BY <1>0, <1>5, TestLeft DEF SetAll
    <3>3. QED
      BY <1>5, <3>1, <3>2 DEF Leftover, SetAll
  <2>4. Abstract!SetAll(value)
    BY <1>5, <2>2, <2>3 DEF SetAll, Abstract!SetAll, Abstract!Positions
  <2>5. QED
    BY <2>4 DEF Abstract!Next
<1>6. CASE Reset
  <2>1. Len(data') = Len(data)
    BY <1>0, <1>6 DEF Reset
  <2>2. \A q \in 0..(8 * Len(data) - 1) : ~Test(data', q)
    BY <1>0, <1>6, Address DEF Reset, Test
  <2>3. Bits' = {} /\ Leftover' = {}
    <3>1. UNCHANGED num_bits /\ (0..(num_bits - 1)) \subseteq 0..(8 * Len(data) - 1)
          /\ (num_bits..(8 * Len(data) - 1)) \subseteq 0..(8 * Len(data) - 1)
      BY <1>0, <1>6 DEF Reset
    <3>2. Bits' = {}
      BY <2>2, <3>1 DEF Bits
    <3>3. Leftover' = {}
      BY <2>1, <2>2, <3>1 DEF Leftover
    <3>4. QED
      BY <3>2, <3>3
  <2>4. Abstract!Reset
    BY <1>6, <2>3 DEF Reset, Abstract!Reset
  <2>5. QED
    BY <2>4 DEF Abstract!Next
<1>7. ASSUME NEW n \in Sizes, Resize(n)
      PROVE  Abstract!Next
  <2>1. /\ n \in Nat /\ NumBytes(n) \in Nat /\ n <= 8 * NumBytes(n) /\ num_bits' = n
        /\ data' = ResizedBytes(data, NumBytes(n))
    BY <1>7, NumBytesCovers DEF Resize
  <2>2. Len(data') = NumBytes(n)
    BY <2>1 DEF ResizedBytes
  <2>3. \A q \in 0..(8 * NumBytes(n) - 1) :
          Test(data', q) <=> q < 8 * Len(data) /\ Test(data, q)
    BY <1>0, <2>1, TestResized
  <2>4. \A q : q \in Bits \cup Leftover <=> q \in 0..(8 * Len(data) - 1) /\ Test(data, q)
    BY <1>0 DEF Bits, Leftover
  <2>5. \A q \in 0..(8 * NumBytes(n) - 1) : Test(data', q) <=> q \in Bits \cup Leftover
    BY <1>0, <2>1, <2>3, <2>4
  <2>6. Bits' = (Bits \cup Leftover) \cap (0..(n - 1))
    BY <2>1, <2>5 DEF Bits
  <2>7. Leftover' = (Bits \cup Leftover) \cap Abstract!Spare(n)
    <3>1. Leftover' = {q \in n..(8 * NumBytes(n) - 1) : Test(data', q)}
      BY <2>1, <2>2 DEF Leftover
    <3>2. QED
      BY <2>1, <2>5, <3>1, SpareIs
  <2>8. Abstract!Resize(n)
    BY <1>7, <2>6, <2>7 DEF Resize, Abstract!Resize, Abstract!Positions
  <2>9. QED
    BY <2>8 DEF Abstract!Next
<1>8. QED
  BY <1>1, <1>2, <1>3, <1>4, <1>5, <1>6, <1>7 DEF BitsetNext

\* The vector of bytes behaves as a set of positions (dynamic_bitset.h:63-270):
\* no operation disturbs a neighbouring bit, and the bits that a resize adds are
\* off, as dynamic_bitset.h:160 has it, but for those that the constructor's mask
\* or an earlier resize left on in the last byte.
THEOREM BitsetImplemented == BitsetSpec => ImplementsBitset
<1>1. BitsetInit => Abstract!Init
  BY DEF BitsetInit, Abstract!Init, Bits, Leftover
<1>2. StorageCovers /\ [BitsetNext]_bitVars => [Abstract!Next]_Abstract!bitsetVars
  <2>1. CASE BitsetNext
    BY <2>1, StepImplements
  <2>2. CASE UNCHANGED bitVars
    BY <2>2 DEF bitVars, Abstract!bitsetVars, Bits, Leftover, Test
  <2>3. QED
    BY <2>1, <2>2
<1>3. QED
  BY <1>1, <1>2, StorageAlwaysCovers, PTL DEF BitsetSpec, ImplementsBitset, Abstract!Spec
----------------------------------------------------------------------------
(* Side by side: each part rests while another is looked at.                *)

LEMMA OwnPartStays ==
  ASSUME [Next]_vars
  PROVE  /\ [BitsetNext]_bitVars /\ [MessageNext]_messageVars
         /\ part' = part
         /\ part # "serializer" => UNCHANGED messageVars
BY DEF Next, OwnNext, SharedNext, vars

\* The bitset behaves as a set of positions and its bytes cover its bits, in every
\* behaviour of the whole.
THEOREM BitsetPartImplemented == Spec => []StorageCovers /\ ImplementsBitset
<1>1. Spec => BitsetSpec
  <2>1. Init => BitsetInit
    BY DEF Init
  <2>2. [Next]_vars => [BitsetNext]_bitVars
    BY OwnPartStays
  <2>3. QED
    BY <2>1, <2>2, PTL DEF Spec, BitsetSpec
<1>2. QED
  BY <1>1, StorageAlwaysCovers, BitsetImplemented

\* Writer and reader are in step at every statement and the message arrives, in
\* every behaviour of the whole.
THEOREM SerializerPartInStep == Spec => [](InStep /\ MessageArrives)
<1> DEFINE I == IF part = "serializer" THEN IInv /\ ContentInv ELSE phase = "write"
<1>1. Init => I
  BY InitHolds, ContentInit DEF Init, MessageRests
<1>2. I /\ [Next]_vars => I'
  <2>1. CASE part = "serializer"
    BY <2>1, OwnPartStays, MessageStep, ContentStep
  <2>2. CASE part # "serializer"
    BY <2>2, OwnPartStays DEF messageVars
  <2>3. QED
    BY <2>1, <2>2
<1>3. I => InStep /\ MessageArrives
  <2>1. CASE part = "serializer"
    BY <2>1, ContentIsRight DEF IInv, InStep, Start
  <2>2. CASE part # "serializer"
    BY <2>2 DEF InStep, MessageArrives, IntegrityHolds, FieldsArrive,
                DroppedFieldIsDefault, Arrived
  <2>3. QED
    BY <2>1, <2>2
<1>4. QED
  BY <1>1, <1>2, <1>3, PTL DEF Spec
----------------------------------------------------------------------------
(* AlsaFrames: what the buffers hold *)

LEMMA PcmConstants ==
  ASSUME ComponentsAssumption
  PROVE  /\ buffer_size \in Nat /\ buffer_size > 0 /\ FrameBytes \in Nat /\ FrameBytes > 0
         /\ MaxPcm \in Nat /\ PcmKinds \subseteq {"play", "record", "duplex"}
BY DEF ComponentsAssumption, Pcm!PcmAssumption

LEMMA PcmNumbers ==
  ASSUME NEW last \in Nat, NEW n \in Nat
  PROVE  /\ Pcm!Numbers(last, n) \in Seq(Nat) /\ Pcm!Numbers(last, n) \in Seq(Int)
         /\ Len(Pcm!Numbers(last, n)) = n
         /\ \A i \in 1..n : Pcm!Numbers(last, n)[i] = last + i
BY DEF Pcm!Numbers

\* Whole multiples do not change what is left of a division.
LEMMA RestOfSum ==
  ASSUME NEW c \in Nat, c > 0, NEW q \in Nat, NEW j \in Nat
  PROVE  (q * c + j) % c = j % c /\ (q * c + j) \div c = q + (j \div c)
<1> DEFINE n == q * c + j
           a == n \div c
           b == q + (j \div c)
           r == n % c
           s == j % c
<1>1. n \in Nat
  OBVIOUS
<1>2. /\ a \in Nat /\ r \in Nat /\ r < c /\ a * c \in Nat /\ r = n - a * c
      /\ b \in Nat /\ s \in Nat /\ s < c /\ (j \div c) * c \in Nat /\ s = j - (j \div c) * c
  BY <1>1, Quotient
<1>3. b * c = q * c + (j \div c) * c
  BY <1>2, SumTimes
<1>4. a * c + r = b * c + s /\ a * c \in Nat /\ b * c \in Nat
  <2> DEFINE x == q * c
             y == (j \div c) * c
             z == a * c
  <2>1. x \in Nat /\ y \in Nat /\ z \in Nat /\ j \in Nat /\ n = x + j /\ r = n - z /\ s = j - y
        /\ b * c = x + y
    BY <1>2, <1>3
  <2> HIDE DEF x, y, z, n, r, s, b
  <2>2. z + r = b * c + s /\ z \in Nat /\ b * c \in Nat
    BY <2>1
  <2>3. QED
    BY <2>2 DEF z
<1> HIDE DEF n, a, b, r, s
<1>5. ~(a < b)
  <2> SUFFICES ASSUME a < b PROVE FALSE
    OBVIOUS
  <2>1. a + 1 \in Nat /\ a + 1 <= b
    BY <1>2
  <2>2. (a + 1) * c <= b * c /\ (a + 1) * c = a * c + c
    BY <1>2, <2>1, Monotone, NextMultiple
  <2>3. QED
    BY <1>2, <1>4, <2>2
<1>6. ~(b < a)
  <2> SUFFICES ASSUME b < a PROVE FALSE
    OBVIOUS
  <2>1. b + 1 \in Nat /\ b + 1 <= a
    BY <1>2
  <2>2. (b + 1) * c <= a * c /\ (b + 1) * c = b * c + c
    BY <1>2, <2>1, Monotone, NextMultiple
  <2>3. QED
    BY <1>2, <1>4, <2>2
<1>7. a = b
  BY <1>2, <1>5, <1>6
<1>8. r = s
  BY <1>2, <1>4, <1>7
<1>9. QED
  BY <1>7, <1>8 DEF n, r, s, a, b

LEMMA MultipleIs ==
  ASSUME NEW c \in Nat, c > 0, NEW q \in Nat
  PROVE  (q * c) % c = 0 /\ (q * c) \div c = q
<1>1. (q * c + 0) % c = 0 % c /\ (q * c + 0) \div c = q + (0 \div c)
  BY RestOfSum
<1>2. 0 % c = 0 /\ 0 \div c = 0 /\ q * c + 0 = q * c
  OBVIOUS
<1>3. QED
  BY <1>1, <1>2

\* The bytes of a frame lie within those of the frames it is placed among.
LEMMA FrameAt ==
  ASSUME NEW b \in Nat, b > 0, NEW m \in Nat, NEW at \in Nat, at < m * b
  PROVE  at \div b + 1 \in 1..m
<1> DEFINE q == at \div b
<1>1. q \in Nat /\ q * b \in Nat /\ at = q * b + (at % b) /\ at % b \in Nat
  <2>1. q \in Nat /\ at % b \in Nat /\ q * b \in Nat /\ at % b = at - q * b
    BY Quotient
  <2> HIDE DEF q
  <2>2. QED
    BY <2>1
<1> HIDE DEF q
<1>2. q * b < m * b
  <2>1. m * b \in Nat
    OBVIOUS
  <2>2. QED
    BY <1>1, <2>1
<1>3. q < m
  BY <1>1, <1>2, LessFactor
<1>4. QED
  BY <1>1, <1>3 DEF q

LEMMA FrameBefore ==
  ASSUME NEW b \in Nat, b > 0, NEW k \in Nat, NEW i \in Nat, (i - 1) * b - k + b <= 0
  PROVE  i <= k
<1> DEFINE x == i * b
           y == k * b
           z == (k + 1) * b
           w == (i - 1) * b
<1>1. w = x - b /\ z = y + b /\ x \in Nat /\ y \in Nat /\ y >= k
  <2>1. w = x - b /\ z = y + b
    BY NextMultiple
  <2>2. PICK c \in Nat : b = c + 1
    <3>1. b - 1 \in Nat /\ b = (b - 1) + 1
      OBVIOUS
    <3>2. QED
      BY <3>1
  <2>3. k * b = k * c + k /\ k * c \in Nat
    BY <2>2
  <2>4. x \in Nat /\ y \in Nat
    BY ProductIsNat
  <2>5. QED
    BY <2>1, <2>3, <2>4
<1>2. w - k + b <= 0
  OBVIOUS
<1>3. x < z
  <2> HIDE DEF x, y, z, w
  <2>1. QED
    BY <1>1, <1>2
<1>4. i < k + 1
  BY <1>3, LessFactor
<1>5. QED
  BY <1>4

LEMMA PlacedIs ==
  ASSUME ComponentsAssumption, NEW old \in Seq(Int), NEW new \in Seq(Int)
  PROVE  /\ Pcm!Placed(old, new) \in Seq(Int)
         /\ Len(Pcm!Placed(old, new)) = Len(old) + Len(new)
<1> DEFINE k == Len(old)
           m == Len(new)
           At(i) == (i - 1) * FrameBytes - k
           Entry(i) ==
             IF new = <<>> \/ At(i) + FrameBytes <= 0 THEN old[i]
             ELSE IF At(i) >= m * FrameBytes THEN IF i <= k THEN old[i] ELSE Pcm!Torn
             ELSE IF At(i) >= 0 /\ At(i) % FrameBytes = 0 THEN new[At(i) \div FrameBytes + 1]
             ELSE Pcm!Torn
<1>1. /\ k \in Nat /\ m \in Nat /\ FrameBytes \in Nat /\ FrameBytes > 0
      /\ \A i \in 1..k : old[i] \in Int /\ \A j \in 1..m : new[j] \in Int
      /\ Pcm!Torn \in Int /\ (new = <<>> => m = 0)
  BY PcmConstants DEF Pcm!Torn
<1>2. ASSUME NEW i \in 1..(k + m) PROVE Entry(i) \in Int
  <2>1. At(i) \in Int /\ i \in Nat
    <3>1. i \in Nat /\ (i - 1) * FrameBytes \in Int
      BY <1>1
    <3>2. QED
      BY <1>1, <3>1
  <2>2. CASE new = <<>>
    <3>1. i \in 1..k
      BY <1>1, <2>2
    <3>2. QED
      BY <1>1, <2>2, <3>1
  <2>3. CASE new # <<>> /\ At(i) + FrameBytes <= 0
    <3>1. i <= k
      BY <1>1, <2>1, <2>3, FrameBefore
    <3>2. i \in 1..k
      BY <1>1, <3>1
    <3>3. Entry(i) = old[i]
      BY <2>3
    <3>4. QED
      BY <1>1, <3>2, <3>3
  <2>4. CASE new # <<>> /\ ~(At(i) + FrameBytes <= 0) /\ At(i) >= m * FrameBytes
    <3>1. Entry(i) = IF i <= k THEN old[i] ELSE Pcm!Torn
      BY <2>4
    <3>2. QED
      BY <1>1, <3>1
  <2>5. CASE /\ new # <<>> /\ ~(At(i) + FrameBytes <= 0) /\ ~(At(i) >= m * FrameBytes)
             /\ At(i) >= 0 /\ At(i) % FrameBytes = 0
    <3>1. At(i) \in Nat /\ At(i) < m * FrameBytes
      <4>1. m * FrameBytes \in Nat
        BY <1>1
      <4> HIDE DEF At
      <4>2. QED
        BY <2>1, <2>5, <4>1
    <3>2. Entry(i) = new[At(i) \div FrameBytes + 1]
      BY <2>5
    <3> HIDE DEF At, Entry
    <3>3. At(i) \div FrameBytes + 1 \in 1..m
      BY <1>1, <3>1, FrameAt
    <3>4. QED
      BY <1>1, <3>2, <3>3
  <2>6. CASE /\ new # <<>> /\ ~(At(i) + FrameBytes <= 0) /\ ~(At(i) >= m * FrameBytes)
             /\ ~(At(i) >= 0 /\ At(i) % FrameBytes = 0)
    BY <1>1, <2>6
  <2>7. QED
    BY <2>2, <2>3, <2>4, <2>5, <2>6
<1>3. Pcm!Placed(old, new) = [i \in 1..(k + m) |-> Entry(i)]
  BY DEF Pcm!Placed
<1> HIDE DEF Entry, k, m
<1>4. k + m \in Nat
  BY <1>1
<1>5. [i \in 1..(k + m) |-> Entry(i)] \in Seq(Int)
      /\ Len([i \in 1..(k + m) |-> Entry(i)]) = k + m
  <2> DEFINE n == k + m
             s == [i \in 1..n |-> Entry(i)]
  <2>1. \A i \in 1..n : Entry(i) \in Int
    BY <1>2
  <2>2. n \in Nat
    BY <1>4
  <2> HIDE DEF n
  <2>3. s \in Seq(Int) /\ Len(s) = n
    BY <2>1, <2>2
  <2>4. QED
    BY <2>3 DEF n
<1>6. QED
  BY <1>3, <1>5 DEF k, m

\* Behind no frame at all, bytes and frames are the same.
LEMMA PlacedFirst ==
  ASSUME ComponentsAssumption, NEW new \in Seq(Int)
  PROVE  Pcm!Placed(<<>>, new) = new
<1> DEFINE m == Len(new)
           At(i) == (i - 1) * FrameBytes - 0
           Entry(i) ==
             IF new = <<>> \/ At(i) + FrameBytes <= 0 THEN <<>>[i]
             ELSE IF At(i) >= m * FrameBytes THEN IF i <= 0 THEN <<>>[i] ELSE Pcm!Torn
             ELSE IF At(i) >= 0 /\ At(i) % FrameBytes = 0 THEN new[At(i) \div FrameBytes + 1]
             ELSE Pcm!Torn
<1>1. m \in Nat /\ FrameBytes \in Nat /\ FrameBytes > 0 /\ new = [i \in 1..m |-> new[i]]
  BY PcmConstants
<1>2. ASSUME NEW i \in 1..m PROVE Entry(i) = new[i]
  <2>1. PICK j \in 0..(m - 1) : i = j + 1
    <3>1. i - 1 \in 0..(m - 1) /\ i = (i - 1) + 1
      BY <1>1
    <3>2. QED
      BY <3>1
  <2>2. At(i) = j * FrameBytes /\ j * FrameBytes \in Nat
    <3>1. j \in Nat /\ i - 1 = j
      BY <1>1, <2>1
    <3>2. j * FrameBytes \in Nat
      BY <1>1, <3>1, ProductIsNat
    <3>3. At(i) = j * FrameBytes - 0
      BY <3>1
    <3> HIDE DEF At
    <3>4. QED
      BY <3>2, <3>3
  <2>3. new # <<>>
    BY <1>1
  <2>4. j * FrameBytes < m * FrameBytes
    <3>1. PICK d \in Nat : m = j + 1 + d
      <4>1. m - (j + 1) \in Nat /\ m = j + 1 + (m - (j + 1))
        BY <1>1
      <4>2. QED
        BY <4>1
    <3>2. m * FrameBytes = j * FrameBytes + FrameBytes + d * FrameBytes /\ d * FrameBytes \in Nat
      BY <1>1, <3>1, SMTT(40)
    <3>3. QED
      BY <1>1, <2>2, <3>2
  <2>5. (j * FrameBytes) % FrameBytes = 0 /\ (j * FrameBytes) \div FrameBytes = j
    <3>1. j \in Nat
      BY <1>1
    <3>2. QED
      BY <1>1, <3>1, MultipleIs
  <2> HIDE DEF At
  <2>6. ~(At(i) + FrameBytes <= 0) /\ ~(At(i) >= m * FrameBytes)
        /\ At(i) >= 0 /\ At(i) % FrameBytes = 0 /\ At(i) \div FrameBytes + 1 = i
    <3>1. m * FrameBytes \in Nat
      BY <1>1
    <3>2. At(i) \in Nat /\ At(i) < m * FrameBytes /\ At(i) % FrameBytes = 0 /\ At(i) \div FrameBytes = j
      BY <2>2, <2>4, <2>5
    <3>3. ~(At(i) + FrameBytes <= 0) /\ ~(At(i) >= m * FrameBytes) /\ At(i) >= 0
      BY ONLY <1>1, <3>1, <3>2
    <3>4. QED
      BY <2>1, <3>2, <3>3
  <2>7. QED
    BY <2>3, <2>6
<1>3. Pcm!Placed(<<>>, new) = [i \in 1..(0 + m) |-> Entry(i)]
  BY DEF Pcm!Placed
<1> HIDE DEF Entry
<1>4. 0 + m = m
  BY <1>1
<1>5. [i \in 1..(0 + m) |-> Entry(i)] = [i \in 1..m |-> new[i]]
  BY <1>2, <1>4
<1>6. QED
  BY <1>1, <1>3, <1>5

\* What stays of a buffer, and what of it is given.
LEMMA WithoutIs ==
  ASSUME NEW buf \in Seq(Int), NEW n \in 0..Len(buf)
  PROVE  /\ Pcm!Without(buf, n) \in Seq(Int) /\ Len(Pcm!Without(buf, n)) = Len(buf) - n
         /\ \A i \in 1..(Len(buf) - n) : Pcm!Without(buf, n)[i] = buf[n + i]
         /\ SubSeq(buf, 1, n) \in Seq(Int) /\ Len(SubSeq(buf, 1, n)) = n
         /\ \A i \in 1..n : SubSeq(buf, 1, n)[i] = buf[i]
<1>1. Len(buf) \in Nat /\ n \in Nat /\ n <= Len(buf)
  OBVIOUS
<1>2. /\ SubSeq(buf, 1, n) \in Seq(Int) /\ Len(SubSeq(buf, 1, n)) = n
      /\ \A i \in 1..n : SubSeq(buf, 1, n)[i] = buf[i]
  BY <1>1
<1>3. /\ SubSeq(buf, n + 1, Len(buf)) \in Seq(Int) /\ Len(SubSeq(buf, n + 1, Len(buf))) = Len(buf) - n
      /\ \A i \in 1..(Len(buf) - n) : SubSeq(buf, n + 1, Len(buf))[i] = buf[n + i]
  BY <1>1
<1>4. QED
  BY <1>2, <1>3 DEF Pcm!Without

LEMMA WithoutNone ==
  ASSUME NEW buf \in Seq(Int) PROVE Pcm!Without(buf, 0) = buf /\ SubSeq(buf, 1, 0) = <<>>
<1>1. Len(buf) \in Nat /\ SubSeq(buf, 1, 0) = <<>>
  OBVIOUS
<1>2. SubSeq(buf, 1, Len(buf)) = buf
  BY <1>1
<1>3. 0 + 1 = 1
  OBVIOUS
<1>4. QED
  BY <1>1, <1>2, <1>3 DEF Pcm!Without

\* The frames of buf were read up to read, in order, after the one numbered given.
Ordered(buf, given, read) ==
  /\ Pcm!Follows(buf, given) /\ given <= read
  /\ \A i \in 1..Len(buf) : buf[i] <= read

\* Giving some frames to the callback, which takes some of them.
LEMMA OrderedGiven ==
  ASSUME NEW buf \in Seq(Int), NEW given \in Int, NEW read \in Int, Ordered(buf, given, read),
         NEW n \in 0..Len(buf), NEW took \in 0..n
  PROVE  LET input == SubSeq(buf, 1, n) IN
         /\ Pcm!Follows(input, given)
         /\ Ordered(Pcm!Without(buf, took), IF took = 0 THEN given ELSE input[took], read)
<1> DEFINE input == SubSeq(buf, 1, n)
           rest == Pcm!Without(buf, took)
           after == IF took = 0 THEN given ELSE input[took]
<1>1. Len(buf) \in Nat /\ n \in Nat /\ took \in Nat /\ n <= Len(buf) /\ took <= n
      /\ took \in 0..Len(buf)
  OBVIOUS
<1>2. /\ input \in Seq(Int) /\ Len(input) = n /\ \A i \in 1..n : input[i] = buf[i]
      /\ rest \in Seq(Int) /\ Len(rest) = Len(buf) - took
      /\ \A i \in 1..(Len(buf) - took) : rest[i] = buf[took + i]
  BY <1>1, WithoutIs
<1>3. /\ \A i \in 1..Len(buf) : buf[i] > IF i = 1 THEN given ELSE buf[i - 1]
      /\ given <= read /\ \A i \in 1..Len(buf) : buf[i] <= read
  BY DEF Ordered, Pcm!Follows
<1> HIDE DEF input, rest
<1>4. Pcm!Follows(input, given)
  <2> SUFFICES ASSUME NEW i \in 1..n PROVE input[i] > IF i = 1 THEN given ELSE input[i - 1]
    BY <1>2 DEF Pcm!Follows
  <2>1. i \in 1..Len(buf) /\ input[i] = buf[i] /\ (i # 1 => input[i - 1] = buf[i - 1])
    <3>1. i \in 1..Len(buf) /\ (i # 1 => i - 1 \in 1..n)
      BY <1>1
    <3>2. QED
      BY <1>2, <3>1
  <2>2. QED
    BY <1>3, <2>1
<1>5. after <= read
  BY <1>1, <1>2, <1>3
<1>6. \A i \in 1..Len(rest) : rest[i] <= read
  <2> SUFFICES ASSUME NEW i \in 1..(Len(buf) - took) PROVE rest[i] <= read
    BY <1>2
  <2>1. took + i \in 1..Len(buf)
    BY <1>1
  <2>2. QED
    BY <1>2, <1>3, <2>1
<1>7. Pcm!Follows(rest, after)
  <2> SUFFICES ASSUME NEW i \in 1..(Len(buf) - took)
               PROVE  rest[i] > IF i = 1 THEN after ELSE rest[i - 1]
    BY <1>2 DEF Pcm!Follows
  <2>1. took + i \in 1..Len(buf) /\ rest[i] = buf[took + i]
    BY <1>1, <1>2, SMTT(40)
  <2>2. CASE i # 1
    <3>1. i - 1 \in 1..(Len(buf) - took) /\ took + (i - 1) = (took + i) - 1 /\ took + i # 1
      BY <1>1, <2>2
    <3>2. rest[i - 1] = buf[(took + i) - 1]
      BY <1>2, <3>1
    <3>3. QED
      BY <1>3, <2>1, <2>2, <3>1, <3>2
  <2>3. CASE i = 1 /\ took = 0
    BY <1>1, <1>3, <2>1, <2>3
  <2>4. CASE i = 1 /\ took # 0
    <3>1. took \in 1..n /\ (took + 1) - 1 = took /\ took + 1 # 1
      BY <1>1, <2>4
    <3>2. after = buf[(took + i) - 1]
      BY <1>2, <2>4, <3>1
    <3>3. QED
      BY <1>3, <2>1, <2>4, <3>1, <3>2
  <2>5. QED
    BY <2>2, <2>3, <2>4
<1>8. QED
  BY <1>4, <1>5, <1>6, <1>7 DEF Ordered, input, rest

\* What the invariant says of a stream that records, and of one that plays.
RecorderFits(r) ==
  /\ r \in Pcm!Recorders /\ Len(r.buf) <= buffer_size /\ r.state \in {"RUNNING", "ERROR"}
  /\ (r.left \/ r.whole)
  /\ ~r.left => Ordered(r.buf, r.given, r.read)

\* The same of the state it has after a read, and what it then holds.
RecorderHolds(r, buf) ==
  /\ r \in Pcm!Recorders /\ (r.left \/ r.whole)
  /\ buf \in Seq(Int) /\ Len(buf) <= buffer_size
  /\ ~r.left => Ordered(buf, r.given, r.read)

LEMMA RecorderHas ==
  ASSUME NEW r, NEW buf, RecorderHolds(r, buf), NEW state \in {"RUNNING", "ERROR"}
  PROVE  RecorderFits([r EXCEPT !.buf = buf, !.state = state])
<1> DEFINE q == [r EXCEPT !.buf = buf, !.state = state]
<1>1. /\ q \in Pcm!Recorders
      /\ q.buf = buf /\ q.state = state /\ q.read = r.read /\ q.given = r.given
      /\ q.left = r.left /\ q.whole = r.whole
  <2>1. r \in Pcm!Recorders /\ buf \in Seq(Int)
    BY DEF RecorderHolds
  <2>2. QED
    BY <2>1 DEF Pcm!Recorders, Pcm!States
<1> HIDE DEF q
<1>2. RecorderFits(q)
  BY <1>1 DEF RecorderFits, RecorderHolds
<1>3. QED
  BY <1>2 DEF q

LEMMA RecorderGives ==
  ASSUME ComponentsAssumption, NEW r, NEW buf, RecorderHolds(r, buf),
         NEW n \in 0..Len(buf), NEW took \in 0..n, NEW state \in {"RUNNING", "ERROR"}
  PROVE  RecorderFits([Pcm!Given(r, SubSeq(buf, 1, n), took) EXCEPT
                         !.buf = Pcm!Without(buf, took), !.state = state])
<1>1. /\ r \in Pcm!Recorders /\ (r.left \/ r.whole)
      /\ buf \in Seq(Int) /\ Len(buf) <= buffer_size /\ buffer_size \in Nat
      /\ ~r.left => Ordered(buf, r.given, r.read)
  BY PcmConstants DEF RecorderHolds
<1>2. r \in Pcm!Recorders
  BY <1>1
<1> DEFINE input == SubSeq(buf, 1, n)
           rest == Pcm!Without(buf, took)
           after == IF took = 0 THEN r.given ELSE input[took]
           q == [Pcm!Given(r, input, took) EXCEPT !.buf = rest, !.state = state]
<1>3. Len(buf) \in Nat /\ n \in Nat /\ took \in Nat /\ n <= Len(buf) /\ took <= n
      /\ took \in 0..Len(buf)
  BY <1>1
<1>4. /\ input \in Seq(Int) /\ Len(input) = n
      /\ rest \in Seq(Int) /\ Len(rest) = Len(buf) - took
  BY <1>1, <1>3, WithoutIs
<1>5. r.given \in Int /\ r.read \in Nat /\ r.left \in BOOLEAN /\ r.whole \in BOOLEAN
  BY <1>2 DEF Pcm!Recorders
<1>6. after \in Int
  <2> HIDE DEF input
  <2>1. took # 0 => took \in 1..Len(input)
    BY <1>3, <1>4
  <2>2. QED
    BY <1>4, <1>5, <2>1
<1>7. ~r.left => Pcm!Follows(input, r.given) /\ Ordered(rest, after, r.read)
  <2>1. CASE ~r.left
    BY <1>1, <1>5, <2>1, OrderedGiven
  <2>2. QED
    BY <2>1
<1> DEFINE w == r.whole /\ Pcm!Follows(input, r.given)
           s == r.short \/ took < Len(input)
<1>8. /\ Pcm!Given(r, input, took) = [r EXCEPT !.given = after, !.short = s, !.whole = w]
      /\ w \in BOOLEAN /\ s \in BOOLEAN
  BY Zenon DEF Pcm!Given
<1> HIDE DEF rest, input, after, w, s
<1>9. /\ q \in Pcm!Recorders
      /\ q.buf = rest /\ q.state = state /\ q.read = r.read /\ q.given = after /\ q.left = r.left
      /\ q.whole = w
  BY <1>2, <1>4, <1>6, <1>8 DEF Pcm!Recorders, Pcm!States
<1> HIDE DEF q
<1>10. q.whole <=> r.whole /\ Pcm!Follows(input, r.given)
  BY <1>9 DEF w
<1>11. Len(rest) <= buffer_size
  BY <1>1, <1>3, <1>4
<1>12. RecorderFits(q)
  BY <1>1, <1>7, <1>9, <1>10, <1>11 DEF RecorderFits
<1>13. QED
  BY <1>12 DEF q, rest, input

PlayerFits(k, p) ==
  /\ p \in Pcm!Players /\ Len(p.buf) <= buffer_size
  /\ k = "play" => Numbers(p.buf, p.heard, p.made)
  /\ p.state # "ERROR" => (p.state = "DRAINING" <=> p.short)

PcmFits ==
  v1 \in PcmKinds /\ PlayerFits(v1, v2) /\ RecorderFits(v3)

\* What a read leaves in the buffer: the room suffices, and what is there is in
\* order when nothing was left.
LEMMA RecorderReads ==
  ASSUME ComponentsAssumption, RecorderFits(v3), NEW avail \in 1..buffer_size,
         NEW got \in -1..avail
  PROVE  LET old == Pcm!Kept(avail)
             buf == IF got < 0 THEN old ELSE Pcm!Placed(old, Pcm!Numbers(v3.read, got))
             r == [v3 EXCEPT !.read = IF got < 0 THEN @ ELSE @ + got,
                             !.left = @ \/ old # <<>>]
         IN RecorderHolds(r, buf)
<1> DEFINE old == Pcm!Kept(avail)
           new == Pcm!Numbers(v3.read, got)
           buf == IF got < 0 THEN old ELSE Pcm!Placed(old, new)
           read == IF got < 0 THEN v3.read ELSE v3.read + got
           left == v3.left \/ old # <<>>
           r == [v3 EXCEPT !.read = read, !.left = left]
<1>1. /\ v3 \in Pcm!Recorders /\ v3.buf \in Seq(Int) /\ Len(v3.buf) \in Nat
      /\ Len(v3.buf) <= buffer_size /\ (v3.left \/ v3.whole)
      /\ v3.read \in Nat /\ v3.given \in Int /\ v3.left \in BOOLEAN /\ v3.whole \in BOOLEAN
      /\ ~v3.left => Ordered(v3.buf, v3.given, v3.read)
  BY DEF RecorderFits, Pcm!Recorders
<1>2. buffer_size \in Nat /\ avail \in Nat /\ avail <= buffer_size /\ got \in Int /\ got <= avail
      /\ (~(got < 0) => got \in Nat)
  BY PcmConstants
<1>3. old \in Seq(Int) /\ Len(old) \in Nat /\ Len(old) + avail <= buffer_size
  <2>1. CASE avail + Len(v3.buf) > buffer_size
    <3>1. old = <<>>
      BY <2>1 DEF Pcm!Kept
    <3>2. QED
      BY <1>2, <3>1
  <2>2. CASE ~(avail + Len(v3.buf) > buffer_size)
    <3>1. old = v3.buf
      BY <2>2 DEF Pcm!Kept
    <3>2. QED
      BY <1>1, <1>2, <2>2, <3>1
  <2>3. QED
    BY <2>1, <2>2
<1>4. buf \in Seq(Int) /\ Len(buf) <= buffer_size
  <2>1. CASE got < 0
    <3>1. buf = old
      BY <2>1
    <3>2. QED
      BY <1>2, <1>3, <3>1
  <2>2. CASE ~(got < 0)
    <3>1. buf = Pcm!Placed(old, new)
      BY <2>2
    <3>2. new \in Seq(Int) /\ Len(new) = got
      BY <1>1, <1>2, <2>2, PcmNumbers
    <3> HIDE DEF buf, old, new
    <3>3. buf \in Seq(Int) /\ Len(buf) = Len(old) + Len(new)
      BY <1>3, <3>1, <3>2, PlacedIs
    <3>4. QED
      BY <1>2, <1>3, <3>2, <3>3
  <2>3. QED
    BY <2>1, <2>2
<1>5. read \in Nat /\ left \in BOOLEAN
  BY <1>1, <1>2
<1>6. r \in Pcm!Recorders /\ r.read = read /\ r.left = left /\ r.given = v3.given /\ r.whole = v3.whole
  <2> HIDE DEF read, left
  <2>1. QED
    BY <1>1, <1>5 DEF Pcm!Recorders
<1>7. r = [v3 EXCEPT !.read = IF got < 0 THEN @ ELSE @ + got, !.left = @ \/ old # <<>>]
  BY Zenon
<1>8. ASSUME ~left PROVE Ordered(buf, v3.given, read)
  <2>1. ~v3.left /\ old = <<>>
    BY <1>8
  <2>2. v3.given <= v3.read
    BY <1>1, <2>1 DEF Ordered
  <2>3. CASE got < 0
    BY <1>1, <2>1, <2>2, <2>3 DEF Ordered, Pcm!Follows
  <2>4. CASE ~(got < 0)
    <3>1. new \in Seq(Int) /\ Len(new) = got /\ \A i \in 1..got : new[i] = v3.read + i
      BY <1>1, <1>2, <2>4, PcmNumbers
    <3> HIDE DEF new
    <3>2. buf = new
      BY <2>1, <2>4, <3>1, PlacedFirst
    <3>3. read = v3.read + got
      BY <2>4
    <3> HIDE DEF buf, read
    <3>4. \A i \in 1..got : new[i] <= read
      BY <1>1, <1>2, <2>4, <3>1, <3>3
    <3>5. \A i \in 1..got : new[i] > IF i = 1 THEN v3.given ELSE new[i - 1]
      <4> SUFFICES ASSUME NEW i \in 1..got
                   PROVE  new[i] > IF i = 1 THEN v3.given ELSE new[i - 1]
        OBVIOUS
      <4>1. CASE i = 1
        BY <1>1, <2>2, <3>1, <4>1
      <4>2. CASE i # 1
        <5>1. i - 1 \in 1..got
          BY <1>2, <4>2
        <5>2. new[i] = v3.read + i /\ new[i - 1] = v3.read + (i - 1)
          BY <3>1, <5>1
        <5>3. QED
          BY <1>1, <4>2, <5>2
      <4>3. QED
        BY <4>1, <4>2
    <3>6. v3.given <= read
      BY <1>1, <1>2, <2>2, <2>4, <3>3
    <3>7. QED
      BY <3>1, <3>2, <3>4, <3>5, <3>6 DEF Ordered, Pcm!Follows
  <2>5. QED
    BY <2>3, <2>4
<1> HIDE DEF old, new, buf, read, left, r
<1>9. (r.left \/ r.whole) /\ (~r.left => Ordered(buf, r.given, r.read))
  <2>1. v3.left => left
    BY DEF left
  <2>2. QED
    BY <1>1, <1>6, <1>8, <2>1
<1>10. QED
  BY <1>4, <1>6, <1>7, <1>9 DEF RecorderHolds, old, new, buf

\* alsa_process_stream of a stream that records.
LEMMA PcmCaptures ==
  ASSUME ComponentsAssumption, PcmFits, Pcm!Capture PROVE PcmFits'
<1>1. /\ PlayerFits(v1, v2) /\ RecorderFits(v3) /\ v1' = v1 /\ v1 \in PcmKinds /\ v1 # "play"
      /\ v2 \in Pcm!Players /\ v2.buf \in Seq(Int) /\ Len(v2.buf) \in Nat /\ Len(v2.buf) <= buffer_size
      /\ v2.made \in Nat /\ buffer_size \in Nat
  <2>1. PlayerFits(v1, v2) /\ RecorderFits(v3) /\ v1 \in PcmKinds
    BY DEF PcmFits
  <2>2. v1' = v1 /\ v1 # "play"
    BY Zenon DEF Pcm!Capture, Pcm!Records
  <2>3. v2 \in Pcm!Players /\ Len(v2.buf) <= buffer_size
    BY <2>1 DEF PlayerFits
  <2>4. v2.buf \in Seq(Int) /\ Len(v2.buf) \in Nat /\ v2.made \in Nat /\ buffer_size \in Nat
    BY <2>3, PcmConstants DEF Pcm!Players
  <2>5. QED
    BY <2>1, <2>2, <2>3, <2>4
<1>2. PICK avail \in 1..buffer_size : \E got \in -1..Pcm!Less(avail, MaxPcm - v3.read) :
       LET old == Pcm!Kept(avail)
           buf == IF got < 0 THEN old ELSE Pcm!Placed(old, Pcm!Numbers(v3.read, got))
           n   == Pcm!Offered(Len(buf))
           r   == [v3 EXCEPT !.read = IF got < 0 THEN @ ELSE @ + got, !.left = @ \/ old # <<>>]
           input == SubSeq(buf, 1, n)
       IN \/ /\ n = 0
             /\ \E state \in Pcm!Recovered(got < 0, "RUNNING") :
                  v3' = [r EXCEPT !.buf = buf, !.state = state]
             /\ UNCHANGED v2
          \/ /\ n > 0
             /\ v3' = [Pcm!Given(r, input, 0) EXCEPT !.buf = buf, !.state = "ERROR"]
             /\ UNCHANGED v2
          \/ \E took \in 0..n, state \in Pcm!Recovered(got < 0, "RUNNING") :
               /\ n > 0 /\ (Pcm!Duplex => v2.made + took <= MaxPcm)
               /\ v3' = [Pcm!Given(r, input, took) EXCEPT !.buf = Pcm!Without(buf, took),
                                                         !.state = state]
               /\ v2' = IF ~Pcm!Duplex THEN v2
                        ELSE [v2 EXCEPT !.buf = Pcm!Placed(@, Pcm!Numbers(v2.made, took)),
                                        !.made = @ + took]
  BY ZenonT(60) DEF Pcm!Capture
<1>3. PICK got \in -1..Pcm!Less(avail, MaxPcm - v3.read) :
       LET old == Pcm!Kept(avail)
           buf == IF got < 0 THEN old ELSE Pcm!Placed(old, Pcm!Numbers(v3.read, got))
           n   == Pcm!Offered(Len(buf))
           r   == [v3 EXCEPT !.read = IF got < 0 THEN @ ELSE @ + got, !.left = @ \/ old # <<>>]
           input == SubSeq(buf, 1, n)
       IN \/ /\ n = 0
             /\ \E state \in Pcm!Recovered(got < 0, "RUNNING") :
                  v3' = [r EXCEPT !.buf = buf, !.state = state]
             /\ UNCHANGED v2
          \/ /\ n > 0
             /\ v3' = [Pcm!Given(r, input, 0) EXCEPT !.buf = buf, !.state = "ERROR"]
             /\ UNCHANGED v2
          \/ \E took \in 0..n, state \in Pcm!Recovered(got < 0, "RUNNING") :
               /\ n > 0 /\ (Pcm!Duplex => v2.made + took <= MaxPcm)
               /\ v3' = [Pcm!Given(r, input, took) EXCEPT !.buf = Pcm!Without(buf, took),
                                                         !.state = state]
               /\ v2' = IF ~Pcm!Duplex THEN v2
                        ELSE [v2 EXCEPT !.buf = Pcm!Placed(@, Pcm!Numbers(v2.made, took)),
                                        !.made = @ + took]
  BY <1>2
<1> DEFINE old == Pcm!Kept(avail)
           buf == IF got < 0 THEN old ELSE Pcm!Placed(old, Pcm!Numbers(v3.read, got))
           n == Pcm!Offered(Len(buf))
           r == [v3 EXCEPT !.read = IF got < 0 THEN @ ELSE @ + got, !.left = @ \/ old # <<>>]
           input == SubSeq(buf, 1, n)
<1>4. got \in -1..avail
  <2>1. avail \in Nat /\ MaxPcm - v3.read \in Int
    BY <1>1, PcmConstants DEF RecorderFits, Pcm!Recorders
  <2>2. Pcm!Less(avail, MaxPcm - v3.read) \in Int /\ Pcm!Less(avail, MaxPcm - v3.read) <= avail
    BY <2>1 DEF Pcm!Less
  <2>3. QED
    BY <2>1, <2>2
<1>5. RecorderHolds(r, buf)
  BY <1>1, <1>4, RecorderReads, ZenonT(60)
<1> DEFINE Skips ==
             /\ n = 0
             /\ \E state \in Pcm!Recovered(got < 0, "RUNNING") :
                  v3' = [r EXCEPT !.buf = buf, !.state = state]
             /\ UNCHANGED v2
           Fails ==
             /\ n > 0
             /\ v3' = [Pcm!Given(r, input, 0) EXCEPT !.buf = buf, !.state = "ERROR"]
             /\ UNCHANGED v2
           Gives ==
             \E took \in 0..n, state \in Pcm!Recovered(got < 0, "RUNNING") :
               /\ n > 0 /\ (Pcm!Duplex => v2.made + took <= MaxPcm)
               /\ v3' = [Pcm!Given(r, input, took) EXCEPT !.buf = Pcm!Without(buf, took),
                                                         !.state = state]
               /\ v2' = IF ~Pcm!Duplex THEN v2
                        ELSE [v2 EXCEPT !.buf = Pcm!Placed(@, Pcm!Numbers(v2.made, took)),
                                        !.made = @ + took]
<1>6. Skips \/ Fails \/ Gives
  BY <1>3
<1>7. \A s \in Pcm!Recovered(got < 0, "RUNNING") : s \in {"RUNNING", "ERROR"}
  BY DEF Pcm!Recovered
<1> HIDE DEF old, buf, r
<1>8. /\ n \in 0..Len(buf) /\ Len(buf) \in Nat
      /\ Pcm!Duplex => n <= buffer_size - Len(v2.buf)
  <2>1. Len(buf) \in Nat
    BY <1>5 DEF RecorderHolds
  <2>2. CASE Pcm!Duplex
    <3>1. n = IF Len(buf) < buffer_size - Len(v2.buf) THEN Len(buf) ELSE buffer_size - Len(v2.buf)
      BY <2>2 DEF Pcm!Offered, Pcm!Less
    <3> HIDE DEF n
    <3>2. n \in 0..Len(buf) /\ n <= buffer_size - Len(v2.buf)
      <4> DEFINE a == Len(buf)
                 b == Len(v2.buf)
      <4>1. a \in Nat /\ b \in Nat /\ b <= buffer_size /\ buffer_size \in Nat
        BY <1>1, <2>1
      <4>2. n = IF a < buffer_size - b THEN a ELSE buffer_size - b
        BY <3>1
      <4> HIDE DEF a, b
      <4>3. n \in 0..a /\ n <= buffer_size - b
        BY ONLY <4>1, <4>2
      <4>4. QED
        BY <4>3 DEF a, b
    <3>3. QED
      BY <2>1, <3>2
  <2>3. CASE ~Pcm!Duplex
    BY <2>1, <2>3, SMTT(40) DEF Pcm!Offered
  <2>4. QED
    BY <2>2, <2>3
<1> HIDE DEF n
<1>9. RecorderFits(v3')
  <2>1. CASE Skips
    <3>1. PICK s \in Pcm!Recovered(got < 0, "RUNNING") : v3' = [r EXCEPT !.buf = buf, !.state = s]
      BY <2>1
    <3>2. RecorderFits([r EXCEPT !.buf = buf, !.state = s])
      BY <1>5, <1>7, RecorderHas
    <3>3. QED
      BY <3>1, <3>2
  <2>2. CASE Fails
    <3>1. 0 \in 0..n /\ Pcm!Without(buf, 0) = buf
      BY <1>5, <1>8, WithoutNone DEF RecorderHolds
    <3>2. RecorderFits([Pcm!Given(r, SubSeq(buf, 1, n), 0) EXCEPT
                          !.buf = Pcm!Without(buf, 0), !.state = "ERROR"])
      BY <1>5, <1>8, <3>1, RecorderGives
    <3>3. QED
      BY <2>2, <3>1, <3>2
  <2>3. CASE Gives
    <3>1. PICK took \in 0..n, s \in Pcm!Recovered(got < 0, "RUNNING") :
            v3' = [Pcm!Given(r, input, took) EXCEPT !.buf = Pcm!Without(buf, took), !.state = s]
      BY <2>3
    <3>2. RecorderFits([Pcm!Given(r, SubSeq(buf, 1, n), took) EXCEPT
                          !.buf = Pcm!Without(buf, took), !.state = s])
      BY <1>5, <1>7, <1>8, RecorderGives, ZenonT(60)
    <3>3. QED
      BY <3>1, <3>2
  <2>4. QED
    BY <1>6, <2>1, <2>2, <2>3
<1>10. PlayerFits(v1, v2')
  <2>1. CASE v2' = v2
    BY <1>1, <2>1
  <2>2. CASE Gives /\ v2' # v2
    <3>1. PICK took \in 0..n :
            v2' = IF ~Pcm!Duplex THEN v2
                  ELSE [v2 EXCEPT !.buf = Pcm!Placed(@, Pcm!Numbers(v2.made, took)), !.made = @ + took]
      BY <2>2
    <3> DEFINE new == Pcm!Numbers(v2.made, took)
               full == Pcm!Placed(v2.buf, new)
               made == v2.made + took
    <3>2. Pcm!Duplex /\ v2' = [v2 EXCEPT !.buf = full, !.made = made]
      BY <2>2, <3>1
    <3>3. took \in Nat /\ took <= buffer_size - Len(v2.buf)
      BY <1>1, <1>8, <3>2
    <3>4. new \in Seq(Int) /\ Len(new) = took
      BY <1>1, <3>3, PcmNumbers
    <3> HIDE DEF new
    <3>5. full \in Seq(Int) /\ Len(full) = Len(v2.buf) + took
      BY <1>1, <3>4, PlacedIs
    <3>6. made \in Nat
      BY <1>1, <3>3
    <3> HIDE DEF full, made
    <3>7. /\ v2' \in Pcm!Players /\ v2'.buf = full /\ v2'.state = v2.state /\ v2'.short = v2.short
      BY <1>1, <3>2, <3>5, <3>6 DEF Pcm!Players
    <3>8. Len(full) <= buffer_size
      BY <1>1, <3>3, <3>5
    <3>9. QED
      BY <1>1, <3>7, <3>8 DEF PlayerFits
  <2>3. QED
    BY <1>6, <2>1, <2>2
<1>11. QED
  BY <1>1, <1>9, <1>10 DEF PcmFits, PlayerFits, RecorderFits

\* Only the fields count.
LEMMA SameRecorder ==
  ASSUME NEW p, RecorderFits(p), NEW q \in Pcm!Recorders,
         q.buf = p.buf, q.state = p.state, q.read = p.read, q.given = p.given,
         q.left = p.left, q.whole = p.whole
  PROVE  RecorderFits(q)
BY DEF RecorderFits

LEMMA GivenIs ==
  ASSUME NEW r \in Pcm!Recorders, NEW input \in Seq(Int), NEW took \in 0..Len(input)
  PROVE  Pcm!Given(r, input, took) \in Pcm!Recorders
<1> DEFINE after == IF took = 0 THEN r.given ELSE input[took]
           w == r.whole /\ Pcm!Follows(input, r.given)
           s == r.short \/ took < Len(input)
<1>1. /\ Pcm!Given(r, input, took) = [r EXCEPT !.given = after, !.short = s, !.whole = w]
      /\ w \in BOOLEAN /\ s \in BOOLEAN
  BY Zenon DEF Pcm!Given
<1>2. after \in Int
  <2>1. took # 0 => took \in 1..Len(input)
    OBVIOUS
  <2>2. QED
    BY <2>1 DEF Pcm!Recorders
<1> HIDE DEF after, w, s
<1>3. QED
  BY <1>1, <1>2 DEF Pcm!Recorders

LEMMA RecorderTaken ==
  ASSUME ComponentsAssumption, NEW r, NEW buf, RecorderHolds(r, buf), r.state \in {"RUNNING", "ERROR"},
         NEW n \in 0..Len(buf), NEW took \in 0..n
  PROVE  /\ RecorderFits([Pcm!Given(r, SubSeq(buf, 1, n), took) EXCEPT !.buf = Pcm!Without(buf, took)])
         /\ r.buf = buf /\ took = 0 => RecorderFits(Pcm!Given(r, SubSeq(buf, 1, n), took))
<1> DEFINE g == Pcm!Given(r, SubSeq(buf, 1, n), took)
           rest == Pcm!Without(buf, took)
           p == [g EXCEPT !.buf = rest, !.state = r.state]
           q == [g EXCEPT !.buf = rest]
<1>1. RecorderFits(p)
  BY RecorderGives
<1>2. buf \in Seq(Int) /\ r \in Pcm!Recorders
  BY DEF RecorderHolds
<1>3. /\ SubSeq(buf, 1, n) \in Seq(Int) /\ Len(SubSeq(buf, 1, n)) = n /\ rest \in Seq(Int)
      /\ took = 0 => rest = buf
  <2>1. Len(buf) \in Nat /\ took \in 0..Len(buf)
    BY <1>2
  <2>2. QED
    BY <1>2, <2>1, WithoutIs, WithoutNone
<1>4. g \in Pcm!Recorders
  BY <1>2, <1>3, GivenIs
<1>5. g.state = r.state /\ g.buf = r.buf
  BY <1>2 DEF Pcm!Given, Pcm!Recorders
<1> HIDE DEF g, rest
<1>6. /\ q \in Pcm!Recorders
      /\ p.buf = rest /\ p.state = g.state /\ p.read = g.read /\ p.given = g.given
      /\ p.left = g.left /\ p.whole = g.whole
      /\ q.buf = rest /\ q.state = g.state /\ q.read = g.read /\ q.given = g.given
      /\ q.left = g.left /\ q.whole = g.whole
  BY <1>2, <1>3, <1>4, <1>5 DEF Pcm!Recorders
<1> HIDE DEF p, q
<1>7. RecorderFits(q)
  BY <1>1, <1>6, SameRecorder
<1>8. r.buf = buf /\ took = 0 => RecorderFits(g)
  BY <1>1, <1>3, <1>4, <1>5, <1>6, SameRecorder
<1>9. QED
  BY <1>7, <1>8 DEF q, g, rest

\* What waits is as many frames as are there and have a number.
LEMMA NumberedIs ==
  ASSUME NEW s \in Seq(Int)
  PROVE  Numbered(s) \in Nat /\ Pcm!Numbered(s) = Numbered(s) /\ Numbered(<<>>) = 0
<1> DEFINE P(t) == {i \in DOMAIN t : t[i] # 0}
<1>1. IsFiniteSet(P(s))
  <2>1. Len(s) \in Nat /\ DOMAIN s = 1..Len(s)
    OBVIOUS
  <2>2. IsFiniteSet(1..Len(s))
    BY <2>1, FS_Interval
  <2>3. P(s) \in SUBSET (1..Len(s))
    BY <2>1
  <2>4. QED
    BY <2>2, <2>3, FS_Subset
<1>2. Numbered(s) \in Nat
  BY <1>1, FS_CardinalityType DEF Numbered
<1>3. Pcm!Numbered(s) = Numbered(s)
  BY DEF Pcm!Numbered, Numbered, Pcm!Cardinality, Cardinality
<1>4. P(<<>>) = {}
  OBVIOUS
<1>5. Numbered(<<>>) = 0
  BY <1>4, FS_EmptySet DEF Numbered
<1>6. QED
  BY <1>2, <1>3, <1>5

LEMMA Joined ==
  ASSUME NEW s \in Seq(Int), NEW t \in Seq(Int)
  PROVE  s \o t \in Seq(Int) /\ Len(s \o t) = Len(s) + Len(t)
OBVIOUS

\* What is in the buffer before the device takes some of it.
Played(made, avail) ==
  LET buf == Pcm!Appended(v2.buf, Pcm!Numbers(v2.made, made))
  IN IF avail - Len(buf) > 0 THEN buf \o Pcm!Silent(avail - Len(buf)) ELSE buf

LEMMA PlayedIs ==
  ASSUME v2 \in Pcm!Players, NEW made \in Nat, NEW avail \in Nat
  PROVE  LET buf == Pcm!Appended(v2.buf, Pcm!Numbers(v2.made, made))
             all == Played(made, avail)
         IN /\ buf \in Seq(Int) /\ Len(buf) = Len(v2.buf) + made
            /\ all \in Seq(Int)
            /\ Len(all) = IF avail > Len(v2.buf) + made THEN avail ELSE Len(v2.buf) + made
            /\ Numbers(v2.buf, v2.heard, v2.made) => Numbers(all, v2.heard, v2.made + made)
<1> DEFINE new == Pcm!Numbers(v2.made, made)
           buf == v2.buf \o new
           lacks == avail - Len(buf)
           silent == Pcm!Silent(lacks)
           all == Played(made, avail)
<1>1. v2.buf \in Seq(Int) /\ Len(v2.buf) \in Nat /\ v2.made \in Nat /\ v2.heard \in Nat
  BY DEF Pcm!Players
<1>2. new \in Seq(Int) /\ Len(new) = made
  BY <1>1, PcmNumbers
<1>3. Pcm!Appended(v2.buf, new) = buf /\ all = IF lacks > 0 THEN buf \o silent ELSE buf
  BY DEF Pcm!Appended, Played
<1>4. buf \in Seq(Int) /\ Len(buf) = Len(v2.buf) + made
  <2> HIDE DEF new
  <2>1. v2.buf \o new \in Seq(Int) /\ Len(v2.buf \o new) = Len(v2.buf) + Len(new)
    BY <1>1, <1>2, Joined
  <2>2. QED
    BY <1>2, <2>1
<1>5. ASSUME Numbers(v2.buf, v2.heard, v2.made) PROVE Numbers(buf, v2.heard, v2.made + made)
  BY <1>1, <1>5, Appended DEF Pcm!Numbers
<1> HIDE DEF new, buf, all
<1>6. ASSUME lacks > 0
      PROVE  /\ all \in Seq(Int)
             /\ Len(all) = IF avail > Len(v2.buf) + made THEN avail ELSE Len(v2.buf) + made
             /\ Numbers(v2.buf, v2.heard, v2.made) => Numbers(all, v2.heard, v2.made + made)
  <2>1. lacks \in Nat /\ Len(buf) \in Nat
    BY <1>1, <1>4, <1>6
  <2> HIDE DEF lacks
  <2>2. silent \in Seq(Int) /\ Len(silent) = lacks
    BY <2>1 DEF Pcm!Silent, Pcm!Silence
  <2>3. Numbers(v2.buf, v2.heard, v2.made) => Numbers(buf \o silent, v2.heard, v2.made + made)
    BY <1>5, <2>1, Silenced DEF Pcm!Silent, Pcm!Silence
  <2> HIDE DEF silent
  <2>4. buf \o silent \in Seq(Int) /\ Len(buf \o silent) = Len(buf) + lacks
    BY <1>4, <2>2, Joined
  <2>5. all = buf \o silent
    BY <1>3, <1>6 DEF silent
  <2>6. Len(buf) + lacks = avail /\ avail > Len(v2.buf) + made
    <3> DEFINE l == Len(buf)
    <3>1. l \in Nat /\ l = Len(v2.buf) + made /\ lacks = avail - l /\ avail \in Nat
      BY <2>1, <1>4 DEF lacks
    <3> HIDE DEF l
    <3>2. l + lacks = avail /\ avail > l
      <4>1. lacks > 0 /\ l \in Nat /\ lacks = avail - l /\ avail \in Nat
        BY <1>6, <3>1
      <4>2. QED
        BY ONLY <4>1
    <3>3. QED
      BY <3>1, <3>2 DEF l
  <2>7. QED
    BY <2>3, <2>4, <2>5, <2>6
<1>7. ASSUME ~(lacks > 0)
      PROVE  /\ all \in Seq(Int)
             /\ Len(all) = IF avail > Len(v2.buf) + made THEN avail ELSE Len(v2.buf) + made
             /\ Numbers(v2.buf, v2.heard, v2.made) => Numbers(all, v2.heard, v2.made + made)
  <2>1. all = buf
    BY <1>3, <1>7
  <2>2. Len(all) = IF avail > Len(v2.buf) + made THEN avail ELSE Len(v2.buf) + made
    BY <1>1, <1>4, <1>7, <2>1
  <2>3. QED
    BY <1>4, <1>5, <2>1, <2>2
<1>8. QED
  BY <1>3, <1>4, <1>6, <1>7, Zenon DEF all, new

\* How many frames the callback is asked for.
LEMMA AskedIs ==
  ASSUME ComponentsAssumption, NEW L \in Nat, L = Len(v2.buf), NEW R \in Nat, R = Len(v3.buf),
         NEW avail \in Nat
  PROVE  /\ Pcm!Asked(avail) \in Nat
         /\ Pcm!Asked(avail) = 0 \/ L + Pcm!Asked(avail) <= avail
         /\ Pcm!Duplex => /\ Pcm!Asked(avail) <= R
                          /\ \A m \in Nat : m < Pcm!Asked(avail) <=> L + m < avail /\ m < R
         /\ ~Pcm!Duplex => \A m \in Nat : m < Pcm!Asked(avail) <=> L + m < avail
<1> DEFINE n == Pcm!Asked(avail)
<1>1. CASE avail <= L
  <2>1. n = 0
    BY <1>1 DEF Pcm!Asked
  <2> HIDE DEF n
  <2>2. QED
    BY <1>1, <2>1 DEF n
<1>2. CASE ~(avail <= L) /\ Pcm!Duplex
  <2>1. n = IF avail - L < R THEN avail - L ELSE R
    BY <1>2 DEF Pcm!Asked, Pcm!Less
  <2> HIDE DEF n
  <2>2. n \in Nat /\ L + n <= avail /\ n <= R /\ \A m \in Nat : m < n <=> L + m < avail /\ m < R
    <3>1. L \in Nat /\ R \in Nat /\ avail \in Nat /\ ~(avail <= L)
      BY <1>2
    <3>2. n \in Nat /\ L + n <= avail /\ n <= R
      BY ONLY <2>1, <3>1
    <3>3. ASSUME NEW m \in Nat PROVE m < n <=> L + m < avail /\ m < R
      <4>1. m \in Nat
        OBVIOUS
      <4>2. QED
        BY ONLY <2>1, <3>1, <4>1
    <3>4. QED
      BY <3>2, <3>3
  <2>3. QED
    BY <1>2, <2>2 DEF n
<1>3. CASE ~(avail <= L) /\ ~Pcm!Duplex
  <2>1. n = avail - L
    BY <1>3 DEF Pcm!Asked
  <2> HIDE DEF n
  <2>2. n \in Nat /\ L + n <= avail /\ \A m \in Nat : m < n <=> L + m < avail
    BY <1>3, <2>1
  <2>3. QED
    BY <1>3, <2>2 DEF n
<1>4. QED
  BY <1>1, <1>2, <1>3

\* alsa_process_stream of a stream that plays: the recorder's part.
LEMMA RecorderLends ==
  ASSUME ComponentsAssumption, RecorderFits(v3), NEW n \in Nat, Pcm!Duplex => n <= Len(v3.buf),
         NEW made \in 0..n
  PROVE  LET input == IF Pcm!Duplex THEN SubSeq(v3.buf, 1, n) ELSE <<>>
             waiting == IF Pcm!Duplex THEN Pcm!Without(v3.buf, made) ELSE <<>>
         IN /\ RecorderFits(Pcm!Given(v3, input, 0))
            /\ RecorderFits([Pcm!Given(v3, input, IF Pcm!Duplex THEN made ELSE 0)
                               EXCEPT !.buf = waiting])
<1>1. v3 \in Pcm!Recorders /\ v3.buf \in Seq(Int) /\ Len(v3.buf) \in Nat
      /\ v3.state \in {"RUNNING", "ERROR"}
  BY DEF RecorderFits, Pcm!Recorders
<1>2. RecorderHolds(v3, v3.buf)
  BY <1>1 DEF RecorderFits, RecorderHolds
<1>3. RecorderHolds(v3, <<>>)
  <2>1. ~v3.left => Ordered(<<>>, v3.given, v3.read)
    BY DEF RecorderFits, Ordered, Pcm!Follows
  <2>2. <<>> \in Seq(Int) /\ Len(<<>>) <= buffer_size
    BY PcmConstants
  <2>3. QED
    BY <1>1, <2>1, <2>2 DEF RecorderFits, RecorderHolds
<1>4. CASE Pcm!Duplex
  <2>1. n \in 0..Len(v3.buf) /\ 0 \in 0..n
    BY <1>1, <1>4
  <2>2. /\ RecorderFits([Pcm!Given(v3, SubSeq(v3.buf, 1, n), made)
                           EXCEPT !.buf = Pcm!Without(v3.buf, made)])
        /\ RecorderFits(Pcm!Given(v3, SubSeq(v3.buf, 1, n), 0))
    BY <1>1, <1>2, <2>1, RecorderTaken
  <2>3. QED
    BY <1>4, <2>2
<1>5. CASE ~Pcm!Duplex
  <2>1. /\ 0 \in 0..0 /\ 0 \in 0..Len(<<>>) /\ 0 \in 0..Len(v3.buf)
        /\ SubSeq(v3.buf, 1, 0) = <<>> /\ SubSeq(<<>>, 1, 0) = <<>> /\ Pcm!Without(<<>>, 0) = <<>>
    <3>1. <<>> \in Seq(Int) /\ Len(<<>>) = 0
      OBVIOUS
    <3>2. SubSeq(<<>>, 1, 0) = <<>> /\ Pcm!Without(<<>>, 0) = <<>>
      BY <3>1, WithoutNone
    <3>3. SubSeq(v3.buf, 1, 0) = <<>>
      BY <1>1, WithoutNone
    <3>4. 0 \in 0..0 /\ 0 \in 0..Len(<<>>) /\ 0 \in 0..Len(v3.buf)
      BY <1>1, <3>1
    <3>5. QED
      BY <3>2, <3>3, <3>4
  <2>2. RecorderFits([Pcm!Given(v3, SubSeq(<<>>, 1, 0), 0) EXCEPT !.buf = Pcm!Without(<<>>, 0)])
    BY <1>1, <1>3, <2>1, RecorderTaken
  <2>3. RecorderFits(Pcm!Given(v3, SubSeq(v3.buf, 1, 0), 0))
    BY <1>1, <1>2, <2>1, RecorderTaken
  <2>4. QED
    BY <1>5, <2>1, <2>2, <2>3
<1>6. QED
  BY <1>4, <1>5

\* What the player has left when the device took some of it all.
LEMMA PlayerLeaves ==
  ASSUME NEW all \in Seq(Int), NEW wrote \in Int, wrote <= Len(all), NEW heard \in Nat
  PROVE  LET rest == IF wrote < 0 THEN all ELSE Pcm!Without(all, wrote)
             after == heard + Pcm!Numbered(SubSeq(all, 1, wrote))
         IN /\ rest \in Seq(Int) /\ Len(rest) <= Len(all) /\ after \in Nat
            /\ \A made \in Nat : Numbers(all, heard, made) => Numbers(rest, after, made)
<1> DEFINE taken == SubSeq(all, 1, wrote)
<1>1. Len(all) \in Nat
  OBVIOUS
<1>2. CASE wrote < 0
  <2>1. taken = <<>>
    BY <1>1, <1>2
  <2>2. Pcm!Numbered(taken) = 0
    <3>1. <<>> \in Seq(Int)
      OBVIOUS
    <3>2. QED
      BY <2>1, <3>1, NumberedIs
  <2> HIDE DEF taken
  <2>3. heard + Pcm!Numbered(taken) = heard
    BY <2>2
  <2>4. QED
    BY <1>1, <1>2, <2>3 DEF taken
<1>3. CASE ~(wrote < 0)
  <2>1. wrote \in 0..Len(all)
    BY <1>1, <1>3
  <2>2. /\ Pcm!Without(all, wrote) \in Seq(Int) /\ Len(Pcm!Without(all, wrote)) = Len(all) - wrote
        /\ taken \in Seq(Int)
    BY <2>1, WithoutIs
  <2>3. Pcm!Numbered(taken) = Numbered(taken) /\ Numbered(taken) \in Nat
    BY <2>2, NumberedIs
  <2>4. ASSUME NEW made \in Nat, Numbers(all, heard, made)
        PROVE  Numbers(Pcm!Without(all, wrote), heard + Numbered(taken), made)
    BY <2>1, <2>4, Popped DEF Pcm!Without
  <2> HIDE DEF taken
  <2>5. heard + Numbered(taken) \in Nat
    BY <2>3
  <2>6. Len(Pcm!Without(all, wrote)) <= Len(all)
    BY <1>1, <2>1, <2>2
  <2>7. QED
    BY <1>3, <2>2, <2>3, <2>4, <2>5, <2>6 DEF taken
<1>4. QED
  BY <1>2, <1>3

\* alsa_process_stream of a stream that plays.
LEMMA PcmPlays ==
  ASSUME ComponentsAssumption, PcmFits, Pcm!Playback PROVE PcmFits'
<1>1. /\ PlayerFits(v1, v2) /\ RecorderFits(v3) /\ v1' = v1 /\ v1 \in PcmKinds /\ v1 # "record"
      /\ v2 \in Pcm!Players /\ v2.buf \in Seq(Int) /\ Len(v2.buf) \in Nat /\ Len(v2.buf) <= buffer_size
      /\ v2.made \in Nat /\ v2.heard \in Nat /\ buffer_size \in Nat /\ Len(v3.buf) \in Nat
  <2>1. PlayerFits(v1, v2) /\ RecorderFits(v3) /\ v1 \in PcmKinds
    BY DEF PcmFits
  <2>2. v1' = v1 /\ v1 # "record"
    BY Zenon DEF Pcm!Playback, Pcm!Plays
  <2>3. v2 \in Pcm!Players /\ Len(v2.buf) <= buffer_size
    BY <2>1 DEF PlayerFits
  <2>4. v2.buf \in Seq(Int) /\ Len(v2.buf) \in Nat /\ v2.made \in Nat /\ v2.heard \in Nat
        /\ buffer_size \in Nat
    BY <2>3, PcmConstants DEF Pcm!Players
  <2>5. Len(v3.buf) \in Nat
    BY <2>1 DEF RecorderFits, Pcm!Recorders
  <2>6. QED
    BY <2>1, <2>2, <2>3, <2>4, <2>5
<1>2. PICK avail \in 1..buffer_size :
       LET n == Pcm!Asked(avail)
           input == IF Pcm!Duplex THEN SubSeq(v3.buf, 1, n) ELSE <<>>
       IN \/ /\ n > 0
             /\ v2' = [v2 EXCEPT !.state = "ERROR"]
             /\ v3' = Pcm!Given(v3, input, 0)
          \/ \E made \in 0..Pcm!Less(n, MaxPcm - v2.made), wrote \in -1..avail :
               LET waiting == IF Pcm!Duplex THEN Pcm!Without(v3.buf, made) ELSE <<>>
                   buf     == Pcm!Appended(v2.buf, Pcm!Numbers(v2.made, made))
                   lacks   == avail - Len(buf)
                   all     == IF lacks > 0 THEN buf \o Pcm!Silent(lacks) ELSE buf
                   goes    == IF lacks > 0 /\ Pcm!Drains(waiting) THEN "DRAINING" ELSE "RUNNING"
               IN /\ v3' = [Pcm!Given(v3, input, IF Pcm!Duplex THEN made ELSE 0) EXCEPT !.buf = waiting]
                  /\ \E state \in Pcm!Recovered(wrote < 0, goes) :
                       v2' = [buf   |-> IF wrote < 0 THEN all ELSE Pcm!Without(all, wrote),
                              state |-> state,
                              made  |-> v2.made + made,
                              heard |-> v2.heard + Pcm!Numbered(SubSeq(all, 1, wrote)),
                              short |-> made < n]
  BY Zenon DEF Pcm!Playback
<1> DEFINE n == Pcm!Asked(avail)
           input == IF Pcm!Duplex THEN SubSeq(v3.buf, 1, n) ELSE <<>>
<1>3. avail \in Nat /\ avail <= buffer_size
  BY <1>1
<1>4. /\ n \in Nat /\ (n = 0 \/ Len(v2.buf) + n <= avail)
      /\ Pcm!Duplex => /\ n <= Len(v3.buf)
                       /\ \A m \in Nat : m < n <=> Len(v2.buf) + m < avail /\ m < Len(v3.buf)
      /\ ~Pcm!Duplex => \A m \in Nat : m < n <=> Len(v2.buf) + m < avail
  BY <1>1, <1>3, AskedIs
<1>5. CASE n > 0 /\ v2' = [v2 EXCEPT !.state = "ERROR"] /\ v3' = Pcm!Given(v3, input, 0)
  <2>1. v2' \in Pcm!Players /\ v2'.state = "ERROR" /\ v2'.buf = v2.buf
        /\ v2'.heard = v2.heard /\ v2'.made = v2.made
    BY <1>1, <1>5 DEF Pcm!Players, Pcm!States
  <2>2. PlayerFits(v1, v2')
    BY <1>1, <2>1 DEF PlayerFits
  <2>3. RecorderFits(v3')
    <3>1. 0 \in 0..n
      BY <1>4
    <3>2. QED
      BY <1>1, <1>4, <1>5, <3>1, RecorderLends
  <2>4. QED
    BY <1>1, <2>2, <2>3 DEF PcmFits, PlayerFits, RecorderFits
<1>6. ASSUME NEW made \in 0..Pcm!Less(n, MaxPcm - v2.made), NEW wrote \in -1..avail,
        LET waiting == IF Pcm!Duplex THEN Pcm!Without(v3.buf, made) ELSE <<>>
            buf     == Pcm!Appended(v2.buf, Pcm!Numbers(v2.made, made))
            lacks   == avail - Len(buf)
            all     == IF lacks > 0 THEN buf \o Pcm!Silent(lacks) ELSE buf
            goes    == IF lacks > 0 /\ Pcm!Drains(waiting) THEN "DRAINING" ELSE "RUNNING"
        IN /\ v3' = [Pcm!Given(v3, input, IF Pcm!Duplex THEN made ELSE 0) EXCEPT !.buf = waiting]
           /\ \E state \in Pcm!Recovered(wrote < 0, goes) :
                v2' = [buf   |-> IF wrote < 0 THEN all ELSE Pcm!Without(all, wrote),
                       state |-> state,
                       made  |-> v2.made + made,
                       heard |-> v2.heard + Pcm!Numbered(SubSeq(all, 1, wrote)),
                       short |-> made < n]
      PROVE PcmFits'
  <2> DEFINE waiting == IF Pcm!Duplex THEN Pcm!Without(v3.buf, made) ELSE <<>>
             buf == Pcm!Appended(v2.buf, Pcm!Numbers(v2.made, made))
             lacks == avail - Len(buf)
             all == Played(made, avail)
             goes == IF lacks > 0 /\ Pcm!Drains(waiting) THEN "DRAINING" ELSE "RUNNING"
             B == IF wrote < 0 THEN all ELSE Pcm!Without(all, wrote)
             H == v2.heard + Pcm!Numbered(SubSeq(all, 1, wrote))
             M == v2.made + made
             W == made < n
  <2>1. PICK state \in Pcm!Recovered(wrote < 0, goes) :
          v2' = [buf |-> B, state |-> state, made |-> M, heard |-> H, short |-> W]
    BY <1>6 DEF Played
  <2>2. v3' = [Pcm!Given(v3, input, IF Pcm!Duplex THEN made ELSE 0) EXCEPT !.buf = waiting]
    BY <1>6
  <2>3. made \in 0..n /\ made \in Nat /\ wrote \in Int /\ wrote <= avail
    <3>1. MaxPcm - v2.made \in Int
      BY <1>1, PcmConstants
    <3>2. Pcm!Less(n, MaxPcm - v2.made) \in Int /\ Pcm!Less(n, MaxPcm - v2.made) <= n
      <4> HIDE DEF n
      <4>1. QED
        BY <1>4, <3>1 DEF Pcm!Less
    <3> HIDE DEF n
    <3>3. QED
      BY <1>3, <1>4, <3>2
  <2>4. RecorderFits(v3')
    BY <1>1, <1>4, <2>2, <2>3, RecorderLends
  <2>5. /\ buf \in Seq(Int) /\ Len(buf) = Len(v2.buf) + made
        /\ all \in Seq(Int)
        /\ Len(all) = IF avail > Len(v2.buf) + made THEN avail ELSE Len(v2.buf) + made
        /\ Numbers(v2.buf, v2.heard, v2.made) => Numbers(all, v2.heard, M)
    BY <1>1, <1>3, <2>3, PlayedIs
  <2>6. avail <= Len(all) /\ Len(all) <= buffer_size
    <3> DEFINE L == Len(v2.buf)
               A == Len(all)
    <3>1. /\ L \in Nat /\ L <= buffer_size /\ avail \in Nat /\ avail <= buffer_size
          /\ buffer_size \in Nat /\ n \in Nat /\ (n = 0 \/ L + n <= avail)
          /\ made \in Nat /\ made <= n
          /\ A = IF avail > L + made THEN avail ELSE L + made
      BY <1>1, <1>3, <1>4, <2>3, <2>5
    <3> HIDE DEF L, A, n
    <3>2. avail <= A /\ A <= buffer_size
      BY ONLY <3>1
    <3>3. QED
      BY <3>2 DEF A
  <2>7. lacks > 0 <=> Len(v2.buf) + made < avail
    <3> DEFINE l == Len(buf)
               L == Len(v2.buf)
    <3>1. l \in Nat /\ L \in Nat /\ l = L + made /\ made \in Nat /\ avail \in Nat
      BY <1>1, <1>3, <2>3, <2>5
    <3> HIDE DEF l, L
    <3>2. avail - l > 0 <=> L + made < avail
      BY ONLY <3>1
    <3>3. QED
      BY <3>2 DEF l, L
  <2>8. goes = "DRAINING" <=> W
    <3>1. CASE ~Pcm!Duplex
      <4>1. W <=> Len(v2.buf) + made < avail
        BY <1>4, <2>3, <3>1
      <4>2. goes = IF lacks > 0 THEN "DRAINING" ELSE "RUNNING"
        BY <3>1 DEF Pcm!Drains
      <4>3. QED
        BY <2>7, <4>1, <4>2
    <3>2. CASE Pcm!Duplex
      <4>1. W <=> Len(v2.buf) + made < avail /\ made < Len(v3.buf)
        BY <1>4, <2>3, <3>2
      <4>2. waiting # <<>> <=> made < Len(v3.buf)
        <5>1. made \in 0..Len(v3.buf) /\ v3.buf \in Seq(Int)
          <6>1. n <= Len(v3.buf) /\ n \in Nat
            BY <1>4, <3>2
          <6> HIDE DEF n
          <6>2. made \in 0..Len(v3.buf)
            BY <1>1, <2>3, <6>1
          <6>3. QED
            BY <1>1, <6>2 DEF RecorderFits, Pcm!Recorders
        <5>2. waiting \in Seq(Int) /\ Len(waiting) = Len(v3.buf) - made
          BY <3>2, <5>1, WithoutIs
        <5> HIDE DEF waiting
        <5>3. waiting = <<>> <=> Len(waiting) = 0
          BY <5>2
        <5>4. QED
          BY <1>1, <5>1, <5>2, <5>3
      <4>3. goes = IF lacks > 0 /\ waiting # <<>> THEN "DRAINING" ELSE "RUNNING"
        BY <3>2 DEF Pcm!Drains
      <4> HIDE DEF goes, lacks, waiting, W, n
      <4>4. QED
        BY <2>7, <4>1, <4>2, <4>3
    <3>3. QED
      BY <3>1, <3>2
  <2>9. /\ B \in Seq(Int) /\ Len(B) <= Len(all) /\ H \in Nat
        /\ \A m \in Nat : Numbers(all, v2.heard, m) => Numbers(B, H, m)
    <3> HIDE DEF all
    <3>1. wrote <= Len(all)
      <4> DEFINE A == Len(all)
      <4>1. A \in Nat /\ avail <= A /\ wrote <= avail /\ wrote \in Int /\ avail \in Nat
        BY <1>3, <2>3, <2>5, <2>6
      <4> HIDE DEF A
      <4>2. wrote <= A
        BY ONLY <4>1
      <4>3. QED
        BY <4>2 DEF A
    <3>2. QED
      BY <1>1, <2>3, <2>5, <3>1, PlayerLeaves
  <2>10. Len(B) <= buffer_size
    <3> DEFINE A == Len(all)
               b == Len(B)
    <3>1. A \in Nat /\ b \in Nat /\ b <= A /\ A <= buffer_size /\ buffer_size \in Nat
      BY <1>1, <2>5, <2>6, <2>9
    <3> HIDE DEF A, b
    <3>2. b <= buffer_size
      BY ONLY <3>1
    <3>3. QED
      BY <3>2 DEF b
  <2>11. M \in Nat /\ W \in BOOLEAN
    <3>1. M \in Nat
      BY <1>1, <2>3
    <3>2. W \in BOOLEAN
      OBVIOUS
    <3>3. QED
      BY <3>1, <3>2
  <2>12. state \in Pcm!States /\ (state # "ERROR" => state = goes) /\ goes \in {"DRAINING", "RUNNING"}
    BY DEF Pcm!Recovered, Pcm!States
  <2> HIDE DEF B, H, M, W, goes, all, n
  <2>13. /\ v2' \in Pcm!Players /\ v2'.buf = B /\ v2'.state = state /\ v2'.made = M
         /\ v2'.heard = H /\ v2'.short = W
    BY <2>1, <2>9, <2>11, <2>12 DEF Pcm!Players
  <2>14. v1 = "play" => Numbers(B, H, M)
    BY <1>1, <2>5, <2>9, <2>11 DEF PlayerFits
  <2>15. v2'.state # "ERROR" => (v2'.state = "DRAINING" <=> v2'.short)
    BY <2>8, <2>12, <2>13
  <2>16. PlayerFits(v1, v2')
    BY <2>10, <2>13, <2>14, <2>15 DEF PlayerFits
  <2>17. QED
    BY <1>1, <2>4, <2>16 DEF PcmFits, PlayerFits, RecorderFits
<1>7. QED
  BY <1>2, <1>5, <1>6

\* What was drained is started again.
LEMMA PcmRestarts ==
  ASSUME ComponentsAssumption, PcmFits, Pcm!Restart PROVE PcmFits'
<1>1. /\ v1' = v1 /\ v1 \in PcmKinds /\ PlayerFits(v1, v2) /\ RecorderFits(v3)
      /\ v2 \in Pcm!Players /\ v3 \in Pcm!Recorders
      /\ v2' = [v2 EXCEPT !.state = "RUNNING", !.short = FALSE]
      /\ v3' = [v3 EXCEPT !.state = "RUNNING"]
  BY DEF Pcm!Restart, PcmFits, PlayerFits, RecorderFits
<1>2. /\ v2' \in Pcm!Players /\ v2'.buf = v2.buf /\ v2'.state = "RUNNING" /\ v2'.short = FALSE
      /\ v2'.made = v2.made /\ v2'.heard = v2.heard
  BY <1>1 DEF Pcm!Players, Pcm!States
<1>3. /\ v3' \in Pcm!Recorders /\ v3'.buf = v3.buf /\ v3'.state = "RUNNING" /\ v3'.read = v3.read
      /\ v3'.given = v3.given /\ v3'.left = v3.left /\ v3'.whole = v3.whole
  BY <1>1 DEF Pcm!Recorders, Pcm!States
<1>4. PlayerFits(v1, v2')
  BY <1>1, <1>2 DEF PlayerFits
<1>5. RecorderFits(v3')
  BY <1>1, <1>3 DEF RecorderFits
<1>6. QED
  BY <1>1, <1>4, <1>5 DEF PcmFits, PlayerFits, RecorderFits

\* What is given to the callback of a stream that records, as far as it was left.
LEMMA GivenShort ==
  ASSUME NEW r \in Pcm!Recorders, NEW input, NEW took, NEW buf, NEW state
  PROVE  LET q == [Pcm!Given(r, input, took) EXCEPT !.buf = buf, !.state = state] IN
         /\ q.left = r.left /\ q.buf = buf /\ q.state = state
         /\ q.short <=> r.short \/ took < Len(input)
<1> DEFINE after == IF took = 0 THEN r.given ELSE input[took]
           w == r.whole /\ Pcm!Follows(input, r.given)
           s == r.short \/ took < Len(input)
<1>1. Pcm!Given(r, input, took) = [r EXCEPT !.given = after, !.short = s, !.whole = w]
  BY Zenon DEF Pcm!Given
<1> HIDE DEF after, w, s
<1>2. LET q == [[r EXCEPT !.given = after, !.short = s, !.whole = w] EXCEPT !.buf = buf, !.state = state] IN
      q.left = r.left /\ q.buf = buf /\ q.state = state /\ q.short = s
  BY DEF Pcm!Recorders
<1>3. QED
  BY <1>1, <1>2, Zenon DEF s

\* A stream that only records keeps nothing while its callback takes all.
LEMMA CaptureClears ==
  ASSUME ComponentsAssumption, PcmFits, Pcm!NothingStays, Pcm!Capture PROVE Pcm!NothingStays'
<1> SUFFICES ASSUME v1' = "record", ~v3'.short
             PROVE  ~v3'.left /\ (v3'.buf = <<>> \/ v3'.state = "ERROR")
  BY DEF Pcm!NothingStays
<1>1. /\ v1 = "record" /\ ~Pcm!Duplex /\ v3.state = "RUNNING" /\ RecorderFits(v3)
      /\ v3 \in Pcm!Recorders /\ v2 \in Pcm!Players /\ buffer_size \in Nat
  <2>1. v1' = v1 /\ v3.state = "RUNNING"
    BY Zenon DEF Pcm!Capture
  <2>2. v2 \in Pcm!Players /\ RecorderFits(v3)
    BY DEF PcmFits, PlayerFits
  <2>3. v1 = "record" /\ ~Pcm!Duplex
    BY <2>1 DEF Pcm!Duplex
  <2>4. QED
    BY <2>1, <2>2, <2>3, PcmConstants DEF RecorderFits
<1>2a. PICK avail \in 1..buffer_size : \E got \in -1..Pcm!Less(avail, MaxPcm - v3.read) :
       LET old == Pcm!Kept(avail)
           buf == IF got < 0 THEN old ELSE Pcm!Placed(old, Pcm!Numbers(v3.read, got))
           n   == Pcm!Offered(Len(buf))
           r   == [v3 EXCEPT !.read = IF got < 0 THEN @ ELSE @ + got, !.left = @ \/ old # <<>>]
           input == SubSeq(buf, 1, n)
       IN \/ /\ n = 0
             /\ \E state \in Pcm!Recovered(got < 0, "RUNNING") :
                  v3' = [r EXCEPT !.buf = buf, !.state = state]
             /\ UNCHANGED v2
          \/ /\ n > 0
             /\ v3' = [Pcm!Given(r, input, 0) EXCEPT !.buf = buf, !.state = "ERROR"]
             /\ UNCHANGED v2
          \/ \E took \in 0..n, state \in Pcm!Recovered(got < 0, "RUNNING") :
               /\ n > 0 /\ (Pcm!Duplex => v2.made + took <= MaxPcm)
               /\ v3' = [Pcm!Given(r, input, took) EXCEPT !.buf = Pcm!Without(buf, took),
                                                         !.state = state]
               /\ v2' = IF ~Pcm!Duplex THEN v2
                        ELSE [v2 EXCEPT !.buf = Pcm!Placed(@, Pcm!Numbers(v2.made, took)),
                                        !.made = @ + took]
  BY ZenonT(60) DEF Pcm!Capture
<1>2. PICK got \in -1..Pcm!Less(avail, MaxPcm - v3.read) :
       LET old == Pcm!Kept(avail)
           buf == IF got < 0 THEN old ELSE Pcm!Placed(old, Pcm!Numbers(v3.read, got))
           n   == Pcm!Offered(Len(buf))
           r   == [v3 EXCEPT !.read = IF got < 0 THEN @ ELSE @ + got, !.left = @ \/ old # <<>>]
           input == SubSeq(buf, 1, n)
       IN \/ /\ n = 0
             /\ \E state \in Pcm!Recovered(got < 0, "RUNNING") :
                  v3' = [r EXCEPT !.buf = buf, !.state = state]
             /\ UNCHANGED v2
          \/ /\ n > 0
             /\ v3' = [Pcm!Given(r, input, 0) EXCEPT !.buf = buf, !.state = "ERROR"]
             /\ UNCHANGED v2
          \/ \E took \in 0..n, state \in Pcm!Recovered(got < 0, "RUNNING") :
               /\ n > 0 /\ (Pcm!Duplex => v2.made + took <= MaxPcm)
               /\ v3' = [Pcm!Given(r, input, took) EXCEPT !.buf = Pcm!Without(buf, took),
                                                         !.state = state]
               /\ v2' = IF ~Pcm!Duplex THEN v2
                        ELSE [v2 EXCEPT !.buf = Pcm!Placed(@, Pcm!Numbers(v2.made, took)),
                                        !.made = @ + took]
  BY <1>2a
<1> DEFINE old == Pcm!Kept(avail)
           buf == IF got < 0 THEN old ELSE Pcm!Placed(old, Pcm!Numbers(v3.read, got))
           n == Pcm!Offered(Len(buf))
           r == [v3 EXCEPT !.read = IF got < 0 THEN @ ELSE @ + got, !.left = @ \/ old # <<>>]
           input == SubSeq(buf, 1, n)
<1> DEFINE Skips ==
             /\ n = 0
             /\ \E state \in Pcm!Recovered(got < 0, "RUNNING") :
                  v3' = [r EXCEPT !.buf = buf, !.state = state]
             /\ UNCHANGED v2
           Fails ==
             /\ n > 0
             /\ v3' = [Pcm!Given(r, input, 0) EXCEPT !.buf = buf, !.state = "ERROR"]
             /\ UNCHANGED v2
           Gives ==
             \E took \in 0..n, state \in Pcm!Recovered(got < 0, "RUNNING") :
               /\ n > 0 /\ (Pcm!Duplex => v2.made + took <= MaxPcm)
               /\ v3' = [Pcm!Given(r, input, took) EXCEPT !.buf = Pcm!Without(buf, took),
                                                         !.state = state]
               /\ v2' = IF ~Pcm!Duplex THEN v2
                        ELSE [v2 EXCEPT !.buf = Pcm!Placed(@, Pcm!Numbers(v2.made, took)),
                                        !.made = @ + took]
<1>3. Skips \/ Fails \/ Gives
  BY <1>2
<1>4. RecorderHolds(r, buf)
  <2>1. avail \in Nat /\ MaxPcm - v3.read \in Int
    BY <1>1, PcmConstants DEF Pcm!Recorders
  <2>2. Pcm!Less(avail, MaxPcm - v3.read) \in Int /\ Pcm!Less(avail, MaxPcm - v3.read) <= avail
    BY <2>1 DEF Pcm!Less
  <2>3. got \in -1..avail
    BY <2>1, <2>2
  <2>4. QED
    BY <1>1, <2>3, RecorderReads, ZenonT(60)
<1>5. r.left = (v3.left \/ old # <<>>) /\ r.short = v3.short
  <2> DEFINE read == IF got < 0 THEN v3.read ELSE v3.read + got
             left == v3.left \/ old # <<>>
  <2>1. r = [v3 EXCEPT !.read = read, !.left = left]
    OBVIOUS
  <2> HIDE DEF read, left, r
  <2>2. r.left = left /\ r.short = v3.short
    BY <1>1, <2>1 DEF Pcm!Recorders
  <2>3. QED
    BY <2>2 DEF left
<1>6. ~v3.short => ~v3.left /\ old = <<>>
  <2>1. ~v3.short => ~v3.left /\ v3.buf = <<>>
    BY <1>1 DEF Pcm!NothingStays
  <2>2. QED
    BY <2>1 DEF Pcm!Kept
<1>7. r \in Pcm!Recorders /\ buf \in Seq(Int) /\ Len(buf) \in Nat
  BY <1>4 DEF RecorderHolds
<1> HIDE DEF r, old, buf
<1>8. n = Len(buf)
  BY <1>1 DEF Pcm!Offered
<1>9. CASE Skips
  <2>1. PICK state : v3' = [r EXCEPT !.buf = buf, !.state = state]
    BY <1>9
  <2>2. v3'.short = r.short /\ v3'.left = r.left /\ v3'.buf = buf
    BY <1>7, <2>1 DEF Pcm!Recorders
  <2>3. buf = <<>>
    <3>1. n = 0
      BY <1>9
    <3>2. Len(buf) = 0
      BY <1>8, <3>1
    <3>3. QED
      BY <1>7, <3>2
  <2>4. QED
    BY <1>5, <1>6, <2>2, <2>3
<1>10. CASE Fails
  <2>1. v3'.left = r.left /\ v3'.state = "ERROR" /\ (r.short => v3'.short)
    BY <1>7, <1>10, GivenShort
  <2>2. QED
    BY <1>5, <1>6, <2>1
<1>11. CASE Gives
  <2>1. PICK took \in 0..n, state \in Pcm!Recovered(got < 0, "RUNNING") :
          v3' = [Pcm!Given(r, input, took) EXCEPT !.buf = Pcm!Without(buf, took), !.state = state]
    BY <1>11
  <2>2. /\ v3'.left = r.left /\ v3'.buf = Pcm!Without(buf, took)
        /\ v3'.short <=> r.short \/ took < Len(input)
    <3> HIDE DEF n, input
    <3>1. QED
      BY ONLY <1>7, <2>1, GivenShort
  <2>3. n \in 0..Len(buf) /\ took \in 0..Len(buf)
    BY <1>7, <1>8
  <2>4. Len(input) = Len(buf)
    BY <1>7, <1>8, <2>3, WithoutIs
  <2>5. took = Len(buf)
    BY <1>7, <2>2, <2>3, <2>4
  <2>6. Pcm!Without(buf, took) \in Seq(Int) /\ Len(Pcm!Without(buf, took)) = 0
    BY <1>7, <2>3, <2>5, WithoutIs
  <2>7. Pcm!Without(buf, took) = <<>>
    BY <2>6
  <2>8. QED
    BY <1>5, <1>6, <2>2, <2>7
<1>12. QED
  BY <1>3, <1>9, <1>10, <1>11

LEMMA PcmClears ==
  ASSUME ComponentsAssumption, PcmFits, Pcm!NothingStays, Pcm!Next PROVE Pcm!NothingStays'
<1>1. CASE Pcm!Capture
  BY <1>1, CaptureClears
<1>2. CASE Pcm!Playback
  BY <1>2, Zenon DEF Pcm!Playback, Pcm!Plays, Pcm!NothingStays
<1>3. CASE Pcm!Restart
  <2>1. /\ v1' = v1 /\ v3.state # "ERROR" /\ v3 \in Pcm!Recorders
        /\ v3' = [v3 EXCEPT !.state = "RUNNING"]
    BY <1>3 DEF Pcm!Restart, PcmFits, RecorderFits
  <2>2. v3'.short = v3.short /\ v3'.left = v3.left /\ v3'.buf = v3.buf
    BY <2>1 DEF Pcm!Recorders
  <2>3. QED
    BY <2>1, <2>2 DEF Pcm!NothingStays
<1>4. QED
  BY <1>1, <1>2, <1>3 DEF Pcm!Next

\* The invariant.
PcmInv == PcmFits /\ Pcm!NothingStays

LEMMA PcmStarts == ASSUME ComponentsAssumption, Pcm!Init PROVE PcmInv
<1> DEFINE p == [buf |-> <<>>, state |-> "RUNNING", made |-> 0, heard |-> 0, short |-> FALSE]
           r == [buf |-> <<>>, state |-> "RUNNING", read |-> 0, given |-> 0,
                 left |-> FALSE, short |-> FALSE, whole |-> TRUE]
<1>1. v1 \in PcmKinds /\ v2 = p /\ v3 = r
  BY DEF Pcm!Init
<1>2. <<>> \in Seq(Int) /\ Len(<<>>) = 0 /\ <<>> \in Seq(Nat) /\ DOMAIN <<>> = {}
      /\ 0 <= buffer_size
  BY PcmConstants
<1>3. /\ p \in Pcm!Players /\ p.buf = <<>> /\ p.state = "RUNNING" /\ p.made = 0 /\ p.heard = 0
      /\ p.short = FALSE
  BY <1>2 DEF Pcm!Players, Pcm!States
<1>4. /\ r \in Pcm!Recorders /\ r.buf = <<>> /\ r.state = "RUNNING" /\ r.read = 0 /\ r.given = 0
      /\ r.left = FALSE /\ r.short = FALSE /\ r.whole = TRUE
  BY <1>2 DEF Pcm!Recorders, Pcm!States
<1>5. Numbers(<<>>, 0, 0)
  <2>1. Waiting(<<>>) = {}
    BY <1>2 DEF Waiting
  <2>2. (0 + 1)..0 = {}
    OBVIOUS
  <2>3. Increasing(<<>>)
    BY <1>2 DEF Increasing
  <2>4. QED
    BY <1>2, <2>1, <2>2, <2>3 DEF Numbers
<1>6. PlayerFits(v1, p)
  BY <1>2, <1>3, <1>5 DEF PlayerFits
<1>7. Ordered(<<>>, 0, 0)
  BY <1>2 DEF Ordered, Pcm!Follows
<1>8. RecorderFits(r)
  BY <1>2, <1>4, <1>7 DEF RecorderFits
<1>9. Pcm!NothingStays
  BY <1>1, <1>4 DEF Pcm!NothingStays
<1>10. QED
  BY <1>1, <1>6, <1>8, <1>9 DEF PcmInv, PcmFits

LEMMA PcmGoesOn ==
  ASSUME ComponentsAssumption, PcmInv, Pcm!Next PROVE PcmInv'
<1>1. PcmFits'
  BY PcmCaptures, PcmPlays, PcmRestarts DEF Pcm!Next, PcmInv
<1>2. Pcm!NothingStays'
  BY PcmClears DEF PcmInv
<1>3. QED
  BY <1>1, <1>2 DEF PcmInv

LEMMA PcmHolds ==
  ASSUME PcmInv PROVE Pcm!TypeOK /\ Pcm!PcmIsRight
<1>1. v1 \in PcmKinds /\ PlayerFits(v1, v2) /\ RecorderFits(v3) /\ Pcm!NothingStays
  BY DEF PcmInv, PcmFits
<1>2. Pcm!TypeOK
  BY <1>1 DEF PlayerFits, RecorderFits, Pcm!TypeOK, Pcm!Players, Pcm!States
<1>3. Pcm!PlayedInOrder
  <2>1. Pcm!Waiting(v2.buf) = Waiting(v2.buf) /\ (Pcm!Increasing(v2.buf) <=> Increasing(v2.buf))
    BY DEF Pcm!Waiting, Waiting, Pcm!Increasing, Increasing
  <2>2. QED
    BY <1>1, <2>1 DEF PlayerFits, Numbers, Pcm!PlayedInOrder
<1>4. Pcm!RecordedInOrder
  BY <1>1 DEF RecorderFits, Pcm!RecordedInOrder, Pcm!NothingStays
<1>5. Pcm!DrainsAfterShort
  BY <1>1 DEF PlayerFits, Pcm!DrainsAfterShort
<1>6. QED
  BY <1>2, <1>3, <1>4, <1>5 DEF Pcm!PcmIsRight

LEMMA PcmRests ==
  ASSUME PcmInv, UNCHANGED <<v1, v2, v3>> PROVE PcmInv'
<1>1. PcmFits'
  BY DEF PcmInv, PcmFits, PlayerFits, RecorderFits
<1>2. QED
  BY <1>1 DEF PcmInv, Pcm!NothingStays

----------------------------------------------------------------------------
(* AudioRingBuffer: the ring buffer of RingBufferProofs, with frames for its  *)
(* units.                                                                     *)

Ring ==
  INSTANCE RingBufferProofs WITH
  capacity_ <- Frames!Storage(capacity_in_frames), Counts <- Frames!SampleCounts(FrameCounts),
  MaxElements <- Frames!frames_to_samples(MaxFrames),
  read_index <- v1, write_index <- v2, oldReads <- v3, oldWrites <- v4, data <- v5,
  producer <- v6, consumer <- v7, got <- v8

LEMMA RingAssumptions ==
  ASSUME ComponentsAssumption
  PROVE  /\ channel_count \in Nat /\ channel_count > 0
         /\ Frames!Storage(capacity_in_frames) \in Nat \ {0, 1}
         /\ Frames!SampleCounts(FrameCounts) \subseteq Nat \ {0}
         /\ Frames!frames_to_samples(MaxFrames) \in Nat
         /\ Ring!Units(channel_count)
<1>1. /\ channel_count \in Nat \ {0} /\ capacity_in_frames \in Nat \ {0}
      /\ FrameCounts \subseteq Nat \ {0} /\ MaxFrames \in Nat
  BY DEF ComponentsAssumption, Frames!AudioAssumption
<1>2. ASSUME NEW f \in Nat \ {0}
      PROVE  /\ Frames!frames_to_samples(f) \in Nat \ {0}
             /\ Ring!Multiple(channel_count, Frames!frames_to_samples(f))
  <2>1. f * channel_count \in Nat \ {0}
    BY <1>1
  <2>2. QED
    BY <2>1 DEF Frames!frames_to_samples, Ring!Multiple
<1>3. Frames!frames_to_samples(MaxFrames) \in Nat
  BY <1>1 DEF Frames!frames_to_samples
<1>4. /\ Frames!Storage(capacity_in_frames) \in Nat \ {0, 1}
      /\ Frames!Storage(capacity_in_frames) - 1 = Frames!frames_to_samples(capacity_in_frames)
  <2> DEFINE s == Frames!frames_to_samples(capacity_in_frames)
  <2>1. s \in Nat \ {0} /\ Frames!Storage(capacity_in_frames) = s + 1
    BY <1>1, <1>2 DEF Frames!Storage
  <2> HIDE DEF s
  <2>2. s + 1 \in Nat \ {0, 1} /\ (s + 1) - 1 = s
    BY <2>1
  <2>3. QED
    BY <2>1, <2>2 DEF s
<1>5. \A k \in Frames!SampleCounts(FrameCounts) :
         k \in Nat \ {0} /\ Ring!Multiple(channel_count, k)
  BY <1>1, <1>2 DEF Frames!SampleCounts
<1>6. Ring!Units(channel_count)
  BY <1>1, <1>2, <1>4, <1>5 DEF Ring!Units
<1>7. QED
  BY <1>1, <1>3, <1>4, <1>5, <1>6

\* The two instances are the same buffer.
LEMMA SameBuffer ==
  /\ Frames!Samples!Init <=> Ring!Init
  /\ Frames!Samples!Next <=> Ring!Next
  /\ Frames!Samples!TypeOK <=> Ring!TypeOK
<1>1. Frames!Samples!Init <=> Ring!Init
  BY DEF Ring!Init, Frames!Samples!Init, Ring!Slots, Frames!Samples!Slots,
         Ring!NoPut, Frames!Samples!NoPut, Ring!NoTake, Frames!Samples!NoTake,
         Ring!Idle, Frames!Samples!Idle
<1>2. Frames!Samples!TypeOK <=> Ring!TypeOK
  BY DEF Ring!TypeOK, Frames!Samples!TypeOK, Ring!Slots, Frames!Samples!Slots,
         Ring!Stores, Frames!Samples!Stores, Ring!Idle, Frames!Samples!Idle
<1> DEFINE Cs == Frames!SampleCounts(FrameCounts)
<1>3. ASSUME NEW count PROVE Frames!Samples!EnqueueLoad(count) <=> Ring!EnqueueLoad(count)
  BY Zenon DEF Ring!EnqueueLoad, Frames!Samples!EnqueueLoad, Ring!ProducerLoads,
         Frames!Samples!ProducerLoads, Ring!Idle, Frames!Samples!Idle,
         Ring!Least, Frames!Samples!Least, Ring!full_internal, Frames!Samples!full_internal,
         Ring!available_write_internal, Frames!Samples!available_write_internal
<1>4. Frames!Samples!CopyIn <=> Ring!CopyIn
  BY Zenon DEF Ring!CopyIn, Frames!Samples!CopyIn, Ring!Slot, Frames!Samples!Slot
<1>5. Frames!Samples!EnqueueStore <=> Ring!EnqueueStore
  BY Zenon DEF Ring!EnqueueStore, Frames!Samples!EnqueueStore, Ring!Advance, Frames!Samples!Advance,
         Ring!increment_index, Frames!Samples!increment_index, Ring!Idle, Frames!Samples!Idle
<1>6. Frames!Samples!AvailableWrite <=> Ring!AvailableWrite
  BY Zenon DEF Ring!AvailableWrite, Frames!Samples!AvailableWrite, Ring!ProducerLoads,
         Frames!Samples!ProducerLoads, Ring!NoPut, Frames!Samples!NoPut, Ring!Idle, Frames!Samples!Idle,
         Ring!available_write_internal, Frames!Samples!available_write_internal
<1>7. ASSUME NEW count, NEW discard
      PROVE  Frames!Samples!DequeueLoad(count, discard) <=> Ring!DequeueLoad(count, discard)
  BY Zenon DEF Ring!DequeueLoad, Frames!Samples!DequeueLoad, Ring!ConsumerLoads,
         Frames!Samples!ConsumerLoads, Ring!Idle, Frames!Samples!Idle,
         Ring!Least, Frames!Samples!Least, Ring!empty_internal, Frames!Samples!empty_internal,
         Ring!available_read_internal, Frames!Samples!available_read_internal
<1>8. Frames!Samples!CopyOut <=> Ring!CopyOut
  BY Zenon DEF Ring!CopyOut, Frames!Samples!CopyOut, Ring!Slot, Frames!Samples!Slot
<1>9. Frames!Samples!DequeueStore <=> Ring!DequeueStore
  BY Zenon DEF Ring!DequeueStore, Frames!Samples!DequeueStore, Ring!Advance, Frames!Samples!Advance,
         Ring!increment_index, Frames!Samples!increment_index
<1>10. Frames!Samples!DequeueReturn <=> Ring!DequeueReturn
  BY Zenon DEF Ring!DequeueReturn, Frames!Samples!DequeueReturn, Ring!Idle, Frames!Samples!Idle
<1>11. Frames!Samples!AvailableRead <=> Ring!AvailableRead
  BY Zenon DEF Ring!AvailableRead, Frames!Samples!AvailableRead, Ring!ConsumerLoads,
         Frames!Samples!ConsumerLoads, Ring!NoTake, Frames!Samples!NoTake, Ring!Idle,
         Frames!Samples!Idle,
         Ring!available_read_internal, Frames!Samples!available_read_internal
<1>12. Frames!Samples!Producer <=> Ring!Producer
  BY <1>3, <1>4, <1>5, <1>6, Zenon DEF Ring!Producer, Frames!Samples!Producer
<1>13. Frames!Samples!Consumer <=> Ring!Consumer
  BY <1>7, <1>8, <1>9, <1>10, <1>11, Zenon DEF Ring!Consumer, Frames!Samples!Consumer
<1>14. Frames!Samples!Next <=> Ring!Next
  BY <1>12, <1>13 DEF Ring!Next, Frames!Samples!Next
<1>15. QED
  BY <1>1, <1>2, <1>14

AudioFits ==
  Ring!IndexInv /\ Ring!DataIInv /\ Ring!UnitsInv(channel_count)

LEMMA AudioStarts ==
  ASSUME ComponentsAssumption, RelaxedStore = FALSE, Frames!Samples!Init PROVE AudioFits
<1>1. Ring!Init /\ RelaxedStore \in BOOLEAN /\ Ring!Units(channel_count)
  BY SameBuffer, RingAssumptions
<1>2. Ring!IndexInv
  BY <1>1, RingAssumptions, Ring!IndexInit
<1>3. Ring!DataIInv
  BY <1>1, RingAssumptions, Ring!DataInit
<1>4. Ring!UnitsInv(channel_count)
  BY <1>1, RingAssumptions, Ring!UnitsInit
<1>5. QED
  BY <1>2, <1>3, <1>4 DEF AudioFits

LEMMA AudioGoesOn ==
  ASSUME ComponentsAssumption, RelaxedStore = FALSE, AudioFits,
         Frames!Samples!Next \/ UNCHANGED Shared
  PROVE  AudioFits'
<1>1. /\ [Ring!Next]_(Ring!vars) /\ RelaxedStore \in BOOLEAN /\ Ring!Units(channel_count)
      /\ Ring!IndexInv /\ Ring!DataIInv /\ Ring!UnitsInv(channel_count)
  BY SameBuffer, RingAssumptions DEF AudioFits, Shared, Ring!vars
<1>2. Ring!IndexInv'
  BY <1>1, RingAssumptions, Ring!IndexStep
<1>3. Ring!DataIInv'
  BY <1>1, RingAssumptions, Ring!DataStep
<1>4. Ring!UnitsInv(channel_count)'
  BY <1>1, RingAssumptions, Ring!UnitsStep
<1>5. QED
  BY <1>2, <1>3, <1>4 DEF AudioFits

LEMMA AudioAligned ==
  ASSUME ComponentsAssumption, AudioFits PROVE Frames!Samples!TypeOK /\ Frames!FramesAligned
<1>1. channel_count \in Nat /\ channel_count > 0
  BY RingAssumptions
<1>2. Frames!Samples!TypeOK /\ Ring!TypeOK
  BY SameBuffer DEF AudioFits, Ring!IndexInv
<1>3. ASSUME NEW k, Ring!Multiple(channel_count, k)
      PROVE  Frames!frames_to_samples(Frames!samples_to_frames(k)) = k
  <2>1. PICK q \in Nat : k = q * channel_count
    BY <1>3 DEF Ring!Multiple
  <2>2. (q * channel_count) \div channel_count = q
    BY <1>1, MultipleIs
  <2>3. QED
    BY <2>1, <2>2 DEF Frames!frames_to_samples, Frames!samples_to_frames
<1>4. Frames!WholeFrames
  BY <1>3 DEF AudioFits, Ring!UnitsInv, Frames!WholeFrames
<1>5. Frames!ChannelsAligned
  <2> SUFFICES ASSUME NEW i \in 1..Len(v8)
               PROVE  v8[i] % channel_count = (i - 1) % channel_count
    BY DEF Frames!ChannelsAligned
  <2>1. v8[i] = v7.from.count + i - 1
    BY DEF AudioFits, Ring!DataIInv, Ring!CopyInv, Ring!FifoOrder
  <2>2. PICK q \in Nat : v7.from.count = q * channel_count
    BY DEF AudioFits, Ring!UnitsInv, Ring!Multiple
  <2>3. PICK j \in Nat : i = j + 1
    <3>1. i \in Nat /\ i >= 1
      BY <1>2 DEF Ring!TypeOK
    <3>2. i - 1 \in Nat /\ i = (i - 1) + 1
      BY <3>1
    <3>3. QED
      BY <3>2
  <2>4. v8[i] = q * channel_count + j /\ i - 1 = j
    <3> DEFINE m == q * channel_count
    <3>1. m \in Nat /\ v8[i] = m + i - 1
      BY <1>1, <2>1, <2>2
    <3> HIDE DEF m
    <3>2. v8[i] = m + j /\ i - 1 = j
      BY <2>3, <3>1
    <3>3. QED
      BY <3>2 DEF m
  <2>5. (q * channel_count + j) % channel_count = j % channel_count
    BY <1>1, RestOfSum
  <2>6. QED
    BY <2>4, <2>5
<1>6. QED
  BY <1>2, <1>4, <1>5 DEF Frames!FramesAligned

----------------------------------------------------------------------------
(* The two side by side with the others.                                    *)

LEMMA FramePartsStay ==
  ASSUME [Next]_vars
  PROVE  /\ part' = part
         /\ part = "frames" => Frames!Samples!Next \/ UNCHANGED Shared
         /\ part = "pcm" => Pcm!Next \/ UNCHANGED <<v1, v2, v3>>
<1>1. CASE OwnNext
  BY <1>1 DEF OwnNext, Shared
<1>2. CASE SharedNext
  BY <1>2 DEF SharedNext
<1>3. CASE UNCHANGED vars
  BY <1>3 DEF vars, Shared
<1>4. QED
  BY <1>1, <1>2, <1>3 DEF Next

\* For every kind of stream, every size of the buffer and of a frame, and calls
\* of every size in every order: neither buffer of a stream overflows, what is
\* played gets to the device once and in order, what is recorded gets to the
\* callback whole and in order until a read finds frames left over, after which
\* cubeb_alsa.c:355 tears them, and a stream that only records leaves none over
\* while its callback takes all; a stream drains when the callback gave too few
\* (alsa_process_stream).
THEOREM PcmAlwaysRight == Spec => [](part = "pcm" => Pcm!TypeOK /\ Pcm!PcmIsRight)
<1> DEFINE I == part = "pcm" => PcmInv
<1>1. Init => I
  BY PcmStarts, ComponentsAssumption DEF Init
<1>2. I /\ [Next]_vars => I'
  BY FramePartsStay, PcmGoesOn, PcmRests, ComponentsAssumption
<1>3. I => (part = "pcm" => Pcm!TypeOK /\ Pcm!PcmIsRight)
  BY PcmHolds
<1>4. QED
  BY <1>1, <1>2, <1>3, PTL DEF Spec

\* The same, and of the audio ring, for every number of channels and frames: whole
\* frames go through it, from their first channel on, when the store of
\* read_index_ stays after the copies.
THEOREM FramesAlwaysInPlace ==
  ASSUME RelaxedStore = FALSE PROVE Spec => []FramesInPlace
<1> DEFINE I == part = "frames" => AudioFits
<1>1. Init => I
  BY AudioStarts, ComponentsAssumption DEF Init
<1>2. I /\ [Next]_vars => I'
  BY FramePartsStay, AudioGoesOn, ComponentsAssumption
<1>3. I /\ (part = "pcm" => Pcm!TypeOK /\ Pcm!PcmIsRight) => FramesInPlace
  BY AudioAligned, ComponentsAssumption DEF FramesInPlace
<1>4. QED
  BY <1>1, <1>2, <1>3, PcmAlwaysRight, PTL DEF Spec
----------------------------------------------------------------------------
(* StreamSetup: what is known of a table of stages s, for a stream of kind k,  *)
(* and of two tables one behind the other.                                  *)

Ways == {"never", "refuse", "undo", "quiet", "crash", "ignored"}
Rows(things) == [on : SUBSET Setup!Every, fails : Ways, takes : SUBSET things]
Tables(things) == Seq(Rows(things))

\* Every stage takes some of these things and fails in one of these ways; what is
\* missing is used only where a side that records is set up, and what nobody looks
\* at is spared.
StagesTake(s, things, ways) ==
  /\ Len(s) \in Nat
  /\ \A n \in 1..Len(s) : s[n].takes \subseteq things /\ s[n].fails \in ways
  /\ \A n \in 1..Len(s) : s[n].fails = "crash" => s[n].on \subseteq Setup!Records
  /\ \A n \in 1..Len(s) : s[n].fails = "ignored" => s[n].takes \subseteq Setup!Spared

\* Nothing is taken before a stage that refuses.
Opens(s) ==
  \A n \in 1..Len(s) : s[n].fails = "refuse" =>
    \A m \in 1..(n - 1) : s[m].takes \subseteq {"NULL"}

NeverRefuses(s) == \A n \in 1..Len(s) : s[n].fails # "refuse"

\* Stage m takes r for certain, and is before all that undo.
Begins(s, k, m, r) ==
  /\ m \in 1..Len(s) /\ k \in s[m].on /\ r \in s[m].takes /\ s[m].fails # "ignored"
  /\ \A n \in 1..Len(s) : s[n].fails \in {"undo", "quiet"} => m < n

\* A stage that takes r comes after one that takes q for certain.
Follows(s, k, q, r) ==
  \A n \in 1..Len(s) : k \in s[n].on /\ r \in s[n].takes =>
    \E m \in 1..(n - 1) : k \in s[m].on /\ q \in s[m].takes /\ s[m].fails # "ignored"

LEMMA StagesJoined ==
  ASSUME NEW things, NEW s \in Tables(things), NEW t \in Tables(things)
  PROVE  /\ s \o t \in Tables(things) /\ Len(s \o t) = Len(s) + Len(t)
         /\ Len(s) \in Nat /\ Len(t) \in Nat
         /\ \A n \in 1..Len(s) : (s \o t)[n] = s[n]
         /\ \A n \in 1..Len(t) : (s \o t)[Len(s) + n] = t[n]
<1>1. s \in Seq(Rows(things)) /\ t \in Seq(Rows(things))
  BY DEF Tables
<1>2. s \o t \in Seq(Rows(things))
  BY <1>1
<1>3. Len(s \o t) = Len(s) + Len(t) /\ Len(s) \in Nat /\ Len(t) \in Nat
  BY <1>1
<1>4. \A n \in 1..Len(s) : (s \o t)[n] = s[n]
  BY <1>1
<1>5. \A n \in 1..Len(t) : (s \o t)[Len(s) + n] = t[n]
  BY <1>1
<1>6. QED
  BY <1>2, <1>3, <1>4, <1>5 DEF Tables

\* u is s with t behind it.
Behind(s, t, u) ==
  /\ Len(u) = Len(s) + Len(t)
  /\ \A n \in 1..Len(s) : u[n] = s[n]
  /\ \A n \in 1..Len(t) : u[Len(s) + n] = t[n]

LEMMA BehindAnother ==
  ASSUME NEW things, NEW s \in Tables(things), NEW t \in Tables(things)
  PROVE  Behind(s, t, s \o t)
  BY StagesJoined DEF Behind

LEMMA SegmentsJoined ==
  ASSUME NEW things, NEW ways, NEW s \in Tables(things), NEW t \in Tables(things),
         StagesTake(s, things, ways), StagesTake(t, things, ways)
  PROVE  StagesTake(s \o t, things, ways)
<1> DEFINE u == s \o t
<1>1. /\ Len(u) = Len(s) + Len(t) /\ Len(s) \in Nat /\ Len(t) \in Nat
      /\ \A n \in 1..Len(s) : u[n] = s[n]
      /\ \A n \in 1..Len(t) : u[Len(s) + n] = t[n]
  BY StagesJoined
<1> HIDE DEF u
<1>2. ASSUME NEW n \in 1..Len(u)
      PROVE  \/ \E j \in 1..Len(s) : u[n] = s[j]
             \/ \E j \in 1..Len(t) : u[n] = t[j]
  <2>1. n \in 1..Len(s) \/ (n - Len(s) \in 1..Len(t) /\ n = Len(s) + (n - Len(s)))
    BY <1>1
  <2>2. QED
    BY <1>1, <2>1
<1>3. ASSUME NEW n \in 1..Len(u)
      PROVE  /\ u[n].takes \subseteq things /\ u[n].fails \in ways
             /\ u[n].fails = "crash" => u[n].on \subseteq Setup!Records
             /\ u[n].fails = "ignored" => u[n].takes \subseteq Setup!Spared
  BY <1>2 DEF StagesTake
<1>4. Len(u) \in Nat
  BY <1>1
<1>5. QED
  BY <1>3, <1>4 DEF StagesTake, u

LEMMA OpensJoined ==
  ASSUME NEW things, NEW s \in Tables(things), NEW t \in Tables(things), Opens(s), NeverRefuses(t)
  PROVE  Opens(s \o t)
<1> DEFINE u == s \o t
<1>2. /\ Len(u) = Len(s) + Len(t) /\ Len(s) \in Nat /\ Len(t) \in Nat
      /\ \A n \in 1..Len(s) : u[n] = s[n]
      /\ \A n \in 1..Len(t) : u[Len(s) + n] = t[n]
  BY StagesJoined
<1> HIDE DEF u
<1>3. ASSUME NEW n \in 1..Len(u), u[n].fails = "refuse", NEW m \in 1..(n - 1)
      PROVE  u[m].takes \subseteq {"NULL"}
  <2>1. CASE n <= Len(s)
    <3>1. n \in 1..Len(s) /\ m \in 1..Len(s)
      BY <1>2, <2>1
    <3>2. u[n] = s[n] /\ u[m] = s[m]
      BY <1>2, <3>1
    <3>3. QED
      BY <1>3, <3>1, <3>2 DEF Opens
  <2>2. CASE n > Len(s)
    <3>1. n - Len(s) \in 1..Len(t) /\ n = Len(s) + (n - Len(s))
      BY <1>2, <2>2
    <3>2. u[n] = t[n - Len(s)]
      BY <1>2, <3>1
    <3>3. QED
      BY <1>3, <3>1, <3>2 DEF NeverRefuses
  <2>3. QED
    BY <1>2, <2>1, <2>2
<1>4. QED
  BY <1>3 DEF Opens, u

LEMMA NoRefusalJoined ==
  ASSUME NEW things, NEW s \in Tables(things), NEW t \in Tables(things),
         NeverRefuses(s), NeverRefuses(t)
  PROVE  NeverRefuses(s \o t)
<1> DEFINE u == s \o t
<1>1. /\ Len(u) = Len(s) + Len(t) /\ Len(s) \in Nat /\ Len(t) \in Nat
      /\ \A n \in 1..Len(s) : u[n] = s[n]
      /\ \A n \in 1..Len(t) : u[Len(s) + n] = t[n]
  BY StagesJoined
<1> HIDE DEF u
<1>2. ASSUME NEW n \in 1..Len(u) PROVE u[n].fails # "refuse"
  <2>1. n \in 1..Len(s) \/ (n - Len(s) \in 1..Len(t) /\ n = Len(s) + (n - Len(s)))
    BY <1>1
  <2>2. QED
    BY <1>1, <2>1 DEF NeverRefuses
<1>3. QED
  BY <1>2 DEF NeverRefuses, u

LEMMA BeginsJoined ==
  ASSUME NEW things, NEW s \in Tables(things), NEW t \in Tables(things), NEW k, NEW m, NEW r,
         Begins(s, k, m, r)
  PROVE  Begins(s \o t, k, m, r)
<1>0. m \in Nat /\ m > 0 /\ m <= Len(s)
  <2>1. m \in 1..Len(s) /\ Len(s) \in Nat
    BY StagesJoined DEF Begins
  <2>2. QED
    BY <2>1
<1> DEFINE u == s \o t
<1>2. /\ Len(u) = Len(s) + Len(t) /\ Len(s) \in Nat /\ Len(t) \in Nat
      /\ \A n \in 1..Len(s) : u[n] = s[n]
  BY StagesJoined
<1>1. /\ m \in 1..Len(s) /\ k \in s[m].on /\ r \in s[m].takes /\ s[m].fails # "ignored"
      /\ \A n \in 1..Len(s) : s[n].fails \in {"undo", "quiet"} => m < n
  BY DEF Begins
<1> HIDE DEF u
<1>3. m \in 1..Len(u) /\ u[m] = s[m]
  <2>1. m \in 1..Len(s) /\ m \in 1..(Len(s) + Len(t))
    BY <1>0, <1>2
  <2>2. QED
    BY <1>2, <2>1
<1>4. ASSUME NEW n \in 1..Len(u), u[n].fails \in {"undo", "quiet"} PROVE m < n
  <2>1. CASE n <= Len(s)
    <3>1. n \in 1..Len(s) /\ u[n] = s[n]
      BY <1>2, <2>1
    <3>2. QED
      BY <1>1, <1>4, <3>1
  <2>2. CASE n > Len(s)
    BY <1>0, <1>2, <2>2
  <2>3. QED
    BY <1>2, <2>1, <2>2
<1>5. QED
  BY <1>1, <1>3, <1>4 DEF Begins, u

LEMMA FollowsJoined ==
  ASSUME NEW things, NEW s \in Tables(things), NEW t \in Tables(things), NEW k, NEW q, NEW r,
         Follows(s, k, q, r), Follows(t, k, q, r)
  PROVE  Follows(s \o t, k, q, r)
<1> DEFINE u == s \o t
<1>2. /\ Len(u) = Len(s) + Len(t) /\ Len(s) \in Nat /\ Len(t) \in Nat
      /\ \A n \in 1..Len(s) : u[n] = s[n]
      /\ \A n \in 1..Len(t) : u[Len(s) + n] = t[n]
  BY StagesJoined
<1> HIDE DEF u
<1>3. ASSUME NEW n \in 1..Len(u), k \in u[n].on, r \in u[n].takes
      PROVE  \E m \in 1..(n - 1) : k \in u[m].on /\ q \in u[m].takes /\ u[m].fails # "ignored"
  <2>1. CASE n <= Len(s)
    <3>1. n \in 1..Len(s) /\ u[n] = s[n]
      BY <1>2, <2>1
    <3>2. PICK m \in 1..(n - 1) : k \in s[m].on /\ q \in s[m].takes /\ s[m].fails # "ignored"
      BY <1>3, <3>1 DEF Follows
    <3>3. m \in 1..Len(s) /\ u[m] = s[m]
      BY <1>2, <3>1
    <3>4. QED
      BY <3>2, <3>3
  <2>2. CASE n > Len(s)
    <3>1. n - Len(s) \in 1..Len(t) /\ n = Len(s) + (n - Len(s))
      BY <1>2, <2>2
    <3>2. u[n] = t[n - Len(s)]
      BY <1>2, <3>1
    <3>3. PICK m \in 1..((n - Len(s)) - 1) :
               k \in t[m].on /\ q \in t[m].takes /\ t[m].fails # "ignored"
      BY <1>3, <3>1, <3>2 DEF Follows
    <3> DEFINE j == n - Len(s)
    <3>4. m \in 1..Len(t) /\ Len(s) + m \in 1..(n - 1)
      <4>1. m \in 1..(j - 1) /\ j \in 1..Len(t) /\ n = Len(s) + j
        BY <3>1
      <4> HIDE DEF j
      <4>2. QED
        BY <1>2, <4>1
    <3>5. u[Len(s) + m] = t[m]
      BY <1>2, <3>4
    <3>6. /\ k \in u[Len(s) + m].on /\ q \in u[Len(s) + m].takes
          /\ u[Len(s) + m].fails # "ignored"
      BY <3>3, <3>5
    <3>7. QED
      BY ONLY <3>4, <3>6, Zenon
  <2>3. n <= Len(s) \/ n > Len(s)
    BY <1>2
  <2>4. QED
    BY ONLY <2>1, <2>2, <2>3, Zenon
<1>4. QED
  BY <1>3 DEF Follows, u

\* What is known of two tables is known of one behind the other.
LEMMA TablesJoined ==
  ASSUME NEW things, NEW ways, NEW s \in Tables(things), NEW t \in Tables(things),
         StagesTake(s, things, ways), StagesTake(t, things, ways)
  PROVE  /\ s \o t \in Tables(things) /\ StagesTake(s \o t, things, ways)
         /\ NeverRefuses(t) => /\ Opens(s) => Opens(s \o t)
                               /\ NeverRefuses(s) => NeverRefuses(s \o t)
         /\ \A k, m, r : Begins(s, k, m, r) => Begins(s \o t, k, m, r)
         /\ \A k, q, r : Follows(s, k, q, r) /\ Follows(t, k, q, r) => Follows(s \o t, k, q, r)
<1>1. s \o t \in Tables(things) /\ StagesTake(s \o t, things, ways)
  BY StagesJoined, SegmentsJoined
<1>2. NeverRefuses(t) => /\ Opens(s) => Opens(s \o t)
                         /\ NeverRefuses(s) => NeverRefuses(s \o t)
  BY OpensJoined, NoRefusalJoined
<1>3. \A k, m, r : Begins(s, k, m, r) => Begins(s \o t, k, m, r)
  BY BeginsJoined
<1>4. \A k, q, r : Follows(s, k, q, r) /\ Follows(t, k, q, r) => Follows(s \o t, k, q, r)
  BY FollowsJoined
<1>5. QED
  BY <1>1, <1>2, <1>3, <1>4

\* One stage takes r, another before it takes q; or none takes r.
LEMMA FollowsOne ==
  ASSUME NEW s, NEW k, NEW q, NEW r, NEW i \in Nat, NEW j \in 1..(i - 1),
         \A n \in 1..Len(s) : r \in s[n].takes => n = i,
         k \in s[i].on => k \in s[j].on, q \in s[j].takes, s[j].fails # "ignored"
  PROVE  Follows(s, k, q, r)
<1>1. ASSUME NEW n \in 1..Len(s), k \in s[n].on, r \in s[n].takes
      PROVE  \E m \in 1..(n - 1) : k \in s[m].on /\ q \in s[m].takes /\ s[m].fails # "ignored"
  <2>1. n = i
    BY <1>1, Zenon
  <2>2. k \in s[j].on
    BY <1>1, <2>1, Zenon
  <2>3. QED
    BY <2>1, <2>2, Zenon
<1>2. QED
  BY <1>1 DEF Follows

LEMMA FollowsNone ==
  ASSUME NEW s, NEW k, NEW q, NEW r, \A n \in 1..Len(s) : r \notin s[n].takes
  PROVE  Follows(s, k, q, r)
  BY DEF Follows

----------------------------------------------------------------------------
(* What is held of it                                                       *)

\* What is held at stage n: what the stages before it took, all of it but what
\* they may go on without; but for what is lost.
Sure(s, k, n, h, lost) ==
  \A j \in 1..Len(s) : j < n /\ k \in s[j].on /\ s[j].fails # "ignored" =>
    s[j].takes \ lost \subseteq h
May(s, k, n, h, lost) ==
  \A r \in h :
    /\ r \notin lost
    /\ \E j \in 1..Len(s) : j < n /\ k \in s[j].on /\ r \in s[j].takes

LEMMA HeldOf ==
  ASSUME NEW s, NEW k, NEW n, NEW h, NEW lost, NEW things, NEW ways,
         StagesTake(s, things, ways), May(s, k, n, h, lost)
  PROVE  h \subseteq things \ lost
<1> SUFFICES ASSUME NEW r \in h PROVE r \in things /\ r \notin lost
  OBVIOUS
<1>1. \A j \in 1..Len(s) : s[j].takes \subseteq things
  BY DEF StagesTake
<1>2. r \notin lost /\ \E j \in 1..Len(s) : j < n /\ k \in s[j].on /\ r \in s[j].takes
  BY Zenon DEF May
<1>3. QED
  BY <1>1, <1>2

\* At a stage that undoes, or behind them all.
Ends(s, n) == n = Len(s) + 1 \/ (n \in 1..Len(s) /\ s[n].fails \in {"undo", "quiet"})

LEMMA BeginsHeld ==
  ASSUME NEW s, NEW k, NEW n, NEW h, NEW lost, NEW m, NEW r, Len(s) \in Nat,
         Begins(s, k, m, r), Ends(s, n), Sure(s, k, n, h, lost), r \notin lost
  PROVE  r \in h
<1>1. m \in 1..Len(s) /\ k \in s[m].on /\ r \in s[m].takes /\ s[m].fails # "ignored"
  BY DEF Begins
<1>2. m < n
  <2>1. CASE n = Len(s) + 1
    <3>1. m \in 1..Len(s)
      BY DEF Begins
    <3>2. QED
      BY <2>1, <3>1
  <2>2. CASE n \in 1..Len(s) /\ s[n].fails \in {"undo", "quiet"}
    BY <2>2, Zenon DEF Begins
  <2>3. QED
    BY <2>1, <2>2, Zenon DEF Ends
<1>3. QED
  BY <1>1, <1>2, Zenon DEF Sure

LEMMA FollowsHeld ==
  ASSUME NEW s, NEW k, NEW n \in Nat, NEW h, NEW lost, NEW q, NEW r, Len(s) \in Nat,
         Follows(s, k, q, r), Sure(s, k, n, h, lost), May(s, k, n, h, lost), q \notin lost,
         r \in h
  PROVE  q \in h
<1>1. PICK j \in 1..Len(s) : j < n /\ k \in s[j].on /\ r \in s[j].takes
  BY DEF May
<1>2. PICK m \in 1..(j - 1) : k \in s[m].on /\ q \in s[m].takes /\ s[m].fails # "ignored"
  BY <1>1 DEF Follows
<1>3. m \in 1..Len(s) /\ m < n
  BY <1>1
<1>4. QED
  BY <1>2, <1>3 DEF Sure

LEMMA OpensHeld ==
  ASSUME NEW s, NEW k, NEW h, Opens(s), Len(s) \in Nat,
         NEW n \in 1..Len(s), s[n].fails = "refuse", May(s, k, n, h, {"NULL"})
  PROVE  h = {}
<1> SUFFICES ASSUME NEW r \in h PROVE FALSE
  OBVIOUS
<1>0. r # "NULL"
  BY DEF May
<1>1. PICK j \in 1..Len(s) : j < n /\ k \in s[j].on /\ r \in s[j].takes
  BY DEF May
<1>2. j \in 1..(n - 1)
  BY <1>1
<1>3. QED
  BY <1>0, <1>1, <1>2 DEF Opens
----------------------------------------------------------------------------
(* The tables of the thirteen backends: what their stages take and how they  *)
(* fail, and what is there for certain when one of them is undone.           *)

InThings == {"in_active", "in_stm", "in_pcm", "in_buffer", "in_fds", "in_slot"}
OutThings == {"out_active", "out_stm", "out_pcm", "out_buffer", "out_fds", "out_slot"}
AlsaThings == InThings \cup OutThings

\* A side's stages: its place in the context, its stream, the rest, its slot last.
SideTable(side, on, fails, things, active, stm, slot) ==
  /\ Len(side) = 7 /\ \A n \in 1..7 : side[n].on = on /\ side[n].takes \subseteq things
  /\ side[1].fails = fails /\ side[1].takes = {active}
  /\ side[2].fails = "never" /\ side[2].takes = {stm}
  /\ \A n \in 1..7 : side[n].fails = "refuse" => n = 1
  /\ \A n \in 1..7 : slot \in side[n].takes => n = 7

LEMMA AlsaRows ==
  LET s == Setup!AlsaStages
      first == <<Setup!Refuse(Setup!Every)>>
      records == Setup!AlsaSide(Setup!Records, "refuse", Setup!AlsaIn)
      plays == Setup!AlsaSide(Setup!Plays, "undo", Setup!AlsaOut)
  IN  /\ StagesTake(s, AlsaThings, {"never", "refuse", "undo"})
      /\ Len(s) = 15 /\ s[1].takes = {} /\ s[1].fails = "refuse"
      /\ \A n \in 1..7 : s[1 + n] = records[n] /\ s[8 + n] = plays[n]
      /\ SideTable(records, Setup!Records, "refuse", InThings, "in_active", "in_stm", "in_slot")
      /\ SideTable(plays, Setup!Plays, "undo", OutThings, "out_active", "out_stm", "out_slot")
<1> DEFINE first == <<Setup!Refuse(Setup!Every)>>
           records == Setup!AlsaSide(Setup!Records, "refuse", Setup!AlsaIn)
           plays == Setup!AlsaSide(Setup!Plays, "undo", Setup!AlsaOut)
           u == first \o records
           s == u \o plays
<1>1. /\ first \in Tables(AlsaThings) /\ StagesTake(first, AlsaThings, {"never", "refuse", "undo"})
      /\ Len(first) = 1 /\ first[1].takes = {} /\ first[1].fails = "refuse"
  BY DEF Tables, Rows, Ways, StagesTake, Setup!Refuse, Setup!Stage, Setup!Every
<1>2. /\ records \in Tables(AlsaThings)
      /\ StagesTake(records, AlsaThings, {"never", "refuse", "undo"})
  BY DEF Tables, Rows, Ways, StagesTake, AlsaThings, InThings, Setup!AlsaSide, Setup!Check,
     Setup!Try, Setup!Take, Setup!Stage, Setup!Every, Setup!Records, Setup!AlsaIn
<1>3. SideTable(records, Setup!Records, "refuse", InThings, "in_active", "in_stm", "in_slot")
  BY DEF SideTable, InThings, Setup!AlsaSide, Setup!Check, Setup!Try, Setup!Take, Setup!Stage,
     Setup!AlsaIn
<1>4. /\ plays \in Tables(AlsaThings)
      /\ StagesTake(plays, AlsaThings, {"never", "refuse", "undo"})
  BY DEF Tables, Rows, Ways, StagesTake, AlsaThings, OutThings, Setup!AlsaSide, Setup!Check,
     Setup!Try, Setup!Take, Setup!Stage, Setup!Every, Setup!Plays, Setup!AlsaOut
<1>5. SideTable(plays, Setup!Plays, "undo", OutThings, "out_active", "out_stm", "out_slot")
  BY DEF SideTable, OutThings, Setup!AlsaSide, Setup!Check, Setup!Try, Setup!Take, Setup!Stage,
     Setup!AlsaOut
<1> HIDE DEF first, records, plays
<1>6. /\ u \in Tables(AlsaThings) /\ StagesTake(u, AlsaThings, {"never", "refuse", "undo"})
      /\ Len(u) = 8 /\ u[1] = first[1]
      /\ \A n \in 1..7 : u[1 + n] = records[n]
  <2>1. u \in Tables(AlsaThings) /\ StagesTake(u, AlsaThings, {"never", "refuse", "undo"})
    BY <1>1, <1>2, StagesJoined, SegmentsJoined
  <2>2. /\ Len(u) = Len(first) + Len(records)
        /\ \A n \in 1..Len(first) : u[n] = first[n]
        /\ \A n \in 1..Len(records) : u[Len(first) + n] = records[n]
    <3>1. first \in Tables(AlsaThings) /\ records \in Tables(AlsaThings)
      BY <1>1, <1>2
    <3>2. Behind(first, records, u)
      BY ONLY <3>1, BehindAnother
    <3>3. QED
      BY ONLY <3>2 DEF Behind
  <2> HIDE DEF u
  <2>3. Len(records) = 7
    BY <1>3 DEF SideTable
  <2>4. QED
    BY <1>1, <2>1, <2>2, <2>3
<1> HIDE DEF u
<1>7. /\ StagesTake(s, AlsaThings, {"never", "refuse", "undo"})
      /\ Len(s) = 15
      /\ \A n \in 1..8 : s[n] = u[n]
      /\ \A n \in 1..7 : s[8 + n] = plays[n]
  <2>1. StagesTake(s, AlsaThings, {"never", "refuse", "undo"})
    BY <1>4, <1>6, SegmentsJoined
  <2>2. /\ Len(s) = Len(u) + Len(plays)
        /\ \A n \in 1..Len(u) : s[n] = u[n]
        /\ \A n \in 1..Len(plays) : s[Len(u) + n] = plays[n]
    <3>1. u \in Tables(AlsaThings) /\ plays \in Tables(AlsaThings)
      BY <1>4, <1>6
    <3>2. Behind(u, plays, s)
      BY ONLY <3>1, BehindAnother
    <3>3. QED
      BY ONLY <3>2 DEF Behind
  <2> HIDE DEF s
  <2>3. Len(plays) = 7
    BY <1>5 DEF SideTable
  <2>4. QED
    BY <1>6, <2>1, <2>2, <2>3
<1> HIDE DEF s
<1>8. s[1].takes = {} /\ s[1].fails = "refuse"
  BY <1>1, <1>6, <1>7
<1>9. \A n \in 1..7 : s[1 + n] = records[n] /\ s[8 + n] = plays[n]
  <2>1. \A n \in 1..7 : 1 + n \in 1..8
    OBVIOUS
  <2>2. QED
    BY <1>6, <1>7, <2>1
<1>10. Setup!AlsaStages = s
  BY Zenon DEF Setup!AlsaStages, s, u, first, records, plays
<1>11. QED
  BY <1>3, <1>5, <1>7, <1>8, <1>9, <1>10, Zenon DEF records, plays

LEMMA AlsaTable ==
  LET s == Setup!AlsaStages IN
  /\ StagesTake(s, AlsaThings, {"never", "refuse", "undo"})
  /\ Opens(s) /\ Len(s) = 15
  /\ \A n, m \in 1..Len(s) :
       "in_slot" \in s[n].takes /\ n < m => s[n].on = Setup!Records /\ s[m].on = Setup!Plays
  /\ s[2].takes = {"in_active"} /\ s[2].fails = "refuse" /\ s[2].on = Setup!Records
  /\ s[3].takes = {"in_stm"} /\ s[3].fails = "never" /\ s[3].on = Setup!Records
  /\ s[9].takes = {"out_active"} /\ s[9].fails = "undo" /\ s[9].on = Setup!Plays
  /\ s[10].takes = {"out_stm"} /\ s[10].fails = "never" /\ s[10].on = Setup!Plays
  /\ \A n \in 1..Len(s) : \A r \in s[n].takes :
       /\ r \in InThings => n >= 2 /\ s[n].on = Setup!Records
       /\ r \in OutThings => n >= 9 /\ s[n].on = Setup!Plays
<1> DEFINE s == Setup!AlsaStages
           records == Setup!AlsaSide(Setup!Records, "refuse", Setup!AlsaIn)
           plays == Setup!AlsaSide(Setup!Plays, "undo", Setup!AlsaOut)
<1>1. /\ StagesTake(s, AlsaThings, {"never", "refuse", "undo"})
      /\ Len(s) = 15 /\ s[1].takes = {} /\ s[1].fails = "refuse"
      /\ \A n \in 1..7 : s[1 + n] = records[n] /\ s[8 + n] = plays[n]
      /\ SideTable(records, Setup!Records, "refuse", InThings, "in_active", "in_stm", "in_slot")
      /\ SideTable(plays, Setup!Plays, "undo", OutThings, "out_active", "out_stm", "out_slot")
  BY AlsaRows
<1> HIDE DEF s, records, plays
<1>2. \A n \in 1..15 : \/ n = 1 \/ (n - 1 \in 1..7 /\ n = 1 + (n - 1))
                       \/ (n - 8 \in 1..7 /\ n = 8 + (n - 8))
  OBVIOUS
<1>3. InThings \cap OutThings = {} /\ "in_slot" \in InThings /\ "in_slot" \notin OutThings
  BY DEF InThings, OutThings
<1>4. /\ \A n \in 1..7 : /\ records[n].on = Setup!Records /\ records[n].takes \subseteq InThings
                         /\ plays[n].on = Setup!Plays /\ plays[n].takes \subseteq OutThings
                         /\ records[n].fails = "refuse" => n = 1
                         /\ plays[n].fails # "refuse"
                         /\ "in_slot" \in records[n].takes => n = 7
      /\ records[1].takes = {"in_active"} /\ records[1].fails = "refuse"
      /\ records[2].takes = {"in_stm"} /\ records[2].fails = "never"
      /\ plays[1].takes = {"out_active"} /\ plays[1].fails = "undo"
      /\ plays[2].takes = {"out_stm"} /\ plays[2].fails = "never"
  BY <1>1 DEF SideTable
<1>5. /\ s[2] = records[1] /\ s[3] = records[2] /\ s[9] = plays[1] /\ s[10] = plays[2]
      /\ 1 \in 1..7 /\ 2 \in 1..7
  <2>1. /\ s[1 + 1] = records[1] /\ s[1 + 2] = records[2]
        /\ s[8 + 1] = plays[1] /\ s[8 + 2] = plays[2] /\ 1 \in 1..7 /\ 2 \in 1..7
    BY <1>1
  <2>2. QED
    BY <2>1
<1>6. ASSUME NEW n \in 1..15, s[n].fails = "refuse" PROVE n = 1 \/ n = 2
  BY <1>1, <1>2, <1>4, <1>6
<1>7. Opens(s)
  BY <1>1, <1>6 DEF Opens
<1>8. ASSUME NEW n \in 1..15, NEW m \in 1..15, "in_slot" \in s[n].takes, n < m
      PROVE  s[n].on = Setup!Records /\ s[m].on = Setup!Plays
  <2>1. n = 8
    <3>1. n - 1 \in 1..7 /\ n = 1 + (n - 1) /\ s[n] = records[n - 1]
      BY <1>1, <1>2, <1>3, <1>4, <1>8
    <3>2. n - 1 = 7
      BY <1>4, <1>8, <3>1
    <3>3. QED
      BY <3>1, <3>2
  <2>2. s[8] = records[7]
    <3>1. 7 \in 1..7 /\ 1 + 7 = 8
      OBVIOUS
    <3>2. QED
      BY <1>1, <3>1
  <2>3. m - 8 \in 1..7 /\ m = 8 + (m - 8)
    BY <1>8, <2>1
  <2>4. QED
    BY <1>1, <1>4, <2>1, <2>2, <2>3
<1>9. ASSUME NEW n \in 1..15, NEW r \in s[n].takes
      PROVE  /\ r \in InThings => n >= 2 /\ s[n].on = Setup!Records
             /\ r \in OutThings => n >= 9 /\ s[n].on = Setup!Plays
  <2>1. CASE n = 1
    BY <1>1, <2>1
  <2>2. CASE n - 1 \in 1..7 /\ n = 1 + (n - 1)
    <3>1. s[n] = records[n - 1] /\ n >= 2
      BY <1>1, <2>2
    <3>2. r \in InThings /\ r \notin OutThings
      BY <1>3, <1>4, <2>2, <3>1
    <3>3. QED
      BY <1>4, <2>2, <3>1, <3>2
  <2>3. CASE n - 8 \in 1..7 /\ n = 8 + (n - 8)
    <3>1. s[n] = plays[n - 8] /\ n >= 9
      BY <1>1, <2>3
    <3>2. r \in OutThings /\ r \notin InThings
      BY <1>3, <1>4, <2>3, <3>1
    <3>3. QED
      BY <1>4, <2>3, <3>1, <3>2
  <2>4. QED
    BY <1>2, <2>1, <2>2, <2>3
<1>10. /\ s[2].takes = {"in_active"} /\ s[2].fails = "refuse" /\ s[2].on = Setup!Records
       /\ s[3].takes = {"in_stm"} /\ s[3].fails = "never" /\ s[3].on = Setup!Records
       /\ s[9].takes = {"out_active"} /\ s[9].fails = "undo" /\ s[9].on = Setup!Plays
       /\ s[10].takes = {"out_stm"} /\ s[10].fails = "never" /\ s[10].on = Setup!Plays
  BY ONLY <1>4, <1>5
<1>11. Len(s) = 15 /\ StagesTake(s, AlsaThings, {"never", "refuse", "undo"})
  BY <1>1
<1>12. \A n, m \in 1..Len(s) :
         "in_slot" \in s[n].takes /\ n < m => s[n].on = Setup!Records /\ s[m].on = Setup!Plays
  BY ONLY <1>8, <1>11
<1>13. \A n \in 1..Len(s) : \A r \in s[n].takes :
         /\ r \in InThings => n >= 2 /\ s[n].on = Setup!Records
         /\ r \in OutThings => n >= 9 /\ s[n].on = Setup!Plays
  BY ONLY <1>9, <1>11
<1>14. QED
  BY <1>7, <1>10, <1>11, <1>12, <1>13, Zenon DEF s

USE DEF Setup!Stage, Setup!Take, Setup!Try, Setup!Check, Setup!Refuse,
         Setup!Every, Setup!Plays, Setup!Records

PulseThings == {"NULL", "stm", "output", "input"}

LEMMA PulseTable ==
  ASSUME NEW k \in Setup!Every
  PROVE  LET s == Setup!PulseStages IN
         /\ StagesTake(s, PulseThings, {"never", "refuse", "undo"})
         /\ Opens(s)
         /\ Begins(s, k, 3, "stm")
<1> DEFINE s == Setup!PulseStages
<1>1. StagesTake(s, PulseThings, {"never", "refuse", "undo"})
  BY DEF StagesTake, PulseThings, Setup!PulseStages, Setup!Null, Setup!PulseSide
<1>2. Opens(s)
  BY DEF Opens, Setup!PulseStages, Setup!Null, Setup!PulseSide
<1>3. Begins(s, k, 3, "stm")
  <2>1. Len(s) = 6 /\ s[3] = Setup!Take("stm", Setup!Every)
    BY DEF Setup!PulseStages
  <2>2. \A n \in 1..Len(s) : s[n].fails \in {"undo", "quiet"} => 3 < n
    BY DEF Setup!PulseStages, Setup!Null, Setup!PulseSide
  <2> HIDE DEF s
  <2>3. QED
    BY <2>1, <2>2 DEF Begins
<1>4. QED
  BY <1>1, <1>2, <1>3

JackThings == {"NULL", "slot", "resampler", "output_ports", "input_ports"}

LEMMA JackTable ==
  ASSUME NEW k \in Setup!Every
  PROVE  LET s == Setup!JackStages IN
         /\ StagesTake(s, JackThings, {"never", "refuse", "undo"})
         /\ Opens(s)
         /\ Begins(s, k, 3, "slot")
<1> DEFINE s == Setup!JackStages
<1>1. StagesTake(s, JackThings, {"never", "refuse", "undo"})
  BY DEF StagesTake, JackThings, Setup!JackStages, Setup!Null
<1>2. Opens(s)
  BY DEF Opens, Setup!JackStages, Setup!Null
<1>3. Begins(s, k, 3, "slot")
  <2>1. Len(s) = 8 /\ s[3] = Setup!Stage(Setup!Every, "refuse", {"slot"})
    BY DEF Setup!JackStages
  <2>2. \A n \in 1..Len(s) : s[n].fails \in {"undo", "quiet"} => 3 < n
    BY DEF Setup!JackStages, Setup!Null
  <2> HIDE DEF s
  <2>3. QED
    BY <2>1, <2>2 DEF Begins
<1>4. QED
  BY <1>1, <1>2, <1>3

AAudioThings == {"slot", "builder", "output", "input", "in_buf", "resampler"}

LEMMA AAudioTable ==
  ASSUME NEW k \in Setup!Every
  PROVE  LET s == Setup!AAudioStages IN
         /\ StagesTake(s, AAudioThings, {"never", "refuse", "undo"})
         /\ Opens(s)
         /\ Begins(s, k, 1, "slot")
<1> DEFINE s == Setup!AAudioStages
<1>1. StagesTake(s, AAudioThings, {"never", "refuse", "undo"})
  BY DEF StagesTake, AAudioThings, Setup!AAudioStages, Setup!AAudioSide
<1>2. Opens(s)
  BY DEF Opens, Setup!AAudioStages, Setup!AAudioSide
<1>3. Begins(s, k, 1, "slot")
  <2>1. Len(s) = 6 /\ s[1] = Setup!Stage(Setup!Every, "refuse", {"slot"})
    BY DEF Setup!AAudioStages
  <2>2. \A n \in 1..Len(s) : s[n].fails \in {"undo", "quiet"} => 1 < n
    BY DEF Setup!AAudioStages, Setup!AAudioSide
  <2> HIDE DEF s
  <2>3. QED
    BY <2>1, <2>2 DEF Begins
<1>4. QED
  BY <1>1, <1>2, <1>3

OssThings == {"stm", "record.fd", "play.fd", "mtx", "doorbell_cv", "stopped_cv",
  "play.buf", "record.buf"}

LEMMA OssTable ==
  ASSUME NEW k \in Setup!Every
  PROVE  LET s == Setup!OssStages IN
         /\ StagesTake(s, OssThings, {"refuse", "undo", "quiet"})
         /\ Opens(s)
         /\ Begins(s, k, 1, "stm")
<1> DEFINE s == Setup!OssStages
<1>1. StagesTake(s, OssThings, {"refuse", "undo", "quiet"})
  BY DEF StagesTake, OssThings, Setup!OssStages
<1>2. Opens(s)
  BY DEF Opens, Setup!OssStages
<1>3. Begins(s, k, 1, "stm")
  <2>1. Len(s) = 12 /\ s[1] = Setup!Stage(Setup!Every, "refuse", {"stm"})
    BY DEF Setup!OssStages
  <2>2. \A n \in 1..Len(s) : s[n].fails \in {"undo", "quiet"} => 1 < n
    BY DEF Setup!OssStages
  <2> HIDE DEF s
  <2>3. QED
    BY <2>1, <2>2 DEF Begins
<1>4. QED
  BY <1>1, <1>2, <1>3

SunThings == {"stm", "record.fd", "play.fd", "mutex", "play.buf", "record.buf"}

LEMMA SunTable ==
  ASSUME NEW k \in Setup!Every
  PROVE  LET s == Setup!SunStages IN
         /\ StagesTake(s, SunThings, {"refuse", "undo", "quiet"})
         /\ Opens(s)
         /\ Begins(s, k, 1, "stm")
<1> DEFINE s == Setup!SunStages
<1>1. StagesTake(s, SunThings, {"refuse", "undo", "quiet"})
  BY DEF StagesTake, SunThings, Setup!SunStages
<1>2. Opens(s)
  BY DEF Opens, Setup!SunStages
<1>3. Begins(s, k, 1, "stm")
  <2>1. Len(s) = 10 /\ s[1] = Setup!Stage(Setup!Every, "refuse", {"stm"})
    BY DEF Setup!SunStages
  <2>2. \A n \in 1..Len(s) : s[n].fails \in {"undo", "quiet"} => 1 < n
    BY DEF Setup!SunStages
  <2> HIDE DEF s
  <2>3. QED
    BY <2>1, <2>2 DEF Begins
<1>4. QED
  BY <1>1, <1>2, <1>3

SndioThings == {"s", "hdl", "pbuf", "rbuf"}

LEMMA SndioTable ==
  ASSUME NEW k \in Setup!Every
  PROVE  LET s == Setup!SndioStages IN
         /\ StagesTake(s, SndioThings, {"refuse", "undo"})
         /\ Opens(s)
         /\ Begins(s, k, 1, "s")
         /\ Len(s) = 6 /\ \A n \in 1..Len(s) : "rbuf" \in s[n].takes => n = 6
<1> DEFINE s == Setup!SndioStages
<1>1. StagesTake(s, SndioThings, {"refuse", "undo"})
  BY DEF StagesTake, SndioThings, Setup!SndioStages
<1>2. Opens(s)
  BY DEF Opens, Setup!SndioStages
<1>3. Begins(s, k, 1, "s")
  <2>1. Len(s) = 6 /\ s[1] = Setup!Stage(Setup!Every, "refuse", {"s"})
    BY DEF Setup!SndioStages
  <2>2. \A n \in 1..Len(s) : s[n].fails \in {"undo", "quiet"} => 1 < n
    BY DEF Setup!SndioStages
  <2> HIDE DEF s
  <2>3. QED
    BY <2>1, <2>2 DEF Begins
<1>4. Len(s) = 6 /\ \A n \in 1..Len(s) : "rbuf" \in s[n].takes => n = 6
  BY DEF Setup!SndioStages
<1>5. QED
  BY <1>1, <1>2, <1>3, <1>4

WinmmThings == {"NULL", "active", "stm", "lock", "event", "waveout", "buffers",
  "headers", "queued"}

LEMMA WinmmTable ==
  ASSUME NEW k \in Setup!Every
  PROVE  LET s == Setup!WinmmStages IN
         /\ StagesTake(s, WinmmThings, {"never", "refuse", "undo", "ignored"})
         /\ Opens(s)
         /\ Begins(s, k, 3, "active")
         /\ Begins(s, k, 4, "stm")
         /\ Begins(s, k, 5, "lock")
         /\ Follows(s, k, "waveout", "headers")
         /\ Follows(s, k, "waveout", "queued")
<1> DEFINE s == Setup!WinmmStages
<1>1. StagesTake(s, WinmmThings, {"never", "refuse", "undo", "ignored"})
  BY DEF StagesTake, WinmmThings, Setup!WinmmStages, Setup!Null, Setup!Spared
<1>2. Opens(s)
  BY DEF Opens, Setup!WinmmStages, Setup!Null
<1>3. Begins(s, k, 3, "active")
  <2>1. Len(s) = 11 /\ s[3] = Setup!Stage(Setup!Every, "refuse", {"active"})
    BY DEF Setup!WinmmStages
  <2>2. \A n \in 1..Len(s) : s[n].fails \in {"undo", "quiet"} => 3 < n
    BY DEF Setup!WinmmStages, Setup!Null
  <2> HIDE DEF s
  <2>3. QED
    BY <2>1, <2>2 DEF Begins
<1>4. Begins(s, k, 4, "stm")
  <2>1. Len(s) = 11 /\ s[4] = Setup!Take("stm", Setup!Every)
    BY DEF Setup!WinmmStages
  <2>2. \A n \in 1..Len(s) : s[n].fails \in {"undo", "quiet"} => 4 < n
    BY DEF Setup!WinmmStages, Setup!Null
  <2> HIDE DEF s
  <2>3. QED
    BY <2>1, <2>2 DEF Begins
<1>5. Begins(s, k, 5, "lock")
  <2>1. Len(s) = 11 /\ s[5] = Setup!Take("lock", Setup!Every)
    BY DEF Setup!WinmmStages
  <2>2. \A n \in 1..Len(s) : s[n].fails \in {"undo", "quiet"} => 5 < n
    BY DEF Setup!WinmmStages, Setup!Null
  <2> HIDE DEF s
  <2>3. QED
    BY <2>1, <2>2 DEF Begins
<1>6. Follows(s, k, "waveout", "headers")
  <2>1. \A n \in 1..Len(s) : "headers" \in s[n].takes => n = 10
    BY DEF Setup!WinmmStages, Setup!Null
  <2>2. s[7].on = s[10].on /\ s[7].takes = {"waveout"} /\ s[7].fails # "ignored"
    BY DEF Setup!WinmmStages, Setup!Null
  <2>3. 7 \in 1..(10 - 1) /\ 10 \in Nat
    OBVIOUS
  <2> HIDE DEF s
  <2>4. QED
    BY <2>1, <2>2, <2>3, FollowsOne
<1>7. Follows(s, k, "waveout", "queued")
  <2>1. \A n \in 1..Len(s) : "queued" \in s[n].takes => n = 11
    BY DEF Setup!WinmmStages, Setup!Null
  <2>2. s[7].on = s[11].on /\ s[7].takes = {"waveout"} /\ s[7].fails # "ignored"
    BY DEF Setup!WinmmStages, Setup!Null
  <2>3. 7 \in 1..(11 - 1) /\ 11 \in Nat
    OBVIOUS
  <2> HIDE DEF s
  <2>4. QED
    BY <2>1, <2>2, <2>3, FollowsOne
<1>8. QED
  BY <1>1, <1>2, <1>3, <1>4, <1>5, <1>6, <1>7

KaiThings == {"NULL", "stm", "mutex", "hkai"}

LEMMA KaiTable ==
  ASSUME NEW k \in Setup!Every
  PROVE  LET s == Setup!KaiStages IN
         /\ StagesTake(s, KaiThings, {"never", "refuse", "undo"})
         /\ Opens(s)
         /\ Begins(s, k, 3, "stm")
<1> DEFINE s == Setup!KaiStages
<1>1. StagesTake(s, KaiThings, {"never", "refuse", "undo"})
  BY DEF StagesTake, KaiThings, Setup!KaiStages, Setup!Null
<1>2. Opens(s)
  BY DEF Opens, Setup!KaiStages, Setup!Null
<1>3. Begins(s, k, 3, "stm")
  <2>1. Len(s) = 5 /\ s[3] = Setup!Take("stm", Setup!Every)
    BY DEF Setup!KaiStages
  <2>2. \A n \in 1..Len(s) : s[n].fails \in {"undo", "quiet"} => 3 < n
    BY DEF Setup!KaiStages, Setup!Null
  <2> HIDE DEF s
  <2>3. QED
    BY <2>1, <2>2 DEF Begins
<1>4. QED
  BY <1>1, <1>2, <1>3

AudioTrackThings == {"stm", "instance", "track"}

LEMMA AudioTrackTable ==
  ASSUME NEW k \in Setup!Every
  PROVE  LET s == Setup!AudioTrackStages IN
         /\ StagesTake(s, AudioTrackThings, {"never", "refuse", "undo"})
         /\ Opens(s)
         /\ Begins(s, k, 2, "stm")
         /\ Begins(s, k, 3, "instance")
         /\ Begins(s, k, 4, "track")
<1> DEFINE s == Setup!AudioTrackStages
<1>1. StagesTake(s, AudioTrackThings, {"never", "refuse", "undo"})
  BY DEF StagesTake, AudioTrackThings, Setup!AudioTrackStages
<1>2. Opens(s)
  BY DEF Opens, Setup!AudioTrackStages
<1>3. Begins(s, k, 2, "stm")
  <2>1. Len(s) = 5 /\ s[2] = Setup!Take("stm", Setup!Every)
    BY DEF Setup!AudioTrackStages
  <2>2. \A n \in 1..Len(s) : s[n].fails \in {"undo", "quiet"} => 2 < n
    BY DEF Setup!AudioTrackStages
  <2> HIDE DEF s
  <2>3. QED
    BY <2>1, <2>2 DEF Begins
<1>4. Begins(s, k, 3, "instance")
  <2>1. Len(s) = 5 /\ s[3] = Setup!Take("instance", Setup!Every)
    BY DEF Setup!AudioTrackStages
  <2>2. \A n \in 1..Len(s) : s[n].fails \in {"undo", "quiet"} => 3 < n
    BY DEF Setup!AudioTrackStages
  <2> HIDE DEF s
  <2>3. QED
    BY <2>1, <2>2 DEF Begins
<1>5. Begins(s, k, 4, "track")
  <2>1. Len(s) = 5 /\ s[4] = Setup!Take("track", Setup!Every)
    BY DEF Setup!AudioTrackStages
  <2>2. \A n \in 1..Len(s) : s[n].fails \in {"undo", "quiet"} => 4 < n
    BY DEF Setup!AudioTrackStages
  <2> HIDE DEF s
  <2>3. QED
    BY <2>1, <2>2 DEF Begins
<1>6. QED
  BY <1>1, <1>2, <1>3, <1>4, <1>5

\* The stages of a longer table, part by part.
OpenSLStart ==
  <<Setup!Null, Setup!Refuse(Setup!Every),
    Setup!Take("stm", Setup!Every), Setup!Take("mutex", Setup!Every)>>
OpenSLEnd == <<Setup!Try("resampler", Setup!Every)>>
OpenSLThings ==
  {"NULL", "stm", "mutex", "player", "queuebuf", "buffers", "recorder", "recorder_queue",
   "input_array", "input_buffers", "input_queue", "input_silent_buffer", "resampler"}

LEMMA OpenSLFirst ==
  ASSUME NEW k \in Setup!Every
  PROVE  LET s == OpenSLStart IN
         /\ s \in Tables(OpenSLThings)
         /\ StagesTake(s, OpenSLThings, {"never", "refuse", "undo", "crash"})
         /\ Opens(s)
         /\ Begins(s, k, 3, "stm")
         /\ Begins(s, k, 4, "mutex")
         /\ Follows(s, k, "player", "buffers")
         /\ Follows(s, k, "recorder", "recorder_queue")
         /\ Follows(s, k, "recorder_queue", "input_buffers")
         /\ Follows(s, k, "recorder", "input_queue")
         /\ Follows(s, k, "recorder", "input_silent_buffer")
<1> DEFINE s == OpenSLStart
<1>1. s \in Tables(OpenSLThings)
  BY DEF Tables, Rows, Ways, OpenSLThings, OpenSLStart, Setup!Null
<1>2. StagesTake(s, OpenSLThings, {"never", "refuse", "undo", "crash"})
  BY DEF StagesTake, OpenSLThings, OpenSLStart, Setup!Null
<1>3. Opens(s)
  BY DEF Opens, OpenSLStart, Setup!Null
<1>4. Begins(s, k, 3, "stm")
  <2>1. Len(s) = 4 /\ s[3] = Setup!Take("stm", Setup!Every)
    BY DEF OpenSLStart, Setup!Null
  <2>2. \A n \in 1..Len(s) : s[n].fails \in {"undo", "quiet"} => 3 < n
    BY DEF OpenSLStart, Setup!Null
  <2> HIDE DEF s
  <2>3. QED
    BY <2>1, <2>2 DEF Begins
<1>5. Begins(s, k, 4, "mutex")
  <2>1. Len(s) = 4 /\ s[4] = Setup!Take("mutex", Setup!Every)
    BY DEF OpenSLStart, Setup!Null
  <2>2. \A n \in 1..Len(s) : s[n].fails \in {"undo", "quiet"} => 4 < n
    BY DEF OpenSLStart, Setup!Null
  <2> HIDE DEF s
  <2>3. QED
    BY <2>1, <2>2 DEF Begins
<1>6. \A n \in 1..Len(s) :
        s[n].takes \cap {"buffers", "input_buffers", "input_queue", "input_silent_buffer",
                         "recorder_queue"} = {}
  BY DEF OpenSLStart, Setup!Null
<1> HIDE DEF s
<1>7. Follows(s, k, "player", "buffers")
  BY <1>6, FollowsNone
<1>8. Follows(s, k, "recorder", "recorder_queue")
  BY <1>6, FollowsNone
<1>9. Follows(s, k, "recorder_queue", "input_buffers")
  BY <1>6, FollowsNone
<1>10. Follows(s, k, "recorder", "input_queue")
  BY <1>6, FollowsNone
<1>11. Follows(s, k, "recorder", "input_silent_buffer")
  BY <1>6, FollowsNone
<1>12. QED
  BY <1>1, <1>2, <1>3, <1>4, <1>5, <1>7, <1>8, <1>9, <1>10, <1>11 DEF s

LEMMA OpenSLPlays ==
  ASSUME NEW k \in Setup!Every
  PROVE  LET s == Setup!OpenSLPlayback IN
         /\ s \in Tables(OpenSLThings)
         /\ StagesTake(s, OpenSLThings, {"never", "refuse", "undo", "crash"})
         /\ NeverRefuses(s)
         /\ Follows(s, k, "player", "buffers")
         /\ Follows(s, k, "recorder", "recorder_queue")
         /\ Follows(s, k, "recorder_queue", "input_buffers")
         /\ Follows(s, k, "recorder", "input_queue")
         /\ Follows(s, k, "recorder", "input_silent_buffer")
<1> DEFINE s == Setup!OpenSLPlayback
<1>1. s \in Tables(OpenSLThings)
  BY DEF Tables, Rows, Ways, OpenSLThings, Setup!OpenSLPlayback
<1>2. StagesTake(s, OpenSLThings, {"never", "refuse", "undo", "crash"})
  BY DEF StagesTake, OpenSLThings, Setup!OpenSLPlayback
<1>3. NeverRefuses(s)
  BY DEF NeverRefuses, Setup!OpenSLPlayback
<1>4. Follows(s, k, "player", "buffers")
  <2>1. \A n \in 1..Len(s) : "buffers" \in s[n].takes => n = 4
    BY DEF Setup!OpenSLPlayback
  <2>2. /\ k \in s[4].on => k \in s[2].on
        /\ s[2].takes = {"player"} /\ s[2].fails # "ignored"
    BY DEF Setup!OpenSLPlayback
  <2>3. 2 \in 1..(4 - 1) /\ 4 \in Nat
    OBVIOUS
  <2> HIDE DEF s
  <2>4. QED
    BY <2>1, <2>2, <2>3, FollowsOne
<1>5. \A n \in 1..Len(s) :
        s[n].takes \cap {"input_buffers", "input_queue", "input_silent_buffer",
                         "recorder_queue"} = {}
  BY DEF Setup!OpenSLPlayback
<1> HIDE DEF s
<1>6. Follows(s, k, "recorder", "recorder_queue")
  BY <1>5, FollowsNone
<1>7. Follows(s, k, "recorder_queue", "input_buffers")
  BY <1>5, FollowsNone
<1>8. Follows(s, k, "recorder", "input_queue")
  BY <1>5, FollowsNone
<1>9. Follows(s, k, "recorder", "input_silent_buffer")
  BY <1>5, FollowsNone
<1>10. QED
  BY <1>1, <1>2, <1>3, <1>4, <1>6, <1>7, <1>8, <1>9 DEF s

LEMMA OpenSLRecords ==
  ASSUME NEW k \in Setup!Every
  PROVE  LET s == Setup!OpenSLCapture IN
         /\ s \in Tables(OpenSLThings)
         /\ StagesTake(s, OpenSLThings, {"never", "refuse", "undo", "crash"})
         /\ NeverRefuses(s)
         /\ Follows(s, k, "recorder", "recorder_queue")
         /\ Follows(s, k, "recorder_queue", "input_buffers")
         /\ Follows(s, k, "recorder", "input_queue")
         /\ Follows(s, k, "recorder", "input_silent_buffer")
         /\ Follows(s, k, "player", "buffers")
<1> DEFINE s == Setup!OpenSLCapture
<1>1. s \in Tables(OpenSLThings)
  BY DEF Tables, Rows, Ways, OpenSLThings, Setup!OpenSLCapture
<1>2. StagesTake(s, OpenSLThings, {"never", "refuse", "undo", "crash"})
  BY DEF StagesTake, OpenSLThings, Setup!OpenSLCapture
<1>3. NeverRefuses(s)
  BY DEF NeverRefuses, Setup!OpenSLCapture
<1>4. Follows(s, k, "recorder", "recorder_queue")
  <2>1. \A n \in 1..Len(s) : "recorder_queue" \in s[n].takes => n = 4
    BY DEF Setup!OpenSLCapture
  <2>2. /\ k \in s[4].on => k \in s[2].on
        /\ s[2].takes = {"recorder"} /\ s[2].fails # "ignored"
    BY DEF Setup!OpenSLCapture
  <2>3. 2 \in 1..(4 - 1) /\ 4 \in Nat
    OBVIOUS
  <2> HIDE DEF s
  <2>4. QED
    BY <2>1, <2>2, <2>3, FollowsOne
<1>5. Follows(s, k, "recorder_queue", "input_buffers")
  <2>1. \A n \in 1..Len(s) : "input_buffers" \in s[n].takes => n = 7
    BY DEF Setup!OpenSLCapture
  <2>2. /\ k \in s[7].on => k \in s[4].on
        /\ s[4].takes = {"recorder_queue"} /\ s[4].fails # "ignored"
    BY DEF Setup!OpenSLCapture
  <2>3. 4 \in 1..(7 - 1) /\ 7 \in Nat
    OBVIOUS
  <2> HIDE DEF s
  <2>4. QED
    BY <2>1, <2>2, <2>3, FollowsOne
<1>6. Follows(s, k, "recorder", "input_queue")
  <2>1. \A n \in 1..Len(s) : "input_queue" \in s[n].takes => n = 8
    BY DEF Setup!OpenSLCapture
  <2>2. /\ k \in s[8].on => k \in s[2].on
        /\ s[2].takes = {"recorder"} /\ s[2].fails # "ignored"
    BY DEF Setup!OpenSLCapture
  <2>3. 2 \in 1..(8 - 1) /\ 8 \in Nat
    OBVIOUS
  <2> HIDE DEF s
  <2>4. QED
    BY <2>1, <2>2, <2>3, FollowsOne
<1>7. Follows(s, k, "recorder", "input_silent_buffer")
  <2>1. \A n \in 1..Len(s) : "input_silent_buffer" \in s[n].takes => n = 9
    BY DEF Setup!OpenSLCapture
  <2>2. /\ k \in s[9].on => k \in s[2].on
        /\ s[2].takes = {"recorder"} /\ s[2].fails # "ignored"
    BY DEF Setup!OpenSLCapture
  <2>3. 2 \in 1..(9 - 1) /\ 9 \in Nat
    OBVIOUS
  <2> HIDE DEF s
  <2>4. QED
    BY <2>1, <2>2, <2>3, FollowsOne
<1>8. \A n \in 1..Len(s) : s[n].takes \cap {"buffers"} = {}
  BY DEF Setup!OpenSLCapture
<1> HIDE DEF s
<1>9. Follows(s, k, "player", "buffers")
  BY <1>8, FollowsNone
<1>10. QED
  BY <1>1, <1>2, <1>3, <1>4, <1>5, <1>6, <1>7, <1>9 DEF s

LEMMA OpenSLLast ==
  ASSUME NEW k \in Setup!Every
  PROVE  LET s == OpenSLEnd IN
         /\ s \in Tables(OpenSLThings)
         /\ StagesTake(s, OpenSLThings, {"never", "refuse", "undo", "crash"})
         /\ NeverRefuses(s)
         /\ Follows(s, k, "player", "buffers")
         /\ Follows(s, k, "recorder", "recorder_queue")
         /\ Follows(s, k, "recorder_queue", "input_buffers")
         /\ Follows(s, k, "recorder", "input_queue")
         /\ Follows(s, k, "recorder", "input_silent_buffer")
<1> DEFINE s == OpenSLEnd
<1>1. s \in Tables(OpenSLThings)
  BY DEF Tables, Rows, Ways, OpenSLThings, OpenSLEnd
<1>2. StagesTake(s, OpenSLThings, {"never", "refuse", "undo", "crash"})
  BY DEF StagesTake, OpenSLThings, OpenSLEnd
<1>3. NeverRefuses(s)
  BY DEF NeverRefuses, OpenSLEnd
<1>4. \A n \in 1..Len(s) :
        s[n].takes \cap {"buffers", "input_buffers", "input_queue", "input_silent_buffer",
                         "recorder_queue"} = {}
  BY DEF OpenSLEnd
<1> HIDE DEF s
<1>5. Follows(s, k, "player", "buffers")
  BY <1>4, FollowsNone
<1>6. Follows(s, k, "recorder", "recorder_queue")
  BY <1>4, FollowsNone
<1>7. Follows(s, k, "recorder_queue", "input_buffers")
  BY <1>4, FollowsNone
<1>8. Follows(s, k, "recorder", "input_queue")
  BY <1>4, FollowsNone
<1>9. Follows(s, k, "recorder", "input_silent_buffer")
  BY <1>4, FollowsNone
<1>10. QED
  BY <1>1, <1>2, <1>3, <1>5, <1>6, <1>7, <1>8, <1>9 DEF s

WasapiStart ==
  <<Setup!Refuse(Setup!Every), Setup!Take("stm", Setup!Every),
    Setup!Try("device_enumerator", Setup!Every), Setup!Check(Setup!Every),
    Setup!Try("reconfigure_event", Setup!Every), Setup!Try("refill_event", Setup!Every),
    Setup!Try("input_available_event", Setup!Every)>>
WasapiInput == Setup!WasapiSide("input_device", "input_client", "capture_client", Setup!Records)
WasapiOutput == Setup!WasapiSide("output_device", "output_client", "render_client", Setup!Plays)
WasapiMore ==
  <<Setup!Try("audio_clock", Setup!Plays), Setup!Try("resampler", Setup!Every),
    Setup!Take("mixers", Setup!Every)>>
WasapiEnd == <<Setup!Stage(Setup!Every, "ignored", {"notification_client"})>>
WasapiThings ==
  {"stm", "device_enumerator", "reconfigure_event", "refill_event", "input_available_event",
   "input_device", "input_client", "capture_client", "output_device", "output_client",
   "render_client", "audio_clock", "resampler", "mixers", "notification_client"}

LEMMA WasapiFirst ==
  ASSUME NEW k \in Setup!Every
  PROVE  LET s == WasapiStart IN
         /\ s \in Tables(WasapiThings)
         /\ StagesTake(s, WasapiThings, {"never", "refuse", "undo", "ignored"})
         /\ Opens(s)
         /\ Begins(s, k, 2, "stm")
<1> DEFINE s == WasapiStart
<1>1. s \in Tables(WasapiThings)
  BY DEF Tables, Rows, Ways, WasapiThings, WasapiStart
<1>2. StagesTake(s, WasapiThings, {"never", "refuse", "undo", "ignored"})
  BY DEF StagesTake, WasapiThings, WasapiStart
<1>3. Opens(s)
  BY DEF Opens, WasapiStart
<1>4. Begins(s, k, 2, "stm")
  <2>1. Len(s) = 7 /\ s[2] = Setup!Take("stm", Setup!Every)
    BY DEF WasapiStart
  <2>2. \A n \in 1..Len(s) : s[n].fails \in {"undo", "quiet"} => 2 < n
    BY DEF WasapiStart
  <2> HIDE DEF s
  <2>3. QED
    BY <2>1, <2>2 DEF Begins
<1>5. QED
  BY <1>1, <1>2, <1>3, <1>4

LEMMA WasapiRecords ==
  LET s == WasapiInput IN
  /\ s \in Tables(WasapiThings)
  /\ StagesTake(s, WasapiThings, {"never", "refuse", "undo", "ignored"})
  /\ NeverRefuses(s)
<1> DEFINE s == WasapiInput
<1>1. s \in Tables(WasapiThings)
  BY DEF Tables, Rows, Ways, WasapiThings, WasapiInput, Setup!WasapiSide
<1>2. StagesTake(s, WasapiThings, {"never", "refuse", "undo", "ignored"})
  BY DEF StagesTake, WasapiThings, WasapiInput, Setup!WasapiSide
<1>3. NeverRefuses(s)
  BY DEF NeverRefuses, WasapiInput, Setup!WasapiSide
<1>4. QED
  BY <1>1, <1>2, <1>3

LEMMA WasapiPlays ==
  LET s == WasapiOutput IN
  /\ s \in Tables(WasapiThings)
  /\ StagesTake(s, WasapiThings, {"never", "refuse", "undo", "ignored"})
  /\ NeverRefuses(s)
<1> DEFINE s == WasapiOutput
<1>1. s \in Tables(WasapiThings)
  BY DEF Tables, Rows, Ways, WasapiThings, WasapiOutput, Setup!WasapiSide
<1>2. StagesTake(s, WasapiThings, {"never", "refuse", "undo", "ignored"})
  BY DEF StagesTake, WasapiThings, WasapiOutput, Setup!WasapiSide
<1>3. NeverRefuses(s)
  BY DEF NeverRefuses, WasapiOutput, Setup!WasapiSide
<1>4. QED
  BY <1>1, <1>2, <1>3

LEMMA WasapiRest ==
  LET s == WasapiMore IN
  /\ s \in Tables(WasapiThings)
  /\ StagesTake(s, WasapiThings, {"never", "refuse", "undo", "ignored"})
  /\ NeverRefuses(s)
<1> DEFINE s == WasapiMore
<1>1. s \in Tables(WasapiThings)
  BY DEF Tables, Rows, Ways, WasapiThings, WasapiMore
<1>2. StagesTake(s, WasapiThings, {"never", "refuse", "undo", "ignored"})
  BY DEF StagesTake, WasapiThings, WasapiMore
<1>3. NeverRefuses(s)
  BY DEF NeverRefuses, WasapiMore
<1>4. QED
  BY <1>1, <1>2, <1>3

LEMMA WasapiLast ==
  LET s == WasapiEnd IN
  /\ s \in Tables(WasapiThings)
  /\ StagesTake(s, WasapiThings, {"never", "refuse", "undo", "ignored"})
  /\ NeverRefuses(s)
<1> DEFINE s == WasapiEnd
<1>1. s \in Tables(WasapiThings)
  BY DEF Tables, Rows, Ways, WasapiThings, WasapiEnd
<1>2. StagesTake(s, WasapiThings, {"never", "refuse", "undo", "ignored"})
  BY DEF StagesTake, WasapiThings, WasapiEnd, Setup!Spared
<1>3. NeverRefuses(s)
  BY DEF NeverRefuses, WasapiEnd
<1>4. QED
  BY <1>1, <1>2, <1>3

AudioUnitStart ==
  <<Setup!Take("active", Setup!Every), Setup!Take("stm", Setup!Every),
    Setup!Null, Setup!Check(Setup!Every)>>
AudioUnitAgg == <<Setup!Check(Setup!Every), Setup!AggregateStage>>
AudioUnitMore == <<Setup!Try("resampler", Setup!Every), Setup!Check(Setup!Every)>>
AudioUnitThings ==
  {"NULL", "active", "stm", "aggregate", "input_unit", "output_unit", "input_linear_buffer", "mixer",
   "resampler", "output_source_listener", "input_source_listener", "input_alive_listener",
   "default_output_listener", "default_input_listener"}

LEMMA AudioUnitFirst ==
  ASSUME NEW k \in Setup!Every
  PROVE  LET s == AudioUnitStart IN
         /\ s \in Tables(AudioUnitThings)
         /\ StagesTake(s, AudioUnitThings, {"never", "undo", "ignored"})
         /\ Opens(s)
         /\ Begins(s, k, 1, "active")
         /\ Begins(s, k, 2, "stm")
<1> DEFINE s == AudioUnitStart
<1>1. s \in Tables(AudioUnitThings)
  BY DEF Tables, Rows, Ways, AudioUnitThings, AudioUnitStart, Setup!Null
<1>2. StagesTake(s, AudioUnitThings, {"never", "undo", "ignored"})
  BY DEF StagesTake, AudioUnitThings, AudioUnitStart, Setup!Null
<1>3. Opens(s)
  BY DEF Opens, AudioUnitStart, Setup!Null
<1>4. Begins(s, k, 1, "active")
  <2>1. Len(s) = 4 /\ s[1] = Setup!Take("active", Setup!Every)
    BY DEF AudioUnitStart, Setup!Null
  <2>2. \A n \in 1..Len(s) : s[n].fails \in {"undo", "quiet"} => 1 < n
    BY DEF AudioUnitStart, Setup!Null
  <2> HIDE DEF s
  <2>3. QED
    BY <2>1, <2>2 DEF Begins
<1>5. Begins(s, k, 2, "stm")
  <2>1. Len(s) = 4 /\ s[2] = Setup!Take("stm", Setup!Every)
    BY DEF AudioUnitStart, Setup!Null
  <2>2. \A n \in 1..Len(s) : s[n].fails \in {"undo", "quiet"} => 2 < n
    BY DEF AudioUnitStart, Setup!Null
  <2> HIDE DEF s
  <2>3. QED
    BY <2>1, <2>2 DEF Begins
<1>6. QED
  BY <1>1, <1>2, <1>3, <1>4, <1>5

LEMMA AudioUnitAggregate ==
  LET s == AudioUnitAgg IN
  /\ s \in Tables(AudioUnitThings)
  /\ StagesTake(s, AudioUnitThings, {"never", "undo", "ignored"})
  /\ NeverRefuses(s)
<1> DEFINE s == AudioUnitAgg
<1>1. s \in Tables(AudioUnitThings)
  BY DEF Tables, Rows, Ways, AudioUnitThings, AudioUnitAgg, Setup!AggregateStage
<1>2. StagesTake(s, AudioUnitThings, {"never", "undo", "ignored"})
  BY DEF StagesTake, AudioUnitThings, AudioUnitAgg, Setup!AggregateStage
<1>3. NeverRefuses(s)
  BY DEF NeverRefuses, AudioUnitAgg, Setup!AggregateStage
<1>4. QED
  BY <1>1, <1>2, <1>3

LEMMA AudioUnitInput ==
  LET s == Setup!UnitStages("input_unit", Setup!Records) IN
  /\ s \in Tables(AudioUnitThings)
  /\ StagesTake(s, AudioUnitThings, {"never", "undo", "ignored"})
  /\ NeverRefuses(s)
<1> DEFINE s == Setup!UnitStages("input_unit", Setup!Records)
<1>1. s \in Tables(AudioUnitThings)
  BY DEF Tables, Rows, Ways, AudioUnitThings, Setup!UnitStages
<1>2. StagesTake(s, AudioUnitThings, {"never", "undo", "ignored"})
  BY DEF StagesTake, AudioUnitThings, Setup!UnitStages
<1>3. NeverRefuses(s)
  BY DEF NeverRefuses, Setup!UnitStages
<1>4. QED
  BY <1>1, <1>2, <1>3

LEMMA AudioUnitOutput ==
  LET s == Setup!UnitStages("output_unit", Setup!Plays) IN
  /\ s \in Tables(AudioUnitThings)
  /\ StagesTake(s, AudioUnitThings, {"never", "undo", "ignored"})
  /\ NeverRefuses(s)
<1> DEFINE s == Setup!UnitStages("output_unit", Setup!Plays)
<1>1. s \in Tables(AudioUnitThings)
  BY DEF Tables, Rows, Ways, AudioUnitThings, Setup!UnitStages
<1>2. StagesTake(s, AudioUnitThings, {"never", "undo", "ignored"})
  BY DEF StagesTake, AudioUnitThings, Setup!UnitStages
<1>3. NeverRefuses(s)
  BY DEF NeverRefuses, Setup!UnitStages
<1>4. QED
  BY <1>1, <1>2, <1>3

LEMMA AudioUnitRecords ==
  LET s == Setup!InputStages IN
  /\ s \in Tables(AudioUnitThings)
  /\ StagesTake(s, AudioUnitThings, {"never", "undo", "ignored"})
  /\ NeverRefuses(s)
<1> DEFINE s == Setup!InputStages
<1>1. s \in Tables(AudioUnitThings)
  BY DEF Tables, Rows, Ways, AudioUnitThings, Setup!InputStages
<1>2. StagesTake(s, AudioUnitThings, {"never", "undo", "ignored"})
  BY DEF StagesTake, AudioUnitThings, Setup!InputStages
<1>3. NeverRefuses(s)
  BY DEF NeverRefuses, Setup!InputStages
<1>4. QED
  BY <1>1, <1>2, <1>3

LEMMA AudioUnitPlays ==
  LET s == Setup!OutputStages IN
  /\ s \in Tables(AudioUnitThings)
  /\ StagesTake(s, AudioUnitThings, {"never", "undo", "ignored"})
  /\ NeverRefuses(s)
<1> DEFINE s == Setup!OutputStages
<1>1. s \in Tables(AudioUnitThings)
  BY DEF Tables, Rows, Ways, AudioUnitThings, Setup!OutputStages
<1>2. StagesTake(s, AudioUnitThings, {"never", "undo", "ignored"})
  BY DEF StagesTake, AudioUnitThings, Setup!OutputStages
<1>3. NeverRefuses(s)
  BY DEF NeverRefuses, Setup!OutputStages
<1>4. QED
  BY <1>1, <1>2, <1>3

LEMMA AudioUnitResampler ==
  LET s == AudioUnitMore IN
  /\ s \in Tables(AudioUnitThings)
  /\ StagesTake(s, AudioUnitThings, {"never", "undo", "ignored"})
  /\ NeverRefuses(s)
<1> DEFINE s == AudioUnitMore
<1>1. s \in Tables(AudioUnitThings)
  BY DEF Tables, Rows, Ways, AudioUnitThings, AudioUnitMore
<1>2. StagesTake(s, AudioUnitThings, {"never", "undo", "ignored"})
  BY DEF StagesTake, AudioUnitThings, AudioUnitMore
<1>3. NeverRefuses(s)
  BY DEF NeverRefuses, AudioUnitMore
<1>4. QED
  BY <1>1, <1>2, <1>3

LEMMA AudioUnitListeners ==
  LET s == Setup!ListenerStages IN
  /\ s \in Tables(AudioUnitThings)
  /\ StagesTake(s, AudioUnitThings, {"never", "undo", "ignored"})
  /\ NeverRefuses(s)
<1> DEFINE s == Setup!ListenerStages
<1>1. s \in Tables(AudioUnitThings)
  BY DEF Tables, Rows, Ways, AudioUnitThings, Setup!ListenerStages
<1>2. StagesTake(s, AudioUnitThings, {"never", "undo", "ignored"})
  BY DEF StagesTake, AudioUnitThings, Setup!ListenerStages, Setup!Spared
<1>3. NeverRefuses(s)
  BY DEF NeverRefuses, Setup!ListenerStages
<1>4. QED
  BY <1>1, <1>2, <1>3

LEMMA AudioUnitSystem ==
  LET s == Setup!SystemListenerStages IN
  /\ s \in Tables(AudioUnitThings)
  /\ StagesTake(s, AudioUnitThings, {"never", "undo", "ignored"})
  /\ NeverRefuses(s)
<1> DEFINE s == Setup!SystemListenerStages
<1>1. s \in Tables(AudioUnitThings)
  BY DEF Tables, Rows, Ways, AudioUnitThings, Setup!SystemListenerStages
<1>2. StagesTake(s, AudioUnitThings, {"never", "undo", "ignored"})
  BY DEF StagesTake, AudioUnitThings, Setup!SystemListenerStages
<1>3. NeverRefuses(s)
  BY DEF NeverRefuses, Setup!SystemListenerStages
<1>4. QED
  BY <1>1, <1>2, <1>3

LEMMA OpenSLTable ==
  ASSUME NEW k \in Setup!Every
  PROVE  LET s == Setup!OpenSLStages IN
         /\ StagesTake(s, OpenSLThings, {"never", "refuse", "undo", "crash"})
         /\ Opens(s)
         /\ Begins(s, k, 3, "stm")
         /\ Begins(s, k, 4, "mutex")
         /\ Follows(s, k, "player", "buffers")
         /\ Follows(s, k, "recorder", "recorder_queue")
         /\ Follows(s, k, "recorder_queue", "input_buffers")
         /\ Follows(s, k, "recorder", "input_queue")
         /\ Follows(s, k, "recorder", "input_silent_buffer")
<1> DEFINE a0 == OpenSLStart
           b1 == Setup!OpenSLPlayback
           a1 == a0 \o b1
           b2 == Setup!OpenSLCapture
           a2 == a1 \o b2
           b3 == OpenSLEnd
           a3 == a2 \o b3
<1>1. /\ a0 \in Tables(OpenSLThings)
      /\ StagesTake(a0, OpenSLThings, {"never", "refuse", "undo", "crash"})
      /\ Opens(a0)
      /\ Begins(a0, k, 3, "stm")
      /\ Begins(a0, k, 4, "mutex")
      /\ Follows(a0, k, "player", "buffers")
      /\ Follows(a0, k, "recorder", "recorder_queue")
      /\ Follows(a0, k, "recorder_queue", "input_buffers")
      /\ Follows(a0, k, "recorder", "input_queue")
      /\ Follows(a0, k, "recorder", "input_silent_buffer")
  BY OpenSLFirst
<1>2. /\ b1 \in Tables(OpenSLThings)
      /\ StagesTake(b1, OpenSLThings, {"never", "refuse", "undo", "crash"})
      /\ NeverRefuses(b1)
      /\ Follows(b1, k, "player", "buffers")
      /\ Follows(b1, k, "recorder", "recorder_queue")
      /\ Follows(b1, k, "recorder_queue", "input_buffers")
      /\ Follows(b1, k, "recorder", "input_queue")
      /\ Follows(b1, k, "recorder", "input_silent_buffer")
  BY OpenSLPlays
<1>3. /\ a1 \in Tables(OpenSLThings)
      /\ StagesTake(a1, OpenSLThings, {"never", "refuse", "undo", "crash"})
      /\ Opens(a1)
      /\ Begins(a1, k, 3, "stm")
      /\ Begins(a1, k, 4, "mutex")
      /\ Follows(a1, k, "player", "buffers")
      /\ Follows(a1, k, "recorder", "recorder_queue")
      /\ Follows(a1, k, "recorder_queue", "input_buffers")
      /\ Follows(a1, k, "recorder", "input_queue")
      /\ Follows(a1, k, "recorder", "input_silent_buffer")
  <2> HIDE DEF a0, b1
  <2>1. QED
    BY <1>1, <1>2, TablesJoined
<1>4. /\ b2 \in Tables(OpenSLThings)
      /\ StagesTake(b2, OpenSLThings, {"never", "refuse", "undo", "crash"})
      /\ NeverRefuses(b2)
      /\ Follows(b2, k, "player", "buffers")
      /\ Follows(b2, k, "recorder", "recorder_queue")
      /\ Follows(b2, k, "recorder_queue", "input_buffers")
      /\ Follows(b2, k, "recorder", "input_queue")
      /\ Follows(b2, k, "recorder", "input_silent_buffer")
  BY OpenSLRecords
<1>5. /\ a2 \in Tables(OpenSLThings)
      /\ StagesTake(a2, OpenSLThings, {"never", "refuse", "undo", "crash"})
      /\ Opens(a2)
      /\ Begins(a2, k, 3, "stm")
      /\ Begins(a2, k, 4, "mutex")
      /\ Follows(a2, k, "player", "buffers")
      /\ Follows(a2, k, "recorder", "recorder_queue")
      /\ Follows(a2, k, "recorder_queue", "input_buffers")
      /\ Follows(a2, k, "recorder", "input_queue")
      /\ Follows(a2, k, "recorder", "input_silent_buffer")
  <2> HIDE DEF a1, b2
  <2>1. QED
    BY <1>3, <1>4, TablesJoined
<1>6. /\ b3 \in Tables(OpenSLThings)
      /\ StagesTake(b3, OpenSLThings, {"never", "refuse", "undo", "crash"})
      /\ NeverRefuses(b3)
      /\ Follows(b3, k, "player", "buffers")
      /\ Follows(b3, k, "recorder", "recorder_queue")
      /\ Follows(b3, k, "recorder_queue", "input_buffers")
      /\ Follows(b3, k, "recorder", "input_queue")
      /\ Follows(b3, k, "recorder", "input_silent_buffer")
  BY OpenSLLast
<1>7. /\ a3 \in Tables(OpenSLThings)
      /\ StagesTake(a3, OpenSLThings, {"never", "refuse", "undo", "crash"})
      /\ Opens(a3)
      /\ Begins(a3, k, 3, "stm")
      /\ Begins(a3, k, 4, "mutex")
      /\ Follows(a3, k, "player", "buffers")
      /\ Follows(a3, k, "recorder", "recorder_queue")
      /\ Follows(a3, k, "recorder_queue", "input_buffers")
      /\ Follows(a3, k, "recorder", "input_queue")
      /\ Follows(a3, k, "recorder", "input_silent_buffer")
  <2> HIDE DEF a2, b3
  <2>1. QED
    BY <1>5, <1>6, TablesJoined
<1>8. Setup!OpenSLStages = a3
  BY Zenon DEF Setup!OpenSLStages, OpenSLStart, OpenSLEnd
<1> HIDE DEF a3
<1>9. QED
  BY <1>7, <1>8

LEMMA WasapiSetupTable ==
  LET s == Setup!WasapiSetup IN
  /\ s \in Tables(WasapiThings)
  /\ StagesTake(s, WasapiThings, {"never", "refuse", "undo", "ignored"})
  /\ NeverRefuses(s)
<1> DEFINE a0 == WasapiInput
           b1 == WasapiOutput
           a1 == a0 \o b1
           b2 == WasapiMore
           a2 == a1 \o b2
<1>1. /\ a0 \in Tables(WasapiThings)
      /\ StagesTake(a0, WasapiThings, {"never", "refuse", "undo", "ignored"})
      /\ NeverRefuses(a0)
  BY WasapiRecords
<1>2. /\ b1 \in Tables(WasapiThings)
      /\ StagesTake(b1, WasapiThings, {"never", "refuse", "undo", "ignored"})
      /\ NeverRefuses(b1)
  BY WasapiPlays
<1>3. /\ a1 \in Tables(WasapiThings)
      /\ StagesTake(a1, WasapiThings, {"never", "refuse", "undo", "ignored"})
      /\ NeverRefuses(a1)
  <2> HIDE DEF a0, b1
  <2>1. QED
    BY <1>1, <1>2, TablesJoined
<1>4. /\ b2 \in Tables(WasapiThings)
      /\ StagesTake(b2, WasapiThings, {"never", "refuse", "undo", "ignored"})
      /\ NeverRefuses(b2)
  BY WasapiRest
<1>5. /\ a2 \in Tables(WasapiThings)
      /\ StagesTake(a2, WasapiThings, {"never", "refuse", "undo", "ignored"})
      /\ NeverRefuses(a2)
  <2> HIDE DEF a1, b2
  <2>1. QED
    BY <1>3, <1>4, TablesJoined
<1>6. Setup!WasapiSetup = a2
  BY Zenon DEF Setup!WasapiSetup, WasapiInput, WasapiOutput, WasapiMore
<1> HIDE DEF a2
<1>7. QED
  BY <1>5, <1>6

LEMMA WasapiTable ==
  ASSUME NEW k \in Setup!Every
  PROVE  LET s == Setup!WasapiStages IN
         /\ StagesTake(s, WasapiThings, {"never", "refuse", "undo", "ignored"})
         /\ Opens(s)
         /\ Begins(s, k, 2, "stm")
<1> DEFINE a0 == WasapiStart
           b1 == Setup!WasapiSetup
           a1 == a0 \o b1
           b2 == WasapiEnd
           a2 == a1 \o b2
<1>1. /\ a0 \in Tables(WasapiThings)
      /\ StagesTake(a0, WasapiThings, {"never", "refuse", "undo", "ignored"})
      /\ Opens(a0)
      /\ Begins(a0, k, 2, "stm")
  BY WasapiFirst
<1>2. /\ b1 \in Tables(WasapiThings)
      /\ StagesTake(b1, WasapiThings, {"never", "refuse", "undo", "ignored"})
      /\ NeverRefuses(b1)
  BY WasapiSetupTable
<1>3. /\ a1 \in Tables(WasapiThings)
      /\ StagesTake(a1, WasapiThings, {"never", "refuse", "undo", "ignored"})
      /\ Opens(a1)
      /\ Begins(a1, k, 2, "stm")
  <2> HIDE DEF a0, b1
  <2>1. QED
    BY <1>1, <1>2, TablesJoined
<1>4. /\ b2 \in Tables(WasapiThings)
      /\ StagesTake(b2, WasapiThings, {"never", "refuse", "undo", "ignored"})
      /\ NeverRefuses(b2)
  BY WasapiLast
<1>5. /\ a2 \in Tables(WasapiThings)
      /\ StagesTake(a2, WasapiThings, {"never", "refuse", "undo", "ignored"})
      /\ Opens(a2)
      /\ Begins(a2, k, 2, "stm")
  <2> HIDE DEF a1, b2
  <2>1. QED
    BY <1>3, <1>4, TablesJoined
<1>6. Setup!WasapiStages = a2
  BY Zenon DEF Setup!WasapiStages, WasapiStart, WasapiEnd
<1> HIDE DEF a2
<1>7. QED
  BY <1>5, <1>6

LEMMA AudioUnitSetupTable ==
  LET s == Setup!AudioUnitSetup IN
  /\ s \in Tables(AudioUnitThings)
  /\ StagesTake(s, AudioUnitThings, {"never", "undo", "ignored"})
  /\ NeverRefuses(s)
<1> DEFINE a0 == AudioUnitAgg
           b1 == Setup!UnitStages("input_unit", Setup!Records)
           a1 == a0 \o b1
           b2 == Setup!UnitStages("output_unit", Setup!Plays)
           a2 == a1 \o b2
           b3 == Setup!InputStages
           a3 == a2 \o b3
           b4 == Setup!OutputStages
           a4 == a3 \o b4
           b5 == AudioUnitMore
           a5 == a4 \o b5
           b6 == Setup!ListenerStages
           a6 == a5 \o b6
<1>1. /\ a0 \in Tables(AudioUnitThings)
      /\ StagesTake(a0, AudioUnitThings, {"never", "undo", "ignored"})
      /\ NeverRefuses(a0)
  BY AudioUnitAggregate
<1>2. /\ b1 \in Tables(AudioUnitThings)
      /\ StagesTake(b1, AudioUnitThings, {"never", "undo", "ignored"})
      /\ NeverRefuses(b1)
  BY AudioUnitInput
<1>3. /\ a1 \in Tables(AudioUnitThings)
      /\ StagesTake(a1, AudioUnitThings, {"never", "undo", "ignored"})
      /\ NeverRefuses(a1)
  <2> HIDE DEF a0, b1
  <2>1. QED
    BY <1>1, <1>2, TablesJoined
<1>4. /\ b2 \in Tables(AudioUnitThings)
      /\ StagesTake(b2, AudioUnitThings, {"never", "undo", "ignored"})
      /\ NeverRefuses(b2)
  BY AudioUnitOutput
<1>5. /\ a2 \in Tables(AudioUnitThings)
      /\ StagesTake(a2, AudioUnitThings, {"never", "undo", "ignored"})
      /\ NeverRefuses(a2)
  <2> HIDE DEF a1, b2
  <2>1. QED
    BY <1>3, <1>4, TablesJoined
<1>6. /\ b3 \in Tables(AudioUnitThings)
      /\ StagesTake(b3, AudioUnitThings, {"never", "undo", "ignored"})
      /\ NeverRefuses(b3)
  BY AudioUnitRecords
<1>7. /\ a3 \in Tables(AudioUnitThings)
      /\ StagesTake(a3, AudioUnitThings, {"never", "undo", "ignored"})
      /\ NeverRefuses(a3)
  <2> HIDE DEF a2, b3
  <2>1. QED
    BY <1>5, <1>6, TablesJoined
<1>8. /\ b4 \in Tables(AudioUnitThings)
      /\ StagesTake(b4, AudioUnitThings, {"never", "undo", "ignored"})
      /\ NeverRefuses(b4)
  BY AudioUnitPlays
<1>9. /\ a4 \in Tables(AudioUnitThings)
      /\ StagesTake(a4, AudioUnitThings, {"never", "undo", "ignored"})
      /\ NeverRefuses(a4)
  <2> HIDE DEF a3, b4
  <2>1. QED
    BY <1>7, <1>8, TablesJoined
<1>10. /\ b5 \in Tables(AudioUnitThings)
      /\ StagesTake(b5, AudioUnitThings, {"never", "undo", "ignored"})
      /\ NeverRefuses(b5)
  BY AudioUnitResampler
<1>11. /\ a5 \in Tables(AudioUnitThings)
      /\ StagesTake(a5, AudioUnitThings, {"never", "undo", "ignored"})
      /\ NeverRefuses(a5)
  <2> HIDE DEF a4, b5
  <2>1. QED
    BY <1>9, <1>10, TablesJoined
<1>12. /\ b6 \in Tables(AudioUnitThings)
      /\ StagesTake(b6, AudioUnitThings, {"never", "undo", "ignored"})
      /\ NeverRefuses(b6)
  BY AudioUnitListeners
<1>13. /\ a6 \in Tables(AudioUnitThings)
      /\ StagesTake(a6, AudioUnitThings, {"never", "undo", "ignored"})
      /\ NeverRefuses(a6)
  <2> HIDE DEF a5, b6
  <2>1. QED
    BY <1>11, <1>12, TablesJoined
<1>14. Setup!AudioUnitSetup = a6
  BY Zenon DEF Setup!AudioUnitSetup, AudioUnitAgg, AudioUnitMore
<1> HIDE DEF a6
<1>15. QED
  BY <1>13, <1>14

LEMMA AudioUnitTable ==
  ASSUME NEW k \in Setup!Every
  PROVE  LET s == Setup!AudioUnitStages IN
         /\ StagesTake(s, AudioUnitThings, {"never", "undo", "ignored"})
         /\ Opens(s)
         /\ Begins(s, k, 1, "active")
         /\ Begins(s, k, 2, "stm")
<1> DEFINE a0 == AudioUnitStart
           b1 == Setup!AudioUnitSetup
           a1 == a0 \o b1
           b2 == Setup!SystemListenerStages
           a2 == a1 \o b2
<1>1. /\ a0 \in Tables(AudioUnitThings)
      /\ StagesTake(a0, AudioUnitThings, {"never", "undo", "ignored"})
      /\ Opens(a0)
      /\ Begins(a0, k, 1, "active")
      /\ Begins(a0, k, 2, "stm")
  BY AudioUnitFirst
<1>2. /\ b1 \in Tables(AudioUnitThings)
      /\ StagesTake(b1, AudioUnitThings, {"never", "undo", "ignored"})
      /\ NeverRefuses(b1)
  BY AudioUnitSetupTable
<1>3. /\ a1 \in Tables(AudioUnitThings)
      /\ StagesTake(a1, AudioUnitThings, {"never", "undo", "ignored"})
      /\ Opens(a1)
      /\ Begins(a1, k, 1, "active")
      /\ Begins(a1, k, 2, "stm")
  <2> HIDE DEF a0, b1
  <2>1. QED
    BY <1>1, <1>2, TablesJoined
<1>4. /\ b2 \in Tables(AudioUnitThings)
      /\ StagesTake(b2, AudioUnitThings, {"never", "undo", "ignored"})
      /\ NeverRefuses(b2)
  BY AudioUnitSystem
<1>5. /\ a2 \in Tables(AudioUnitThings)
      /\ StagesTake(a2, AudioUnitThings, {"never", "undo", "ignored"})
      /\ Opens(a2)
      /\ Begins(a2, k, 1, "active")
      /\ Begins(a2, k, 2, "stm")
  <2> HIDE DEF a1, b2
  <2>1. QED
    BY <1>3, <1>4, TablesJoined
<1>6. Setup!AudioUnitStages = a2
  BY Zenon DEF Setup!AudioUnitStages, AudioUnitStart
<1> HIDE DEF a2
<1>7. QED
  BY <1>5, <1>6

HIDE DEF Setup!Stage, Setup!Take, Setup!Try, Setup!Check, Setup!Refuse,
         Setup!Every, Setup!Plays, Setup!Records
----------------------------------------------------------------------------
(* What the error path and destroy give back.                              *)

\* What a backend leaves when an init or a destroy is over, and what it gives
\* back without having it: Leaks and Strays.
LeaksOf(b, r) ==
  CASE b = "audiounit" /\ r = "error" -> {"stm"}
    [] b = "opensl" -> {"queuebuf", "input_array"}
    [] OTHER -> {}
StraysOf(b) ==
  CASE b = "oss" -> {"thread", "mtx", "doorbell_cv", "stopped_cv"}
    [] b = "sun" -> {"mutex"}
    [] b = "wasapi" -> {"reconfigure_event", "refill_event", "input_available_event"}
    [] OTHER -> {}

\* What is held, at a stage that undoes or behind them all.
Stands(k, n, lost) ==
  LET s == Setup!Stages(v1.backend) IN
  k = v1.kind /\ Ends(s, n) /\ Sure(s, k, n, v3, lost) /\ May(s, k, n, v3, lost)

\* The error path and destroy give back what is held.
GivesBack(n) ==
  LET b == v1.backend IN
  /\ n \in 1..Len(Setup!Stages(b)) => /\ Setup!Undone(b) \ v3 \subseteq StraysOf(b)
                                /\ v3 \ Setup!Undone(b) \subseteq LeaksOf(b, "error")
  /\ n = Len(Setup!Stages(b)) + 1 => /\ Setup!Freed(b) \ v3 \subseteq StraysOf(b)
                                    /\ v3 \ Setup!Freed(b) \subseteq LeaksOf(b, "destroyed")

LEMMA PulseGivesBack ==
  ASSUME v1.backend = "pulse", NEW k \in Setup!Every, NEW n \in Nat,
         NEW lost \in {{"NULL"}, {"NULL", "builder"}}, Stands(k, n, lost)
  PROVE  GivesBack(n)
<1> DEFINE s == Setup!PulseStages
<1>1. Setup!Stages(v1.backend) = s
  BY DEF Setup!Stages
<1>2. Ends(s, n) /\ Sure(s, k, n, v3, lost) /\ May(s, k, n, v3, lost)
  BY <1>1, Zenon DEF Stands
<1>3. /\ StagesTake(s, PulseThings, {"never", "refuse", "undo"})
      /\ Len(s) \in Nat
      /\ Begins(s, k, 3, "stm")
  BY PulseTable DEF StagesTake
<1> HIDE DEF s
<1>4. v3 \subseteq PulseThings \ lost
  BY <1>2, <1>3, HeldOf
<1>5. {"stm"} \subseteq v3
  <2>1. "stm" \in v3
    BY <1>2, <1>3, BeginsHeld
  <2>2. QED
    BY <2>1
<1>6. Setup!Undone(v1.backend) = Setup!PulseFreed /\ Setup!Freed(v1.backend) = Setup!PulseFreed
  BY DEF Setup!Undone, Setup!Freed
<1>7. /\ StraysOf(v1.backend) = {}
      /\ LeaksOf(v1.backend, "error") = {}
      /\ LeaksOf(v1.backend, "destroyed") = {}
  BY DEF StraysOf, LeaksOf
<1>8. /\ /\ Setup!PulseFreed \ v3 \subseteq {}
         /\ v3 \ Setup!PulseFreed \subseteq {}
      /\ Setup!PulseFreed \ v3 \subseteq {}
      /\ v3 \ Setup!PulseFreed \subseteq {}
  BY <1>4, <1>5 DEF Setup!PulseFreed, PulseThings
<1>9. QED
  BY <1>1, <1>6, <1>7, <1>8 DEF GivesBack

\* What is held of a side of an ALSA stream where it is given back: the place and
\* the stream, or nothing of it; and of what a stream has, nothing is missing when
\* the init succeeded.
SidesHeld(k, n, h) ==
  /\ h \cap InThings # {} => "in_active" \in h /\ "in_stm" \in h /\ k \in Setup!Records
  /\ h \cap OutThings # {} => "out_active" \in h /\ "out_stm" \in h /\ k \in Setup!Plays
  /\ n = Len(Setup!AlsaStages) + 1 => /\ k \in Setup!Records => "in_stm" \in h
                                      /\ k \in Setup!Plays => "out_stm" \in h

LEMMA AlsaHeld ==
  ASSUME NEW k \in Setup!Every, NEW n \in Nat, NEW h, NEW lost \in {{"NULL"}, {"NULL", "builder"}},
         Ends(Setup!AlsaStages, n), Sure(Setup!AlsaStages, k, n, h, lost),
         May(Setup!AlsaStages, k, n, h, lost)
  PROVE  SidesHeld(k, n, h)
<1> DEFINE s == Setup!AlsaStages
<1> HIDE DEF s
<1>1. /\ Ends(s, n) /\ Sure(s, k, n, h, lost) /\ May(s, k, n, h, lost) /\ Len(s) = 15
      /\ s[2].takes = {"in_active"} /\ s[2].fails = "refuse" /\ s[2].on = Setup!Records
      /\ s[3].takes = {"in_stm"} /\ s[3].fails = "never" /\ s[3].on = Setup!Records
      /\ s[9].takes = {"out_active"} /\ s[9].fails = "undo" /\ s[9].on = Setup!Plays
      /\ s[10].takes = {"out_stm"} /\ s[10].fails = "never" /\ s[10].on = Setup!Plays
      /\ \A i \in 1..Len(s) : \A r \in s[i].takes :
           /\ r \in InThings => i >= 2 /\ s[i].on = Setup!Records
           /\ r \in OutThings => i >= 9 /\ s[i].on = Setup!Plays
  BY AlsaTable, Zenon DEF s
<1>2. n # 3 /\ n # 10
  BY <1>1 DEF Ends
<1>3. \A j \in 1..15 : j < n /\ k \in s[j].on /\ s[j].fails # "ignored" => s[j].takes \ lost \subseteq h
  BY <1>1 DEF Sure
<1>4. \A r \in h : \E j \in 1..15 : j < n /\ k \in s[j].on /\ r \in s[j].takes
  BY <1>1 DEF May
<1>5. k \in Setup!Records /\ n >= 4 => "in_active" \in h /\ "in_stm" \in h
  <2>1. 2 \in 1..15 /\ 3 \in 1..15 /\ (n >= 4 => 2 < n /\ 3 < n)
    OBVIOUS
  <2>2. QED
    BY <1>1, <1>3, <2>1
<1>6. k \in Setup!Plays /\ n >= 11 => "out_active" \in h /\ "out_stm" \in h
  <2>1. 9 \in 1..15 /\ 10 \in 1..15 /\ (n >= 11 => 9 < n /\ 10 < n)
    OBVIOUS
  <2>2. QED
    BY <1>1, <1>3, <2>1
<1>7. ASSUME NEW r \in h, r \in InThings PROVE k \in Setup!Records /\ n >= 4
  <2>1. PICK j \in 1..15 : j < n /\ k \in s[j].on /\ r \in s[j].takes
    BY <1>4
  <2>2. j >= 2 /\ s[j].on = Setup!Records
    BY <1>1, <1>7, <2>1
  <2>3. QED
    BY <1>2, <2>1, <2>2
<1>8. ASSUME NEW r \in h, r \in OutThings PROVE k \in Setup!Plays /\ n >= 11
  <2>1. PICK j \in 1..15 : j < n /\ k \in s[j].on /\ r \in s[j].takes
    BY <1>4
  <2>2. j >= 9 /\ s[j].on = Setup!Plays
    BY <1>1, <1>8, <2>1
  <2>3. QED
    BY <1>2, <2>1, <2>2
<1>9. n = Len(s) + 1 => n >= 11 /\ n >= 4
  BY <1>1
<1>10. QED
  BY <1>5, <1>6, <1>7, <1>8, <1>9 DEF s, SidesHeld

LEMMA AlsaGivesBack ==
  ASSUME v1.backend = "alsa", NEW k \in Setup!Every, NEW n \in Nat,
         NEW lost \in {{"NULL"}, {"NULL", "builder"}}, Stands(k, n, lost)
  PROVE  GivesBack(n)
<1> DEFINE s == Setup!AlsaStages
<1>1. Setup!Stages(v1.backend) = s
  BY DEF Setup!Stages
<1>2. k = v1.kind /\ Ends(s, n) /\ Sure(s, k, n, v3, lost) /\ May(s, k, n, v3, lost)
  BY <1>1, Zenon DEF Stands
<1>3. /\ v3 \cap InThings # {} => "in_active" \in v3 /\ "in_stm" \in v3 /\ k \in Setup!Records
      /\ v3 \cap OutThings # {} => "out_active" \in v3 /\ "out_stm" \in v3 /\ k \in Setup!Plays
      /\ n = Len(s) + 1 => /\ k \in Setup!Records => "in_stm" \in v3
                           /\ k \in Setup!Plays => "out_stm" \in v3
  <2>1. /\ Ends(Setup!AlsaStages, n) /\ Sure(Setup!AlsaStages, k, n, v3, lost)
        /\ May(Setup!AlsaStages, k, n, v3, lost)
    BY ONLY <1>2 DEF s
  <2>2. k \in Setup!Every /\ n \in Nat /\ lost \in {{"NULL"}, {"NULL", "builder"}}
    OBVIOUS
  <2>3. SidesHeld(k, n, v3)
    BY ONLY <2>1, <2>2, AlsaHeld
  <2>4. QED
    BY ONLY <2>3 DEF s, SidesHeld
<1>4. StagesTake(s, AlsaThings, {"never", "refuse", "undo"})
  BY AlsaTable
<1> HIDE DEF s
<1>5. v3 \subseteq AlsaThings
  BY <1>2, <1>4, HeldOf
<1>6. Setup!Undone(v1.backend) = Setup!AlsaUndone /\ Setup!Freed(v1.backend) = Setup!AlsaFreed
  BY DEF Setup!Undone, Setup!Freed
<1>7. /\ StraysOf(v1.backend) = {}
      /\ LeaksOf(v1.backend, "error") = {}
      /\ LeaksOf(v1.backend, "destroyed") = {}
  BY DEF StraysOf, LeaksOf
<1>8. /\ "in_stm" \in v3 => Setup!AlsaSideFreed(Setup!AlsaIn) = v3 \cap InThings
      /\ "out_stm" \in v3 => Setup!AlsaSideFreed(Setup!AlsaOut) = v3 \cap OutThings
  <2>1. /\ "in_stm" \in InThings /\ "out_stm" \in OutThings
    BY DEF InThings, OutThings
  <2>2. /\ "in_stm" \in v3 => "in_active" \in v3
        /\ "out_stm" \in v3 => "out_active" \in v3
    BY <1>3, <2>1
  <2>3. QED
    BY <2>2 DEF Setup!AlsaSideFreed, Setup!AlsaIn, Setup!AlsaOut, InThings, OutThings
<1>9. /\ "in_stm" \notin v3 => v3 \cap InThings = {}
      /\ "out_stm" \notin v3 => v3 \cap OutThings = {}
  BY <1>3
<1>10. v3 = (v3 \cap InThings) \cup (v3 \cap OutThings)
  BY <1>5 DEF AlsaThings
<1>11. Setup!AlsaUndone = v3
  <2>1. Setup!AlsaIn.stm = "in_stm" /\ Setup!AlsaOut.stm = "out_stm"
    BY DEF Setup!AlsaIn, Setup!AlsaOut
  <2>2. QED
    BY <1>8, <1>9, <1>10, <2>1 DEF Setup!AlsaUndone
<1>12. n = Len(s) + 1 => Setup!AlsaFreed = v3
  <2>1. /\ k \notin Setup!Records => v3 \cap InThings = {}
        /\ k \notin Setup!Plays => v3 \cap OutThings = {}
    BY <1>3
  <2>2. QED
    BY <1>2, <1>3, <1>8, <1>10, <2>1 DEF Setup!AlsaFreed
<1>13. QED
  BY <1>1, <1>6, <1>7, <1>11, <1>12 DEF GivesBack

LEMMA JackGivesBack ==
  ASSUME v1.backend = "jack", NEW k \in Setup!Every, NEW n \in Nat,
         NEW lost \in {{"NULL"}, {"NULL", "builder"}}, Stands(k, n, lost)
  PROVE  GivesBack(n)
<1> DEFINE s == Setup!JackStages
<1>1. Setup!Stages(v1.backend) = s
  BY DEF Setup!Stages
<1>2. Ends(s, n) /\ Sure(s, k, n, v3, lost) /\ May(s, k, n, v3, lost)
  BY <1>1, Zenon DEF Stands
<1>3. /\ StagesTake(s, JackThings, {"never", "refuse", "undo"})
      /\ Len(s) \in Nat
      /\ Begins(s, k, 3, "slot")
  BY JackTable DEF StagesTake
<1> HIDE DEF s
<1>4. v3 \subseteq JackThings \ lost
  BY <1>2, <1>3, HeldOf
<1>5. {"slot"} \subseteq v3
  <2>1. "slot" \in v3
    BY <1>2, <1>3, BeginsHeld
  <2>2. QED
    BY <2>1
<1>6. Setup!Undone(v1.backend) = Setup!JackFreed /\ Setup!Freed(v1.backend) = Setup!JackFreed
  BY DEF Setup!Undone, Setup!Freed
<1>7. /\ StraysOf(v1.backend) = {}
      /\ LeaksOf(v1.backend, "error") = {}
      /\ LeaksOf(v1.backend, "destroyed") = {}
  BY DEF StraysOf, LeaksOf
<1>8. /\ /\ Setup!JackFreed \ v3 \subseteq {}
         /\ v3 \ Setup!JackFreed \subseteq {}
      /\ Setup!JackFreed \ v3 \subseteq {}
      /\ v3 \ Setup!JackFreed \subseteq {}
  BY <1>4, <1>5 DEF Setup!JackFreed, JackThings
<1>9. QED
  BY <1>1, <1>6, <1>7, <1>8 DEF GivesBack

LEMMA AAudioGivesBack ==
  ASSUME v1.backend = "aaudio", NEW k \in Setup!Every, NEW n \in Nat,
         NEW lost \in {{"NULL"}, {"NULL", "builder"}}, Stands(k, n, lost)
  PROVE  GivesBack(n)
<1> DEFINE s == Setup!AAudioStages
<1>1. Setup!Stages(v1.backend) = s
  BY DEF Setup!Stages
<1>2. Ends(s, n) /\ Sure(s, k, n, v3, lost) /\ May(s, k, n, v3, lost)
  BY <1>1, Zenon DEF Stands
<1>3. /\ StagesTake(s, AAudioThings, {"never", "refuse", "undo"})
      /\ Len(s) \in Nat
      /\ Begins(s, k, 1, "slot")
  BY AAudioTable DEF StagesTake
<1> HIDE DEF s
<1>4. v3 \subseteq AAudioThings \ lost
  BY <1>2, <1>3, HeldOf
<1>5. {"slot"} \subseteq v3
  <2>1. "slot" \in v3
    BY <1>2, <1>3, BeginsHeld
  <2>2. QED
    BY <2>1
<1>6. Setup!Undone(v1.backend) = Setup!AAudioFreed /\ Setup!Freed(v1.backend) = Setup!AAudioFreed
  BY DEF Setup!Undone, Setup!Freed
<1>7. /\ StraysOf(v1.backend) = {}
      /\ LeaksOf(v1.backend, "error") = {}
      /\ LeaksOf(v1.backend, "destroyed") = {}
  BY DEF StraysOf, LeaksOf
<1>8. /\ /\ Setup!AAudioFreed \ v3 \subseteq {}
         /\ v3 \ Setup!AAudioFreed \subseteq {}
      /\ Setup!AAudioFreed \ v3 \subseteq {}
      /\ v3 \ Setup!AAudioFreed \subseteq {}
  BY <1>4, <1>5 DEF Setup!AAudioFreed, AAudioThings
<1>9. QED
  BY <1>1, <1>6, <1>7, <1>8 DEF GivesBack

LEMMA OpenSLGivesBack ==
  ASSUME v1.backend = "opensl", NEW k \in Setup!Every, NEW n \in Nat,
         NEW lost \in {{"NULL"}, {"NULL", "builder"}}, Stands(k, n, lost)
  PROVE  GivesBack(n)
<1> DEFINE s == Setup!OpenSLStages
<1>1. Setup!Stages(v1.backend) = s
  BY DEF Setup!Stages
<1>2. Ends(s, n) /\ Sure(s, k, n, v3, lost) /\ May(s, k, n, v3, lost)
  BY <1>1, Zenon DEF Stands
<1>3. /\ StagesTake(s, OpenSLThings, {"never", "refuse", "undo", "crash"})
      /\ Len(s) \in Nat
      /\ Begins(s, k, 3, "stm")
      /\ Begins(s, k, 4, "mutex")
      /\ Follows(s, k, "player", "buffers")
      /\ Follows(s, k, "recorder", "recorder_queue")
      /\ Follows(s, k, "recorder_queue", "input_buffers")
      /\ Follows(s, k, "recorder", "input_queue")
      /\ Follows(s, k, "recorder", "input_silent_buffer")
  BY OpenSLTable DEF StagesTake
<1> HIDE DEF s
<1>4. v3 \subseteq OpenSLThings \ lost
  BY <1>2, <1>3, HeldOf
<1>5. {"stm", "mutex"} \subseteq v3
  <2>1. "stm" \in v3
    BY <1>2, <1>3, BeginsHeld
  <2>2. "mutex" \in v3
    BY <1>2, <1>3, BeginsHeld
  <2>3. QED
    BY <2>1, <2>2
<1>6. "buffers" \in v3 => "player" \in v3
  BY <1>2, <1>3, FollowsHeld
<1>7. "recorder_queue" \in v3 => "recorder" \in v3
  BY <1>2, <1>3, FollowsHeld
<1>8. "input_buffers" \in v3 => "recorder_queue" \in v3
  BY <1>2, <1>3, FollowsHeld
<1>9. "input_queue" \in v3 => "recorder" \in v3
  BY <1>2, <1>3, FollowsHeld
<1>10. "input_silent_buffer" \in v3 => "recorder" \in v3
  BY <1>2, <1>3, FollowsHeld
<1>11. Setup!Undone(v1.backend) = Setup!OpenSLFreed /\ Setup!Freed(v1.backend) = Setup!OpenSLFreed
  BY DEF Setup!Undone, Setup!Freed
<1>12. /\ StraysOf(v1.backend) = {}
      /\ LeaksOf(v1.backend, "error") = {"queuebuf", "input_array"}
      /\ LeaksOf(v1.backend, "destroyed") = {"queuebuf", "input_array"}
  BY DEF StraysOf, LeaksOf
<1>13. /\ /\ Setup!OpenSLFreed \ v3 \subseteq {}
          /\ v3 \ Setup!OpenSLFreed \subseteq {"queuebuf", "input_array"}
       /\ Setup!OpenSLFreed \ v3 \subseteq {}
       /\ v3 \ Setup!OpenSLFreed \subseteq {"queuebuf", "input_array"}
  BY <1>4, <1>5, <1>6, <1>7, <1>8, <1>9, <1>10 DEF Setup!OpenSLFreed,
     Setup!OpenSLRecorderFreed, OpenSLThings
<1>14. QED
  BY <1>1, <1>11, <1>12, <1>13 DEF GivesBack

LEMMA OssGivesBack ==
  ASSUME v1.backend = "oss", NEW k \in Setup!Every, NEW n \in Nat,
         NEW lost \in {{"NULL"}, {"NULL", "builder"}}, Stands(k, n, lost)
  PROVE  GivesBack(n)
<1> DEFINE s == Setup!OssStages
<1>1. Setup!Stages(v1.backend) = s
  BY DEF Setup!Stages
<1>2. Ends(s, n) /\ Sure(s, k, n, v3, lost) /\ May(s, k, n, v3, lost)
  BY <1>1, Zenon DEF Stands
<1>3. /\ StagesTake(s, OssThings, {"refuse", "undo", "quiet"})
      /\ Len(s) \in Nat
      /\ Begins(s, k, 1, "stm")
  BY OssTable DEF StagesTake
<1> HIDE DEF s
<1>4. v3 \subseteq OssThings \ lost
  BY <1>2, <1>3, HeldOf
<1>5. {"stm"} \subseteq v3
  <2>1. "stm" \in v3
    BY <1>2, <1>3, BeginsHeld
  <2>2. QED
    BY <2>1
<1>6. Setup!Undone(v1.backend) = Setup!OssFreed /\ Setup!Freed(v1.backend) = Setup!OssFreed
  BY DEF Setup!Undone, Setup!Freed
<1>7. /\ StraysOf(v1.backend) = {"thread", "mtx", "doorbell_cv", "stopped_cv"}
      /\ LeaksOf(v1.backend, "error") = {}
      /\ LeaksOf(v1.backend, "destroyed") = {}
  BY DEF StraysOf, LeaksOf
<1>8. /\ /\ Setup!OssFreed \ v3 \subseteq {"thread", "mtx", "doorbell_cv", "stopped_cv"}
         /\ v3 \ Setup!OssFreed \subseteq {}
      /\ Setup!OssFreed \ v3 \subseteq {"thread", "mtx", "doorbell_cv", "stopped_cv"}
      /\ v3 \ Setup!OssFreed \subseteq {}
  BY <1>4, <1>5 DEF Setup!OssFreed, OssThings
<1>9. QED
  BY <1>1, <1>6, <1>7, <1>8 DEF GivesBack

LEMMA SunGivesBack ==
  ASSUME v1.backend = "sun", NEW k \in Setup!Every, NEW n \in Nat,
         NEW lost \in {{"NULL"}, {"NULL", "builder"}}, Stands(k, n, lost)
  PROVE  GivesBack(n)
<1> DEFINE s == Setup!SunStages
<1>1. Setup!Stages(v1.backend) = s
  BY DEF Setup!Stages
<1>2. Ends(s, n) /\ Sure(s, k, n, v3, lost) /\ May(s, k, n, v3, lost)
  BY <1>1, Zenon DEF Stands
<1>3. /\ StagesTake(s, SunThings, {"refuse", "undo", "quiet"})
      /\ Len(s) \in Nat
      /\ Begins(s, k, 1, "stm")
  BY SunTable DEF StagesTake
<1> HIDE DEF s
<1>4. v3 \subseteq SunThings \ lost
  BY <1>2, <1>3, HeldOf
<1>5. {"stm"} \subseteq v3
  <2>1. "stm" \in v3
    BY <1>2, <1>3, BeginsHeld
  <2>2. QED
    BY <2>1
<1>6. Setup!Undone(v1.backend) = Setup!SunFreed /\ Setup!Freed(v1.backend) = Setup!SunFreed
  BY DEF Setup!Undone, Setup!Freed
<1>7. /\ StraysOf(v1.backend) = {"mutex"}
      /\ LeaksOf(v1.backend, "error") = {}
      /\ LeaksOf(v1.backend, "destroyed") = {}
  BY DEF StraysOf, LeaksOf
<1>8. /\ /\ Setup!SunFreed \ v3 \subseteq {"mutex"}
         /\ v3 \ Setup!SunFreed \subseteq {}
      /\ Setup!SunFreed \ v3 \subseteq {"mutex"}
      /\ v3 \ Setup!SunFreed \subseteq {}
  BY <1>4, <1>5 DEF Setup!SunFreed, SunThings
<1>9. QED
  BY <1>1, <1>6, <1>7, <1>8 DEF GivesBack

LEMMA SndioGivesBack ==
  ASSUME v1.backend = "sndio", NEW k \in Setup!Every, NEW n \in Nat,
         NEW lost \in {{"NULL"}, {"NULL", "builder"}}, Stands(k, n, lost)
  PROVE  GivesBack(n)
<1> DEFINE s == Setup!SndioStages
<1>1. Setup!Stages(v1.backend) = s
  BY DEF Setup!Stages
<1>2. Ends(s, n) /\ Sure(s, k, n, v3, lost) /\ May(s, k, n, v3, lost)
  BY <1>1, Zenon DEF Stands
<1>3. /\ StagesTake(s, SndioThings, {"refuse", "undo"})
      /\ Len(s) \in Nat
      /\ Begins(s, k, 1, "s")
      /\ Len(s) = 6 /\ \A i \in 1..Len(s) : "rbuf" \in s[i].takes => i = 6
  BY SndioTable DEF StagesTake
<1> HIDE DEF s
<1>4. v3 \subseteq SndioThings \ lost
  BY <1>2, <1>3, HeldOf
<1>5. {"s"} \subseteq v3
  <2>1. "s" \in v3
    BY <1>2, <1>3, BeginsHeld
  <2>2. QED
    BY <2>1
<1>6. n \in 1..Len(s) => "rbuf" \notin v3
  BY <1>2, <1>3 DEF May
<1>7. Setup!Undone(v1.backend) = Setup!SndioUndone /\ Setup!Freed(v1.backend) = Setup!SndioFreed
  BY DEF Setup!Undone, Setup!Freed
<1>8. /\ StraysOf(v1.backend) = {}
      /\ LeaksOf(v1.backend, "error") = {}
      /\ LeaksOf(v1.backend, "destroyed") = {}
  BY DEF StraysOf, LeaksOf
<1>9. /\ n \in 1..Len(s) => /\ Setup!SndioUndone \ v3 \subseteq {}
                            /\ v3 \ Setup!SndioUndone \subseteq {}
      /\ Setup!SndioFreed \ v3 \subseteq {}
      /\ v3 \ Setup!SndioFreed \subseteq {}
  BY <1>4, <1>5, <1>6 DEF Setup!SndioUndone, Setup!SndioFreed, SndioThings
<1>10. QED
  BY <1>1, <1>7, <1>8, <1>9 DEF GivesBack

LEMMA WasapiGivesBack ==
  ASSUME v1.backend = "wasapi", NEW k \in Setup!Every, NEW n \in Nat,
         NEW lost \in {{"NULL"}, {"NULL", "builder"}}, Stands(k, n, lost)
  PROVE  GivesBack(n)
<1> DEFINE s == Setup!WasapiStages
<1>1. Setup!Stages(v1.backend) = s
  BY DEF Setup!Stages
<1>2. Ends(s, n) /\ Sure(s, k, n, v3, lost) /\ May(s, k, n, v3, lost)
  BY <1>1, Zenon DEF Stands
<1>3. /\ StagesTake(s, WasapiThings, {"never", "refuse", "undo", "ignored"})
      /\ Len(s) \in Nat
      /\ Begins(s, k, 2, "stm")
  BY WasapiTable DEF StagesTake
<1> HIDE DEF s
<1>4. v3 \subseteq WasapiThings \ lost
  BY <1>2, <1>3, HeldOf
<1>5. {"stm"} \subseteq v3
  <2>1. "stm" \in v3
    BY <1>2, <1>3, BeginsHeld
  <2>2. QED
    BY <2>1
<1>6. Setup!Undone(v1.backend) = Setup!WasapiFreed /\ Setup!Freed(v1.backend) = Setup!WasapiFreed
  BY DEF Setup!Undone, Setup!Freed
<1>7. /\ StraysOf(v1.backend) = {"reconfigure_event", "refill_event", "input_available_event"}
      /\ LeaksOf(v1.backend, "error") = {}
      /\ LeaksOf(v1.backend, "destroyed") = {}
  BY DEF StraysOf, LeaksOf
<1>8. /\ /\ Setup!WasapiFreed \ v3 \subseteq {"reconfigure_event", "refill_event", "input_available_event"}
         /\ v3 \ Setup!WasapiFreed \subseteq {}
      /\ Setup!WasapiFreed \ v3 \subseteq {"reconfigure_event", "refill_event", "input_available_event"}
      /\ v3 \ Setup!WasapiFreed \subseteq {}
  BY <1>4, <1>5 DEF Setup!WasapiFreed, Setup!WasapiClosed, WasapiThings
<1>9. QED
  BY <1>1, <1>6, <1>7, <1>8 DEF GivesBack

LEMMA WinmmGivesBack ==
  ASSUME v1.backend = "winmm", NEW k \in Setup!Every, NEW n \in Nat,
         NEW lost \in {{"NULL"}, {"NULL", "builder"}}, Stands(k, n, lost)
  PROVE  GivesBack(n)
<1> DEFINE s == Setup!WinmmStages
<1>1. Setup!Stages(v1.backend) = s
  BY DEF Setup!Stages
<1>2. Ends(s, n) /\ Sure(s, k, n, v3, lost) /\ May(s, k, n, v3, lost)
  BY <1>1, Zenon DEF Stands
<1>3. /\ StagesTake(s, WinmmThings, {"never", "refuse", "undo", "ignored"})
      /\ Len(s) \in Nat
      /\ Begins(s, k, 3, "active")
      /\ Begins(s, k, 4, "stm")
      /\ Begins(s, k, 5, "lock")
      /\ Follows(s, k, "waveout", "headers")
      /\ Follows(s, k, "waveout", "queued")
  BY WinmmTable DEF StagesTake
<1> HIDE DEF s
<1>4. v3 \subseteq WinmmThings \ lost
  BY <1>2, <1>3, HeldOf
<1>5. {"active", "stm", "lock"} \subseteq v3
  <2>1. "active" \in v3
    BY <1>2, <1>3, BeginsHeld
  <2>2. "stm" \in v3
    BY <1>2, <1>3, BeginsHeld
  <2>3. "lock" \in v3
    BY <1>2, <1>3, BeginsHeld
  <2>4. QED
    BY <2>1, <2>2, <2>3
<1>6. ("headers" \in v3 => "waveout" \in v3) /\ ("queued" \in v3 => "waveout" \in v3)
  BY <1>2, <1>3, FollowsHeld
<1>7. Setup!Undone(v1.backend) = Setup!WinmmFreed /\ Setup!Freed(v1.backend) = Setup!WinmmFreed
  BY DEF Setup!Undone, Setup!Freed
<1>8. /\ StraysOf(v1.backend) = {}
      /\ LeaksOf(v1.backend, "error") = {}
      /\ LeaksOf(v1.backend, "destroyed") = {}
  BY DEF StraysOf, LeaksOf
<1>9. /\ /\ Setup!WinmmFreed \ v3 \subseteq {}
         /\ v3 \ Setup!WinmmFreed \subseteq {}
      /\ Setup!WinmmFreed \ v3 \subseteq {}
      /\ v3 \ Setup!WinmmFreed \subseteq {}
  BY <1>4, <1>5, <1>6 DEF Setup!WinmmFreed, WinmmThings
<1>10. QED
  BY <1>1, <1>7, <1>8, <1>9 DEF GivesBack

LEMMA AudioUnitGivesBack ==
  ASSUME v1.backend = "audiounit", NEW k \in Setup!Every, NEW n \in Nat,
         NEW lost \in {{"NULL"}, {"NULL", "builder"}}, Stands(k, n, lost)
  PROVE  GivesBack(n)
<1> DEFINE s == Setup!AudioUnitStages
<1>1. Setup!Stages(v1.backend) = s
  BY DEF Setup!Stages
<1>2. Ends(s, n) /\ Sure(s, k, n, v3, lost) /\ May(s, k, n, v3, lost)
  BY <1>1, Zenon DEF Stands
<1>3. /\ StagesTake(s, AudioUnitThings, {"never", "undo", "ignored"})
      /\ Len(s) \in Nat
      /\ Begins(s, k, 1, "active")
      /\ Begins(s, k, 2, "stm")
  BY AudioUnitTable DEF StagesTake
<1> HIDE DEF s
<1>4. v3 \subseteq AudioUnitThings \ lost
  BY <1>2, <1>3, HeldOf
<1>5. {"active", "stm"} \subseteq v3
  <2>1. "active" \in v3
    BY <1>2, <1>3, BeginsHeld
  <2>2. "stm" \in v3
    BY <1>2, <1>3, BeginsHeld
  <2>3. QED
    BY <2>1, <2>2
<1>6. Setup!Undone(v1.backend) = Setup!AudioUnitUndone /\ Setup!Freed(v1.backend) = Setup!AudioUnitFreed
  BY DEF Setup!Undone, Setup!Freed
<1>7. /\ StraysOf(v1.backend) = {}
      /\ LeaksOf(v1.backend, "error") = {"stm"}
      /\ LeaksOf(v1.backend, "destroyed") = {}
  BY DEF StraysOf, LeaksOf
<1>8. /\ /\ Setup!AudioUnitUndone \ v3 \subseteq {}
         /\ v3 \ Setup!AudioUnitUndone \subseteq {"stm"}
      /\ Setup!AudioUnitFreed \ v3 \subseteq {}
      /\ v3 \ Setup!AudioUnitFreed \subseteq {}
  BY <1>4, <1>5 DEF Setup!AudioUnitUndone, Setup!AudioUnitFreed, Setup!AudioUnitClosed,
     AudioUnitThings
<1>9. QED
  BY <1>1, <1>6, <1>7, <1>8 DEF GivesBack

LEMMA KaiGivesBack ==
  ASSUME v1.backend = "kai", NEW k \in Setup!Every, NEW n \in Nat,
         NEW lost \in {{"NULL"}, {"NULL", "builder"}}, Stands(k, n, lost)
  PROVE  GivesBack(n)
<1> DEFINE s == Setup!KaiStages
<1>1. Setup!Stages(v1.backend) = s
  BY DEF Setup!Stages
<1>2. Ends(s, n) /\ Sure(s, k, n, v3, lost) /\ May(s, k, n, v3, lost)
  BY <1>1, Zenon DEF Stands
<1>3. /\ StagesTake(s, KaiThings, {"never", "refuse", "undo"})
      /\ Len(s) \in Nat
      /\ Begins(s, k, 3, "stm")
  BY KaiTable DEF StagesTake
<1> HIDE DEF s
<1>4. v3 \subseteq KaiThings \ lost
  BY <1>2, <1>3, HeldOf
<1>5. {"stm"} \subseteq v3
  <2>1. "stm" \in v3
    BY <1>2, <1>3, BeginsHeld
  <2>2. QED
    BY <2>1
<1>6. Setup!Undone(v1.backend) = Setup!KaiFreed /\ Setup!Freed(v1.backend) = Setup!KaiFreed
  BY DEF Setup!Undone, Setup!Freed
<1>7. /\ StraysOf(v1.backend) = {}
      /\ LeaksOf(v1.backend, "error") = {}
      /\ LeaksOf(v1.backend, "destroyed") = {}
  BY DEF StraysOf, LeaksOf
<1>8. /\ /\ Setup!KaiFreed \ v3 \subseteq {}
         /\ v3 \ Setup!KaiFreed \subseteq {}
      /\ Setup!KaiFreed \ v3 \subseteq {}
      /\ v3 \ Setup!KaiFreed \subseteq {}
  BY <1>4, <1>5 DEF Setup!KaiFreed, KaiThings
<1>9. QED
  BY <1>1, <1>6, <1>7, <1>8 DEF GivesBack

LEMMA AudioTrackGivesBack ==
  ASSUME v1.backend = "audiotrack", NEW k \in Setup!Every, NEW n \in Nat,
         NEW lost \in {{"NULL"}, {"NULL", "builder"}}, Stands(k, n, lost)
  PROVE  GivesBack(n)
<1> DEFINE s == Setup!AudioTrackStages
<1>1. Setup!Stages(v1.backend) = s
  BY DEF Setup!Stages
<1>2. Ends(s, n) /\ Sure(s, k, n, v3, lost) /\ May(s, k, n, v3, lost)
  BY <1>1, Zenon DEF Stands
<1>3. /\ StagesTake(s, AudioTrackThings, {"never", "refuse", "undo"})
      /\ Len(s) \in Nat
      /\ Begins(s, k, 2, "stm")
      /\ Begins(s, k, 3, "instance")
      /\ Begins(s, k, 4, "track")
  BY AudioTrackTable DEF StagesTake
<1> HIDE DEF s
<1>4. v3 \subseteq AudioTrackThings \ lost
  BY <1>2, <1>3, HeldOf
<1>5. {"stm", "instance", "track"} \subseteq v3
  <2>1. "stm" \in v3
    BY <1>2, <1>3, BeginsHeld
  <2>2. "instance" \in v3
    BY <1>2, <1>3, BeginsHeld
  <2>3. "track" \in v3
    BY <1>2, <1>3, BeginsHeld
  <2>4. QED
    BY <2>1, <2>2, <2>3
<1>6. Setup!Undone(v1.backend) = Setup!AudioTrackFreed /\ Setup!Freed(v1.backend) = Setup!AudioTrackFreed
  BY DEF Setup!Undone, Setup!Freed
<1>7. /\ StraysOf(v1.backend) = {}
      /\ LeaksOf(v1.backend, "error") = {}
      /\ LeaksOf(v1.backend, "destroyed") = {}
  BY DEF StraysOf, LeaksOf
<1>8. /\ /\ Setup!AudioTrackFreed \ v3 \subseteq {}
         /\ v3 \ Setup!AudioTrackFreed \subseteq {}
      /\ Setup!AudioTrackFreed \ v3 \subseteq {}
      /\ v3 \ Setup!AudioTrackFreed \subseteq {}
  BY <1>4, <1>5 DEF Setup!AudioTrackFreed, AudioTrackThings
<1>9. QED
  BY <1>1, <1>6, <1>7, <1>8 DEF GivesBack
----------------------------------------------------------------------------
Known == {"pulse", "alsa", "jack", "aaudio", "opensl", "oss", "sun", "sndio", "wasapi", "winmm",
          "audiounit", "kai", "audiotrack"}

\* What each backend's stages have in common: nothing is taken before a refusal,
\* and the ways to fail that RolledBack and ResultIsTrue name are those of few.
TableRight(s, b) ==
  /\ Len(s) \in Nat /\ Opens(s)
  /\ \A n \in 1..Len(s) :
       /\ s[n].fails \in Ways
       /\ s[n].fails = "quiet" => b \in {"oss", "sun"}
       /\ s[n].fails = "crash" => b = "opensl" /\ s[n].on \subseteq Setup!Records
       /\ s[n].fails = "ignored" => s[n].takes \subseteq Setup!Spared

LEMMA SegmentRight ==
  ASSUME NEW s, NEW things, NEW ways, NEW b, StagesTake(s, things, ways), Opens(s),
         ways \subseteq Ways,
         "quiet" \in ways => b \in {"oss", "sun"}, "crash" \in ways => b = "opensl"
  PROVE  TableRight(s, b)
  BY DEF StagesTake, TableRight

LEMMA TableOf ==
  ASSUME NEW b \in Known
  PROVE  TableRight(Setup!Stages(b), b)
<1>0. "output" \in Setup!Every
  BY DEF Setup!Every
<1>1. CASE b = "pulse"
  <2>1. Setup!Stages(b) = Setup!PulseStages
    BY <1>1 DEF Setup!Stages
  <2>2. /\ StagesTake(Setup!PulseStages, PulseThings,
                   {"never", "refuse", "undo"})
        /\ Opens(Setup!PulseStages)
    BY <1>0, PulseTable
  <2>3. TableRight(Setup!PulseStages, b)
    BY <1>1, <2>2, SegmentRight DEF Ways
  <2>4. QED
    BY <2>1, <2>3
<1>2. CASE b = "alsa"
  <2>1. Setup!Stages(b) = Setup!AlsaStages
    BY <1>2 DEF Setup!Stages
  <2>2. /\ StagesTake(Setup!AlsaStages, AlsaThings,
                   {"never", "refuse", "undo"})
        /\ Opens(Setup!AlsaStages)
    BY AlsaTable
  <2>3. TableRight(Setup!AlsaStages, b)
    BY <1>2, <2>2, SegmentRight DEF Ways
  <2>4. QED
    BY <2>1, <2>3
<1>3. CASE b = "jack"
  <2>1. Setup!Stages(b) = Setup!JackStages
    BY <1>3 DEF Setup!Stages
  <2>2. /\ StagesTake(Setup!JackStages, JackThings,
                   {"never", "refuse", "undo"})
        /\ Opens(Setup!JackStages)
    BY <1>0, JackTable
  <2>3. TableRight(Setup!JackStages, b)
    BY <1>3, <2>2, SegmentRight DEF Ways
  <2>4. QED
    BY <2>1, <2>3
<1>4. CASE b = "aaudio"
  <2>1. Setup!Stages(b) = Setup!AAudioStages
    BY <1>4 DEF Setup!Stages
  <2>2. /\ StagesTake(Setup!AAudioStages, AAudioThings,
                   {"never", "refuse", "undo"})
        /\ Opens(Setup!AAudioStages)
    BY <1>0, AAudioTable
  <2>3. TableRight(Setup!AAudioStages, b)
    BY <1>4, <2>2, SegmentRight DEF Ways
  <2>4. QED
    BY <2>1, <2>3
<1>5. CASE b = "opensl"
  <2>1. Setup!Stages(b) = Setup!OpenSLStages
    BY <1>5 DEF Setup!Stages
  <2>2. /\ StagesTake(Setup!OpenSLStages, OpenSLThings,
                   {"never", "refuse", "undo", "crash"})
        /\ Opens(Setup!OpenSLStages)
    BY <1>0, OpenSLTable
  <2>3. TableRight(Setup!OpenSLStages, b)
    BY <1>5, <2>2, SegmentRight DEF Ways
  <2>4. QED
    BY <2>1, <2>3
<1>6. CASE b = "oss"
  <2>1. Setup!Stages(b) = Setup!OssStages
    BY <1>6 DEF Setup!Stages
  <2>2. /\ StagesTake(Setup!OssStages, OssThings,
                   {"refuse", "undo", "quiet"})
        /\ Opens(Setup!OssStages)
    BY <1>0, OssTable
  <2>3. TableRight(Setup!OssStages, b)
    BY <1>6, <2>2, SegmentRight DEF Ways
  <2>4. QED
    BY <2>1, <2>3
<1>7. CASE b = "sun"
  <2>1. Setup!Stages(b) = Setup!SunStages
    BY <1>7 DEF Setup!Stages
  <2>2. /\ StagesTake(Setup!SunStages, SunThings,
                   {"refuse", "undo", "quiet"})
        /\ Opens(Setup!SunStages)
    BY <1>0, SunTable
  <2>3. TableRight(Setup!SunStages, b)
    BY <1>7, <2>2, SegmentRight DEF Ways
  <2>4. QED
    BY <2>1, <2>3
<1>8. CASE b = "sndio"
  <2>1. Setup!Stages(b) = Setup!SndioStages
    BY <1>8 DEF Setup!Stages
  <2>2. /\ StagesTake(Setup!SndioStages, SndioThings,
                   {"refuse", "undo"})
        /\ Opens(Setup!SndioStages)
    BY <1>0, SndioTable
  <2>3. TableRight(Setup!SndioStages, b)
    BY <1>8, <2>2, SegmentRight DEF Ways
  <2>4. QED
    BY <2>1, <2>3
<1>9. CASE b = "wasapi"
  <2>1. Setup!Stages(b) = Setup!WasapiStages
    BY <1>9 DEF Setup!Stages
  <2>2. /\ StagesTake(Setup!WasapiStages, WasapiThings,
                   {"never", "refuse", "undo", "ignored"})
        /\ Opens(Setup!WasapiStages)
    BY <1>0, WasapiTable
  <2>3. TableRight(Setup!WasapiStages, b)
    BY <1>9, <2>2, SegmentRight DEF Ways
  <2>4. QED
    BY <2>1, <2>3
<1>10. CASE b = "winmm"
  <2>1. Setup!Stages(b) = Setup!WinmmStages
    BY <1>10 DEF Setup!Stages
  <2>2. /\ StagesTake(Setup!WinmmStages, WinmmThings,
                   {"never", "refuse", "undo", "ignored"})
        /\ Opens(Setup!WinmmStages)
    BY <1>0, WinmmTable
  <2>3. TableRight(Setup!WinmmStages, b)
    BY <1>10, <2>2, SegmentRight DEF Ways
  <2>4. QED
    BY <2>1, <2>3
<1>11. CASE b = "audiounit"
  <2>1. Setup!Stages(b) = Setup!AudioUnitStages
    BY <1>11 DEF Setup!Stages
  <2>2. /\ StagesTake(Setup!AudioUnitStages, AudioUnitThings,
                   {"never", "undo", "ignored"})
        /\ Opens(Setup!AudioUnitStages)
    BY <1>0, AudioUnitTable
  <2>3. TableRight(Setup!AudioUnitStages, b)
    BY <1>11, <2>2, SegmentRight DEF Ways
  <2>4. QED
    BY <2>1, <2>3
<1>12. CASE b = "kai"
  <2>1. Setup!Stages(b) = Setup!KaiStages
    BY <1>12 DEF Setup!Stages
  <2>2. /\ StagesTake(Setup!KaiStages, KaiThings,
                   {"never", "refuse", "undo"})
        /\ Opens(Setup!KaiStages)
    BY <1>0, KaiTable
  <2>3. TableRight(Setup!KaiStages, b)
    BY <1>12, <2>2, SegmentRight DEF Ways
  <2>4. QED
    BY <2>1, <2>3
<1>13. CASE b = "audiotrack"
  <2>1. Setup!Stages(b) = Setup!AudioTrackStages
    BY <1>13 DEF Setup!Stages
  <2>2. /\ StagesTake(Setup!AudioTrackStages, AudioTrackThings,
                   {"never", "refuse", "undo"})
        /\ Opens(Setup!AudioTrackStages)
    BY <1>0, AudioTrackTable
  <2>3. TableRight(Setup!AudioTrackStages, b)
    BY <1>13, <2>2, SegmentRight DEF Ways
  <2>4. QED
    BY <2>1, <2>3
<1>14. QED
  BY <1>1, <1>2, <1>3, <1>4, <1>5, <1>6, <1>7, <1>8, <1>9, <1>10, <1>11, <1>12, <1>13, Zenon
     DEF Known

LEMMA EveryGivesBack ==
  ASSUME v1.backend \in Known, NEW k \in Setup!Every, NEW n \in Nat,
         NEW lost \in {{"NULL"}, {"NULL", "builder"}}, Stands(k, n, lost)
  PROVE  GivesBack(n)
<1>1. CASE v1.backend = "pulse"
  BY <1>1, PulseGivesBack
<1>2. CASE v1.backend = "alsa"
  BY <1>2, AlsaGivesBack
<1>3. CASE v1.backend = "jack"
  BY <1>3, JackGivesBack
<1>4. CASE v1.backend = "aaudio"
  BY <1>4, AAudioGivesBack
<1>5. CASE v1.backend = "opensl"
  BY <1>5, OpenSLGivesBack
<1>6. CASE v1.backend = "oss"
  BY <1>6, OssGivesBack
<1>7. CASE v1.backend = "sun"
  BY <1>7, SunGivesBack
<1>8. CASE v1.backend = "sndio"
  BY <1>8, SndioGivesBack
<1>9. CASE v1.backend = "wasapi"
  BY <1>9, WasapiGivesBack
<1>10. CASE v1.backend = "winmm"
  BY <1>10, WinmmGivesBack
<1>11. CASE v1.backend = "audiounit"
  BY <1>11, AudioUnitGivesBack
<1>12. CASE v1.backend = "kai"
  BY <1>12, KaiGivesBack
<1>13. CASE v1.backend = "audiotrack"
  BY <1>13, AudioTrackGivesBack
<1>14. QED
  BY <1>1, <1>2, <1>3, <1>4, <1>5, <1>6, <1>7, <1>8, <1>9, <1>10, <1>11, <1>12, <1>13, Zenon
     DEF Known

----------------------------------------------------------------------------
\* A step past stage n: one that does what it is for, one that the stream does
\* not have, and a failure nobody looks at.
LEMMA PastTaken ==
  ASSUME NEW s, NEW k, NEW h, Len(s) \in Nat, NEW n \in 1..Len(s), k \in s[n].on,
         Sure(s, k, n, h, {"NULL"}), May(s, k, n, h, {"NULL"})
  PROVE  /\ Sure(s, k, n + 1, h \cup (s[n].takes \ {"NULL"}), {"NULL"})
         /\ May(s, k, n + 1, h \cup (s[n].takes \ {"NULL"}), {"NULL"})
<1> DEFINE g == h \cup (s[n].takes \ {"NULL"})
<1>1. ASSUME NEW j \in 1..Len(s), j < n + 1, k \in s[j].on, s[j].fails # "ignored"
      PROVE  s[j].takes \ {"NULL"} \subseteq g
  <2>1. j < n \/ j = n
    BY <1>1
  <2>2. CASE j < n
    <3>1. s[j].takes \ {"NULL"} \subseteq h
      BY <1>1, <2>2 DEF Sure
    <3>2. QED
      BY <3>1
  <2>3. CASE j = n
    BY <2>3
  <2>4. QED
    BY <2>1, <2>2, <2>3
<1>2. ASSUME NEW r \in g
      PROVE  /\ r \notin {"NULL"}
             /\ \E j \in 1..Len(s) : j < n + 1 /\ k \in s[j].on /\ r \in s[j].takes
  <2>1. CASE r \in h
    <3>1. r \notin {"NULL"} /\ \E j \in 1..Len(s) : j < n /\ k \in s[j].on /\ r \in s[j].takes
      BY <2>1 DEF May
    <3>2. \A j \in 1..Len(s) : j < n => j < n + 1
      OBVIOUS
    <3>3. QED
      BY <3>1, <3>2
  <2>2. CASE r \in s[n].takes \ {"NULL"}
    <3>1. n < n + 1
      OBVIOUS
    <3>2. QED
      BY <2>2, <3>1
  <2>3. QED
    BY <2>1, <2>2
<1>3. Sure(s, k, n + 1, g, {"NULL"})
  BY <1>1 DEF Sure
<1>4. May(s, k, n + 1, g, {"NULL"})
  BY <1>2 DEF May
<1>5. QED
  BY <1>3, <1>4

LEMMA PastNothing ==
  ASSUME NEW s, NEW k, NEW h, Len(s) \in Nat, NEW n \in 1..Len(s),
         k \notin s[n].on \/ s[n].fails = "ignored",
         Sure(s, k, n, h, {"NULL"}), May(s, k, n, h, {"NULL"})
  PROVE  Sure(s, k, n + 1, h, {"NULL"}) /\ May(s, k, n + 1, h, {"NULL"})
<1>1. \A j \in 1..Len(s) : j < n + 1 => j < n \/ j = n
  OBVIOUS
<1>2. \A j \in 1..Len(s) : j < n => j < n + 1
  OBVIOUS
<1>3. Sure(s, k, n + 1, h, {"NULL"})
  BY <1>1 DEF Sure
<1>4. May(s, k, n + 1, h, {"NULL"})
  BY <1>2 DEF May
<1>5. QED
  BY <1>3, <1>4

\* AAudio's builder goes out of scope.
LEMMA BuilderGone ==
  ASSUME NEW s, NEW k, NEW n, NEW h, Sure(s, k, n, h, {"NULL"}), May(s, k, n, h, {"NULL"})
  PROVE  /\ Sure(s, k, n, h \ {"builder"}, {"NULL", "builder"})
         /\ May(s, k, n, h \ {"builder"}, {"NULL", "builder"})
<1>1. Sure(s, k, n, h \ {"builder"}, {"NULL", "builder"})
  BY DEF Sure
<1>2. May(s, k, n, h \ {"builder"}, {"NULL", "builder"})
  BY DEF May
<1>3. QED
  BY <1>1, <1>2

\* ALSA hands out the stream it destroyed only when that is the recording side
\* of two.
LEMMA SlotOfDuplex ==
  ASSUME NEW k \in Setup!Every, NEW n \in 1..Len(Setup!AlsaStages),
         k \in Setup!AlsaStages[n].on, NEW h,
         May(Setup!AlsaStages, k, n, h, {"NULL"}), "in_slot" \in h
  PROVE  k = "duplex"
<1> DEFINE s == Setup!AlsaStages
<1> HIDE DEF s
<1>1. \A i, m \in 1..Len(s) :
        "in_slot" \in s[i].takes /\ i < m => s[i].on = Setup!Records /\ s[m].on = Setup!Plays
  BY AlsaTable DEF s
<1>2. n \in 1..Len(s) /\ k \in s[n].on /\ May(s, k, n, h, {"NULL"})
  BY DEF s
<1>3. PICK j \in 1..Len(s) : j < n /\ k \in s[j].on /\ "in_slot" \in s[j].takes
  BY <1>2 DEF May
<1>4. k \in Setup!Records /\ k \in Setup!Plays
  BY <1>1, <1>2, <1>3
<1>5. QED
  BY <1>4 DEF Setup!Records, Setup!Plays

\* Behind all stages, what is missing is what nobody looks at.
LEMMA WantedHeld ==
  ASSUME NEW h, TableRight(Setup!Stages(v1.backend), v1.backend),
         NEW n, n = Len(Setup!Stages(v1.backend)) + 1,
         Sure(Setup!Stages(v1.backend), v1.kind, n, h, {"NULL", "builder"})
  PROVE  Setup!Wanted \ h \subseteq Setup!Spared
<1> DEFINE s == Setup!Stages(v1.backend)
           k == v1.kind
<1> SUFFICES ASSUME NEW r \in Setup!Wanted, r \notin h PROVE r \in Setup!Spared
  OBVIOUS
<1>1. r \notin {"NULL", "builder"} /\ \E m \in 1..Len(s) : k \in s[m].on /\ r \in s[m].takes
  <2> HIDE DEF s, k
  <2>1. /\ r \notin {"NULL", "builder"}
        /\ r \in UNION {s[m].takes : m \in {j \in 1..Len(s) : k \in s[j].on}}
    BY Zenon DEF Setup!Wanted, s, k
  <2>2. QED
    BY ONLY <2>1
<1> HIDE DEF s, k
<1>2. PICK m \in 1..Len(s) : k \in s[m].on /\ r \in s[m].takes
  BY <1>1
<1>3. Len(s) \in Nat /\ (s[m].fails = "ignored" => s[m].takes \subseteq Setup!Spared)
  BY DEF TableRight, s
<1>4. m < n
  BY <1>3 DEF s
<1>5. s[m].fails # "ignored" => s[m].takes \ {"NULL", "builder"} \subseteq h
  BY <1>2, <1>4 DEF Sure, s, k
<1>6. QED
  BY <1>1, <1>2, <1>3, <1>5

----------------------------------------------------------------------------
\* Until init returns, what is held is what the stages behind took; when it
\* returned a stream, the same but the builder; in every other state the two
\* properties say all there is to say.
SetupInv ==
  LET s == Setup!Stages(v1.backend)
      k == v1.kind
  IN  /\ Setup!TypeOK /\ v1.backend \in Known /\ k \in Setup!Every
      /\ Setup!RolledBack /\ Setup!ResultIsTrue
      /\ v6 = "pending" =>
           /\ v4 = {} /\ v5 \in {"unset", "null"}
           /\ Sure(s, k, v2, v3, {"NULL"}) /\ May(s, k, v2, v3, {"NULL"})
      /\ v5 = "stream" =>
           /\ v6 \in {"ok", "hang"} /\ v4 = {} /\ v2 = Len(s) + 1
           /\ Sure(s, k, v2, v3, {"NULL", "builder"})
           /\ May(s, k, v2, v3, {"NULL", "builder"})

LEMMA SetupInit == ASSUME Setup!SetupAssumption, Setup!Init PROVE SetupInv
<1> DEFINE s == Setup!Stages(v1.backend)
           k == v1.kind
<1>1. v1.backend \in SetupBackends /\ v1.kind \in Setup!KindsOf(v1.backend)
  BY DEF Setup!Init
<1>2. v1.backend \in Known /\ k \in Setup!Every
  BY <1>1 DEF Setup!SetupAssumption, Known, Setup!KindsOf, Setup!Every
<1>3. Len(s) \in Nat
  BY <1>2, TableOf DEF TableRight
<1> HIDE DEF s, k
<1>4. v2 = 1 /\ v3 = {} /\ v4 = {} /\ v5 = "unset" /\ v6 = "pending"
  BY DEF Setup!Init
<1>5. Sure(s, k, v2, v3, {"NULL"}) /\ May(s, k, v2, v3, {"NULL"})
  BY <1>3, <1>4 DEF Sure, May
<1>6. Setup!TypeOK
  BY <1>1, <1>3, <1>4 DEF Setup!TypeOK, s
<1>7. Setup!RolledBack /\ Setup!ResultIsTrue
  BY <1>4 DEF Setup!RolledBack, Setup!ResultIsTrue
<1>8. QED
  BY <1>2, <1>4, <1>5, <1>6, <1>7 DEF SetupInv, s, k

LEMMA SetupStep == ASSUME SetupInv, Setup!Next PROVE SetupInv'
<1> DEFINE s == Setup!Stages(v1.backend)
           k == v1.kind
<1>1. /\ Setup!TypeOK /\ v1.backend \in Known /\ k \in Setup!Every
      /\ Setup!RolledBack /\ Setup!ResultIsTrue
      /\ v6 = "pending" =>
           /\ v4 = {} /\ v5 \in {"unset", "null"}
           /\ Sure(s, k, v2, v3, {"NULL"}) /\ May(s, k, v2, v3, {"NULL"})
      /\ v5 = "stream" =>
           /\ v6 \in {"ok", "hang"} /\ v4 = {} /\ v2 = Len(s) + 1
           /\ Sure(s, k, v2, v3, {"NULL", "builder"})
           /\ May(s, k, v2, v3, {"NULL", "builder"})
  BY DEF SetupInv
<1>2. v1.backend \in SetupBackends /\ k \in Setup!KindsOf(v1.backend)
  BY <1>1 DEF Setup!TypeOK
<1>3. TableRight(s, v1.backend)
  BY <1>1, TableOf
<1>4. Len(s) \in Nat /\ v2 \in 1..(Len(s) + 1) /\ v2 \in Nat
  <2>1. Len(s) \in Nat
    BY <1>3 DEF TableRight
  <2>2. v2 \in 1..(Len(s) + 1)
    BY <1>1 DEF Setup!TypeOK
  <2> HIDE DEF s
  <2>3. QED
    BY <2>1, <2>2
<1>5. v1' = v1
  BY DEF Setup!Next, Setup!PassBy, Setup!Advance, Setup!GoOn, Setup!EndHere, Setup!Undo,
     Setup!Succeed, Setup!Destroy, Setup!WaitForEver
<1>6. s' = s /\ k' = k
  BY <1>5 DEF Setup!Stages
<1>7. ASSUME Setup!Pending
      PROVE  /\ v6 = "pending" /\ v2 \in 1..Len(s) /\ v2 + 1 \in 1..(Len(s) + 1)
             /\ Setup!Here = s[v2]
  <2>1. v6 = "pending" /\ v2 <= Len(s) /\ Setup!Here = s[v2]
    BY <1>7 DEF Setup!Pending, Setup!Here
  <2> HIDE DEF s
  <2>2. QED
    BY <1>4, <2>1
<1>8. ASSUME Setup!Pending, v2' = v2 + 1, v4' = v4, v6' = v6,
             v5' \in {"unset", "null"},
             Sure(s, k, v2 + 1, v3', {"NULL"}), May(s, k, v2 + 1, v3', {"NULL"})
      PROVE  SetupInv'
  <2>1. v6' = "pending" /\ v4' = {} /\ v2' \in 1..(Len(s) + 1)
    BY <1>1, <1>7, <1>8
  <2>2. Setup!TypeOK'
    <3>1. v1'.backend \in SetupBackends /\ v1'.kind \in Setup!KindsOf(v1'.backend)
      BY <1>2, <1>5
    <3>2. Setup!KindsOf(v1.backend)' = Setup!KindsOf(v1'.backend)
      BY DEF Setup!KindsOf
    <3>3. v2' \in 1..(Len(Setup!Stages(v1.backend)') + 1)
      BY <1>6, <2>1
    <3>4. QED
      BY <1>8, <2>1, <3>1, <3>2, <3>3 DEF Setup!TypeOK
  <2>3. Setup!RolledBack' /\ Setup!ResultIsTrue'
    BY <2>1 DEF Setup!RolledBack, Setup!ResultIsTrue
  <2>4. Sure(s, k, v2, v3, {"NULL"})' /\ May(s, k, v2, v3, {"NULL"})'
    BY <1>6, <1>8 DEF Sure, May
  <2>5. v1'.backend \in Known /\ k' \in Setup!Every
    BY <1>1, <1>5, <1>6
  <2> HIDE DEF s, k
  <2>6. QED
    BY <1>8, <2>1, <2>2, <2>3, <2>4, <2>5 DEF SetupInv, s, k
\* A step after which nothing more happens, or only with a stream to be destroyed.
<1>9. ASSUME v2' = v2, Setup!RolledBack', Setup!ResultIsTrue',
             v6' \in {"ok", "error", "crash", "hang", "destroyed"},
             v5' \in {"unset", "null", "dangling"}
      PROVE  SetupInv'
  <2>1. Setup!TypeOK'
    <3>1. v1'.backend \in SetupBackends /\ v1'.kind \in Setup!KindsOf(v1'.backend)
      BY <1>2, <1>5
    <3>2. Setup!KindsOf(v1.backend)' = Setup!KindsOf(v1'.backend)
      BY DEF Setup!KindsOf
    <3>3. v2' \in 1..(Len(Setup!Stages(v1.backend)') + 1)
      BY <1>4, <1>6, <1>9
    <3>4. QED
      BY <1>9, <3>1, <3>2, <3>3 DEF Setup!TypeOK
  <2>2. v1'.backend \in Known /\ k' \in Setup!Every
    BY <1>1, <1>5, <1>6
  <2>3. v6' # "pending" /\ v5' # "stream"
    BY <1>9
  <2> HIDE DEF s, k
  <2>4. QED
    BY <1>9, <2>1, <2>2, <2>3 DEF SetupInv, s, k
<1>10. CASE Setup!PassBy
  <2>1. Setup!Pending /\ k \notin s[v2].on
    BY <1>7, <1>10 DEF Setup!PassBy
  <2>2. v2 \in 1..Len(s)
    BY <1>7, <2>1
  <2>3. Sure(s, k, v2, v3, {"NULL"}) /\ May(s, k, v2, v3, {"NULL"}) /\ v5 \in {"unset", "null"}
    BY <1>1, <1>7, <2>1
  <2>4. Sure(s, k, v2 + 1, v3, {"NULL"}) /\ May(s, k, v2 + 1, v3, {"NULL"})
    BY <1>4, <2>1, <2>2, <2>3, PastNothing
  <2>5. /\ v2' = v2 + 1 /\ v4' = v4 /\ v6' = v6 /\ v3' = v3 /\ v5' = v5
    BY <1>10 DEF Setup!PassBy
  <2> HIDE DEF s, k
  <2>6. QED
    BY <1>8, <2>1, <2>3, <2>4, <2>5
<1>11. CASE Setup!Advance
  <2>1. Setup!Pending /\ k \in s[v2].on
    BY <1>7, <1>11 DEF Setup!Advance, Setup!Reached
  <2>2. v2 \in 1..Len(s) /\ Setup!Here = s[v2]
    BY <1>7, <2>1
  <2>3. Sure(s, k, v2, v3, {"NULL"}) /\ May(s, k, v2, v3, {"NULL"}) /\ v5 \in {"unset", "null"}
    BY <1>1, <1>7, <2>1
  <2>4. /\ Sure(s, k, v2 + 1, v3 \cup (s[v2].takes \ {"NULL"}), {"NULL"})
        /\ May(s, k, v2 + 1, v3 \cup (s[v2].takes \ {"NULL"}), {"NULL"})
    BY <1>4, <2>1, <2>2, <2>3, PastTaken
  <2>5. /\ v2' = v2 + 1 /\ v4' = v4 /\ v6' = v6
        /\ v3' = v3 \cup (s[v2].takes \ {"NULL"}) /\ v5' \in {"unset", "null"}
    BY <1>11, <2>2, <2>3 DEF Setup!Advance
  <2> HIDE DEF s, k
  <2>6. QED
    BY <1>8, <2>1, <2>4, <2>5
<1>12. CASE Setup!GoOn
  <2>1. Setup!Pending /\ s[v2].fails = "ignored"
    BY <1>7, <1>12 DEF Setup!GoOn, Setup!Reached
  <2>2. v2 \in 1..Len(s)
    BY <1>7, <2>1
  <2>3. Sure(s, k, v2, v3, {"NULL"}) /\ May(s, k, v2, v3, {"NULL"}) /\ v5 \in {"unset", "null"}
    BY <1>1, <1>7, <2>1
  <2>4. Sure(s, k, v2 + 1, v3, {"NULL"}) /\ May(s, k, v2 + 1, v3, {"NULL"})
    BY <1>4, <2>1, <2>2, <2>3, PastNothing
  <2>5. /\ v2' = v2 + 1 /\ v4' = v4 /\ v6' = v6 /\ v3' = v3 /\ v5' = v5
    BY <1>12 DEF Setup!GoOn
  <2> HIDE DEF s, k
  <2>6. QED
    BY <1>8, <2>1, <2>3, <2>4, <2>5
<1>13. CASE Setup!EndHere
  <2>1. /\ Setup!Pending /\ k \in s[v2].on /\ s[v2].fails \in {"refuse", "crash"}
        /\ v2' = v2 /\ v3' = v3 /\ v4' = v4
        /\ s[v2].fails = "refuse" => v6' = "error" /\ v5' = Setup!OutAfter
        /\ s[v2].fails = "crash" => v6' = "crash" /\ v5' = v5
    <3>1. Setup!Pending /\ k \in Setup!Here.on /\ Setup!Here = s[v2]
      BY <1>7, <1>13 DEF Setup!EndHere, Setup!Reached
    <3>2. QED
      BY <1>13, <3>1 DEF Setup!EndHere
  <2>2. v2 \in 1..Len(s)
    BY <1>7, <2>1
  <2>3. v4 = {} /\ v5 \in {"unset", "null"} /\ May(s, k, v2, v3, {"NULL"})
    BY <1>1, <1>7, <2>1
  <2>4. s[v2].fails = "refuse" => v3 = {}
    BY <1>3, <2>2, <2>3, OpensHeld DEF TableRight
  <2>5. s[v2].fails = "crash" => v1.backend = "opensl" /\ k \in Setup!Records
    <3> HIDE DEF s, k
    <3>1. QED
      BY <1>3, <2>1, <2>2 DEF TableRight
  <2>6. v5' \in {"unset", "null"}
    <3>1. v3 = {} => Setup!OutAfter \in {"unset", "null"}
      BY <2>3 DEF Setup!OutAfter
    <3> HIDE DEF s, k
    <3>2. QED
      BY <2>1, <2>3, <2>4, <3>1
  <2>7. /\ v6' \in {"error", "crash"} /\ (v6' = "error" => v3' = {})
        /\ v6' = "crash" => v1'.backend = "opensl" /\ v1'.kind \in Setup!Records
    <3> HIDE DEF s
    <3>1. QED
      BY <1>5, <2>1, <2>4, <2>5
  <2>8. Setup!RolledBack'
    BY <2>1, <2>3, <2>7 DEF Setup!RolledBack
  <2>9. Setup!ResultIsTrue'
    BY <2>6, <2>7 DEF Setup!ResultIsTrue
  <2>10. QED
    BY <1>9, <2>1, <2>6, <2>7, <2>8, <2>9
<1>14. CASE Setup!Undo
  <2>1. /\ Setup!Pending /\ k \in s[v2].on /\ s[v2].fails \in {"undo", "quiet"}
        /\ v6' = IF s[v2].fails = "undo" THEN "error" ELSE "ok"
        /\ v2' = v2 /\ v5' = Setup!OutAfter
        /\ v3' = v3 \ Setup!Undone(v1.backend) /\ v4' = Setup!Undone(v1.backend) \ v3
    <3>1. Setup!Pending /\ k \in Setup!Here.on /\ Setup!Here = s[v2]
      BY <1>7, <1>14 DEF Setup!Undo, Setup!Reached
    <3>2. QED
      BY <1>14, <3>1 DEF Setup!Undo
  <2>2. v2 \in 1..Len(s)
    BY <1>7, <2>1
  <2>3. /\ v5 \in {"unset", "null"}
        /\ Sure(s, k, v2, v3, {"NULL"}) /\ May(s, k, v2, v3, {"NULL"})
    BY <1>1, <1>7, <2>1
  <2>4. Stands(k, v2, {"NULL"})
    BY <2>1, <2>2, <2>3 DEF Stands, Ends
  <2>5. GivesBack(v2)
    BY <1>1, <1>4, <2>4, EveryGivesBack
  <2>6. v4' \subseteq StraysOf(v1.backend) /\ v3' \subseteq LeaksOf(v1.backend, "error")
    BY <2>1, <2>2, <2>5 DEF GivesBack
  <2>7. v6' = "error" \/ (v6' = "ok" /\ v1.backend \in {"oss", "sun"})
    <3> HIDE DEF s, k
    <3>1. QED
      BY <1>3, <2>1, <2>2 DEF TableRight
  <2>8. Setup!RolledBack'
    <3>1. v6' = "error" => Setup!Leaks' = LeaksOf(v1.backend, "error")
      BY <1>5 DEF Setup!Leaks, LeaksOf
    <3>2. Setup!Strays' = StraysOf(v1.backend)
      BY <1>5 DEF Setup!Strays, StraysOf
    <3>3. QED
      BY <2>6, <2>7, <3>1, <3>2 DEF Setup!RolledBack
  <2>9. v6' = "ok" => v1.backend \in {"oss", "sun"} /\ v3' = {}
    <3>1. v1.backend \in {"oss", "sun"} => LeaksOf(v1.backend, "error") = {}
      BY DEF LeaksOf
    <3>2. QED
      BY <2>6, <2>7, <3>1
  <2>10. v5' \in {"unset", "null", "dangling"}
    BY <2>1, <2>3 DEF Setup!OutAfter
  <2>11. v5' = "dangling" => v1.backend = "alsa" /\ k = "duplex"
    <3>1. v5' = "dangling" => v1.backend = "alsa" /\ "in_slot" \in v3
      BY <2>1, <2>3 DEF Setup!OutAfter
    <3>2. ASSUME v1.backend = "alsa", "in_slot" \in v3
          PROVE  k = "duplex"
      <4>1. s = Setup!AlsaStages
        BY <3>2 DEF Setup!Stages
      <4> HIDE DEF s, k
      <4>2. QED
        BY <1>1, <2>1, <2>2, <2>3, <3>2, <4>1, SlotOfDuplex
    <3>3. QED
      BY <3>1, <3>2
  <2>12. Setup!ResultIsTrue'
    BY <1>5, <2>7, <2>9, <2>11 DEF Setup!ResultIsTrue
  <2>13. QED
    BY <1>9, <2>1, <2>7, <2>8, <2>10, <2>12
<1>15. CASE Setup!Succeed
  <2>1. /\ v6 = "pending" /\ v2 > Len(s) /\ v3' = v3 \ {"builder"}
        /\ v5' = "stream" /\ v6' = "ok" /\ v2' = v2 /\ v4' = v4
    BY <1>15 DEF Setup!Succeed
  <2>2. v4 = {} /\ Sure(s, k, v2, v3, {"NULL"}) /\ May(s, k, v2, v3, {"NULL"})
    BY <1>1, <2>1
  <2>3. /\ Sure(s, k, v2, v3', {"NULL", "builder"})
        /\ May(s, k, v2, v3', {"NULL", "builder"})
    BY <2>1, <2>2, BuilderGone
  <2>4. v2' = Len(s) + 1
    <3> HIDE DEF s
    <3>1. QED
      BY <1>4, <2>1
  <2>5. Setup!TypeOK'
    <3>1. v1'.backend \in SetupBackends /\ v1'.kind \in Setup!KindsOf(v1'.backend)
      BY <1>2, <1>5
    <3>2. Setup!KindsOf(v1.backend)' = Setup!KindsOf(v1'.backend)
      BY DEF Setup!KindsOf
    <3>3. v2' \in 1..(Len(Setup!Stages(v1.backend)') + 1)
      BY <1>4, <1>6, <2>1
    <3>4. QED
      BY <2>1, <3>1, <3>2, <3>3 DEF Setup!TypeOK
  <2>6. Setup!RolledBack' /\ Setup!ResultIsTrue'
    <3>1. Setup!RolledBack'
      BY <2>1, <2>2 DEF Setup!RolledBack
    <3>2. Setup!Wanted' = Setup!Wanted
      BY <1>5 DEF Setup!Wanted, Setup!Stages
    <3>3. Setup!Wanted \ v3' \subseteq Setup!Spared
      <4>1. v2 = Len(Setup!Stages(v1.backend)) + 1
        BY <2>1, <2>4
      <4>2. Sure(Setup!Stages(v1.backend), v1.kind, v2, v3', {"NULL", "builder"})
        BY <2>3
      <4> HIDE DEF s, k
      <4>3. QED
        BY <1>3, <4>1, <4>2, WantedHeld, Zenon DEF s, k
    <3>4. QED
      BY <2>1, <3>1, <3>2, <3>3 DEF Setup!ResultIsTrue, Setup!Spared
  <2>7. v1'.backend \in Known /\ k' \in Setup!Every
    BY <1>1, <1>5, <1>6
  <2>8. /\ Sure(s, k, v2, v3, {"NULL", "builder"})'
        /\ May(s, k, v2, v3, {"NULL", "builder"})'
    BY <1>6, <2>1, <2>3 DEF Sure, May
  <2>9. v6' # "pending" /\ v4' = {} /\ v2' = Len(s') + 1
    BY <1>6, <2>1, <2>2, <2>4
  <2> HIDE DEF s, k
  <2>10. QED
    BY <2>1, <2>5, <2>6, <2>7, <2>8, <2>9 DEF SetupInv, s, k
<1>16. CASE Setup!Destroy
  <2>1. /\ v5 = "stream" /\ v6' = "destroyed" /\ v5' = "dangling" /\ v2' = v2
        /\ v3' = v3 \ Setup!Freed(v1.backend) /\ v4' = Setup!Freed(v1.backend) \ v3
    BY <1>16 DEF Setup!Destroy
  <2>2. v2 = Len(s) + 1 /\ Stands(k, v2, {"NULL", "builder"})
    BY <1>1, <2>1 DEF Stands, Ends
  <2>3. GivesBack(v2)
    BY <1>1, <1>4, <2>2, EveryGivesBack
  <2>4. /\ v4' \subseteq StraysOf(v1.backend)
        /\ v3' \subseteq LeaksOf(v1.backend, "destroyed")
    <3> HIDE DEF s, k
    <3>1. v2 = Len(Setup!Stages(v1.backend)) + 1
      BY <2>2 DEF s
    <3>2. QED
      BY ONLY <2>1, <2>3, <3>1 DEF GivesBack
  <2>5. Setup!Leaks' = LeaksOf(v1.backend, "destroyed") /\ Setup!Strays' = StraysOf(v1.backend)
    BY <1>5, <2>1 DEF Setup!Leaks, LeaksOf, Setup!Strays, StraysOf
  <2>6. Setup!RolledBack' /\ Setup!ResultIsTrue'
    BY <2>1, <2>4, <2>5 DEF Setup!RolledBack, Setup!ResultIsTrue
  <2>7. QED
    BY <1>9, <2>1, <2>6
<1>17. CASE Setup!WaitForEver
  <2>1. /\ v2' = v2 /\ v3' = v3 /\ v4' = v4 /\ v5' = v5 /\ v6' = "hang"
        /\ v1.backend = "winmm" /\ "waveout" \in v3 /\ "queued" \notin v3
    BY <1>17 DEF Setup!WaitForEver, Setup!WinmmWaits
  <2>2. \/ v6 = "pending" /\ v5 \in {"unset", "null"}
        \/ v6 = "ok" /\ v5 = "stream"
    BY <1>1, <1>17 DEF Setup!WaitForEver, Setup!Reached, Setup!Pending
  <2>3. Setup!RolledBack'
    BY <1>1, <2>1, <2>2, <1>5 DEF Setup!RolledBack, Setup!Strays
  <2>4. Setup!ResultIsTrue'
    BY <1>5, <2>1 DEF Setup!ResultIsTrue
  <2>5. CASE v5 \in {"unset", "null"}
    BY <1>9, <2>1, <2>3, <2>4, <2>5
  <2>6. CASE v5 = "stream"
    <3>1. v4 = {} /\ v2 = Len(s) + 1
          /\ Sure(s, k, v2, v3, {"NULL", "builder"}) /\ May(s, k, v2, v3, {"NULL", "builder"})
      BY <1>1, <2>6
    <3>2. Setup!TypeOK'
      <4>1. v1'.backend \in SetupBackends /\ v1'.kind \in Setup!KindsOf(v1'.backend)
        BY <1>2, <1>5
      <4>2. Setup!KindsOf(v1.backend)' = Setup!KindsOf(v1'.backend)
        BY DEF Setup!KindsOf
      <4>3. v2' \in 1..(Len(Setup!Stages(v1.backend)') + 1)
        BY <1>4, <1>6, <2>1
      <4>4. QED
        BY <2>1, <2>6, <4>1, <4>2, <4>3 DEF Setup!TypeOK
    <3>3. v1'.backend \in Known /\ k' \in Setup!Every
      BY <1>1, <1>5, <1>6
    <3>4. /\ Sure(s, k, v2, v3, {"NULL", "builder"})'
          /\ May(s, k, v2, v3, {"NULL", "builder"})'
      BY <1>6, <2>1, <3>1 DEF Sure, May
    <3>5. v6' = "hang" /\ v4' = {} /\ v2' = Len(s') + 1
      BY <1>6, <2>1, <3>1
    <3> HIDE DEF s, k
    <3>6. QED
      BY <2>1, <2>3, <2>4, <2>6, <3>2, <3>3, <3>4, <3>5 DEF SetupInv, s, k
  <2>7. QED
    BY <2>2, <2>5, <2>6
<1>18. QED
  BY <1>10, <1>11, <1>12, <1>13, <1>14, <1>15, <1>16, <1>17 DEF Setup!Next

LEMMA SetupStutter == ASSUME SetupInv, UNCHANGED <<v1, v2, v3, v4, v5, v6>> PROVE SetupInv'
<1>1. /\ v1' = v1 /\ v2' = v2 /\ v3' = v3 /\ v4' = v4 /\ v5' = v5
      /\ v6' = v6
  OBVIOUS
<1>2. /\ Setup!Stages(v1.backend)' = Setup!Stages(v1.backend)
      /\ Setup!KindsOf(v1.backend)' = Setup!KindsOf(v1.backend)
  BY <1>1 DEF Setup!Stages, Setup!KindsOf
<1>3. QED
  BY <1>1, <1>2 DEF SetupInv, Setup!TypeOK, Setup!RolledBack, Setup!Leaks, Setup!Strays,
     Setup!ResultIsTrue, Setup!Wanted, Sure, May

----------------------------------------------------------------------------
(* The same side by side with the others, and the types of all.             *)

LEMMA SetupPartStays ==
  ASSUME [Next]_vars
  PROVE  /\ part' = part
         /\ part = "setup" => Setup!Next \/ UNCHANGED <<v1, v2, v3, v4, v5, v6>>
<1>1. CASE OwnNext
  BY <1>1 DEF OwnNext, Shared
<1>2. CASE SharedNext
  BY <1>2 DEF SharedNext
<1>3. CASE UNCHANGED vars
  BY <1>3 DEF vars
<1>4. QED
  BY <1>1, <1>2, <1>3 DEF Next

\* Whatever stages fail, in each of the thirteen backends and for every kind of
\* stream: cubeb_stream_init gives back what it took and nothing else, so does
\* cubeb_stream_destroy, and CUBEB_OK means a stream, an error none, with the
\* exceptions that Leaks, Strays, Spared and ResultIsTrue name (cubeb_stream_init of
\* every backend).
THEOREM SetupAlwaysRight ==
  Spec => [](part = "setup" => Setup!TypeOK /\ Setup!RolledBack /\ Setup!ResultIsTrue)
<1> DEFINE I == part = "setup" => SetupInv
<1>1. Init => I
  BY SetupInit, ComponentsAssumption DEF Init, ComponentsAssumption
<1>2. I /\ [Next]_vars => I'
  BY SetupPartStays, SetupStep, SetupStutter
<1>3. I => (part = "setup" => Setup!TypeOK /\ Setup!RolledBack /\ Setup!ResultIsTrue)
  BY DEF SetupInv
<1>4. QED
  BY <1>1, <1>2, <1>3, PTL DEF Spec

\* What cubeb_stream_init took is given back, under the name the run checks.
THEOREM SetupRolledBack == Spec => []RolledBack
<1>1. (part = "setup" => Setup!TypeOK /\ Setup!RolledBack /\ Setup!ResultIsTrue) => RolledBack
  BY DEF RolledBack
<1>2. QED
  BY <1>1, SetupAlwaysRight, PTL

\* What cubeb_stream_init returns is true.
THEOREM SetupTellsTruth == Spec => []ResultIsTrue
<1>1. (part = "setup" => Setup!TypeOK /\ Setup!RolledBack /\ Setup!ResultIsTrue) => ResultIsTrue
  BY DEF ResultIsTrue
<1>2. QED
  BY <1>1, SetupAlwaysRight, PTL

LEMMA FrontTyped == ASSUME ComponentsAssumption, FrontGood PROVE Front!TypeOK
<1>1. FrontPlaces /\ FrontNumbers /\ Front!IInv
  BY FrontInvariant DEF FrontGood
<1>2. v4 \in Seq(Front!Frames)
  BY <1>1 DEF Front!IInv
<1>3. v2 \in Front!Resamplers \cup Front!DelayLines /\ v3 \in Front!Resamplers \cup Front!DelayLines
  BY <1>1 DEF FrontPlaces
<1>4. \A p \in Front!Resamplers \cup Front!DelayLines : p.left \in Nat
  BY DEF Front!Resamplers, Front!DelayLines, Front!DelayLine
<1>5. QED
  BY <1>1, <1>2, <1>3, <1>4 DEF FrontPlaces, FrontNumbers, Front!TypeOK

\* Every variable keeps to its values: the indices of the audio ring for both
\* builds of it, the numbers of the resamplers under the hypotheses of
\* ResamplesRight.
THEOREM TypeCorrectness ==
  ASSUME ~Starved, Front!KeepsEnough PROVE Spec => []TypeOK
<1> DEFINE F == part = "frames" => Ring!IndexInv
           S == part = "speex" => Speex!IInv
           R == part = "front" => FrontGood
           P == part \in Parts
<1>1. Init => F /\ S /\ R /\ P
  <2>1. Init => F
    <3> SUFFICES ASSUME Frames!Samples!Init PROVE Ring!IndexInv
      BY DEF Init
    <3>1. RelaxedStore \in BOOLEAN
      BY ComponentsAssumption DEF ComponentsAssumption, Frames!AudioAssumption
    <3>2. QED
      BY <3>1, SameBuffer, RingAssumptions, ComponentsAssumption, Ring!IndexInit
  <2>2. Init => S /\ R
    BY SpeexInit, FrontInit, ComponentsAssumption DEF Init
  <2>3. Init => P
    BY DEF Init, Parts
  <2>4. QED
    BY <2>1, <2>2, <2>3
<1>2. F /\ S /\ R /\ P /\ [Next]_vars => F' /\ S' /\ R' /\ P'
  <2> SUFFICES ASSUME F, S, R, P, [Next]_vars PROVE F' /\ S' /\ R' /\ P'
    OBVIOUS
  <2>1. F'
    <3> SUFFICES ASSUME part' = "frames" PROVE Ring!IndexInv'
      OBVIOUS
    <3>1. part = "frames" /\ (Frames!Samples!Next \/ UNCHANGED Shared)
      BY FramePartsStay
    <3>2. Ring!IndexInv /\ [Ring!Next]_(Ring!vars)
      BY <3>1, SameBuffer DEF Shared, Ring!vars
    <3>3. RelaxedStore \in BOOLEAN
      BY ComponentsAssumption DEF ComponentsAssumption, Frames!AudioAssumption
    <3>4. QED
      BY <3>2, <3>3, RingAssumptions, ComponentsAssumption, Ring!IndexStep
  <2>2. S'
    BY PartStays, SpeexStep, SpeexStutter, ComponentsAssumption
  <2>3. R'
    BY PartStays, FrontStep, FrontStutter, ComponentsAssumption
  <2>4. P'
    BY SetupPartStays
  <2>5. QED
    BY <2>1, <2>2, <2>3, <2>4
<1>3. ListTypeOK /\ F /\ S /\ R /\ P
      /\ (part = "pcm" => Pcm!TypeOK /\ Pcm!PcmIsRight)
      /\ (part = "setup" => Setup!TypeOK /\ Setup!RolledBack /\ Setup!ResultIsTrue)
      => TypeOK
  <2>1. F => (part = "frames" => Frames!Samples!TypeOK)
    BY SameBuffer DEF Ring!IndexInv
  <2>2. S => (part = "speex" => Speex!TypeOK)
    BY DEF Speex!IInv
  <2>3. R => (part = "front" => Front!TypeOK)
    BY FrontTyped, ComponentsAssumption
  <2>4. QED
    BY <2>1, <2>2, <2>3 DEF TypeOK
<1>4. QED
  BY <1>1, <1>2, <1>3, ListTypeCorrect, PcmAlwaysRight, SetupAlwaysRight, PTL DEF Spec
=============================================================================
