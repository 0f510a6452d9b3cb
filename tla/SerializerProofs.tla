-------------------------- MODULE SerializerProofs --------------------------
(***************************************************************************)
(* For every schema, every message and every set of versions: the reader   *)
(* stays in step with the writer, and the message arrives.                 *)
(*                                                                         *)
(* InStep compares memPtr with the history variable end, so the inductive  *)
(* invariant has to say what end means: the cells between two entries of   *)
(* end are the encoding of one field, whose width the reader can tell from *)
(* the version of the data and from its first cell alone.  MessageArrives  *)
(* needs what the pieces hold, too: ContentInv, in the second half.        *)
(***************************************************************************)
EXTENDS Serializer, TLAPS

\* Where the piece of statement k starts, given the history of the ends.
Start(ends, k) == IF k = 1 THEN 0 ELSE ends[k - 1]

\* What both sides must agree on: is the field part of data of version v?
OnWire(f, v) == v >= f.added /\ (f.kind = "check" \/ v < f.removed)

Segment(cells, ends, f, v, k) ==
  /\ Start(ends, k) <= ends[k] /\ ends[k] <= Len(cells)
  /\ ~OnWire(f, v) => ends[k] = Start(ends, k)
  /\ OnWire(f, v) /\ f.kind \in {"pod", "check"} => ends[k] = Start(ends, k) + 1
  /\ OnWire(f, v) /\ f.kind \in {"string", "holder"} =>
       /\ Start(ends, k) < Len(cells)
       /\ cells[Start(ends, k) + 1] \in Nat
       /\ ends[k] = Start(ends, k) + 1 + cells[Start(ends, k) + 1]

\* Cells that are the encoding of some value of field f, or nothing if the
\* field is no part of data of version v.
Piece(cells, f, v) ==
  /\ ~OnWire(f, v) => Len(cells) = 0
  /\ OnWire(f, v) /\ f.kind \in {"pod", "check"} => Len(cells) = 1
  /\ OnWire(f, v) /\ f.kind \in {"string", "holder"} =>
       /\ Len(cells) > 0 /\ cells[1] \in Nat /\ Len(cells) = 1 + cells[1]

\* The first n statements have left well-formed pieces.
Segments(n) == \A k \in 1..n : Segment(wire, end, schema[k], dataVersion, k)

\* Plain values are one cell, in the writer's and in the reader's object.
MessageValues(object) ==
  /\ object \in [1..Len(schema) -> Seq(Int)]
  /\ \A k \in 1..Len(schema) : schema[k].kind = "pod" => Len(object[k]) = 1

MessageTypeOK ==
  /\ schema \in Seq(Fields)
  /\ writer \in Nat /\ reader \in Nat /\ dataVersion \in Nat
  /\ Agreed(writer, reader, dataVersion)
  /\ phase \in {"write", "read"}
  /\ next \in 1..(Len(schema) + 1)
  /\ integrityCounter \in Nat
  /\ wire \in Seq(Int)
  /\ memPtr \in Nat
  /\ MessageValues(sent) /\ MessageValues(received)
  /\ end \in [1..Len(schema) -> Nat]

IInv ==
  /\ MessageTypeOK
  /\ phase = "write" => Len(wire) = Start(end, next) /\ Segments(next - 1)
  /\ phase = "read"  => memPtr = Start(end, next) /\ Segments(Len(schema))
----------------------------------------------------------------------------
LEMMA FieldType ==
  ASSUME MessageTypeOK, next <= Len(schema)
  PROVE  /\ next \in 1..Len(schema)
         /\ field \in Fields /\ field = schema[next]
         /\ Default \in Seq(Int)
         /\ field.kind = "pod" => Len(Default) = 1
<1>1. next \in 1..Len(schema) /\ Len(schema) \in Nat
  BY DEF MessageTypeOK
<1>2. field \in Fields /\ field = schema[next]
  BY <1>1 DEF MessageTypeOK, field
<1>3. field.kind \in {"pod", "string", "holder", "check"}
  BY <1>2 DEF Fields
<1>4. CASE field.kind = "pod"
  BY <1>1, <1>2, <1>4 DEF Default
<1>5. CASE field.kind # "pod"
  <2>1. Default = <<>>
    BY <1>3, <1>5 DEF Default
  <2>2. QED
    BY <1>1, <1>2, <1>5, <2>1
<1>6. QED
  BY <1>4, <1>5

\* What the writer appends for one value is as wide as the reader will find it.
LEMMA EncodedWidth ==
  ASSUME NEW value \in Seq(Int), field.kind = "pod" => Len(value) = 1
  PROVE  /\ Encoded(value) \in Seq(Int)
         /\ field.kind = "pod" => Len(Encoded(value)) = 1
         /\ field.kind # "pod" => /\ Len(Encoded(value)) = 1 + Len(value)
                                  /\ Encoded(value)[1] = Len(value)
                                  /\ Len(value) \in Nat
  BY DEF Encoded

LEMMA Concatenated ==
  ASSUME NEW before \in Seq(Int), NEW cells \in Seq(Int)
  PROVE  /\ Len(before) \in Nat /\ Len(cells) \in Nat
         /\ before \o cells \in Seq(Int)
         /\ Len(before \o cells) = Len(before) + Len(cells)
         /\ \A i \in 1..Len(before) : (before \o cells)[i] = before[i]
         /\ Len(cells) > 0 => (before \o cells)[Len(before) + 1] = cells[1]
  OBVIOUS

\* Appending to the wire leaves the pieces before it as they were, and adds one.
LEMMA AppendedSegment ==
  ASSUME NEW before \in Seq(Int), NEW cells \in Seq(Int),
         NEW n \in Nat, NEW ends \in [1..n -> Nat], NEW k \in 1..n,
         NEW f \in Fields, NEW v \in Nat,
         Len(before) = Start(ends, k),
         Piece(cells, f, v),
         NEW after, after = [ends EXCEPT ![k] = Len(before) + Len(cells)]
  PROVE  /\ after \in [1..n -> Nat]
         /\ Segment(before \o cells, after, f, v, k)
         /\ Start(after, k + 1) = Len(before \o cells)
<1> DEFINE w == before \o cells
<1>1. /\ Len(before) \in Nat /\ Len(cells) \in Nat
      /\ w \in Seq(Int) /\ Len(w) = Len(before) + Len(cells)
      /\ Len(cells) > 0 => w[Len(before) + 1] = cells[1]
  BY Concatenated
<1>2. Start(ends, k) = Len(before)
  OBVIOUS
<1>3. after \in [1..n -> Nat] /\ after[k] = Len(before) + Len(cells)
  BY <1>1, SMTT(40)
<1>4. Start(after, k) = Start(ends, k) /\ Start(ends, k) \in Nat
  BY <1>1 DEF Start
<1>5. Start(after, k + 1) = Len(w)
  BY <1>1, <1>3 DEF Start
<1> HIDE DEF w
<1>6. Segment(w, after, f, v, k)
  <2>1. Start(after, k) <= after[k] /\ after[k] <= Len(w)
    BY <1>1, <1>2, <1>3, <1>4
  <2>2. ~OnWire(f, v) => after[k] = Start(after, k)
    BY <1>1, <1>2, <1>3, <1>4 DEF Piece
  <2>3. OnWire(f, v) /\ f.kind \in {"pod", "check"} => after[k] = Start(after, k) + 1
    BY <1>1, <1>2, <1>3, <1>4 DEF Piece
  <2>4. ASSUME OnWire(f, v), f.kind \in {"string", "holder"}
        PROVE  /\ Start(after, k) < Len(w)
               /\ w[Start(after, k) + 1] \in Nat
               /\ after[k] = Start(after, k) + 1 + w[Start(after, k) + 1]
    <3>1. Len(cells) > 0 /\ cells[1] \in Nat /\ Len(cells) = 1 + cells[1]
      BY <2>4 DEF Piece
    <3>2. w[Start(after, k) + 1] = cells[1]
      BY <1>1, <1>2, <1>4, <3>1
    <3>3. Start(after, k) = Len(before) /\ after[k] = Len(before) + 1 + cells[1]
      BY <1>1, <1>2, <1>3, <1>4, <3>1, SMTT(40)
    <3>4. Start(after, k) < Len(w)
      BY <1>1, <3>1, <3>3
    <3>5. QED
      BY <3>1, <3>2, <3>3, <3>4
  <2>5. QED
    BY <2>1, <2>2, <2>3, <2>4 DEF Segment
<1>7. QED
  BY <1>3, <1>5, <1>6 DEF w

LEMMA KeptSegment ==
  ASSUME NEW before \in Seq(Int), NEW cells \in Seq(Int),
         NEW n \in Nat, NEW ends \in [1..n -> Nat], NEW k \in 1..n, NEW j \in 1..(k - 1),
         NEW f \in Fields, NEW v \in Nat, NEW e \in Nat,
         Segment(before, ends, f, v, j)
  PROVE  Segment(before \o cells, [ends EXCEPT ![k] = e], f, v, j)
<1> DEFINE after == [ends EXCEPT ![k] = e]
           w == before \o cells
<1>1. /\ Len(before) \in Nat /\ Len(cells) \in Nat
      /\ Len(w) = Len(before) + Len(cells)
      /\ \A i \in 1..Len(before) : w[i] = before[i]
  OBVIOUS
<1>2. j \in 1..n /\ after[j] = ends[j] /\ ends[j] \in Nat
  OBVIOUS
<1>3. Start(after, j) = Start(ends, j) /\ Start(ends, j) \in Nat
  BY DEF Start
<1>4. Start(ends, j) < Len(before) => w[Start(ends, j) + 1] = before[Start(ends, j) + 1]
  BY <1>1, <1>3, SMTT(40)
<1> HIDE DEF after, w
<1>5. Segment(w, after, f, v, j)
  BY <1>1, <1>2, <1>3, <1>4, SMTT(40) DEF Segment
<1>6. QED
  BY <1>5 DEF after, w

\* A statement of the writer that appends a well-formed piece keeps IInv.
LEMMA PutKeeps ==
  ASSUME IInv, phase = "write", next <= Len(schema),
         NEW cells \in Seq(Int), Put(cells),
         integrityCounter' \in Nat, MessageValues(sent'),
         Piece(cells, field, dataVersion)
  PROVE  IInv'
<1>1. MessageTypeOK /\ Len(wire) = Start(end, next) /\ Segments(next - 1)
  BY DEF IInv
<1>2. /\ next \in 1..Len(schema) /\ next \in Nat /\ Len(schema) \in Nat
      /\ field = schema[next] /\ field \in Fields /\ dataVersion \in Nat
      /\ wire \in Seq(Int) /\ end \in [1..Len(schema) -> Nat]
      /\ \A k \in 1..Len(schema) : schema[k] \in Fields
  BY <1>1, FieldType DEF MessageTypeOK
<1>3. /\ wire' = wire \o cells
      /\ end' = [end EXCEPT ![next] = Len(wire) + Len(cells)]
      /\ next' = next + 1
      /\ schema' = schema /\ writer' = writer /\ reader' = reader
      /\ dataVersion' = dataVersion /\ phase' = phase
      /\ memPtr' = memPtr /\ received' = received
  BY DEF Put
<1>4. /\ end' \in [1..Len(schema) -> Nat]
      /\ Segment(wire', end', schema[next], dataVersion, next)
      /\ Start(end', next + 1) = Len(wire')
  <2> DEFINE e == [end EXCEPT ![next] = Len(wire) + Len(cells)]
  <2>1. /\ e \in [1..Len(schema) -> Nat]
        /\ Segment(wire \o cells, e, field, dataVersion, next)
        /\ Start(e, next + 1) = Len(wire \o cells)
    <3>1. Len(wire) = Start(end, next)
      BY <1>1
    <3>2. e = [end EXCEPT ![next] = Len(wire) + Len(cells)]
      OBVIOUS
    <3> HIDE DEF e
    <3>3. Segment(wire \o cells, e, field, dataVersion, next)
      BY <1>2, <3>1, <3>2, AppendedSegment
    <3>4. e \in [1..Len(schema) -> Nat]
      BY <1>2, <3>2
    <3>5. Start(e, next + 1) = Len(wire \o cells)
      BY <1>2, <3>2, Concatenated DEF Start
    <3>6. QED
      BY <3>3, <3>4, <3>5
  <2>2. QED
    BY <1>2, <1>3, <2>1
<1>5. \A k \in 1..(next - 1) : Segment(wire', end', schema[k], dataVersion, k)
  <2> TAKE k \in 1..(next - 1)
  <2>1. Segment(wire, end, schema[k], dataVersion, k) /\ schema[k] \in Fields
    BY <1>1, <1>2 DEF Segments
  <2>2. Len(wire) + Len(cells) \in Nat
    BY <1>2
  <2>3. QED
    BY <1>2, <1>3, <2>1, <2>2, KeptSegment
<1>6. MessageTypeOK'
  <2>1. wire' \in Seq(Int)
    BY <1>2, <1>3
  <2>2. next' \in 1..(Len(schema') + 1)
    BY <1>2, <1>3
  <2>3. QED
    BY <1>1, <1>3, <1>4, <2>1, <2>2 DEF MessageTypeOK, Agreed, MessageValues
<1>7. Segments(next - 1)'
  <2>1. \A k \in 1..(next' - 1) : k \in 1..(next - 1) \/ k = next
    BY <1>2, <1>3
  <2>2. QED
    BY <1>3, <1>4, <1>5, <2>1 DEF Segments
<1>8. Len(wire') = Start(end', next')
  BY <1>3, <1>4
<1>9. phase' = "write"
  BY <1>3
<1>10. QED
  BY <1>6, <1>7, <1>8, <1>9 DEF IInv
----------------------------------------------------------------------------
(* The steps of the writer. *)

\* A statement of the writer that writes the encoding of a value of its field,
\* exactly if the field is part of the data.
LEMMA EncodedIsPiece ==
  ASSUME MessageTypeOK, next <= Len(schema), field.kind # "check",
         NEW value \in Seq(Int), field.kind = "pod" => Len(value) = 1,
         OnWire(field, dataVersion)
  PROVE  Encoded(value) \in Seq(Int) /\ Piece(Encoded(value), field, dataVersion)
<1>1. field.kind \in {"pod", "string", "holder", "check"}
  BY FieldType DEF Fields
<1>2. /\ Encoded(value) \in Seq(Int)
      /\ field.kind = "pod" => Len(Encoded(value)) = 1
      /\ field.kind # "pod" => /\ Len(Encoded(value)) = 1 + Len(value)
                               /\ Encoded(value)[1] = Len(value)
                               /\ Len(value) \in Nat
  BY EncodedWidth
<1> DEFINE cells == Encoded(value)
<1> HIDE DEF cells
<1>3. CASE field.kind = "pod"
  <2>1. Len(cells) = 1
    BY <1>2, <1>3 DEF cells
  <2>2. Piece(cells, field, dataVersion)
    BY <1>3, <2>1 DEF Piece
  <2>3. QED
    BY <1>2, <2>2 DEF cells
<1>4. CASE field.kind # "pod"
  <2>1. Len(cells) = 1 + Len(value) /\ cells[1] = Len(value) /\ Len(value) \in Nat
    BY <1>2, <1>4 DEF cells
  <2>2. Len(cells) > 0 /\ cells[1] \in Nat /\ Len(cells) = 1 + cells[1]
    BY <2>1
  <2>3. Piece(cells, field, dataVersion)
    BY <1>4, <2>2 DEF Piece
  <2>4. QED
    BY <1>2, <2>3 DEF cells
<1>5. QED
  BY <1>3, <1>4

LEMMA NothingIsPiece ==
  ASSUME NEW f, NEW v, ~OnWire(f, v)
  PROVE  <<>> \in Seq(Int) /\ Piece(<<>>, f, v)
  BY DEF Piece

LEMMA WriteAddKeeps == IInv /\ WriteAdd => IInv'
<1> SUFFICES ASSUME IInv, WriteAdd PROVE IInv'
  OBVIOUS
<1>1. /\ MessageTypeOK /\ phase = "write" /\ next <= Len(schema) /\ next \in 1..Len(schema)
      /\ field.kind # "check" /\ writer < field.removed
      /\ integrityCounter' \in Nat
      /\ field = schema[next] /\ field \in Fields
      /\ Default \in Seq(Int) /\ (field.kind = "pod" => Len(Default) = 1)
  BY FieldType DEF IInv, WriteAdd, MessageTypeOK
<1>2. /\ writer \in Nat /\ dataVersion \in Nat /\ dataVersion <= writer
      /\ field.added \in Nat /\ field.removed \in Nat
      /\ MessageValues(sent)
  BY <1>1 DEF MessageTypeOK, Agreed, Fields
<1>3. CASE dataVersion >= field.added
  <2>1. Put(Encoded(sent[next])) /\ sent' = sent
    BY <1>3 DEF WriteAdd
  <2>2. OnWire(field, dataVersion)
    BY <1>1, <1>2, <1>3 DEF OnWire
  <2>3. sent[next] \in Seq(Int) /\ (field.kind = "pod" => Len(sent[next]) = 1)
    BY <1>1, <1>2 DEF MessageValues
  <2>4. /\ Encoded(sent[next]) \in Seq(Int)
        /\ Piece(Encoded(sent[next]), field, dataVersion)
    BY <1>1, <2>2, <2>3, EncodedIsPiece
  <2>5. MessageValues(sent')
    BY <1>2, <2>1 DEF MessageValues
  <2>6. QED
    BY <1>1, <2>1, <2>4, <2>5, PutKeeps
<1>4. CASE ~(dataVersion >= field.added)
  <2>1. Put(<<>>) /\ sent' = [sent EXCEPT ![next] = Default]
    BY <1>4 DEF WriteAdd
  <2>2. <<>> \in Seq(Int) /\ Piece(<<>>, field, dataVersion)
    BY <1>4, NothingIsPiece DEF OnWire
  <2>3. MessageValues(sent')
    BY <1>1, <1>2, <2>1 DEF MessageValues
  <2>4. QED
    BY <1>1, <2>1, <2>2, <2>3, PutKeeps
<1>5. QED
  BY <1>3, <1>4

LEMMA WriteRemoveKeeps == IInv /\ WriteRemove => IInv'
<1> SUFFICES ASSUME IInv, WriteRemove PROVE IInv'
  OBVIOUS
<1>1. /\ MessageTypeOK /\ phase = "write" /\ next <= Len(schema)
      /\ field.kind # "check" /\ integrityCounter' \in Nat
      /\ Default \in Seq(Int) /\ (field.kind = "pod" => Len(Default) = 1)
      /\ MessageValues(sent) /\ sent' = sent
  BY FieldType DEF IInv, WriteRemove, MessageTypeOK
<1>2. MessageValues(sent')
  BY <1>1 DEF MessageValues
<1>3. CASE dataVersion >= field.added /\ dataVersion < field.removed
  <2>1. Put(Encoded(Default))
    BY <1>3 DEF WriteRemove
  <2>2. Encoded(Default) \in Seq(Int) /\ Piece(Encoded(Default), field, dataVersion)
    BY <1>1, <1>3, EncodedIsPiece DEF OnWire
  <2>3. QED
    BY <1>1, <1>2, <2>1, <2>2, PutKeeps
<1>4. CASE ~(dataVersion >= field.added /\ dataVersion < field.removed)
  <2>1. Put(<<>>)
    BY <1>4 DEF WriteRemove
  <2>2. <<>> \in Seq(Int) /\ Piece(<<>>, field, dataVersion)
    BY <1>1, <1>4, NothingIsPiece DEF OnWire
  <2>3. QED
    BY <1>1, <1>2, <2>1, <2>2, PutKeeps
<1>5. QED
  BY <1>3, <1>4

LEMMA WriteCheckKeeps == IInv /\ WriteCheckIntegrity => IInv'
<1> SUFFICES ASSUME IInv, WriteCheckIntegrity PROVE IInv'
  OBVIOUS
<1>1. /\ MessageTypeOK /\ phase = "write" /\ next <= Len(schema)
      /\ field.kind = "check" /\ integrityCounter \in Nat
      /\ MessageValues(sent) /\ sent' = sent
  BY DEF IInv, WriteCheckIntegrity, MessageTypeOK
<1>2. MessageValues(sent')
  BY <1>1 DEF MessageValues
<1>3. CASE dataVersion >= field.added
  <2>1. Put(<<integrityCounter>>) /\ integrityCounter' \in Nat
    BY <1>1, <1>3 DEF WriteCheckIntegrity
  <2>2. <<integrityCounter>> \in Seq(Int) /\ Piece(<<integrityCounter>>, field, dataVersion)
    BY <1>1, <1>3 DEF Piece, OnWire
  <2>3. QED
    BY <1>1, <1>2, <2>1, <2>2, PutKeeps
<1>4. CASE ~(dataVersion >= field.added)
  <2>1. Put(<<>>) /\ integrityCounter' \in Nat
    BY <1>1, <1>4 DEF WriteCheckIntegrity
  <2>2. <<>> \in Seq(Int) /\ Piece(<<>>, field, dataVersion)
    BY <1>4, NothingIsPiece DEF OnWire
  <2>3. QED
    BY <1>1, <1>2, <2>1, <2>2, PutKeeps
<1>5. QED
  BY <1>3, <1>4
----------------------------------------------------------------------------
(* The steps of the reader. *)

\* The cells of memory from the reader's position are those of the wire.
LEMMA CellsAreSequences ==
  ASSUME MessageTypeOK
  PROVE  /\ \A k \in Nat \ {0} : Cell(k) \in Int
         /\ \A a \in Nat \ {0}, b \in Int : Cells(a, b) \in Seq(Int)
<1>1. \A k \in Nat \ {0} : Cell(k) \in Int
  <2> TAKE k \in Nat \ {0}
  <2>1. wire \in Seq(Int) /\ memPtr \in Nat
    BY DEF MessageTypeOK
  <2>2. QED
    BY <2>1 DEF Cell
<1>2. \A a \in Nat \ {0}, b \in Int : Cells(a, b) \in Seq(Int)
  <2> TAKE a \in Nat \ {0}, b \in Int
  <2>1. \A k \in 1..(b - a + 1) : Cell(a + k - 1) \in Int
    BY <1>1
  <2> HIDE <1>1
  <2>2. CASE b - a + 1 \in Nat
    BY <2>1, <2>2 DEF Cells
  <2>3. CASE b - a + 1 \notin Nat
    <3>1. Cells(a, b) = <<>>
      BY <2>3 DEF Cells
    <3>2. QED
      BY <3>1
  <2>4. QED
    BY <2>2, <2>3
<1>3. QED
  BY <1>1, <1>2

\* A reader that stands at a well-formed piece finds its width.
LEMMA WidthOfSegment ==
  ASSUME IInv, phase = "read", next <= Len(schema)
  PROVE  /\ Start(end, next + 1) = end[next] /\ end[next] \in Nat
         /\ ~OnWire(field, dataVersion) => end[next] = memPtr
         /\ OnWire(field, dataVersion) /\ field.kind = "check" => end[next] = memPtr + 1
         /\ OnWire(field, dataVersion) /\ field.kind # "check" =>
              /\ end[next] = memPtr + Width
              /\ field.kind # "pod" => Cell(1) \in Nat
<1>1. /\ memPtr = Start(end, next) /\ next \in 1..Len(schema) /\ field = schema[next]
      /\ Segment(wire, end, field, dataVersion, next) /\ field \in Fields
      /\ end \in [1..Len(schema) -> Nat] /\ memPtr \in Nat /\ wire \in Seq(Int)
      /\ Len(schema) \in Nat
  BY FieldType DEF IInv, Segments, MessageTypeOK
<1>2. Start(end, next + 1) = end[next] /\ end[next] \in Nat
  BY <1>1 DEF Start
<1>3. ~OnWire(field, dataVersion) => end[next] = memPtr
  BY <1>1 DEF Segment
<1>4. OnWire(field, dataVersion) /\ field.kind = "check" => end[next] = memPtr + 1
  BY <1>1 DEF Segment
<1>5. ASSUME OnWire(field, dataVersion), field.kind # "check"
      PROVE  /\ end[next] = memPtr + Width
             /\ field.kind # "pod" => Cell(1) \in Nat
  <2>1. field.kind \in {"pod", "string", "holder"}
    BY <1>1, <1>5 DEF Fields
  <2>2. CASE field.kind = "pod"
    BY <1>1, <1>5, <2>2 DEF Segment, Width
  <2>3. CASE field.kind \in {"string", "holder"}
    <3>1. /\ memPtr < Len(wire) /\ wire[memPtr + 1] \in Nat
          /\ end[next] = memPtr + 1 + wire[memPtr + 1]
      BY <1>1, <1>5, <2>3 DEF Segment
    <3>2. Cell(1) = wire[memPtr + 1]
      BY <1>1, <3>1 DEF Cell
    <3>3. Width = 1 + Cell(1)
      BY <2>3 DEF Width
    <3>4. Cell(1) \in Nat
      BY <3>1, <3>2
    <3>5. end[next] = memPtr + Width
      <4>1. end[next] = memPtr + 1 + Cell(1)
        BY <3>1, <3>2
      <4> HIDE <3>1, <3>2
      <4>2. QED
        BY <1>1, <3>3, <3>4, <4>1
    <3>6. QED
      BY <3>4, <3>5
  <2>4. QED
    BY <2>1, <2>2, <2>3
<1>6. QED
  BY <1>2, <1>3, <1>4, <1>5

\* A statement of the reader that ends where the writer's did keeps IInv.
LEMMA ReadKeeps ==
  ASSUME IInv, ReadStatement, memPtr' = end[next], integrityCounter' \in Nat,
         MessageValues(received')
  PROVE  IInv'
<1>1. /\ MessageTypeOK /\ phase = "read" /\ next <= Len(schema)
      /\ next \in 1..Len(schema) /\ Len(schema) \in Nat /\ Segments(Len(schema))
  BY DEF IInv, MessageTypeOK, ReadStatement
<1>2. /\ next' = next + 1 /\ schema' = schema /\ writer' = writer /\ reader' = reader
      /\ dataVersion' = dataVersion /\ phase' = phase /\ wire' = wire
      /\ sent' = sent /\ end' = end
  BY DEF ReadStatement
<1>3. Start(end, next + 1) = end[next] /\ end[next] \in Nat
  BY <1>1, WidthOfSegment
<1>4. MessageTypeOK'
  <2>1. next' \in 1..(Len(schema') + 1)
    BY <1>1, <1>2
  <2>2. QED
    BY <1>1, <1>2, <1>3, <2>1 DEF MessageTypeOK, Agreed, MessageValues
<1>5. Segments(Len(schema))'
  BY <1>1, <1>2 DEF Segments
<1>6. memPtr' = Start(end', next') /\ phase' = "read"
  BY <1>1, <1>2, <1>3
<1>7. QED
  BY <1>4, <1>5, <1>6 DEF IInv

\* What the reader makes of a piece is a value of the field again.
LEMMA DecodedType ==
  ASSUME MessageTypeOK, field.kind # "pod" => Cell(1) \in Nat
  PROVE  Decoded \in Seq(Int) /\ (field.kind = "pod" => Len(Decoded) = 1)
<1>1. CASE field.kind = "pod"
  <2>1. Decoded = Cells(1, 1) /\ Len(Cells(1, 1)) = 1
    BY <1>1 DEF Decoded, Cells
  <2>2. QED
    BY <2>1, CellsAreSequences
<1>2. CASE field.kind # "pod"
  <2>1. Cells(2, 1 + Cell(1)) \in Seq(Int)
    BY <1>2, CellsAreSequences
  <2>2. (IF field.kind = "string" THEN <<0>> ELSE <<>>) \in Seq(Int)
    OBVIOUS
  <2>3. Decoded = Cells(2, 1 + Cell(1)) \o (IF field.kind = "string" THEN <<0>> ELSE <<>>)
    BY <1>2 DEF Decoded
  <2>4. QED
    BY <1>2, <2>1, <2>2, <2>3
<1>3. QED
  BY <1>1, <1>2

LEMMA ReadAddKeeps == IInv /\ ReadAdd => IInv'
<1> SUFFICES ASSUME IInv, ReadAdd PROVE IInv'
  OBVIOUS
<1>1. /\ MessageTypeOK /\ phase = "read" /\ next <= Len(schema) /\ next \in 1..Len(schema)
      /\ ReadStatement /\ field.kind # "check" /\ reader < field.removed
      /\ integrityCounter' \in Nat /\ schema' = schema
      /\ field = schema[next] /\ field \in Fields /\ MessageValues(received)
      /\ Default \in Seq(Int) /\ (field.kind = "pod" => Len(Default) = 1)
  BY FieldType DEF IInv, ReadAdd, ReadStatement, MessageTypeOK
<1>2. /\ reader \in Nat /\ dataVersion \in Nat /\ dataVersion <= reader
      /\ field.added \in Nat /\ field.removed \in Nat
  BY <1>1 DEF MessageTypeOK, Agreed, Fields
<1>3. CASE dataVersion >= field.added
  <2>1. OnWire(field, dataVersion)
    BY <1>2, <1>1, <1>3 DEF OnWire
  <2>2. memPtr' = end[next] /\ (field.kind # "pod" => Cell(1) \in Nat)
    BY <1>1, <1>3, <2>1, WidthOfSegment DEF ReadAdd
  <2>3. Decoded \in Seq(Int) /\ (field.kind = "pod" => Len(Decoded) = 1)
    BY <1>1, <2>2, DecodedType
  <2>4. received' = [received EXCEPT ![next] = Decoded]
    BY <1>3 DEF ReadAdd
  <2>5. MessageValues(received')
    BY <1>1, <2>3, <2>4 DEF MessageValues
  <2>6. QED
    BY <1>1, <2>2, <2>5, ReadKeeps
<1>4. CASE ~(dataVersion >= field.added)
  <2>1. memPtr' = end[next] /\ received' = [received EXCEPT ![next] = Default]
    BY <1>1, <1>4, WidthOfSegment DEF ReadAdd, OnWire
  <2>2. MessageValues(received')
    BY <1>1, <2>1 DEF MessageValues
  <2>3. QED
    BY <1>1, <2>1, <2>2, ReadKeeps
<1>5. QED
  BY <1>3, <1>4

LEMMA ReadRemoveKeeps == IInv /\ ReadRemove => IInv'
<1> SUFFICES ASSUME IInv, ReadRemove PROVE IInv'
  OBVIOUS
<1>1. /\ MessageTypeOK /\ phase = "read" /\ next <= Len(schema)
      /\ ReadStatement /\ field.kind # "check"
      /\ integrityCounter' \in Nat /\ MessageValues(received) /\ received' = received
  BY DEF IInv, ReadRemove, ReadStatement, MessageTypeOK
<1>2. memPtr' = end[next]
  BY <1>1, WidthOfSegment DEF ReadRemove, OnWire
<1>3. MessageValues(received')
  BY <1>1 DEF MessageValues, ReadStatement
<1>4. QED
  BY <1>1, <1>2, <1>3, ReadKeeps

LEMMA ReadCheckKeeps == IInv /\ ReadCheckIntegrity => IInv'
<1> SUFFICES ASSUME IInv, ReadCheckIntegrity PROVE IInv'
  OBVIOUS
<1>1. /\ MessageTypeOK /\ phase = "read" /\ next <= Len(schema)
      /\ ReadStatement /\ field.kind = "check" /\ integrityCounter \in Nat
      /\ MessageValues(received) /\ received' = received
  BY DEF IInv, ReadCheckIntegrity, ReadStatement, MessageTypeOK
<1>2. memPtr' = end[next] /\ integrityCounter' \in Nat
  BY <1>1, WidthOfSegment DEF ReadCheckIntegrity, OnWire
<1>3. MessageValues(received')
  BY <1>1 DEF MessageValues, ReadStatement
<1>4. QED
  BY <1>1, <1>2, <1>3, ReadKeeps
----------------------------------------------------------------------------
LEMMA InitHolds == MessageInit => IInv
<1> SUFFICES ASSUME MessageInit PROVE IInv
  OBVIOUS
<1> USE VersionsAssumption, SchemasAssumption, CellsAssumption
<1>1. schema \in Seq(Fields) /\ Len(schema) \in Nat /\ DOMAIN schema = 1..Len(schema)
  BY DEF MessageInit
<1>2. MessageValues(sent)
  BY <1>1 DEF MessageInit, MessageValues
<1>3. MessageValues(received)
  <2>1. Stale \in Seq(Int) /\ Len(Stale) = 1
    BY DEF Stale
  <2>2. received = [k \in 1..Len(schema) |-> Stale]
    BY <1>1 DEF MessageInit
  <2>3. QED
    BY <2>1, <2>2 DEF MessageValues
<1>4. wire = <<>> /\ wire \in Seq(Int) /\ Len(wire) = 0
  BY DEF MessageInit
<1>5. end \in [1..Len(schema) -> Nat]
  BY <1>1 DEF MessageInit
<1>6. next = 1 /\ next \in 1..(Len(schema) + 1)
  BY <1>1 DEF MessageInit
<1>7. MessageTypeOK
  BY <1>1, <1>2, <1>3, <1>4, <1>5, <1>6 DEF MessageInit, MessageTypeOK
<1>8. Segments(next - 1) /\ Len(wire) = Start(end, next)
  BY <1>4, <1>6 DEF Segments, Start
<1>9. phase = "write"
  BY DEF MessageInit
<1>10. QED
  BY <1>7, <1>8, <1>9 DEF IInv

LEMMA TransferKeeps == IInv /\ Transfer => IInv'
<1> SUFFICES ASSUME IInv, Transfer PROVE IInv'
  OBVIOUS
<1>1. /\ MessageTypeOK /\ next = Len(schema) + 1 /\ Segments(next - 1) /\ Len(schema) \in Nat
  BY DEF IInv, Transfer, MessageTypeOK
<1>2. /\ phase' = "read" /\ next' = 1 /\ memPtr' = 0 /\ integrityCounter' = 0
      /\ schema' = schema /\ writer' = writer /\ reader' = reader
      /\ dataVersion' = dataVersion /\ wire' = wire /\ sent' = sent
      /\ received' = received /\ end' = end
  BY DEF Transfer
<1>3. MessageTypeOK'
  <2>1. next' \in 1..(Len(schema') + 1)
    BY <1>1, <1>2
  <2>2. QED
    BY <1>1, <1>2, <2>1 DEF MessageTypeOK, Agreed, MessageValues
<1>4. Segments(Len(schema))'
  BY <1>1, <1>2 DEF Segments
<1>5. memPtr' = Start(end', next')
  BY <1>2 DEF Start
<1>6. QED
  BY <1>2, <1>3, <1>4, <1>5 DEF IInv

LEMMA ForwardKeeps ==
  ASSUME IInv, NEW r \in Versions, NEW v \in Versions, Forward(r, v)
  PROVE  IInv'
<1> USE VersionsAssumption
<1>1. MessageTypeOK /\ MessageValues(received) /\ reader \in Nat
      /\ schema \in Seq(Fields) /\ Len(schema) \in Nat /\ DOMAIN schema = 1..Len(schema)
  BY DEF IInv, MessageTypeOK
<1>2. /\ phase' = "write" /\ next' = 1 /\ memPtr' = 0 /\ integrityCounter' = 0
      /\ schema' = schema /\ writer' = reader /\ reader' = r /\ dataVersion' = v
      /\ wire' = <<>> /\ Agreed(reader, r, v)
      /\ received' = [k \in 1..Len(schema) |-> Stale]
      /\ end' = [k \in 1..Len(schema) |-> 0]
      /\ sent' = [k \in 1..Len(schema) |->
                   IF reader < schema[k].removed THEN received[k] ELSE Stale]
  BY <1>1 DEF Forward
<1>3. Stale \in Seq(Int) /\ Len(Stale) = 1
  BY DEF Stale
<1>4. MessageValues(sent)'
  BY <1>1, <1>2, <1>3 DEF MessageValues
<1>5. MessageValues(received)'
  BY <1>1, <1>2, <1>3 DEF MessageValues
<1>6. MessageTypeOK'
  <2>1. next' \in 1..(Len(schema') + 1) /\ wire' \in Seq(Int) /\ end' \in [1..Len(schema') -> Nat]
    BY <1>1, <1>2
  <2>2. QED
    BY <1>1, <1>2, <1>4, <1>5, <2>1 DEF MessageTypeOK, Agreed, MessageValues
<1>7. Segments(next - 1)' /\ Len(wire') = Start(end', next')
  BY <1>2 DEF Segments, Start
<1>8. QED
  BY <1>2, <1>6, <1>7 DEF IInv

LEMMA MessageStep == IInv /\ [MessageNext]_messageVars => IInv'
<1> SUFFICES ASSUME IInv, [MessageNext]_messageVars PROVE IInv'
  OBVIOUS
<1>1. CASE \E r, v \in Versions : Forward(r, v)
  BY <1>1, ForwardKeeps
<1>2. CASE Transfer
  BY <1>2, TransferKeeps
<1>3. CASE WriteAdd \/ WriteRemove \/ WriteCheckIntegrity
  BY <1>3, WriteAddKeeps, WriteRemoveKeeps, WriteCheckKeeps
<1>4. CASE ReadAdd \/ ReadRemove \/ ReadCheckIntegrity
  BY <1>4, ReadAddKeeps, ReadRemoveKeeps, ReadCheckKeeps
<1>5. CASE UNCHANGED messageVars
  BY <1>5 DEF messageVars, IInv, MessageTypeOK, Agreed, MessageValues, Segments
<1>6. QED
  BY <1>1, <1>2, <1>3, <1>4, <1>5 DEF MessageNext

THEOREM Invariance == MessageSpec => []IInv
BY InitHolds, MessageStep, PTL DEF MessageSpec

\* Reader and writer are in step at every statement (serialization.h:29-34,
\* 128-134, 213-219): no field is read where another was written.
THEOREM ReaderInStep == MessageSpec => []InStep
<1>1. IInv => InStep
  BY DEF IInv, InStep, Start
<1>2. QED
  BY <1>1, Invariance, PTL
----------------------------------------------------------------------------
(* What lies between the ends: the message, and the numbers of the checks. *)

DefaultOf(f) == [pod |-> <<0>>, string |-> <<>>, holder |-> <<>>, check |-> <<>>][f.kind]

\* What the writer stands for in statement k: its own value, or the default in
\* a place it only keeps for older programs.
Value(k) == IF writer < schema[k].removed THEN sent[k] ELSE DefaultOf(schema[k])

\* The cells from start on are the encoding of value.
Holds(cells, start, f, value) ==
  IF f.kind = "pod" THEN cells[start + 1] = value[1]
  ELSE cells[start + 1] = Len(value) /\ \A i \in 1..Len(value) : cells[start + 1 + i] = value[i]

\* The first n statements have written what the writer stands for.
Written(n) ==
  \A k \in 1..n :
    schema[k].kind # "check" =>
      IF OnWire(schema[k], dataVersion)
      THEN Holds(wire, Start(end, k), schema[k], Value(k))
      ELSE Value(k) = DefaultOf(schema[k])

\* What the reader makes of it, a std::string with a character more.
Copy(k) == IF schema[k].kind = "string" /\ dataVersion >= schema[k].added
           THEN Value(k) \o <<0>> ELSE Value(k)

\* The first n statements have read it.
Read(n) ==
  \A k \in 1..n :
    schema[k].kind # "check" /\ reader < schema[k].removed => received[k] = Copy(k)

\* A check that data of version v holds.
Met(f, v) == f.kind = "check" /\ OnWire(f, v)

\* c is one more than the number in the last check of the first n statements.
Numbering(cells, ends, s, v, n, c) ==
  \/ c = 0 /\ \A k \in 1..n : ~Met(s[k], v)
  \/ \E k \in 1..n : /\ Met(s[k], v) /\ c = cells[ends[k]] + 1
                     /\ \A j \in (k + 1)..n : ~Met(s[j], v)

\* The checks of the first n statements are numbered one after the other.
Checked(n) ==
  \A k \in 1..n :
    Met(schema[k], dataVersion) =>
      Numbering(wire, end, schema, dataVersion, k - 1, wire[end[k]])

ContentInv ==
  /\ Numbering(wire, end, schema, dataVersion, next - 1, integrityCounter)
  /\ phase = "write" => Written(next - 1) /\ Checked(next - 1)
  /\ phase = "read"  => Written(Len(schema)) /\ Checked(Len(schema)) /\ Read(next - 1)
----------------------------------------------------------------------------
(* Counting: there is one last check, so one number that follows.           *)

LEMMA NumberingUnique ==
  ASSUME NEW cells, NEW ends, NEW s, NEW v, NEW n \in Nat, NEW c, NEW d,
         Numbering(cells, ends, s, v, n, c), Numbering(cells, ends, s, v, n, d)
  PROVE  c = d
<1>1. CASE \A k \in 1..n : ~Met(s[k], v)
  BY <1>1 DEF Numbering
<1>2. CASE ~ \A k \in 1..n : ~Met(s[k], v)
  <2>1. PICK k \in 1..n : /\ Met(s[k], v) /\ c = cells[ends[k]] + 1
                          /\ \A j \in (k + 1)..n : ~Met(s[j], v)
    BY <1>2 DEF Numbering
  <2>2. PICK m \in 1..n : /\ Met(s[m], v) /\ d = cells[ends[m]] + 1
                          /\ \A j \in (m + 1)..n : ~Met(s[j], v)
    BY <1>2 DEF Numbering
  <2>3. k = m
    <3>1. ~(k < m)
      <4>1. k < m => m \in (k + 1)..n
        OBVIOUS
      <4>2. QED
        BY <2>1, <2>2, <4>1
    <3>2. ~(m < k)
      <4>1. m < k => k \in (m + 1)..n
        OBVIOUS
      <4>2. QED
        BY <2>1, <2>2, <4>1
    <3>3. QED
      BY <3>1, <3>2
  <2>4. QED
    BY <2>1, <2>2, <2>3
<1>3. QED
  BY <1>1, <1>2

LEMMA NumberingGoesOn ==
  ASSUME NEW cells, NEW ends, NEW s, NEW v, NEW n \in Nat, NEW c,
         Numbering(cells, ends, s, v, n, c)
  PROVE  /\ ~Met(s[n + 1], v) => Numbering(cells, ends, s, v, n + 1, c)
         /\ Met(s[n + 1], v) /\ cells[ends[n + 1]] = c =>
              Numbering(cells, ends, s, v, n + 1, c + 1)
<1>1. \A k \in 1..(n + 1) : k \in 1..n \/ k = n + 1
  OBVIOUS
<1>2. ASSUME ~Met(s[n + 1], v) PROVE Numbering(cells, ends, s, v, n + 1, c)
  <2>1. CASE c = 0 /\ \A k \in 1..n : ~Met(s[k], v)
    BY <1>1, <1>2, <2>1 DEF Numbering
  <2>2. CASE \E k \in 1..n : /\ Met(s[k], v) /\ c = cells[ends[k]] + 1
                             /\ \A j \in (k + 1)..n : ~Met(s[j], v)
    <3>1. PICK k \in 1..n : /\ Met(s[k], v) /\ c = cells[ends[k]] + 1
                            /\ \A j \in (k + 1)..n : ~Met(s[j], v)
      BY <2>2
    <3>2. \A j \in (k + 1)..(n + 1) : j \in (k + 1)..n \/ j = n + 1
      OBVIOUS
    <3>3. k \in 1..(n + 1) /\ \A j \in (k + 1)..(n + 1) : ~Met(s[j], v)
      BY <1>2, <3>1, <3>2
    <3>4. QED
      BY <3>1, <3>3 DEF Numbering
  <2>3. QED
    BY <2>1, <2>2 DEF Numbering
<1>3. ASSUME Met(s[n + 1], v), cells[ends[n + 1]] = c
      PROVE  Numbering(cells, ends, s, v, n + 1, c + 1)
  <2>1. n + 1 \in 1..(n + 1) /\ ((n + 1) + 1)..(n + 1) = {}
    OBVIOUS
  <2>2. QED
    BY <1>3, <2>1 DEF Numbering
<1>4. QED
  BY <1>2, <1>3

\* What is written later does not change the numbers.
LEMMA NumberingKept ==
  ASSUME NEW cells, NEW ends, NEW s, NEW v, NEW n \in Nat, NEW c, NEW w, NEW e,
         Numbering(cells, ends, s, v, n, c),
         \A k \in 1..n : Met(s[k], v) => w[e[k]] = cells[ends[k]]
  PROVE  Numbering(w, e, s, v, n, c)
<1>1. CASE c = 0 /\ \A k \in 1..n : ~Met(s[k], v)
  BY <1>1 DEF Numbering
<1>2. CASE \E k \in 1..n : /\ Met(s[k], v) /\ c = cells[ends[k]] + 1
                           /\ \A j \in (k + 1)..n : ~Met(s[j], v)
  <2>1. PICK k \in 1..n : /\ Met(s[k], v) /\ c = cells[ends[k]] + 1
                          /\ \A j \in (k + 1)..n : ~Met(s[j], v)
    BY <1>2
  <2>2. c = w[e[k]] + 1
    BY <2>1
  <2>3. QED
    BY <2>1, <2>2 DEF Numbering
<1>3. QED
  BY <1>1, <1>2 DEF Numbering
----------------------------------------------------------------------------
(* Writing: a new piece holds its value, the old ones keep theirs.          *)

LEMMA Spliced ==
  ASSUME NEW before \in Seq(Int), NEW cells \in Seq(Int)
  PROVE  /\ Len(before) \in Nat /\ Len(cells) \in Nat
         /\ Len(before \o cells) = Len(before) + Len(cells)
         /\ \A i \in 1..Len(before) : (before \o cells)[i] = before[i]
         /\ \A i \in 1..Len(cells) : (before \o cells)[Len(before) + i] = cells[i]
  OBVIOUS

LEMMA HoldsAppended ==
  ASSUME NEW before \in Seq(Int), NEW cells \in Seq(Int), NEW f \in Fields, NEW v,
         NEW value \in Seq(Int), f.kind # "check", OnWire(f, v),
         Piece(cells, f, v), Holds(cells, 0, f, value)
  PROVE  Holds(before \o cells, Len(before), f, value)
<1> DEFINE w == before \o cells
<1>1. /\ Len(before) \in Nat /\ Len(cells) \in Nat /\ Len(value) \in Nat
      /\ \A i \in 1..Len(cells) : w[Len(before) + i] = cells[i]
  BY Spliced
<1> HIDE DEF w
<1>2. CASE f.kind = "pod"
  <2>1. Len(cells) = 1 /\ cells[0 + 1] = value[1]
    BY <1>2 DEF Piece, Holds
  <2>2. w[Len(before) + 1] = value[1]
    BY <1>1, <2>1
  <2>3. QED
    BY <1>2, <2>2 DEF Holds, w
<1>3. CASE f.kind # "pod"
  <2>1. f.kind \in {"string", "holder"}
    BY <1>3 DEF Fields
  <2>2. /\ Len(cells) > 0 /\ Len(cells) = 1 + cells[1]
        /\ cells[0 + 1] = Len(value)
        /\ \A i \in 1..Len(value) : cells[0 + 1 + i] = value[i]
    BY <1>3, <2>1 DEF Piece, Holds
  <2>3. Len(cells) = 1 + Len(value) /\ cells[1] = Len(value)
        /\ \A i \in 1..Len(value) : cells[1 + i] = value[i]
    BY <2>2
  <2>4. w[Len(before) + 1] = Len(value)
    BY <1>1, <2>3
  <2>5. \A i \in 1..Len(value) : w[Len(before) + 1 + i] = value[i]
    <3> TAKE i \in 1..Len(value)
    <3>1. 1 + i \in 1..Len(cells)
      BY <1>1, <2>3
    <3>2. w[Len(before) + (1 + i)] = value[i]
      BY <1>1, <2>3, <3>1
    <3>3. Len(before) + (1 + i) = Len(before) + 1 + i
      BY <1>1
    <3>4. QED
      BY <3>2, <3>3
  <2>6. QED
    BY <1>3, <2>4, <2>5 DEF Holds, w
<1>4. QED
  BY <1>2, <1>3

LEMMA HoldsKept ==
  ASSUME NEW before \in Seq(Int), NEW cells \in Seq(Int), NEW f \in Fields, NEW v,
         NEW value \in Seq(Int), NEW ends, NEW k, Start(ends, k) \in Nat,
         f.kind # "check", OnWire(f, v),
         Segment(before, ends, f, v, k), Holds(before, Start(ends, k), f, value)
  PROVE  Holds(before \o cells, Start(ends, k), f, value)
<1> DEFINE w == before \o cells
           at == Start(ends, k)
<1>1. /\ Len(before) \in Nat /\ Len(value) \in Nat /\ at \in Nat
      /\ \A i \in 1..Len(before) : w[i] = before[i]
  BY Spliced
<1>2. ends[k] <= Len(before) /\ Holds(before, at, f, value)
  BY DEF Segment
<1>3. CASE f.kind = "pod"
  <2>1. ends[k] = at + 1 /\ before[at + 1] = value[1]
    BY <1>2, <1>3 DEF Segment, Holds
  <2> HIDE DEF w, at
  <2>2. at + 1 \in 1..Len(before)
    BY <1>1, <1>2, <2>1
  <2>3. w[at + 1] = value[1]
    BY <1>1, <2>1, <2>2
  <2>4. QED
    BY <1>3, <2>3 DEF Holds, w, at
<1>4. CASE f.kind # "pod"
  <2>1. f.kind \in {"string", "holder"}
    BY <1>4 DEF Fields
  <2>2. /\ ends[k] = at + 1 + before[at + 1] /\ before[at + 1] = Len(value)
        /\ \A i \in 1..Len(value) : before[at + 1 + i] = value[i]
    BY <1>2, <1>4, <2>1 DEF Segment, Holds
  <2> HIDE DEF w, at
  <2>3. at + 1 + Len(value) <= Len(before)
    BY <1>2, <2>2
  <2>4. at + 1 \in 1..Len(before) /\ \A i \in 1..Len(value) : at + 1 + i \in 1..Len(before)
    BY <1>1, <2>3
  <2>5. w[at + 1] = Len(value) /\ \A i \in 1..Len(value) : w[at + 1 + i] = value[i]
    BY <1>1, <2>2, <2>4
  <2>6. QED
    BY <1>4, <2>5 DEF Holds, w, at
<1>5. QED
  BY <1>3, <1>4

LEMMA ValueType ==
  ASSUME IInv, NEW k \in 1..Len(schema)
  PROVE  /\ schema[k] \in Fields
         /\ DefaultOf(schema[k]) \in Seq(Int) /\ Value(k) \in Seq(Int)
         /\ schema[k].kind = "pod" => Len(DefaultOf(schema[k])) = 1 /\ Len(Value(k)) = 1
<1>1. schema[k] \in Fields /\ sent[k] \in Seq(Int)
      /\ (schema[k].kind = "pod" => Len(sent[k]) = 1)
  BY DEF IInv, MessageTypeOK, MessageValues
<1>2. schema[k].kind \in {"pod", "string", "holder", "check"}
  BY <1>1 DEF Fields
<1>3. CASE schema[k].kind = "pod"
  <2>1. DefaultOf(schema[k]) = <<0>>
    BY <1>3 DEF DefaultOf
  <2>2. QED
    BY <1>1, <1>3, <2>1 DEF Value
<1>4. CASE schema[k].kind # "pod"
  <2>1. DefaultOf(schema[k]) = <<>>
    BY <1>2, <1>4 DEF DefaultOf
  <2>2. QED
    BY <1>1, <1>4, <2>1 DEF Value
<1>5. QED
  BY <1>3, <1>4

\* A statement of the writer that appends what it stands for, or the number of
\* the check, keeps ContentInv.
LEMMA PutKeepsContent ==
  ASSUME IInv, ContentInv, phase = "write", next <= Len(schema), IInv',
         NEW cells \in Seq(Int), Put(cells), Piece(cells, field, dataVersion),
         NEW value \in Seq(Int),
         value = IF writer < field.removed THEN sent'[next] ELSE DefaultOf(field),
         \A k \in 1..(next - 1) : sent'[k] = sent[k],
         field.kind # "check" => IF OnWire(field, dataVersion)
                                 THEN Holds(cells, 0, field, value)
                                 ELSE value = DefaultOf(field),
         IF Met(field, dataVersion)
         THEN cells = <<integrityCounter>> /\ integrityCounter' = integrityCounter + 1
         ELSE integrityCounter' = integrityCounter
  PROVE  ContentInv'
<1>1. /\ MessageTypeOK /\ Len(wire) = Start(end, next) /\ Segments(next - 1)
      /\ Numbering(wire, end, schema, dataVersion, next - 1, integrityCounter)
      /\ Written(next - 1) /\ Checked(next - 1)
  BY DEF IInv, ContentInv
<1>2. /\ next \in 1..Len(schema) /\ next \in Nat /\ Len(schema) \in Nat
      /\ field = schema[next] /\ field \in Fields /\ dataVersion \in Nat
      /\ wire \in Seq(Int) /\ end \in [1..Len(schema) -> Nat]
      /\ \A k \in 1..Len(schema) : schema[k] \in Fields
  BY <1>1, FieldType DEF MessageTypeOK
<1>3. /\ wire' = wire \o cells
      /\ end' = [end EXCEPT ![next] = Len(wire) + Len(cells)]
      /\ next' = next + 1
      /\ schema' = schema /\ writer' = writer
      /\ dataVersion' = dataVersion /\ phase' = phase
  BY DEF Put
<1>4. /\ Len(wire) \in Nat /\ Len(cells) \in Nat
      /\ \A i \in 1..Len(wire) : wire'[i] = wire[i]
      /\ \A i \in 1..Len(cells) : wire'[Len(wire) + i] = cells[i]
  BY <1>2, <1>3, Spliced
<1>5. /\ \A k \in 1..(next - 1) : k \in 1..Len(schema) /\ end'[k] = end[k] /\ end[k] \in Nat
      /\ end'[next] = Len(wire) + Len(cells)
      /\ \A k \in 1..next : Start(end', k) = Start(end, k) /\ Start(end, k) \in Nat
  <2>1. end'[next] = Len(wire) + Len(cells)
    BY <1>2, <1>3
  <2>2. \A k \in 1..(next - 1) : k \in 1..Len(schema) /\ end'[k] = end[k] /\ end[k] \in Nat
    <3> TAKE k \in 1..(next - 1)
    <3>1. k \in 1..Len(schema) /\ k # next
      BY <1>2
    <3>2. QED
      BY <1>2, <1>3, <3>1
  <2>3. \A k \in 1..next : Start(end', k) = Start(end, k) /\ Start(end, k) \in Nat
    <3> TAKE k \in 1..next
    <3>1. CASE k = 1
      BY <3>1 DEF Start
    <3>2. CASE k # 1
      <4>1. k - 1 \in 1..(next - 1)
        BY <1>2, <3>2
      <4>2. QED
        BY <2>2, <3>2, <4>1 DEF Start
    <3>3. QED
      BY <3>1, <3>2
  <2>4. QED
    BY <2>1, <2>2, <2>3
<1>6. \A k \in 1..next : k \in 1..(next - 1) \/ k = next
  BY <1>2
<1>7. \A k \in 1..(next - 1) : Value(k)' = Value(k)
  BY <1>3, <1>5 DEF Value
<1>8. \A k : k = next => Value(k)' = value
  <2> SUFFICES ASSUME NEW k, k = next PROVE Value(k)' = value
    OBVIOUS
  <2>1. Value(k)' = IF writer < schema[k].removed THEN sent'[k] ELSE DefaultOf(schema[k])
    BY <1>3 DEF Value
  <2>2. QED
    BY <1>2, <2>1
<1>9. \A k \in 1..(next - 1) :
        Segment(wire, end, schema[k], dataVersion, k) /\ Value(k) \in Seq(Int)
  BY <1>1, <1>5, ValueType DEF Segments
\* The numbers so far stand where they stood.
<1>10. \A k \in 1..(next - 1) : Met(schema[k], dataVersion) => wire'[end'[k]] = wire[end[k]]
  <2> SUFFICES ASSUME NEW k \in 1..(next - 1), Met(schema[k], dataVersion)
               PROVE  wire'[end'[k]] = wire[end[k]]
    OBVIOUS
  <2>1. end[k] = Start(end, k) + 1 /\ end[k] <= Len(wire)
    BY <1>9 DEF Segment, Met
  <2>2. Start(end, k) \in Nat
    <3>1. k \in 1..next
      BY <1>2
    <3>2. QED
      BY <1>5, <3>1
  <2>3. end[k] \in 1..Len(wire)
    BY <1>4, <1>5, <2>1, <2>2
  <2>4. QED
    BY <1>4, <1>5, <2>3
<1>11. ASSUME NEW n \in 0..(next - 1), NEW c, Numbering(wire, end, schema, dataVersion, n, c)
       PROVE  Numbering(wire', end', schema, dataVersion, n, c)
  <2>1. n \in Nat /\ \A k \in 1..n : k \in 1..(next - 1)
    BY <1>2
  <2>2. \A k \in 1..n : Met(schema[k], dataVersion) => wire'[end'[k]] = wire[end[k]]
    BY <1>10, <2>1
  <2>3. QED
    BY <1>11, <2>1, <2>2, NumberingKept
<1>12. Met(field, dataVersion) => wire'[end'[next]] = integrityCounter
  <2> SUFFICES ASSUME Met(field, dataVersion) PROVE wire'[end'[next]] = integrityCounter
    OBVIOUS
  <2>1. cells = <<integrityCounter>>
    OBVIOUS
  <2>2. Len(cells) = 1 /\ cells[1] = integrityCounter
    BY <2>1
  <2>3. wire'[Len(wire) + 1] = cells[1]
    BY <1>4, <2>2
  <2>4. QED
    BY <1>5, <2>2, <2>3
<1>13. Numbering(wire', end', schema, dataVersion, next, integrityCounter')
  <2>1. Numbering(wire', end', schema, dataVersion, next - 1, integrityCounter)
    BY <1>1, <1>2, <1>11
  <2>2. next - 1 \in Nat /\ (next - 1) + 1 = next
    BY <1>2
  <2>3. /\ ~Met(schema[next], dataVersion) =>
             Numbering(wire', end', schema, dataVersion, next, integrityCounter)
        /\ Met(schema[next], dataVersion) /\ wire'[end'[next]] = integrityCounter =>
             Numbering(wire', end', schema, dataVersion, next, integrityCounter + 1)
    <3> DEFINE m == next - 1
    <3>1. m \in Nat /\ m + 1 = next /\ Numbering(wire', end', schema, dataVersion, m, integrityCounter)
      BY <2>1, <2>2
    <3> HIDE DEF m
    <3>2. /\ ~Met(schema[m + 1], dataVersion) =>
               Numbering(wire', end', schema, dataVersion, m + 1, integrityCounter)
          /\ Met(schema[m + 1], dataVersion) /\ wire'[end'[m + 1]] = integrityCounter =>
               Numbering(wire', end', schema, dataVersion, m + 1, integrityCounter + 1)
      BY <3>1, NumberingGoesOn
    <3>3. QED
      BY <3>1, <3>2
  <2>4. QED
    BY <1>2, <1>12, <2>3
<1>14. Checked(next - 1)'
  <2>1. ASSUME NEW k \in 1..next, Met(schema[k], dataVersion)
        PROVE  Numbering(wire', end', schema, dataVersion, k - 1, wire'[end'[k]])
    <3>1. CASE k = next
      <4>1. wire'[end'[k]] = integrityCounter
        BY <1>2, <1>12, <2>1, <3>1
      <4>2. Numbering(wire', end', schema, dataVersion, next - 1, integrityCounter)
        BY <1>1, <1>2, <1>11
      <4>3. QED
        BY <3>1, <4>1, <4>2
    <3>2. CASE k \in 1..(next - 1)
      <4>1. Numbering(wire, end, schema, dataVersion, k - 1, wire[end[k]])
        BY <1>1, <2>1, <3>2 DEF Checked
      <4>2. k - 1 \in 0..(next - 1)
        BY <1>2, <3>2
      <4>3. Numbering(wire', end', schema, dataVersion, k - 1, wire[end[k]])
        BY <1>11, <4>1, <4>2
      <4>4. QED
        BY <1>10, <2>1, <3>2, <4>3
    <3>3. QED
      BY <1>6, <3>1, <3>2
  <2>2. (next' - 1) = next /\ next \in Nat
    BY <1>2, <1>3
  <2>3. \A k \in 1..(next' - 1) :
          Met(schema'[k], dataVersion') =>
            Numbering(wire', end', schema', dataVersion', k - 1, wire'[end'[k]])
    BY <1>3, <2>1, <2>2
  <2>4. QED
    BY <2>3 DEF Checked
<1>15. Written(next - 1)'
  <2>1. ASSUME NEW k \in 1..next, schema[k].kind # "check"
        PROVE  IF OnWire(schema[k], dataVersion)
               THEN Holds(wire', Start(end', k), schema[k], Value(k)')
               ELSE Value(k)' = DefaultOf(schema[k])
    <3>1. CASE k = next
      <4>1. Value(k)' = value /\ schema[k] = field /\ field.kind # "check"
        BY <1>2, <1>8, <2>1, <3>1
      <4>2. CASE OnWire(field, dataVersion)
        <5>1. Holds(cells, 0, field, value)
          BY <4>1, <4>2
        <5>2. Holds(wire \o cells, Len(wire), field, value)
          BY <1>2, <4>1, <4>2, <5>1, HoldsAppended
        <5>3. Start(end', k) = Len(wire) /\ wire' = wire \o cells
          BY <1>1, <1>2, <1>3, <1>5, <3>1
        <5>4. Holds(wire', Start(end', k), schema[k], Value(k)')
          BY <4>1, <5>2, <5>3
        <5>5. QED
          BY <4>1, <4>2, <5>4
      <4>3. CASE ~OnWire(field, dataVersion)
        BY <4>1, <4>3
      <4>4. QED
        BY <4>2, <4>3
    <3>2. CASE k \in 1..(next - 1)
      <4>1. /\ Value(k)' = Value(k) /\ schema[k] \in Fields /\ k \in 1..Len(schema)
            /\ Start(end', k) = Start(end, k) /\ Start(end, k) \in Nat
            /\ Value(k) \in Seq(Int) /\ Segment(wire, end, schema[k], dataVersion, k)
        BY <1>2, <1>5, <1>7, <1>9, <2>1, <3>2
      <4>2. CASE OnWire(schema[k], dataVersion)
        <5>1. Holds(wire, Start(end, k), schema[k], Value(k))
          BY <1>1, <2>1, <3>2, <4>2 DEF Written
        <5>2. Holds(wire \o cells, Start(end, k), schema[k], Value(k))
          BY <1>2, <2>1, <4>1, <4>2, <5>1, HoldsKept
        <5>3. Holds(wire', Start(end', k), schema[k], Value(k)')
          BY <1>3, <4>1, <5>2
        <5>4. QED
          BY <4>2, <5>3
      <4>3. CASE ~OnWire(schema[k], dataVersion)
        <5>1. Value(k) = DefaultOf(schema[k])
          BY <1>1, <2>1, <3>2, <4>3 DEF Written
        <5>2. QED
          BY <4>1, <4>3, <5>1
      <4>4. QED
        BY <4>2, <4>3
    <3>3. QED
      BY <1>6, <3>1, <3>2
  <2>2. (next' - 1) = next /\ next \in Nat
    BY <1>2, <1>3
  <2>3. \A k \in 1..(next' - 1) :
          schema'[k].kind # "check" =>
            IF OnWire(schema'[k], dataVersion')
            THEN Holds(wire', Start(end', k), schema'[k], Value(k)')
            ELSE Value(k)' = DefaultOf(schema'[k])
    BY <1>3, <2>1, <2>2
  <2>4. QED
    BY <2>3 DEF Written
<1>16. Numbering(wire', end', schema', dataVersion', next' - 1, integrityCounter')
  <2>1. next' - 1 = next
    BY <1>2, <1>3
  <2>2. QED
    BY <1>3, <1>13, <2>1
<1>17. phase' = "write"
  BY <1>3
<1>18. QED
  BY <1>14, <1>15, <1>16, <1>17 DEF ContentInv
----------------------------------------------------------------------------
(* The steps of the writer, again.                                          *)

LEMMA EncodedHolds ==
  ASSUME NEW value \in Seq(Int), field.kind = "pod" => Len(value) = 1
  PROVE  Holds(Encoded(value), 0, field, value)
<1>1. CASE field.kind = "pod"
  <2>1. Encoded(value) = value
    BY <1>1 DEF Encoded
  <2>2. QED
    BY <1>1, <2>1 DEF Holds
<1>2. CASE field.kind # "pod"
  <2> DEFINE first == <<Len(value)>>
             cells == first \o value
  <2>1. Encoded(value) = cells
    BY <1>2 DEF Encoded
  <2>2. first \in Seq(Int) /\ Len(first) = 1 /\ first[1] = Len(value) /\ Len(value) \in Nat
    OBVIOUS
  <2>3. /\ \A i \in 1..Len(first) : cells[i] = first[i]
        /\ \A i \in 1..Len(value) : cells[Len(first) + i] = value[i]
    BY <2>2, Spliced
  <2> HIDE DEF first, cells
  <2>4. cells[1] = Len(value) /\ \A i \in 1..Len(value) : cells[1 + i] = value[i]
    BY <2>2, <2>3
  <2>5. Holds(cells, 0, field, value)
    BY <1>2, <2>4 DEF Holds
  <2>6. QED
    BY <2>1, <2>5
<1>3. QED
  BY <1>1, <1>2

LEMMA DefaultIs ==
  /\ Default = DefaultOf(field)
  /\ \A k : k = next => field = schema[k]
BY DEF Default, DefaultOf, field

LEMMA WriteAddContent == IInv /\ ContentInv /\ WriteAdd => ContentInv'
<1> SUFFICES ASSUME IInv, ContentInv, WriteAdd PROVE ContentInv'
  OBVIOUS
<1>1. /\ MessageTypeOK /\ phase = "write" /\ next <= Len(schema) /\ next \in 1..Len(schema)
      /\ field.kind # "check" /\ writer < field.removed
      /\ integrityCounter' = integrityCounter
      /\ field = schema[next] /\ field \in Fields
      /\ Default = DefaultOf(field)
      /\ Default \in Seq(Int) /\ (field.kind = "pod" => Len(Default) = 1)
      /\ sent \in [1..Len(schema) -> Seq(Int)]
  BY FieldType, DefaultIs DEF IInv, WriteAdd, MessageTypeOK, MessageValues
<1>2. /\ writer \in Nat /\ dataVersion \in Nat /\ dataVersion <= writer
      /\ field.added \in Nat /\ field.removed \in Nat
      /\ MessageValues(sent)
  BY <1>1 DEF MessageTypeOK, Agreed, Fields
<1>3. IInv' /\ ~Met(field, dataVersion)
  BY <1>1, WriteAddKeeps DEF Met
<1>4. CASE dataVersion >= field.added
  <2>1. Put(Encoded(sent[next])) /\ sent' = sent
    BY <1>4 DEF WriteAdd
  <2>2. OnWire(field, dataVersion)
    BY <1>1, <1>2, <1>4 DEF OnWire
  <2>3. sent[next] \in Seq(Int) /\ (field.kind = "pod" => Len(sent[next]) = 1)
    BY <1>1, <1>2 DEF MessageValues
  <2>4. /\ Encoded(sent[next]) \in Seq(Int)
        /\ Piece(Encoded(sent[next]), field, dataVersion)
        /\ Holds(Encoded(sent[next]), 0, field, sent[next])
    BY <1>1, <2>2, <2>3, EncodedIsPiece, EncodedHolds
  <2> DEFINE value == sent[next]
             cells == Encoded(sent[next])
  <2>5. /\ cells \in Seq(Int) /\ Put(cells) /\ Piece(cells, field, dataVersion)
        /\ value \in Seq(Int) /\ Holds(cells, 0, field, value)
        /\ value = IF writer < field.removed THEN sent'[next] ELSE DefaultOf(field)
        /\ \A k \in 1..(next - 1) : sent'[k] = sent[k]
    BY <1>1, <2>1, <2>3, <2>4
  <2> HIDE DEF value, cells
  <2>6. QED
    BY <1>1, <1>3, <2>2, <2>5, PutKeepsContent
<1>5. CASE ~(dataVersion >= field.added)
  <2>1. Put(<<>>) /\ sent' = [sent EXCEPT ![next] = Default]
    BY <1>5 DEF WriteAdd
  <2>2. ~OnWire(field, dataVersion) /\ <<>> \in Seq(Int) /\ Piece(<<>>, field, dataVersion)
    BY <1>5, NothingIsPiece DEF OnWire
  <2>3. /\ Default = IF writer < field.removed THEN sent'[next] ELSE DefaultOf(field)
        /\ \A k \in 1..(next - 1) : sent'[k] = sent[k]
    BY <1>1, <2>1
  <2> DEFINE cells == <<>>
  <2>4. cells \in Seq(Int) /\ Put(cells) /\ Piece(cells, field, dataVersion)
    BY <2>1, <2>2
  <2> HIDE DEF cells
  <2>5. QED
    BY <1>1, <1>3, <2>2, <2>3, <2>4, PutKeepsContent
<1>6. QED
  BY <1>4, <1>5

LEMMA WriteRemoveContent == IInv /\ ContentInv /\ WriteRemove => ContentInv'
<1> SUFFICES ASSUME IInv, ContentInv, WriteRemove PROVE ContentInv'
  OBVIOUS
<1>1. /\ MessageTypeOK /\ phase = "write" /\ next <= Len(schema) /\ next \in 1..Len(schema)
      /\ field.kind # "check" /\ writer >= field.removed
      /\ integrityCounter' = integrityCounter /\ sent' = sent
      /\ Default = DefaultOf(field)
      /\ Default \in Seq(Int) /\ (field.kind = "pod" => Len(Default) = 1)
  BY FieldType, DefaultIs DEF IInv, WriteRemove, MessageTypeOK
<1>2. IInv' /\ ~Met(field, dataVersion)
  BY <1>1, WriteRemoveKeeps DEF Met
<1>3. /\ Default = IF writer < field.removed THEN sent'[next] ELSE DefaultOf(field)
      /\ \A k \in 1..(next - 1) : sent'[k] = sent[k]
  <2>1. writer \in Nat /\ field.removed \in Nat
    BY <1>1, FieldType DEF MessageTypeOK, Fields
  <2>2. QED
    BY <1>1, <2>1
<1>4. CASE dataVersion >= field.added /\ dataVersion < field.removed
  <2> DEFINE cells == Encoded(Default)
  <2>1. Put(cells) /\ OnWire(field, dataVersion)
    BY <1>4 DEF WriteRemove, OnWire
  <2>2. /\ cells \in Seq(Int) /\ Piece(cells, field, dataVersion)
        /\ Holds(cells, 0, field, Default)
    BY <1>1, <2>1, EncodedIsPiece, EncodedHolds
  <2> HIDE DEF cells
  <2>3. QED
    BY <1>1, <1>2, <1>3, <2>1, <2>2, PutKeepsContent
<1>5. CASE ~(dataVersion >= field.added /\ dataVersion < field.removed)
  <2> DEFINE cells == <<>>
  <2>1. Put(cells) /\ ~OnWire(field, dataVersion)
    BY <1>1, <1>5 DEF WriteRemove, OnWire
  <2>2. cells \in Seq(Int) /\ Piece(cells, field, dataVersion)
    BY <2>1, NothingIsPiece
  <2> HIDE DEF cells
  <2>3. QED
    BY <1>1, <1>2, <1>3, <2>1, <2>2, PutKeepsContent
<1>6. QED
  BY <1>4, <1>5

LEMMA WriteCheckContent == IInv /\ ContentInv /\ WriteCheckIntegrity => ContentInv'
<1> SUFFICES ASSUME IInv, ContentInv, WriteCheckIntegrity PROVE ContentInv'
  OBVIOUS
<1>1. /\ MessageTypeOK /\ phase = "write" /\ next <= Len(schema) /\ next \in 1..Len(schema)
      /\ field.kind = "check" /\ integrityCounter \in Nat /\ sent' = sent
      /\ DefaultOf(field) \in Seq(Int)
  BY FieldType, DefaultIs DEF IInv, WriteCheckIntegrity, MessageTypeOK
<1> DEFINE value == IF writer < field.removed THEN sent'[next] ELSE DefaultOf(field)
<1>2. value \in Seq(Int)
  BY <1>1 DEF MessageTypeOK, MessageValues
<1>3. IInv' /\ \A k \in 1..(next - 1) : sent'[k] = sent[k]
  BY <1>1, WriteCheckKeeps
<1>4. CASE dataVersion >= field.added
  <2> DEFINE cells == <<integrityCounter>>
  <2>1. Put(cells) /\ integrityCounter' = integrityCounter + 1 /\ Met(field, dataVersion)
    BY <1>1, <1>4 DEF WriteCheckIntegrity, Met, OnWire
  <2>2. cells \in Seq(Int) /\ cells = <<integrityCounter>> /\ Len(cells) = 1
    BY <1>1
  <2>3. Piece(cells, field, dataVersion)
    BY <1>1, <2>1, <2>2 DEF Piece, Met
  <2> HIDE DEF cells, value
  <2>4. QED
    BY <1>1, <1>2, <1>3, <2>1, <2>2, <2>3, PutKeepsContent DEF value
<1>5. CASE ~(dataVersion >= field.added)
  <2> DEFINE cells == <<>>
  <2>1. /\ Put(cells) /\ integrityCounter' = integrityCounter
        /\ ~Met(field, dataVersion) /\ ~OnWire(field, dataVersion)
    BY <1>1, <1>5 DEF WriteCheckIntegrity, Met, OnWire
  <2>2. cells \in Seq(Int) /\ Piece(cells, field, dataVersion)
    BY <2>1, NothingIsPiece
  <2> HIDE DEF cells, value
  <2>3. QED
    BY <1>1, <1>2, <1>3, <2>1, <2>2, PutKeepsContent DEF value
<1>6. QED
  BY <1>4, <1>5
----------------------------------------------------------------------------
(* The steps of the reader, again.                                          *)

\* Where the reader stands, and what is before it.
LEMMA ReaderStands ==
  ASSUME IInv, phase = "read", next <= Len(schema)
  PROVE  /\ memPtr = Start(end, next) /\ next \in 1..Len(schema)
         /\ field \in Fields /\ field = schema[next]
         /\ Segment(wire, end, field, dataVersion, next)
         /\ memPtr \in Nat /\ wire \in Seq(Int) /\ Len(wire) \in Nat
         /\ end[next] \in Nat /\ end[next] <= Len(wire) /\ next - 1 \in Nat
<1>1. MessageTypeOK /\ memPtr = Start(end, next) /\ Segments(Len(schema))
  BY DEF IInv
<1>2. next \in 1..Len(schema) /\ field \in Fields /\ field = schema[next]
  BY <1>1, FieldType
<1>3. /\ memPtr \in Nat /\ wire \in Seq(Int) /\ Len(wire) \in Nat
      /\ end \in [1..Len(schema) -> Nat] /\ Len(schema) \in Nat
  BY <1>1 DEF MessageTypeOK
<1>4. Segment(wire, end, field, dataVersion, next)
  BY <1>1, <1>2 DEF Segments
<1>5. end[next] <= Len(wire)
  BY <1>4 DEF Segment
<1>6. end[next] \in Nat /\ next - 1 \in Nat
  BY <1>2, <1>3
<1>7. QED
  BY <1>1, <1>2, <1>3, <1>4, <1>5, <1>6

\* The reader at a piece makes of it what the writer stands for.
LEMMA DecodedIsValue ==
  ASSUME IInv, phase = "read", next <= Len(schema),
         field.kind # "check", OnWire(field, dataVersion),
         NEW value \in Seq(Int), field.kind = "pod" => Len(value) = 1,
         Holds(wire, memPtr, field, value)
  PROVE  Decoded = IF field.kind = "string" THEN value \o <<0>> ELSE value
<1>1. /\ memPtr = Start(end, next) /\ next \in 1..Len(schema)
      /\ Segment(wire, end, field, dataVersion, next) /\ field \in Fields
      /\ memPtr \in Nat /\ wire \in Seq(Int) /\ Len(wire) \in Nat
      /\ end[next] \in Nat /\ end[next] <= Len(wire)
  BY ReaderStands
<1>2. CASE field.kind = "pod"
  <2>1. wire[memPtr + 1] = value[1] /\ end[next] = memPtr + 1
    BY <1>1, <1>2 DEF Segment, Holds
  <2>2. Cell(1) = value[1]
    BY <1>1, <2>1 DEF Cell
  <2>3. Cells(1, 1) = [k \in 1..1 |-> Cell(1 + k - 1)]
    BY DEF Cells
  <2>4. value = [k \in 1..1 |-> value[k]]
    BY <1>2
  <2>5. \A k \in 1..1 : Cell(1 + k - 1) = value[k]
    <3>1. \A k \in 1..1 : k = 1 /\ 1 + k - 1 = 1
      OBVIOUS
    <3>2. QED
      BY <2>2, <3>1
  <2>6. Cells(1, 1) = value
    BY <2>3, <2>4, <2>5
  <2>7. QED
    BY <1>2, <2>6 DEF Decoded
<1>3. CASE field.kind # "pod"
  <2>1. field.kind \in {"string", "holder"}
    BY <1>1, <1>3 DEF Fields
  <2>2. /\ wire[memPtr + 1] = Len(value)
        /\ \A i \in 1..Len(value) : wire[memPtr + 1 + i] = value[i]
        /\ end[next] = memPtr + 1 + wire[memPtr + 1] /\ memPtr < Len(wire)
    BY <1>1, <1>3, <2>1 DEF Segment, Holds
  <2>3. Len(value) \in Nat /\ memPtr + 1 + Len(value) <= Len(wire)
    <3>1. Len(value) \in Nat
      OBVIOUS
    <3>2. end[next] = memPtr + 1 + Len(value)
      BY <2>2
    <3>3. QED
      BY <1>1, <3>1, <3>2
  <2>4. Cell(1) = Len(value)
    BY <1>1, <2>2, <2>3 DEF Cell
  <2>5. \A i \in 1..Len(value) : Cell(2 + i - 1) = value[i]
    <3> TAKE i \in 1..Len(value)
    <3>1. i \in Nat /\ i <= Len(value) /\ wire[memPtr + 1 + i] = value[i]
      BY <2>2, <2>3
    <3> DEFINE n == Len(value)
               all == Len(wire)
    <3>2. i \in Nat /\ i <= n /\ n \in Nat /\ all \in Nat /\ memPtr \in Nat
          /\ memPtr + 1 + n <= all
      BY <1>1, <2>3, <3>1
    <3> HIDE DEF n, all
    <3>3. 2 + i - 1 = 1 + i /\ memPtr + (1 + i) = memPtr + 1 + i /\ memPtr + (1 + i) <= all
      BY ONLY <3>2
    <3>4. QED
      BY <3>1, <3>3 DEF Cell, all
  <2>6. Cells(2, 1 + Cell(1)) = value
    <3>1. (1 + Cell(1)) - 2 + 1 = Len(value)
      <4> HIDE <2>2, <2>5
      <4>1. \A n \in Nat : (1 + n) - 2 + 1 = n
        OBVIOUS
      <4>2. Cell(1) \in Nat /\ Cell(1) = Len(value)
        BY ONLY <2>3, <2>4
      <4>3. QED
        BY ONLY <4>1, <4>2
    <3>2. Cells(2, 1 + Cell(1)) = [k \in 1..Len(value) |-> Cell(2 + k - 1)]
      BY <3>1 DEF Cells
    <3>3. value = [k \in 1..Len(value) |-> value[k]]
      OBVIOUS
    <3>4. QED
      BY <2>5, <3>2, <3>3
  <2>7. CASE field.kind = "string"
    BY <2>6, <2>7 DEF Decoded
  <2>8. CASE field.kind = "holder"
    <3>1. value \o <<>> = value
      OBVIOUS
    <3>2. QED
      BY <2>6, <2>8, <3>1 DEF Decoded
  <2>9. QED
    BY <2>1, <2>7, <2>8
<1>4. QED
  BY <1>2, <1>3

\* Whoever counts along finds the number it expects.
LEMMA CheckFound ==
  ASSUME IInv, ContentInv, phase = "read", next <= Len(schema), Met(field, dataVersion)
  PROVE  /\ wire[end[next]] = integrityCounter
         /\ Cell(1) = integrityCounter
<1>1. /\ memPtr = Start(end, next) /\ next \in 1..Len(schema)
      /\ field = schema[next] /\ Segment(wire, end, field, dataVersion, next)
      /\ memPtr \in Nat /\ wire \in Seq(Int) /\ Len(wire) \in Nat
      /\ end[next] \in Nat /\ end[next] <= Len(wire) /\ next - 1 \in Nat
  BY ReaderStands
<1>2. /\ Numbering(wire, end, schema, dataVersion, next - 1, integrityCounter)
      /\ Checked(Len(schema))
  BY DEF ContentInv
<1>3. Numbering(wire, end, schema, dataVersion, next - 1, wire[end[next]])
  BY <1>1, <1>2 DEF Checked
<1>4. wire[end[next]] = integrityCounter
  BY <1>1, <1>2, <1>3, NumberingUnique
<1>5. end[next] = memPtr + 1
  BY <1>1 DEF Segment, Met
<1>6. QED
  BY <1>1, <1>4, <1>5 DEF Cell

\* A statement of the reader that takes what the writer stands for keeps
\* ContentInv.
LEMMA ReadKeepsContent ==
  ASSUME IInv, ContentInv, ReadStatement, IInv',
         integrityCounter' = IF Met(field, dataVersion) THEN integrityCounter + 1
                                                         ELSE integrityCounter,
         \A k \in 1..(next - 1) : received'[k] = received[k],
         NEW value, \A k : k = next => value = Copy(k),
         field.kind # "check" /\ reader < field.removed => received'[next] = value
  PROVE  ContentInv'
<1>1. /\ MessageTypeOK /\ phase = "read" /\ next <= Len(schema) /\ next \in Nat
      /\ next \in 1..Len(schema) /\ Len(schema) \in Nat /\ field = schema[next]
      /\ Numbering(wire, end, schema, dataVersion, next - 1, integrityCounter)
      /\ Written(Len(schema)) /\ Checked(Len(schema)) /\ Read(next - 1)
  BY FieldType DEF IInv, MessageTypeOK, ReadStatement, ContentInv
<1>2. /\ next' = next + 1 /\ schema' = schema /\ writer' = writer /\ reader' = reader
      /\ dataVersion' = dataVersion /\ phase' = phase /\ wire' = wire
      /\ sent' = sent /\ end' = end
  BY DEF ReadStatement
<1>3. \A k : Value(k)' = Value(k) /\ Copy(k)' = Copy(k)
  BY <1>2 DEF Value, Copy
<1>4. Numbering(wire, end, schema, dataVersion, next, integrityCounter')
  <2> DEFINE m == next - 1
  <2>1. /\ m \in Nat /\ m + 1 = next
        /\ Numbering(wire, end, schema, dataVersion, m, integrityCounter)
    BY <1>1
  <2> HIDE DEF m
  <2>2. /\ ~Met(schema[m + 1], dataVersion) =>
             Numbering(wire, end, schema, dataVersion, m + 1, integrityCounter)
        /\ Met(schema[m + 1], dataVersion) /\ wire[end[m + 1]] = integrityCounter =>
             Numbering(wire, end, schema, dataVersion, m + 1, integrityCounter + 1)
    BY <2>1, NumberingGoesOn
  <2>3. Met(field, dataVersion) => wire[end[next]] = integrityCounter
    BY <1>1, CheckFound
  <2>4. QED
    BY <1>1, <2>1, <2>2, <2>3
<1>5. Numbering(wire', end', schema', dataVersion', next' - 1, integrityCounter')
  <2>1. next' - 1 = next
    BY <1>1, <1>2
  <2>2. QED
    BY <1>2, <1>4, <2>1
<1>6. Written(Len(schema))' /\ Checked(Len(schema))'
  BY <1>1, <1>2, <1>3 DEF Written, Checked
<1>7. Read(next - 1)'
  <2>1. \A k \in 1..(next' - 1) : k \in 1..(next - 1) \/ k = next
    BY <1>1, <1>2
  <2>2. ASSUME NEW k \in 1..(next' - 1), schema[k].kind # "check", reader < schema[k].removed
        PROVE  received'[k] = Copy(k)
    BY <1>1, <2>1, <2>2 DEF Read
  <2>3. QED
    BY <1>2, <1>3, <2>2 DEF Read
<1>8. QED
  BY <1>1, <1>2, <1>5, <1>6, <1>7 DEF ContentInv

LEMMA ReadAddContent == IInv /\ ContentInv /\ ReadAdd => ContentInv'
<1> SUFFICES ASSUME IInv, ContentInv, ReadAdd PROVE ContentInv'
  OBVIOUS
<1>1. /\ MessageTypeOK /\ phase = "read" /\ next <= Len(schema) /\ next \in 1..Len(schema)
      /\ ReadStatement /\ field.kind # "check" /\ reader < field.removed
      /\ integrityCounter' = integrityCounter /\ field = schema[next] /\ field \in Fields
      /\ Default = DefaultOf(field) /\ received \in [1..Len(schema) -> Seq(Int)]
  BY FieldType, DefaultIs DEF IInv, ReadAdd, ReadStatement, MessageTypeOK, MessageValues
<1>2. /\ reader \in Nat /\ dataVersion \in Nat /\ dataVersion <= reader
      /\ field.added \in Nat /\ field.removed \in Nat
  BY <1>1 DEF MessageTypeOK, Agreed, Fields
<1>3. IInv' /\ ~Met(field, dataVersion)
  BY <1>1, ReadAddKeeps DEF Met
<1>4. /\ Value(next) \in Seq(Int) /\ (field.kind = "pod" => Len(Value(next)) = 1)
      /\ IF OnWire(field, dataVersion)
         THEN Holds(wire, memPtr, field, Value(next))
         ELSE Value(next) = DefaultOf(field)
  <2>1. memPtr = Start(end, next) /\ Written(Len(schema))
    BY <1>1, ReaderStands DEF ContentInv
  <2>2. QED
    BY <1>1, <2>1, ValueType DEF Written
<1>5. /\ received'[next] = Copy(next)
      /\ \A k \in 1..(next - 1) : received'[k] = received[k]
  <2>1. CASE dataVersion >= field.added
    <3>1. OnWire(field, dataVersion) /\ received' = [received EXCEPT ![next] = Decoded]
      BY <1>1, <1>2, <2>1 DEF OnWire, ReadAdd
    <3>2. Decoded = IF field.kind = "string" THEN Value(next) \o <<0>> ELSE Value(next)
      BY <1>1, <1>4, <3>1, DecodedIsValue
    <3>3. Copy(next) = Decoded
      BY <1>1, <2>1, <3>2 DEF Copy
    <3>4. QED
      BY <1>1, <3>1, <3>3
  <2>2. CASE ~(dataVersion >= field.added)
    <3>1. /\ ~OnWire(field, dataVersion)
          /\ received' = [received EXCEPT ![next] = DefaultOf(field)]
      BY <1>1, <2>2 DEF OnWire, ReadAdd
    <3>2. Copy(next) = DefaultOf(field)
      BY <1>1, <1>4, <2>2, <3>1 DEF Copy
    <3>3. QED
      BY <1>1, <3>1, <3>2
  <2>3. QED
    BY <2>1, <2>2
<1> DEFINE value == Copy(next)
<1>6. (\A k : k = next => value = Copy(k)) /\ received'[next] = value
  BY <1>5
<1> HIDE DEF value
<1>7. QED
  BY <1>1, <1>3, <1>5, <1>6, ReadKeepsContent

LEMMA ReadRemoveContent == IInv /\ ContentInv /\ ReadRemove => ContentInv'
<1> SUFFICES ASSUME IInv, ContentInv, ReadRemove PROVE ContentInv'
  OBVIOUS
<1>1. /\ MessageTypeOK /\ ReadStatement /\ field.kind # "check" /\ reader >= field.removed
      /\ next <= Len(schema)
      /\ integrityCounter' = integrityCounter /\ received' = received
  BY DEF IInv, ReadRemove, ReadStatement
<1>2. reader \in Nat /\ field.removed \in Nat
  BY <1>1, FieldType DEF MessageTypeOK, Fields
<1>3. IInv' /\ ~Met(field, dataVersion) /\ ~(reader < field.removed)
  BY <1>1, <1>2, ReadRemoveKeeps DEF Met
<1> DEFINE value == Copy(next)
<1>4. \A k : k = next => value = Copy(k)
  OBVIOUS
<1> HIDE DEF value
<1>5. QED
  BY <1>1, <1>3, <1>4, ReadKeepsContent

LEMMA ReadCheckContent == IInv /\ ContentInv /\ ReadCheckIntegrity => ContentInv'
<1> SUFFICES ASSUME IInv, ContentInv, ReadCheckIntegrity PROVE ContentInv'
  OBVIOUS
<1>1. /\ ReadStatement /\ field.kind = "check" /\ received' = received
      /\ integrityCounter' = IF dataVersion >= field.added THEN integrityCounter + 1
                                                           ELSE integrityCounter
  BY DEF ReadCheckIntegrity
<1>2. IInv' /\ (Met(field, dataVersion) <=> dataVersion >= field.added)
  BY <1>1, ReadCheckKeeps DEF Met, OnWire
<1> DEFINE value == Copy(next)
<1>3. \A k : k = next => value = Copy(k)
  OBVIOUS
<1> HIDE DEF value
<1>4. QED
  BY <1>1, <1>2, <1>3, ReadKeepsContent
----------------------------------------------------------------------------
LEMMA NothingCounted ==
  ASSUME NEW cells, NEW ends, NEW s, NEW v
  PROVE  Numbering(cells, ends, s, v, 1 - 1, 0)
<1>1. 1..(1 - 1) = {}
  OBVIOUS
<1>2. QED
  BY <1>1 DEF Numbering

LEMMA ContentInit == MessageInit => ContentInv
<1> SUFFICES ASSUME MessageInit PROVE ContentInv
  OBVIOUS
<1>1. next = 1 /\ phase = "write" /\ integrityCounter = 0 /\ 1..(next - 1) = {}
  BY DEF MessageInit
<1>2. QED
  BY <1>1, NothingCounted DEF ContentInv, Written, Checked

LEMMA TransferContent == IInv /\ ContentInv /\ Transfer => ContentInv'
<1> SUFFICES ASSUME IInv, ContentInv, Transfer PROVE ContentInv'
  OBVIOUS
<1>1. /\ phase = "write" /\ next = Len(schema) + 1
      /\ phase' = "read" /\ next' = 1 /\ integrityCounter' = 0
      /\ schema' = schema /\ writer' = writer /\ reader' = reader
      /\ dataVersion' = dataVersion /\ wire' = wire /\ sent' = sent /\ end' = end
  BY DEF Transfer
<1>2. Len(schema) \in Nat /\ next - 1 = Len(schema)
  BY <1>1 DEF IInv, MessageTypeOK
<1>3. Written(Len(schema)) /\ Checked(Len(schema))
  BY <1>1, <1>2 DEF ContentInv
<1>4. \A k : Value(k)' = Value(k)
  BY <1>1 DEF Value
<1>5. Written(Len(schema))' /\ Checked(Len(schema))'
  BY <1>1, <1>3, <1>4 DEF Written, Checked
<1>6. Read(next - 1)'
  <2>1. 1..(next' - 1) = {}
    BY <1>1
  <2>2. QED
    BY <2>1 DEF Read
<1>7. QED
  BY <1>1, <1>5, <1>6, NothingCounted DEF ContentInv

LEMMA ForwardContent ==
  ASSUME NEW r \in Versions, NEW v \in Versions, Forward(r, v)
  PROVE  ContentInv'
<1>1. phase' = "write" /\ next' = 1 /\ integrityCounter' = 0 /\ 1..(next' - 1) = {}
  BY DEF Forward
<1>2. QED
  BY <1>1, NothingCounted DEF ContentInv, Written, Checked

LEMMA ContentStep == IInv /\ ContentInv /\ [MessageNext]_messageVars => ContentInv'
<1> SUFFICES ASSUME IInv, ContentInv, [MessageNext]_messageVars PROVE ContentInv'
  OBVIOUS
<1>1. CASE \E r, v \in Versions : Forward(r, v)
  BY <1>1, ForwardContent
<1>2. CASE Transfer
  BY <1>2, TransferContent
<1>3. CASE WriteAdd \/ WriteRemove \/ WriteCheckIntegrity
  BY <1>3, WriteAddContent, WriteRemoveContent, WriteCheckContent
<1>4. CASE ReadAdd \/ ReadRemove \/ ReadCheckIntegrity
  BY <1>4, ReadAddContent, ReadRemoveContent, ReadCheckContent
<1>5. CASE UNCHANGED messageVars
  BY <1>5 DEF messageVars, ContentInv, Written, Checked, Read, Value, Copy
<1>6. QED
  BY <1>1, <1>2, <1>3, <1>4, <1>5 DEF MessageNext
----------------------------------------------------------------------------
LEMMA ContentIsRight == IInv /\ ContentInv => MessageArrives
<1> SUFFICES ASSUME IInv, ContentInv PROVE MessageArrives
  OBVIOUS
<1>1. IntegrityHolds
  <2>1. phase = "read" /\ next <= Len(schema) /\ field.kind = "check"
          /\ dataVersion >= field.added => Cell(1) = integrityCounter
    BY CheckFound DEF Met, OnWire
  <2>2. QED
    BY <2>1 DEF IntegrityHolds
\* What a reader that has come to the end holds.
<1>2. ASSUME Arrived, NEW k \in DOMAIN schema,
             schema[k].kind # "check", reader < schema[k].removed
      PROVE  received[k] = Copy(k) /\ Value(k) \in Seq(Int)
             /\ schema[k].kind \in {"pod", "string", "holder", "check"}
  <2>1. phase = "read" /\ next - 1 = Len(schema) /\ DOMAIN schema = 1..Len(schema)
    BY <1>2 DEF Arrived, IInv, MessageTypeOK
  <2>2. schema[k] \in Fields /\ Value(k) \in Seq(Int)
    BY <2>1, ValueType
  <2>3. Read(Len(schema))
    BY <2>1 DEF ContentInv
  <2>4. QED
    BY <1>2, <2>1, <2>2, <2>3 DEF Read, Fields
<1>3. FieldsArrive
  <2> SUFFICES ASSUME Arrived, NEW k \in DOMAIN schema, schema[k].kind # "check",
                      writer < schema[k].removed, reader < schema[k].removed
               PROVE  IF schema[k].kind = "string"
                      THEN SubSeq(received[k], 1, Len(sent[k])) = sent[k]
                      ELSE received[k] = sent[k]
    BY DEF FieldsArrive
  <2>1. received[k] = Copy(k) /\ Value(k) = sent[k] /\ sent[k] \in Seq(Int)
    BY <1>2 DEF Value
  <2>2. \A s \in Seq(Int) : SubSeq(s \o <<0>>, 1, Len(s)) = s /\ SubSeq(s, 1, Len(s)) = s
    <3> TAKE s \in Seq(Int)
    <3> DEFINE w == s \o <<0>>
               n == Len(s)
    <3>1. /\ w \in Seq(Int) /\ n \in Nat /\ Len(w) = n + 1
          /\ \A i \in 1..n : w[i] = s[i]
      OBVIOUS
    <3>2. s = [i \in 1..n |-> s[i]]
      OBVIOUS
    <3> HIDE DEF w, n
    <3>3. SubSeq(w, 1, n) = [i \in 1..n |-> w[i]]
      BY <3>1
    <3>4. SubSeq(w, 1, n) = s
      BY <3>1, <3>2, <3>3
    <3>5. QED
      BY <3>4 DEF w, n
  <2>3. CASE schema[k].kind = "string"
    BY <2>1, <2>2, <2>3 DEF Copy
  <2>4. CASE schema[k].kind # "string"
    BY <2>1, <2>4 DEF Copy
  <2>5. QED
    BY <2>3, <2>4
<1>4. DroppedFieldIsDefault
  <2> SUFFICES ASSUME Arrived, NEW k \in DOMAIN schema, schema[k].kind \in {"pod", "holder"},
                      writer >= schema[k].removed, reader < schema[k].removed
               PROVE  received[k] \in {<<0>>, <<>>}
    BY DEF DroppedFieldIsDefault
  <2>1. schema[k] \in Fields /\ writer \in Nat /\ schema[k].removed \in Nat
    <3>1. schema \in Seq(Fields) /\ writer \in Nat
      BY DEF IInv, MessageTypeOK
    <3>2. schema[k] \in Fields
      BY <3>1
    <3>3. QED
      BY <3>1, <3>2 DEF Fields
  <2>2. schema[k].kind # "check" /\ schema[k].kind # "string" /\ ~(writer < schema[k].removed)
    BY <2>1
  <2>3. received[k] = Value(k) /\ Value(k) = DefaultOf(schema[k])
    BY <1>2, <2>2 DEF Copy, Value
  <2>4. QED
    BY <2>3 DEF DefaultOf
<1>5. QED
  BY <1>1, <1>3, <1>4 DEF MessageArrives

THEOREM ContentAlwaysHolds == MessageSpec => [](IInv /\ ContentInv)
<1>1. MessageInit => IInv /\ ContentInv
  BY InitHolds, ContentInit
<1>2. IInv /\ ContentInv /\ [MessageNext]_messageVars => (IInv /\ ContentInv)'
  BY MessageStep, ContentStep
<1>3. QED
  BY <1>1, <1>2, PTL DEF MessageSpec

\* The numbers of the checks agree (serialization.h:105), every field both
\* programs have arrives, and one the writer has dropped has its default.
THEOREM MessageAlwaysArrives == MessageSpec => []MessageArrives
BY ContentIsRight, ContentAlwaysHolds, PTL
=============================================================================
