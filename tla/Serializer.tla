----------------------------- MODULE Serializer -----------------------------
(***************************************************************************)
(* utils/serialization.h: a message travels between programs of different  *)
(* versions.  Both run the same list of statements, generated from one     *)
(* schema, on a FixedMemWriteSerializer or a FixedMemReadSerializer:       *)
(* SERIALIZATION_ADD for a field, remove() for a field that a later        *)
(* version of the program dropped, checkIntegrity() in between.  Nothing   *)
(* on the wire says which field it is, so both ends must agree on every    *)
(* one from the version of the data alone.                                 *)
(*                                                                         *)
(* Memory is a sequence of cells; a plain field, a length and a check take *)
(* one, a string one per character.  Every value is a sequence of cells.   *)
(***************************************************************************)
EXTENDS Integers, Sequences

CONSTANTS
  Versions,    \* versions of the programs and of the data
  Never,       \* the "removed" of fields no program has dropped
  Schemas,     \* sequences of [kind, added, removed]
  Plain, Texts,                  \* values of plain fields, of strings
  MaxHops      \* transfers of one message, each read forwarded again

Fields == [kind : {"pod", "string", "holder", "check"}, added : Nat, removed : Nat]

ASSUME VersionsAssumption == Versions \subseteq Nat /\ Never \in Nat
                             /\ \A c \in Versions : c < Never
ASSUME SchemasAssumption == \A s \in Schemas : s \in Seq(Fields)
ASSUME CellsAssumption ==
  /\ \A value \in Plain : value \in Seq(Int) /\ Len(value) = 1
  /\ \A value \in Texts : value \in Seq(Int)

VARIABLES
  schema,      \* the fields, in the order of the statements
  writer, reader, dataVersion,   \* versions: the two programs, the data
  phase,       \* "write", "read"
  next,        \* the statement to run
  integrityCounter,
  wire,        \* the buffer, as far as it was written
  memPtr,      \* the reader's position: cells it has consumed
  sent, received,                \* the message in the two programs
  end,         \* history: length of the wire after each statement
  hops         \* transfers done

messageVars == <<schema, writer, reader, dataVersion, phase, next, integrityCounter,
          wire, memPtr, sent, received, end, hops>>

field == schema[next]
Default == [pod |-> <<0>>, string |-> <<>>, holder |-> <<>>, check |-> <<>>][field.kind]
Stale == <<9>>                       \* what an object holds before it is read

\* Data is never newer than the programs that handle it.
Agreed(w, r, v) == v <= w /\ v <= r

MessageInit ==
  /\ schema \in Schemas
  /\ writer \in Versions /\ reader \in Versions /\ dataVersion \in Versions
  /\ Agreed(writer, reader, dataVersion)
  /\ sent \in {o \in [DOMAIN schema -> Plain \cup Texts] :
                \A k \in DOMAIN schema :
                  o[k] \in IF schema[k].kind = "pod" THEN Plain ELSE Texts}
  /\ phase = "write" /\ next = 1 /\ integrityCounter = 0
  /\ wire = <<>> /\ memPtr = 0 /\ hops = 0
  /\ received = [k \in DOMAIN schema |-> Stale]
  /\ end = [k \in DOMAIN schema |-> 0]
----------------------------------------------------------------------------
(* Statements of the writer. *)

\* serialize(): plain data as it is, strings after their length.
Encoded(value) == IF field.kind = "pod" THEN value ELSE <<Len(value)>> \o value

Put(cells) ==
  /\ wire' = wire \o cells
  /\ end' = [end EXCEPT ![next] = Len(wire) + Len(cells)]
  /\ next' = next + 1
  /\ UNCHANGED <<schema, writer, reader, dataVersion, phase, memPtr, received, hops>>

\* A field the program still has.  Data of before the field has no room for it,
\* and the writer's own copy takes the default as well.  A field that is newer
\* than the program is no statement of it: the data is older than the field.
WriteAdd ==
  /\ phase = "write" /\ next <= Len(schema)
  /\ field.kind # "check" /\ writer < field.removed
  /\ IF dataVersion >= field.added
     THEN Put(Encoded(sent[next])) /\ UNCHANGED sent
     ELSE Put(<<>>) /\ sent' = [sent EXCEPT ![next] = Default]
  /\ UNCHANGED integrityCounter

MutWriteRemove ==                    \* mutant: forgets the older data
  /\ phase = "write" /\ next <= Len(schema)
  /\ field.kind # "check" /\ writer >= field.removed
  /\ Put(<<>>)
  /\ UNCHANGED <<sent, integrityCounter>>
WriteRemove ==
  /\ phase = "write" /\ next <= Len(schema)
  /\ field.kind # "check" /\ writer >= field.removed
  /\ Put(IF dataVersion >= field.added /\ dataVersion < field.removed
                 THEN Encoded(Default) ELSE <<>>)
  /\ UNCHANGED <<sent, integrityCounter>>

WriteCheckIntegrity ==
  /\ phase = "write" /\ next <= Len(schema) /\ field.kind = "check"
  /\ IF dataVersion >= field.added
     THEN Put(<<integrityCounter>>) /\ integrityCounter' = integrityCounter + 1
     ELSE Put(<<>>) /\ UNCHANGED integrityCounter
  /\ UNCHANGED sent
----------------------------------------------------------------------------
(* The transfer, then the statements of the reader. *)

Transfer ==                          \* resetBuffers, setVersion at the reader
  /\ phase = "write" /\ next = Len(schema) + 1
  /\ phase' = "read" /\ next' = 1 /\ integrityCounter' = 0 /\ memPtr' = 0
  /\ UNCHANGED <<schema, writer, reader, dataVersion, wire, sent, received, end, hops>>

\* The k-th cell beyond memPtr; memory beyond the message reads as anything.
Cell(k) == IF memPtr + k <= Len(wire) THEN wire[memPtr + k] ELSE 0
Cells(a, b) == [k \in 1..(b - a + 1) |-> Cell(a + k - 1)]

\* Cells taken by the field, and the value made of them: std::string is
\* resized to one character more than was sent, which stays zero.
Width == IF field.kind = "pod" THEN 1 ELSE 1 + Cell(1)
Decoded ==
  IF field.kind = "pod" THEN Cells(1, 1)
  ELSE Cells(2, 1 + Cell(1)) \o (IF field.kind = "string" THEN <<0>> ELSE <<>>)

ReadStatement ==
  /\ phase = "read" /\ next <= Len(schema)
  /\ next' = next + 1
  /\ UNCHANGED <<schema, writer, reader, dataVersion, phase, wire, sent, end, hops>>

MutReadAdd ==                        \* mutant: no default for older data
  /\ ReadStatement
  /\ field.kind # "check" /\ reader < field.removed
  /\ IF dataVersion >= field.added
     THEN /\ received' = [received EXCEPT ![next] = Decoded]
          /\ memPtr' = memPtr + Width
     ELSE UNCHANGED <<received, memPtr>>
  /\ UNCHANGED integrityCounter
ReadAdd ==
  /\ ReadStatement
  /\ field.kind # "check" /\ reader < field.removed
  /\ IF dataVersion >= field.added
     THEN /\ received' = [received EXCEPT ![next] = Decoded]
          /\ memPtr' = memPtr + Width
     ELSE /\ received' = [received EXCEPT ![next] = Default]
          /\ UNCHANGED memPtr
  /\ UNCHANGED integrityCounter

ReadRemove ==                        \* read and thrown away
  /\ ReadStatement
  /\ field.kind # "check" /\ reader >= field.removed
  /\ memPtr' = IF dataVersion >= field.added /\ dataVersion < field.removed
               THEN memPtr + Width ELSE memPtr
  /\ UNCHANGED <<received, integrityCounter>>

MutReadCheckIntegrity ==             \* mutant: the counter stays
  /\ ReadStatement
  /\ field.kind = "check"
  /\ memPtr' = IF dataVersion >= field.added THEN memPtr + 1 ELSE memPtr
  /\ UNCHANGED <<received, integrityCounter>>
ReadCheckIntegrity ==
  /\ ReadStatement
  /\ field.kind = "check"
  /\ IF dataVersion >= field.added
     THEN memPtr' = memPtr + 1 /\ integrityCounter' = integrityCounter + 1
     ELSE UNCHANGED <<memPtr, integrityCounter>>
  /\ UNCHANGED received

Arrived == phase = "read" /\ next = Len(schema) + 1

\* The reader sends what it has got to a program of another version.
Forward(r, v) ==
  /\ Arrived /\ hops < MaxHops - 1
  /\ Agreed(reader, r, v)
  /\ writer' = reader /\ reader' = r /\ dataVersion' = v
  /\ sent' = [k \in DOMAIN schema |->
               IF reader < schema[k].removed THEN received[k] ELSE Stale]
  /\ phase' = "write" /\ next' = 1 /\ integrityCounter' = 0
  /\ wire' = <<>> /\ memPtr' = 0 /\ hops' = hops + 1
  /\ received' = [k \in DOMAIN schema |-> Stale]
  /\ end' = [k \in DOMAIN schema |-> 0]
  /\ UNCHANGED schema

MessageNext ==
  \/ WriteAdd \/ WriteRemove \/ WriteCheckIntegrity
  \/ Transfer
  \/ ReadAdd \/ ReadRemove \/ ReadCheckIntegrity
  \/ \E r, v \in Versions : Forward(r, v)

MessageSpec == MessageInit /\ [][MessageNext]_messageVars
----------------------------------------------------------------------------
(* Properties *)

\* Before every statement the reader stands where the writer stood before the
\* same statement, whatever the two versions and that of the data: a removed
\* field of old data is stepped over, one that was not yet there is not.
InStep ==
  phase = "read" => memPtr = IF next = 1 THEN 0 ELSE end[next - 1]

\* serialization.h:105, ASSERT_MSG "Serialization integrity broken!": the
\* check the reader meets is the one it counts.
IntegrityHolds ==
  phase = "read" /\ next <= Len(schema) =>
    (field.kind = "check" /\ dataVersion >= field.added => Cell(1) = integrityCounter)

\* Both programs end with the same message, in every field both have: what was
\* sent, or the default on both sides if the data is older than the field.
\* A std::string ends in what was sent; StringArrives says what more it gets.
FieldsArrive ==
  Arrived =>
    \A k \in DOMAIN schema :
      schema[k].kind # "check" /\ writer < schema[k].removed /\ reader < schema[k].removed =>
        IF schema[k].kind = "string"
        THEN SubSeq(received[k], 1, Len(sent[k])) = sent[k]
        ELSE received[k] = sent[k]

\* A field that only the reader still has is there with its default, never
\* with what the object held before.
DroppedFieldIsDefault ==
  Arrived =>
    \A k \in DOMAIN schema :
      schema[k].kind \in {"pod", "holder"} /\ writer >= schema[k].removed
        /\ reader < schema[k].removed => received[k] \in {<<0>>, <<>>}

\* The message arrives.
MessageArrives == IntegrityHolds /\ FieldsArrive /\ DroppedFieldIsDefault

\* serialization.h:76: "no +1 for termination needed in c++11 and later, but to
\* be sure...": the extra character is meant to change nothing, a std::string
\* arrives as it was sent.
StringArrives ==
  Arrived =>
    \A k \in DOMAIN schema :
      schema[k].kind = "string" /\ writer < schema[k].removed /\ reader < schema[k].removed =>
        received[k] = sent[k]
=============================================================================
