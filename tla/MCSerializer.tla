---------------------------- MODULE MCSerializer ----------------------------
(* Schemas for Serializer: every sequence of three fields out of eight that *)
(* were added and dropped at different versions, checks among them.         *)
EXTENDS Serializer

F(kind, added, removed) == [kind |-> kind, added |-> added, removed |-> removed]

MCFields == {F("pod", 1, 4), F("pod", 2, 4), F("pod", 1, 3),
             F("string", 1, 4), F("string", 2, 3), F("holder", 1, 2),
             F("check", 1, 4), F("check", 2, 4)}
MCSchemas == [1..3 -> MCFields]

\* Plain values are one cell, strings have up to two characters.
MCPlain == {<<5>>}
MCTexts == {<<>>, <<6, 7>>}
=============================================================================
