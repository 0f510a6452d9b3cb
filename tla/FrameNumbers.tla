---------------------------- MODULE FrameNumbers ----------------------------
(* Sequences of frames that have numbers, and of silence, which is 0. *)
EXTENDS Naturals, Sequences, FiniteSets

\* The numbered frames in a sequence, and how many there are.
Waiting(s) == {s[i] : i \in DOMAIN s} \ {0}
Numbered(s) == Cardinality({i \in DOMAIN s : s[i] # 0})

\* None overtakes another.
Increasing(s) == \A i, j \in DOMAIN s : i < j /\ s[i] # 0 /\ s[j] # 0 => s[i] < s[j]
=============================================================================
