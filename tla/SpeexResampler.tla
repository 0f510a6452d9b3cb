--------------------------- MODULE SpeexResampler ---------------------------
(***************************************************************************)
(* The state of one channel of the speex resampler                         *)
(* (subprojects/speex/resample.c), as its user changes ratio and quality   *)
(* between calls.  The memory holds filt_len - 1 samples of history, then  *)
(* the magic samples that a shorter filter left behind, then the chunk of  *)
(* input that is worked on.  The samples themselves are abstracted; where  *)
(* each of them lies is not.                                               *)
(***************************************************************************)
EXTENDS SpeexBasic

CONSTANTS
  Ratios,      \* pairs <<num, den>> that the user sets, already divided by the gcd
  BaseLengths, \* of the filters of the qualities
  Align,       \* filters of a reduced rate have a length that Align divides
  BufferSize,  \* buffer_size
  MaxWord,     \* the largest unsigned integer
  MaxIn, MaxOut

SpeexAssumption ==
  /\ \A r \in Ratios : r \in (Nat \ {0}) \X (Nat \ {0})
  /\ Align \in Nat \ {0} /\ BufferSize \in Nat \ {0} /\ MaxWord \in Nat \ {0}
  /\ \A b \in BaseLengths : b \in Nat \ {0} /\ b % Align = 0
  /\ Align % 2 = 0 /\ MaxIn \in Nat /\ MaxOut \in Nat

VARIABLES
  st,      \* SpeexResamplerState_: ratio, quality, filter, memory and position
  call,    \* the call in progress: what is left of input and output
  failed   \* the last change of the ratio failed

vars == <<st, call, failed>>

Num(s) == s.ratio[1]
Den(s) == s.ratio[2]

States == [ratio : Ratios, base : BaseLengths, filt : Nat, alloc : Nat, last : Nat, frac : Nat,
           magic : Nat, started : BOOLEAN]
Calls == [pc : {"idle", "magic", "chunk"}, in : 0..MaxIn, out : 0..MaxOut]

TypeOK == st \in States /\ call \in Calls /\ failed \in BOOLEAN

\* _muldiv, whose product may not fit.
MulDivFits(value, mul, div) ==
  LET major == value \div div  rest == value % div IN
  /\ rest <= MaxWord \div mul /\ major <= MaxWord \div mul
  /\ major * mul <= MaxWord - (rest * mul) \div div

\* The length of the filter, in update_filter.
Length(base, r) ==
  IF r[1] > r[2] THEN (((base * r[1]) \div r[2] - 1) \div Align) * Align + Align ELSE base
----------------------------------------------------------------------------
(* update_filter: the memory after a change of the filter's length. *)

MutGrown(s, len, olen) == s.last           \* mutant: the position is not adjusted
Grown(s, len, olen) == s.last + (len - olen) \div 2

Longer(s, len) ==
  LET olen == s.filt + 2 * s.magic IN
  IF len > olen THEN [s EXCEPT !.last = Grown(s, len, olen), !.magic = 0, !.filt = len]
                ELSE [s EXCEPT !.magic = (olen - len) \div 2, !.filt = len]

MutLeft(s, len) == (len - s.filt) \div 2 + s.magic   \* mutant: the lengths are swapped
Left(s, len) == (s.filt - len) \div 2 + s.magic

Shorter(s, len) == [s EXCEPT !.magic = Left(s, len), !.filt = len]

Allocated(s, len) ==
  IF len - 1 + BufferSize > s.alloc THEN [s EXCEPT !.alloc = len - 1 + BufferSize] ELSE s

\* When memory cannot be had only the filter is the old one.
Updated(s, len, ok) ==
  LET a == Allocated(s, len) IN
  CASE ~ok -> s
    [] ok /\ ~s.started -> [a EXCEPT !.filt = len]
    [] ok /\ s.started /\ len > s.filt -> Longer(a, len)
    [] ok /\ s.started /\ len < s.filt -> Shorter(a, len)
    [] OTHER -> a
----------------------------------------------------------------------------
\* speex_resampler_init_frac
Init ==
  /\ \E r \in Ratios, b \in BaseLengths :
       st = [ratio |-> r, base |-> b, filt |-> Length(b, r), started |-> FALSE,
             alloc |-> Length(b, r) - 1 + BufferSize, last |-> 0, frac |-> 0, magic |-> 0]
  /\ call = [pc |-> "idle", in |-> 0, out |-> 0] /\ failed = FALSE

MutRescaled(frac, new, old) == frac        \* mutant: the fraction is not scaled
Rescaled(frac, new, old) == Least((frac * new) \div old, new - 1)

\* speex_resampler_set_rate_frac: when the fraction cannot be computed the ratio
\* is the new one, the fraction the old one and the filter is not updated.
SetRate ==
  /\ call.pc = "idle"
  /\ \E r \in Ratios \ {st.ratio}, ok \in BOOLEAN :
       IF MulDivFits(st.frac, r[2], Den(st))
       THEN /\ st' = Updated([st EXCEPT !.ratio = r, !.frac = Rescaled(@, r[2], Den(st))],
                             Length(st.base, r), ok)
            /\ failed' = ~ok
       ELSE /\ st' = [st EXCEPT !.ratio = r] /\ failed' = TRUE
  /\ UNCHANGED call

\* speex_resampler_set_quality
SetQuality ==
  /\ call.pc = "idle"
  /\ \E b \in BaseLengths \ {st.base}, ok \in BOOLEAN :
       /\ st' = Updated([st EXCEPT !.base = b], Length(b, st.ratio), ok)
       /\ failed' = (failed \/ ~ok)
  /\ UNCHANGED call

\* speex_resampler_skip_zeros
SkipZeros ==
  /\ call.pc = "idle"
  /\ st' = [st EXCEPT !.last = st.filt \div 2]
  /\ UNCHANGED <<call, failed>>

\* speex_resampler_reset_mem
ResetMem ==
  /\ call.pc = "idle"
  /\ st' = [st EXCEPT !.last = 0, !.magic = 0, !.frac = 0]
  /\ UNCHANGED <<call, failed>>

\* speex_resampler_process_float; after a failed change the user does
\* not go on with the ratio.
Call ==
  /\ call.pc = "idle" /\ ~failed
  /\ \E in \in 0..MaxIn, out \in 0..MaxOut :
       call' = [pc |-> IF st.magic > 0 THEN "magic" ELSE "chunk", in |-> in, out |-> out]
  /\ UNCHANGED <<st, failed>>

\* speex_resampler_magic: the input is the magic samples.
Magic ==
  /\ call.pc = "magic"
  /\ LET p == Process(Num(st), Den(st), st.last, st.frac, st.magic, call.out) IN
     /\ st' = [st EXCEPT !.last = p.last, !.frac = p.frac, !.magic = @ - p.consumed,
                         !.started = TRUE]
     /\ call' = [call EXCEPT !.pc = IF st'.magic > 0 THEN "idle" ELSE "chunk",
                             !.out = @ - p.produced]
  /\ UNCHANGED failed

MutRoom == st.alloc - st.filt - 1          \* mutant: off by two
Room == st.alloc - (st.filt - 1)

\* One chunk, of the room that is left in the memory.
Chunk ==
  /\ call.pc = "chunk" /\ call.in > 0 /\ call.out > 0
  /\ LET p == Process(Num(st), Den(st), st.last, st.frac, Least(call.in, Room), call.out) IN
     /\ st' = [st EXCEPT !.last = p.last, !.frac = p.frac, !.started = TRUE]
     /\ call' = [call EXCEPT !.in = @ - p.consumed, !.out = @ - p.produced]
  /\ UNCHANGED failed

Return ==
  /\ call.pc = "chunk" /\ (call.in = 0 \/ call.out = 0)
  /\ call' = [pc |-> "idle", in |-> 0, out |-> 0]
  /\ UNCHANGED <<st, failed>>
----------------------------------------------------------------------------
Working == Magic \/ Chunk \/ Return
Next == SetRate \/ SetQuality \/ SkipZeros \/ ResetMem \/ Call \/ Working

Spec == Init /\ [][Next]_vars
----------------------------------------------------------------------------
(* Properties *)

\* The memory has room for the history, for the magic samples twice (as much as
\* update_filter moves them) and for a chunk.
MemoryFits ==
  /\ st.filt - 1 + 2 * st.magic < st.alloc
  /\ Room >= BufferSize

\* The position is within the filter's table, but after a change that failed.
FractionInTable == ~failed => st.frac < Den(st)

\* How far the middle of the filter is behind the newest sample.
Delay(s) == s.filt - 2 + s.magic - s.last - s.filt \div 2

\* A change of ratio or quality neither skips nor repeats input: the filter's
\* middle stays where it was.
DelayStays ==
  (st.ratio # st'.ratio \/ st.base # st'.base) /\ st.started => Delay(st') = Delay(st)

\* No chunk leaves the call where it was: the loops over them come to an end.
ChunkAdvances == Chunk => call'.in + call'.out < call.in + call.out
----------------------------------------------------------------------------
(* The inductive invariant that the proofs of ResamplerProofs rest on. *)

\* A filter has two halves; only one that was used leaves magic samples.
FilterFits ==
  /\ st.filt % 2 = 0 /\ st.filt > 0
  /\ ~st.started => st.magic = 0

\* A call goes on only with the ratio it was made for.
CallHasRatio == failed => call.pc = "idle"

IInv == TypeOK /\ MemoryFits /\ FractionInTable /\ FilterFits /\ CallHasRatio
----------------------------------------------------------------------------
(* What does not hold, see README.md. *)

\* The position is within the filter's table, whatever happened.
FractionAlways == st.frac < Den(st)
=============================================================================
