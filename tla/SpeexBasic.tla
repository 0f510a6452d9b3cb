----------------------------- MODULE SpeexBasic -----------------------------
(***************************************************************************)
(* The arithmetic of the speex resampler (subprojects/speex/resample.c): a *)
(* position in the input is a sample and a fraction, and every output      *)
(* sample moves it on by the ratio num / den.                              *)
(***************************************************************************)
EXTENDS Integers

Least(a, b) == IF a < b THEN a ELSE b
RoundUp(a, b) == (a + b - 1) \div b

\* resampler_basic_*: outputs until the position leaves the input or the output
\* is full.
Outputs(num, den, last, frac, in, out) ==
  IF last >= in THEN 0 ELSE Least(out, RoundUp((in - last) * den - frac, num))

\* speex_resampler_process_native: what was passed is consumed.
Process(num, den, last, frac, in, out) ==
  LET produced == Outputs(num, den, last, frac, in, out)
      position == last * den + frac + produced * num
      consumed == Least(in, position \div den)
  IN [consumed |-> consumed, produced |-> produced,
      last |-> position \div den - consumed, frac |-> position % den]
=============================================================================
