--------------------------- MODULE ResamplerFront ---------------------------
(***************************************************************************)
(* What stands between a backend and the user's data callback              *)
(* (cubeb_resampler.cpp, cubeb_resampler_internal.h): input kept until it  *)
(* is asked for, delay lines, and a speex resampler for each direction     *)
(* whose rate differs.  Frames that are passed on as they are have numbers *)
(* and 0 is silence; of those that are resampled only the count is known,  *)
(* and ratios are exact where the code has floats.                         *)
(***************************************************************************)
EXTENDS SpeexBasic, FrameNumbers

CONSTANTS
  FrontKinds,    \* of streams, see FrontAssumption
  FrontRatios,   \* pairs <<num, den>>: the rate before and after resampling
  HalfFilter,    \* half the length of the speex resampler's filter
  Keep,          \* min_buffered_audio_frame
  MaxGive,       \* frames a backend gives or asks for at once
  MaxRecorded,   \* bound: recorded frames with a number
  Starved        \* the backend may give a delay line less than it has to pass on

Lines == {"delayed input", "delayed output"}
FrontAssumption ==
  /\ FrontKinds \subseteq Lines \cup {"pass", "input", "output", "both"}
  /\ \A r \in FrontRatios : r \in (Nat \ {0}) \X (Nat \ {0})
  /\ HalfFilter \in Nat \ {0} /\ Keep \in Nat /\ MaxGive \in Nat \ {0} /\ MaxRecorded \in Nat
  /\ Starved \in BOOLEAN

VARIABLES
  kind,       \* which processors the stream has
  in, out,    \* the processors: [ratio, left, pos], of a delay line without a ratio
  buffer,     \* the input a passthrough or a delay line has
  draining,
  recorded,   \* how many numbered frames were recorded
  passed,     \* how many of them the callback was given, and how many were dropped
  fill        \* the last call: [needed, asked, got, made, result]

vars == <<kind, in, out, buffer, draining, recorded, passed, fill>>

Frames == 0..MaxRecorded
TypeOK ==
  /\ kind \in FrontKinds /\ draining \in BOOLEAN
  /\ in.left \in Nat /\ out.left \in Nat /\ buffer \in Seq(Frames)
  /\ recorded \in Frames /\ passed.given \in Nat /\ passed.dropped \in Nat
----------------------------------------------------------------------------
(* cubeb_resampler_speex_one_way and delay_line *)

NoRatio == <<0, 0>>
IsLine(p) == p.ratio = NoRatio
DelayLine(frames) == [ratio |-> NoRatio, left |-> frames, pos |-> <<0, 0>>]

\* speex_resampler_process_interleaved_*
Speex(p, frames, wanted) ==
  IF frames = 0 \/ wanted = 0 THEN [consumed |-> 0, produced |-> 0, pos |-> p.pos]
  ELSE LET r == Process(p.ratio[1], p.ratio[2], p.pos[1], p.pos[2], frames, wanted)
       IN [consumed |-> r.consumed, produced |-> r.produced, pos |-> <<r.last, r.frac>>]

\* The constructor feeds the resampler silence for its latency.
OneWay(r) ==
  LET p == [ratio |-> r, left |-> 0, pos |-> <<0, 0>>]
  IN [p EXCEPT !.pos = Speex(p, HalfFilter, HalfFilter * r[2] + 1).pos]

\* The latency, in frames after resampling.
LatencyOf(r) == (HalfFilter * r[2] + r[1] \div 2) \div r[1]

MutNeeded(p, frames) ==                        \* mutant: rounded down
  IF IsLine(p) THEN frames
  ELSE IF frames <= p.left THEN 0 ELSE ((frames - p.left) * p.ratio[1]) \div p.ratio[2]
\* input_needed_for_output
Needed(p, frames) ==
  IF IsLine(p) THEN frames
  ELSE IF frames <= p.left THEN 0 ELSE RoundUp((frames - p.left) * p.ratio[1], p.ratio[2])

MutOutputFor(p, frames) == RoundUp((frames + p.left) * p.ratio[2], p.ratio[1])  \* mutant: rounded up
\* output_for_input
OutputFor(p, frames) == ((frames + p.left) * p.ratio[2]) \div p.ratio[1]

\* output: what comes out of what is there, and what stays.
Output(p, frames) ==
  LET there == Least(p.left, frames)
      r == IF IsLine(p) THEN [consumed |-> there, produced |-> there, pos |-> p.pos]
                        ELSE Speex(p, p.left, frames)
  IN [made |-> r.produced, used |-> r.consumed,
      rest |-> [p EXCEPT !.left = @ - r.consumed, !.pos = r.pos]]

\* drop_audio_if_needed drops the oldest frames.
Dropped(p) == [p EXCEPT !.left = Least(@, Keep)]
Surplus(s) == IF Len(s) > Keep THEN Len(s) - Keep ELSE 0

Silence(n) == [i \in 1..n |-> 0]
Recorded(n) == [i \in 1..n |-> recorded + i]
From(s, n) == SubSeq(s, n + 1, Len(s))
----------------------------------------------------------------------------
\* cubeb_resampler_create
Init ==
  /\ kind \in FrontKinds
  /\ \E r, s \in FrontRatios :
       /\ in = CASE kind \in {"input", "both", "delayed output"} -> OneWay(r)
                 [] OTHER -> DelayLine(0)
       /\ out = CASE kind \in {"output", "both", "delayed input"} -> OneWay(s)
                  [] kind = "delayed output" -> DelayLine(LatencyOf(r))
                  [] OTHER -> DelayLine(0)
       /\ buffer = IF kind = "delayed input" THEN Silence(LatencyOf(s)) ELSE <<>>
  /\ draining = FALSE /\ recorded = 0 /\ passed = [given |-> 0, dropped |-> 0]
  /\ fill = [needed |-> 0, asked |-> 0, got |-> 0, made |-> 0, result |-> 0]

\* A backend goes on until it gets an error or too little.
Going == fill.result >= fill.needed

\* The buffer after "used" frames of "full" were popped and the surplus dropped.
KeepRest(full, used, given) ==
  LET rest == From(full, used) IN
  /\ buffer' = From(rest, Surplus(rest))
  /\ passed' = [given |-> passed.given + Numbered(given),
                dropped |-> passed.dropped + Numbered(SubSeq(rest, 1, Surplus(rest)))]

MutPopped(all, frames) == Len(all)         \* mutant: all that was there is popped
Popped(all, frames) == Least(Len(all), frames)

\* passthrough_resampler::fill of what was recorded.  Too little is made up with
\* silence, which then stays in the buffer.
Pass ==
  /\ Going /\ kind = "pass"
  /\ \E count \in 0..MaxGive, frames \in 1..MaxGive : \E got \in -1..frames :
       /\ recorded + count <= MaxRecorded
       /\ LET all == buffer \o Recorded(count)
              full == all \o Silence(IF Len(all) < frames THEN frames - Len(all) ELSE 0)
          IN KeepRest(full, Popped(all, frames), SubSeq(full, 1, frames))
       /\ recorded' = recorded + count
       /\ fill' = [needed |-> frames, asked |-> frames, got |-> got, made |-> frames, result |-> got]
  /\ UNCHANGED <<kind, in, out, draining>>

\* The same for a stream that only plays, or has nothing recorded now.
PassNoInput ==
  /\ Going /\ kind = "pass"
  /\ \E frames \in 1..MaxGive : \E got \in -1..frames :
       fill' = [needed |-> frames, asked |-> frames, got |-> got, made |-> 0, result |-> got]
  /\ UNCHANGED <<kind, in, out, buffer, draining, recorded, passed>>

\* fill_internal_input.  What the callback took is divided by what it was given,
\* as integers.
InputOnly ==
  /\ Going /\ kind = "input"
  /\ \E count \in 1..MaxGive :
       LET n == OutputFor(in, count)
           full == [in EXCEPT !.left = @ + count]
           o == Output(full, n)
       IN IF n = 0
          THEN /\ in' = full
               /\ fill' = [needed |-> count, asked |-> 0, got |-> 0, made |-> 0, result |-> count]
          ELSE /\ in' = o.rest
               /\ \E got \in -1..n :
                    fill' = [needed |-> o.used, asked |-> n, got |-> got, made |-> o.made,
                             result |-> IF got = n THEN o.used ELSE IF got = -1 /\ n = 1 THEN -o.used ELSE 0]
  /\ UNCHANGED <<kind, out, buffer, draining, recorded, passed>>

\* The output processor is given what the callback returned and fills the buffer
\* of the backend from it; of a duplex stream what is too old is dropped.
Play(frames, n, got, made, trim) ==
  IF got < 0
  THEN /\ draining' = TRUE /\ out' = out
       /\ fill' = [needed |-> frames, asked |-> n, got |-> got, made |-> made, result |-> got]
  ELSE LET o == Output([out EXCEPT !.left = @ + got], frames) IN
       /\ draining' = (got < n) /\ out' = (IF trim THEN Dropped(o.rest) ELSE o.rest)
       /\ fill' = [needed |-> frames, asked |-> n, got |-> got, made |-> made, result |-> o.made]

\* fill_internal_output
OutputOnly ==
  /\ Going /\ kind = "output" /\ ~draining
  /\ \E frames \in 1..MaxGive :
       LET n == Needed(out, frames) IN
       \E got \in -1..n : Play(frames, n, got, 0, FALSE)
  /\ UNCHANGED <<kind, in, buffer, recorded, passed>>

\* Both fill what is left, once the callback returned too little.
Drain ==
  /\ Going /\ draining
  /\ \E frames \in 1..MaxGive :
       LET o == Output(out, frames) IN
       /\ out' = o.rest
       /\ fill' = [needed |-> frames, asked |-> 0, got |-> 0, made |-> 0, result |-> o.made]
  /\ UNCHANGED <<kind, in, buffer, draining, recorded, passed>>

\* delay_line::output: too short a line is read beyond its end, and not popped.
Delayed(count, n, error) ==
  LET all == buffer \o Recorded(count) IN
  /\ recorded + count <= MaxRecorded /\ (Starved \/ Len(all) >= n)
  /\ recorded' = recorded + count
  /\ LET used == IF Len(all) >= n THEN n ELSE 0
         given == SubSeq(all, 1, Least(Len(all), n))
     IN IF error
        THEN /\ buffer' = From(all, used)
             /\ passed' = [passed EXCEPT !.given = @ + Numbered(given)]
        ELSE KeepRest(all, used, given)
  /\ in' = in

\* fill_internal_duplex: the input, resampled or delayed, is what the callback is
\* to answer; an error returns before anything is dropped.
Duplex ==
  /\ Going /\ kind \in {"both"} \cup Lines /\ ~draining
  /\ \E frames \in 1..MaxGive, count \in 0..MaxGive :
       LET n == Needed(out, frames)
           o == Output([in EXCEPT !.left = @ + count], n)
       IN \E got \in -1..n :
            /\ Play(frames, n, got, IF IsLine(in) THEN n ELSE o.made, TRUE)
            /\ IF IsLine(in) THEN Delayed(count, n, got < 0)
               ELSE /\ in' = IF got < 0 THEN o.rest ELSE Dropped(o.rest)
                    /\ UNCHANGED <<buffer, recorded, passed>>
  /\ UNCHANGED kind

\* The same when the backend has no input to give.
DuplexNoInput ==
  /\ Going /\ kind \in {"both"} \cup Lines /\ ~draining
  /\ \E frames \in 1..MaxGive :
       LET n == Needed(out, frames) IN
       \E got \in -1..n :
         /\ Play(frames, n, got, 0, TRUE)
         /\ in' = IF got < 0 THEN in ELSE Dropped(in)
         /\ IF got < 0 THEN UNCHANGED <<buffer, passed>> ELSE KeepRest(buffer, 0, <<>>)
  /\ UNCHANGED <<kind, recorded>>

Next == Pass \/ PassNoInput \/ InputOnly \/ OutputOnly \/ Drain \/ Duplex \/ DuplexNoInput

Spec == Init /\ [][Next]_vars
----------------------------------------------------------------------------
(* Properties *)

\* Every frame recorded was given to the callback once, was dropped for being too
\* old, or waits in its place: none is lost, given twice or overtaken.
InputInOrder ==
  /\ passed.given + passed.dropped <= recorded
  /\ Waiting(buffer) = (passed.given + passed.dropped + 1)..recorded
  /\ Increasing(buffer)

\* "The number of output frames will be exactly equal" to what was needed, unless
\* the callback returned less than it was asked for.
ExactOutput ==
  kind \in {"output", "both", "delayed output", "delayed input"} /\ ~draining
    => fill.result = fill.needed

\* An input that is resampled alone gives the callback as much as it says, but for
\* the frames that fit between two of the recording when its rate is raised.
ExactInput == kind = "input" => fill.asked - fill.made <= (in.ratio[2] - 1) \div in.ratio[1]

\* What waits to be resampled stays below a bound that only the ratio sets, so that
\* none is dropped as too old, and a delay line on the output keeps its length.
Backlog ==
  /\ ~draining => IF kind = "delayed output" THEN out.left = LatencyOf(in.ratio)
                  ELSE IsLine(out) \/ out.left * out.ratio[1] < out.ratio[1] + out.ratio[2]
  /\ kind = "input" => in.left * in.ratio[2] < in.ratio[1] + in.ratio[2]
\* A call of cubeb_resampler_fill does what its header says, but for the errors of
\* an input that is resampled alone (see below).
FillIsRight == InputInOrder /\ ExactOutput /\ ExactInput /\ Backlog
----------------------------------------------------------------------------
(* What does not hold, see README.md. *)

\* "CUBEB_ERROR on error" (cubeb_resampler.h).
ErrorIsReturned == fill.got < 0 => fill.result < 0

\* Silence that made up for missing input is not heard twice.
SilenceOnce == kind = "pass" => \A i \in DOMAIN buffer : buffer[i] # 0
----------------------------------------------------------------------------
(* The inductive invariant that the proofs of ResamplerProofs rest on. *)

\* What is too old is never young enough to be waiting for its turn.
KeepsEnough == \A r \in FrontRatios : LatencyOf(r) <= Keep /\ RoundUp(r[2], r[1]) <= Keep

Resamplers == {p \in [ratio : FrontRatios, left : Nat, pos : Nat \X Nat] : p.pos[2] < p.ratio[2]}
DelayLines == {DelayLine(n) : n \in Nat}
Resampled == {"input", "both", "delayed output"}   \* kinds whose input has a ratio
Replayed  == {"output", "both", "delayed input"}   \* kinds whose output has one

\* The position in the input, in frames of the output.
Place(p) == p.pos[1] * p.ratio[2] + p.pos[2]

\* What waits is enough for as many frames of output, and not for many more: the
\* last of them starts before its end.
OutKept(p) ==
  /\ p.left * p.ratio[1] < p.ratio[1] + p.ratio[2]
  /\ Place(p) + p.left * p.ratio[1] < p.left * p.ratio[2] + p.ratio[1]

\* What waits of an input is not enough for a frame more, and the position is
\* beyond it by less than a step.
InKept(p) ==
  /\ p.left * p.ratio[2] < p.ratio[1] + p.ratio[2]
  /\ Place(p) < p.ratio[1] \/ Place(p) < p.ratio[2]

IInv ==
  /\ kind \in FrontKinds /\ draining \in BOOLEAN
  /\ in \in (IF kind \in Resampled THEN Resamplers ELSE DelayLines)
  /\ out \in (IF kind \in Replayed THEN Resamplers ELSE DelayLines)
  /\ kind = "input" => InKept(in)
  /\ ~draining /\ kind \in Replayed => OutKept(out)
  /\ ~draining /\ kind = "delayed output" => out.left = LatencyOf(in.ratio)
  /\ buffer \in Seq(Frames) /\ recorded \in Frames
  /\ passed \in [given : Nat, dropped : Nat]
  /\ InputInOrder
=============================================================================
