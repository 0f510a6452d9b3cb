----------------------------- MODULE AlsaFrames -----------------------------
(***************************************************************************)
(* The frames of an ALSA stream (extlibs/cubeb/src/cubeb_alsa.c): what     *)
(* alsa_process_stream does with the stream's buffer, between the device   *)
(* and the data callback.  A duplex stream is two streams that the thread  *)
(* processes in any order; each calls the user with the buffers of both.   *)
(* AlsaContext has the rest of the backend, and only the outcome of this.  *)
(*                                                                         *)
(* Frames are numbered in the order they were recorded, or made by the     *)
(* callback.  Numbers, not samples, so that it shows where each of them    *)
(* gets to; the volume is left out.                                        *)
(***************************************************************************)
EXTENDS Integers, FrameNumbers

CONSTANTS
  PcmKinds,     \* of streams: "play", "record", "duplex"
  buffer_size,  \* frames of a buffer, twice those of the device
  FrameBytes,   \* bytes of a frame
  MaxPcm        \* bound of the model: frames made, or recorded

PcmAssumption ==
  /\ PcmKinds \subseteq {"play", "record", "duplex"}
  /\ buffer_size \in Nat \ {0} /\ FrameBytes \in Nat \ {0} /\ MaxPcm \in Nat

VARIABLES
  kind,
  play,     \* of the stream that plays: buffer, state, and as history how many
            \* frames were made and how many of them the device took, and whether
            \* the callback returned too few
  record    \* of the one that records: buffer, state, and as history how many
            \* frames were read, the last one taken, whether a read found frames
            \* left over, whether the callback took too few, and whether all that
            \* it was given was whole and in order

pcmVars == <<kind, play, record>>

Silence == 0
Torn == -1           \* the bytes of several frames, or of none

Init ==
  /\ kind \in PcmKinds
  /\ play = [buf |-> <<>>, state |-> "RUNNING", made |-> 0, heard |-> 0, short |-> FALSE]
  /\ record = [buf |-> <<>>, state |-> "RUNNING", read |-> 0, given |-> 0,
               left |-> FALSE, short |-> FALSE, whole |-> TRUE]
----------------------------------------------------------------------------
Duplex == kind = "duplex"
Plays == kind # "record"
Records == kind # "play"

Less(a, b) == IF a < b THEN a ELSE b
Numbers(last, n) == [i \in 1..n |-> last + i]

\* The frames of new after those of old.
MutAppended(old, new) ==            \* mutant: written at the buffer's beginning
  new \o [i \in 1..Len(old) |-> Torn]
Appended(old, new) == old \o new

\* The same, but as many bytes, not frames, after the beginning of the buffer.
Placed(old, new) ==
  LET k == Len(old) IN
  [i \in 1..(k + Len(new)) |->
     LET at == (i - 1) * FrameBytes - k IN        \* of the frame's first byte in what is new
     IF new = <<>> \/ at + FrameBytes <= 0 THEN old[i]
     ELSE IF at >= Len(new) * FrameBytes THEN IF i <= k THEN old[i] ELSE Torn
     ELSE IF at >= 0 /\ at % FrameBytes = 0 THEN new[at \div FrameBytes + 1]
     ELSE Torn]

\* stream_buffer_decrement
MutWithout(buf, n) == SubSeq(buf, 1, Len(buf) - n)    \* mutant: the end is dropped
Without(buf, n) == SubSeq(buf, n + 1, Len(buf))

\* The frames of a recording were read after the one before them, and in order.
Follows(buf, before) ==
  \A i \in 1..Len(buf) : buf[i] > IF i = 1 THEN before ELSE buf[i - 1]

\* What the callback is given to read, and takes some of: history only.
Given(r, input, took) ==
  [r EXCEPT !.given = IF took = 0 THEN @ ELSE input[took],
            !.short = @ \/ took < Len(input),
            !.whole = @ /\ Follows(input, r.given)]

\* An error of the device is recovered from, or not; one of the callback is not.
Recovered(failed, state) == IF failed THEN {state, "ERROR"} ELSE {state}
----------------------------------------------------------------------------
(* alsa_process_stream; without frames at the device it does nothing. *)

\* The frames that are read, unless they would not fit: then the old ones go.
MutKept(avail) ==                   \* mutant: the room left is not looked at
  record.buf
Kept(avail) == IF avail + Len(record.buf) > buffer_size THEN <<>> ELSE record.buf

\* How many frames the callback is to take from a buffer with waiting frames,
\* and at the same time give; none and it is not called.
MutOffered(waiting) == waiting      \* mutant: the other stream's room is not looked at
Offered(waiting) ==
  IF Duplex THEN Less(waiting, buffer_size - Len(play.buf)) ELSE waiting

\* A stream that records; a read that failed leaves the old frames to be given.
Capture ==
  /\ Records /\ record.state = "RUNNING"
  /\ \E avail \in 1..buffer_size :
     \E got \in -1..Less(avail, MaxPcm - record.read) :
       LET old == Kept(avail)
           buf == IF got < 0 THEN old ELSE Placed(old, Numbers(record.read, got))
           n   == Offered(Len(buf))
           r   == [record EXCEPT !.read = IF got < 0 THEN @ ELSE @ + got,
                                 !.left = @ \/ old # <<>>]
           input == SubSeq(buf, 1, n)
       IN \/ /\ n = 0
             /\ \E state \in Recovered(got < 0, "RUNNING") :
                  record' = [r EXCEPT !.buf = buf, !.state = state]
             /\ UNCHANGED play
          \/ /\ n > 0                                \* the callback fails
             /\ record' = [Given(r, input, 0) EXCEPT !.buf = buf, !.state = "ERROR"]
             /\ UNCHANGED play
          \/ \E took \in 0..n, state \in Recovered(got < 0, "RUNNING") :
               /\ n > 0 /\ (Duplex => play.made + took <= MaxPcm)
               /\ record' = [Given(r, input, took) EXCEPT !.buf = Without(buf, took),
                                                        !.state = state]
               /\ play' = IF ~Duplex THEN play
                          ELSE [play EXCEPT !.buf = Placed(@, Numbers(play.made, took)),
                                            !.made = @ + took]
  /\ UNCHANGED kind

\* How many frames the callback is asked for: none and it is not called.
MutAsked(avail) ==                  \* mutant: what the buffer has is not looked at
  IF Duplex THEN Less(avail, Len(record.buf)) ELSE avail
Asked(avail) ==
  IF avail <= Len(play.buf) THEN 0
  ELSE IF Duplex THEN Less(avail - Len(play.buf), Len(record.buf))
  ELSE avail - Len(play.buf)

Silent(n) == [i \in 1..n |-> Silence]

\* A stream that plays drains when what it lacks is not for want of recorded frames.
MutDrains(waiting) == ~Duplex \/ waiting = <<>>   \* mutant: the test is inverted
Drains(waiting) == ~Duplex \/ waiting # <<>>

\* A stream that plays: what is missing after the callback is silence, and the
\* device takes some of it all.
Playback ==
  /\ Plays /\ play.state = "RUNNING"
  /\ \E avail \in 1..buffer_size :
       LET n == Asked(avail)
           input == IF Duplex THEN SubSeq(record.buf, 1, n) ELSE <<>>
       IN \/ /\ n > 0                                \* the callback fails
             /\ play' = [play EXCEPT !.state = "ERROR"]
             /\ record' = Given(record, input, 0)
          \/ \E made \in 0..Less(n, MaxPcm - play.made), wrote \in -1..avail :
               LET waiting == IF Duplex THEN Without(record.buf, made) ELSE <<>>
                   buf     == Appended(play.buf, Numbers(play.made, made))
                   lacks   == avail - Len(buf)
                   all     == IF lacks > 0 THEN buf \o Silent(lacks) ELSE buf
                   next    == IF lacks > 0 /\ Drains(waiting) THEN "DRAINING" ELSE "RUNNING"
               IN /\ record' = [Given(record, input, IF Duplex THEN made ELSE 0) EXCEPT !.buf = waiting]
                  /\ \E state \in Recovered(wrote < 0, next) :
                       play' = [buf   |-> IF wrote < 0 THEN all ELSE Without(all, wrote),
                                state |-> state,
                                made  |-> play.made + made,
                                heard |-> play.heard + Numbered(SubSeq(all, 1, wrote)),
                                short |-> made < n]
  /\ UNCHANGED kind

\* What was drained is stopped, and started again with the frames it has left.
Restart ==
  /\ play.state = "DRAINING" /\ record.state # "ERROR"
  /\ play' = [play EXCEPT !.state = "RUNNING", !.short = FALSE]
  /\ record' = [record EXCEPT !.state = "RUNNING"]
  /\ UNCHANGED kind

Next == Capture \/ Playback \/ Restart

Spec == Init /\ [][Next]_pcmVars
----------------------------------------------------------------------------
(* Properties *)

States == {"RUNNING", "DRAINING", "ERROR"}
Players ==
  [buf : Seq(Int), state : States, made : Nat, heard : Nat, short : BOOLEAN]
Recorders ==
  [buf : Seq(Int), state : {"RUNNING", "ERROR"}, read : Nat, given : Int,
   left : BOOLEAN, short : BOOLEAN, whole : BOOLEAN]

\* Neither buffer ever holds more than it has room for, however the calls of the
\* two streams of a pair come one after the other.
TypeOK ==
  /\ kind \in PcmKinds /\ play \in Players /\ record \in Recorders
  /\ Len(play.buf) <= buffer_size /\ Len(record.buf) <= buffer_size

\* What a stream that only plays was given by the callback reaches the device, or
\* is in the buffer, once and in order, whatever part of it the device took.
PlayedInOrder ==
  kind = "play" =>
    /\ play.heard <= play.made
    /\ Waiting(play.buf) = (play.heard + 1)..play.made
    /\ Increasing(play.buf)

\* What is recorded is given to the callback in order, and whole until a read finds
\* frames that an earlier call left: from then on frames are torn, against
\* cubeb.h:410, as cubeb_alsa.c:355 puts the new ones that many bytes, not frames,
\* into the buffer.  A stream that only records gets there only by a callback
\* that took too few.
RecordedInOrder ==
  /\ record.whole \/ record.left
  /\ kind = "record" /\ record.left => record.short

\* A stream drains when, and only when, its callback returned too few frames: not
\* when a duplex stream has nothing recorded yet.
DrainsAfterShort == play.state # "ERROR" => (play.state = "DRAINING" <=> play.short)

PcmIsRight == PlayedInOrder /\ RecordedInOrder /\ DrainsAfterShort
----------------------------------------------------------------------------
(* An invariant that the proof of ComponentsProofs rests on. *)

\* A stream that only records leaves nothing behind while its callback takes all.
NothingStays ==
  kind = "record" /\ ~record.short => ~record.left /\ (record.buf = <<>> \/ record.state = "ERROR")
----------------------------------------------------------------------------
(* What does not hold, see README.md. *)

\* "A pointer containing the input data" (cubeb.h): what was recorded is read to
\* stm->buffer + stm->bufframes, which counts bytes (cubeb_alsa.c:355).
InputIsWhole == record.whole

\* The same of what a duplex stream plays (cubeb_alsa.c:373-374).
OutputIsWhole == \A i \in 1..Len(play.buf) : play.buf[i] # Torn
=============================================================================
