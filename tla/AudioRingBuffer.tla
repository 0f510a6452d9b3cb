-------------------------- MODULE AudioRingBuffer --------------------------
(***************************************************************************)
(* audio_ring_buffer_base (cubeb_ringbuffer.h): the ring buffer of samples *)
(* seen as a queue of frames of channel_count interleaved samples.  Every  *)
(* call converts frames to samples, calls the ring buffer, and converts    *)
(* the result back by an integer division, which is right only if no call  *)
(* ever moves a part of a frame.                                           *)
(***************************************************************************)
EXTENDS Integers, Sequences

CONSTANTS
  channel_count,
  capacity_in_frames,
  FrameCounts,    \* the frame counts the two threads ask for
  RelaxedStore,   \* as in RingBuffer
  MaxFrames       \* bound of the model: frames enqueued in one run

AudioAssumption ==
  /\ channel_count \in Nat \ {0} /\ capacity_in_frames \in Nat \ {0}
  /\ FrameCounts \subseteq Nat \ {0} /\ MaxFrames \in Nat
  /\ RelaxedStore \in BOOLEAN

VARIABLES read_index, write_index, oldReads, oldWrites, data, producer, consumer, got
----------------------------------------------------------------------------
frames_to_samples(frames)  == frames * channel_count
samples_to_frames(samples) == samples \div channel_count

MutStorage(frames) ==               \* mutant: a whole frame is kept free, not one sample
  frames_to_samples(frames + 1)
\* The storage the constructors of the adapter and of the buffer ask for.
Storage(frames) == frames_to_samples(frames) + 1

MutSampleCounts(frames) ==          \* mutant: the adapter passes the number of frames on
  frames
SampleCounts(frames) == {frames_to_samples(f) : f \in frames}

Samples == INSTANCE RingBuffer WITH
             capacity_   <- Storage(capacity_in_frames),
             Counts      <- SampleCounts(FrameCounts),
             MaxElements <- frames_to_samples(MaxFrames)

Spec == Samples!Spec
----------------------------------------------------------------------------
(* Properties *)

\* The number of frames a call returns accounts for every sample it moved or
\* promised: the division of samples_to_frames never drops a rest, however
\* stale the view a call was computed from.
WholeFrames ==
  \A samples \in {producer.n, producer.room, consumer.n, consumer.ready} :
    frames_to_samples(samples_to_frames(samples)) = samples

\* The consumer always receives frames from their first channel on: the
\* channels are never swapped, even across a wrap-around inside a frame.
ChannelsAligned ==
  \A i \in 1..Len(got) : got[i] % channel_count = (i - 1) % channel_count

\* Nothing but whole frames goes through the ring.
FramesAligned == WholeFrames /\ ChannelsAligned
=============================================================================
