---------------------------- MODULE Components ----------------------------
(***************************************************************************)
(* The components that one thread at a time works on: the list on the      *)
(* screen, the bitset, the serializer, the ring of audio frames, the buffer   *)
(* of an ALSA stream, the speex resampler, its front end and the setting   *)
(* up of streams.  They share no state; they stand side by side here so that what each promises is       *)
(* checked in one place, for one "part" at a time, while the others rest.  *)
(* The first three bring their own variables.  Those of the rest are       *)
(* shared, as in Cubeb: a part renames those it has, and the others stay   *)
(* "none".                                                                 *)
(***************************************************************************)
EXTENDS ListView, DynamicBitset, Serializer

CONSTANTS
  channel_count, capacity_in_frames, FrameCounts, RelaxedStore, MaxFrames,  \* AudioRingBuffer
  Ratios, BaseLengths, Align, BufferSize, MaxWord, MaxIn, MaxOut,          \* SpeexResampler
  FrontKinds, HalfFilter, Keep, MaxGive, MaxRecorded, Starved,             \* ResamplerFront
  PcmKinds, buffer_size, FrameBytes, MaxPcm,                               \* AlsaFrames
  SetupBackends, SetupKinds                                                \* StreamSetup

VARIABLES
  part,    \* the component looked at
  v1, v2, v3, v4, v5, v6, v7, v8   \* the state of the last five

vars == <<part, listVars, bitVars, messageVars, v1, v2, v3, v4, v5, v6, v7, v8>>

Frames == INSTANCE AudioRingBuffer WITH
  read_index <- v1, write_index <- v2, oldReads <- v3, oldWrites <- v4, data <- v5,
  producer <- v6, consumer <- v7, got <- v8
Pcm == INSTANCE AlsaFrames WITH kind <- v1, play <- v2, record <- v3
Speex == INSTANCE SpeexResampler WITH st <- v1, call <- v2, failed <- v3
Front == INSTANCE ResamplerFront WITH
  FrontRatios <- Ratios, kind <- v1, in <- v2, out <- v3, buffer <- v4, draining <- v5,
  recorded <- v6, passed <- v7, fill <- v8
Setup == INSTANCE StreamSetup WITH
  call <- v1, at <- v2, held <- v3, foreign <- v4, out <- v5, result <- v6

ASSUME ComponentsAssumption ==
  Frames!AudioAssumption /\ Pcm!PcmAssumption /\ Speex!SpeexAssumption /\ Front!FrontAssumption
  /\ Setup!SetupAssumption
----------------------------------------------------------------------------
Shared == <<v1, v2, v3, v4, v5, v6, v7, v8>>

\* Where the list and the message stay while another part is looked at.
ListRests == cursorPosInList = 0 /\ redrawNeeded = FALSE /\ size = 0 /\ screen = Blank
MessageRests ==
  /\ schema = <<>> /\ writer = 0 /\ reader = 0 /\ dataVersion = 0
  /\ phase = "write" /\ next = 1 /\ integrityCounter = 0
  /\ wire = <<>> /\ memPtr = 0 /\ sent = <<>> /\ received = <<>> /\ end = <<>> /\ hops = 0

\* The shared variables after the first n are not had.
NoneAfter(n) ==
  /\ n < 3 => v1 = "none" /\ v2 = "none" /\ v3 = "none"
  /\ n < 6 => v4 = "none" /\ v5 = "none" /\ v6 = "none"
  /\ n < 8 => v7 = "none" /\ v8 = "none"

Init ==
  /\ BitsetInit
  /\ \/ part = "list" /\ ListInit /\ MessageRests /\ NoneAfter(0)
     \/ part = "serializer" /\ MessageInit /\ ListRests /\ NoneAfter(0)
     \/ /\ ListRests /\ MessageRests
        /\ \/ part = "bitset" /\ NoneAfter(0)
           \/ part = "frames" /\ Frames!Samples!Init /\ NoneAfter(8)
           \/ part = "pcm" /\ Pcm!Init /\ NoneAfter(3)
           \/ part = "speex" /\ Speex!Init /\ NoneAfter(3)
           \/ part = "front" /\ Front!Init /\ NoneAfter(8)
           \/ part = "setup" /\ Setup!Init /\ NoneAfter(6)

OwnNext ==
  /\ UNCHANGED <<part, Shared>>
  /\ \/ part = "list" /\ ListNext /\ UNCHANGED <<bitVars, messageVars>>
     \/ part = "bitset" /\ BitsetNext /\ UNCHANGED <<listVars, messageVars>>
     \/ part = "serializer" /\ MessageNext /\ UNCHANGED <<listVars, bitVars>>

SharedNext ==
  /\ UNCHANGED <<part, listVars, bitVars, messageVars>>
  /\ \/ part = "frames" /\ Frames!Samples!Next
     \/ part = "pcm" /\ Pcm!Next /\ UNCHANGED <<v4, v5, v6, v7, v8>>
     \/ part = "speex" /\ Speex!Next /\ UNCHANGED <<v4, v5, v6, v7, v8>>
     \/ part = "front" /\ Front!Next
     \/ part = "setup" /\ Setup!Next /\ UNCHANGED <<v7, v8>>

Next == OwnNext \/ SharedNext

Spec == Init /\ [][Next]_vars
----------------------------------------------------------------------------
(* Properties: each is that of a component, under its name there; see there. *)
(* DrawnRight and SmoothScroll are ListView's, StorageCovers and             *)
(* ImplementsBitset DynamicBitset's, InStep and MessageArrives Serializer's. *)

Parts == {"list", "bitset", "serializer", "frames", "pcm", "speex", "front", "setup"}

TypeOK ==
  /\ part \in Parts
  /\ ListTypeOK
  /\ part = "frames" => Frames!Samples!TypeOK
  /\ part = "pcm" => Pcm!TypeOK
  /\ part = "speex" => Speex!TypeOK
  /\ part = "front" => Front!TypeOK
  /\ part = "setup" => Setup!TypeOK

\* cubeb_ringbuffer.h: the audio ring moves whole frames.  cubeb_alsa.c: what the
\* callback gives a stream that only plays gets to the device once and in order;
\* what is recorded gets to the callback in order, and whole until a read finds
\* frames left over, after which the code tears them; and a stream drains when
\* the callback gave too few.
FramesInPlace ==
  /\ part = "frames" => Frames!FramesAligned
  /\ part = "pcm" => Pcm!PcmIsRight

\* resample.c: what the resampler reads and writes is inside the memory it has;
\* cubeb_resampler.h: cubeb_resampler_fill does what its header says.
ResamplerIsRight ==
  /\ part = "speex" => Speex!MemoryFits /\ Speex!FractionInTable
  /\ part = "front" => Front!FillIsRight

\* resample.c: a change of the filter keeps the place in the input, and every
\* chunk brings a call nearer to its end.
InputGoesOn == [][part = "speex" => Speex!DelayStays /\ Speex!ChunkAdvances]_vars

\* cubeb_stream_init gives back what it took when it fails.
RolledBack == part = "setup" => Setup!RolledBack

\* cubeb_stream_init returns what it did.
ResultIsTrue == part = "setup" => Setup!ResultIsTrue
=============================================================================
