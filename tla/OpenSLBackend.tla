--------------------------- MODULE OpenSLBackend ---------------------------
(***************************************************************************)
(* The OpenSL ES backend of cubeb (extlibs/cubeb/src/cubeb_opensl.c): one  *)
(* stream used by a thread of the application, by the player's callback    *)
(* thread and by the recorder's.  The flags shutdown and draining are read *)
(* and written with the stream's mutex held, and acted upon after it was   *)
(* released; a duplex stream hands recorded buffers from the recorder to   *)
(* the player through an array_queue.                                      *)
(*                                                                         *)
(* An action is a critical section or a call of OpenSL.  The file          *)
(* undefines NDEBUG: a failed assertion is a fault, and so is the use of   *)
(* what was freed.                                                         *)
(***************************************************************************)
EXTENDS Integers, Sequences

CONSTANTS
  Kinds,        \* of streams: "output", "input", "duplex"
  Capacity      \* buffers of the input array and places of the input queue

OpenSLAssumption ==
  Kinds \subseteq {"output", "input", "duplex"} /\ Capacity \in Nat \ {0}

VARIABLES
  stm,        \* the stream: kind, flags, whether anything was written, and
              \* what its user was told last since it was started
  sl,         \* the player, the recorder and their markers
  player,     \* where the player's callback is and the input buffer it reads
  recorder,   \* where the recorder's callback is
  input,      \* the buffer being recorded, the queue of recorded ones, and
              \* whether a recorded one did not come into it
  app,        \* where the user is
  fault       \* what ended the program

vars == <<stm, sl, player, recorder, input, app, fault>>

Buffers == 0..(Capacity - 1)
NoBuffer == -1
HasOutput == stm.kind # "input"
HasInput == stm.kind # "output"

Streams == [kind : Kinds, shutdown : BOOLEAN, draining : BOOLEAN, written : BOOLEAN,
            told : {"none", "started", "stopped", "drained", "error"}]
Objects == [play : BOOLEAN, record : BOOLEAN, marker : BOOLEAN, open : BOOLEAN]
Players == [pc : {"idle", "calling", "short", "told"}, buffer : Buffers \cup {NoBuffer}]
Inputs == [filling : Buffers \cup {NoBuffer}, queue : Seq(Buffers), skipped : BOOLEAN]

TypeOK ==
  /\ stm \in Streams /\ sl \in Objects /\ player \in Players
  /\ recorder \in {"idle", "refuse", "enqueue", "calling", "failed", "short", "told"}
  /\ input \in Inputs /\ Len(input.queue) <= Capacity
  /\ app \in {"none", "idle", "start", "running", "refused", "stop", "player gone",
             "buffers gone", "done"}
  /\ fault \in {"none", "stop", "freed", "no recorder"}

Init ==
  /\ \E k \in Kinds :
       stm = [kind |-> k, shutdown |-> TRUE, draining |-> FALSE, written |-> FALSE,
              told |-> "none"]
  /\ sl = [play |-> FALSE, record |-> FALSE, marker |-> FALSE, open |-> FALSE]
  /\ player = [pc |-> "idle", buffer |-> NoBuffer] /\ recorder = "idle"
  /\ input = [filling |-> NoBuffer, queue |-> <<>>, skipped |-> FALSE]
  /\ app = "none" /\ fault = "none"
----------------------------------------------------------------------------
(* The application. *)

\* opensl_stream_init, opensl_configure_playback, opensl_configure_capture: a
\* failed step destroys what was made, except that a recorder which cannot be
\* created for another reason than its rate is used all the same.
StreamInit ==
  /\ fault = "none" /\ app = "none"
  /\ \/ /\ sl' = [sl EXCEPT !.open = TRUE]
        /\ input' = [input EXCEPT !.filling = IF HasInput THEN 0 ELSE NoBuffer]
        /\ app' = "idle" /\ UNCHANGED fault
     \/ app' = "done" /\ UNCHANGED <<sl, input, fault>>
     \/ HasInput /\ fault' = "no recorder" /\ UNCHANGED <<sl, input, app>>
  /\ UNCHANGED <<stm, player, recorder>>

StartFlags(s) == [s EXCEPT !.shutdown = FALSE, !.draining = FALSE, !.told = "none"]

\* opensl_stream_start: the flags, ...
Start ==
  /\ fault = "none" /\ app \in {"idle", "running", "refused"}
  /\ app = "running" => stm.told = "drained"
  /\ stm' = StartFlags(stm)
  /\ app' = "start"
  /\ UNCHANGED <<sl, player, recorder, input, fault>>

\* ... then the player, then the recorder. When the player refuses nothing has
\* begun; when the recorder of a duplex stream does, the player is left running,
\* although start returns an error.
StartObjects ==
  /\ fault = "none" /\ app = "start"
  /\ \/ /\ sl' = [sl EXCEPT !.play = HasOutput, !.record = HasInput]
        /\ stm' = [stm EXCEPT !.told = "started"]
        /\ app' = "running"
     \/ app' = "refused" /\ UNCHANGED <<sl, stm>>
     \/ /\ stm.kind = "duplex" /\ app' = "refused"
        /\ sl' = [sl EXCEPT !.play = TRUE] /\ UNCHANGED stm
  /\ UNCHANGED <<player, recorder, input, fault>>

\* opensl_stream_stop
Stop ==
  /\ fault = "none" /\ app \in {"running", "refused"}
  /\ stm' = [stm EXCEPT !.shutdown = TRUE]
  /\ app' = "stop"
  /\ UNCHANGED <<sl, player, recorder, input, fault>>

MutPaused == [sl EXCEPT !.play = FALSE]         \* mutant: the recorder goes on
Paused == [sl EXCEPT !.play = FALSE, !.record = FALSE]

StopObjects ==
  /\ fault = "none" /\ app = "stop"
  /\ sl' = Paused
  /\ stm' = [stm EXCEPT !.told = "stopped"]
  /\ app' = "idle"
  /\ UNCHANGED <<player, recorder, input, fault>>

\* opensl_stream_destroy: the player's Destroy waits for its callback ...
DestroyPlayer ==
  /\ fault = "none" /\ app = "idle" /\ player.pc = "idle"
  /\ app' = IF HasInput THEN "player gone" ELSE "done"
  /\ sl' = [sl EXCEPT !.marker = FALSE, !.open = HasInput]
  /\ UNCHANGED <<stm, player, recorder, input, fault>>

\* ... opensl_destroy_recorder frees the buffers before the recorder ...
FreeBuffers ==
  /\ fault = "none" /\ app = "player gone"
  /\ app' = "buffers gone"
  /\ UNCHANGED <<stm, sl, player, recorder, input, fault>>

\* ... whose Destroy waits for its callback.
DestroyRecorder ==
  /\ fault = "none" /\ app = "buffers gone" /\ recorder = "idle"
  /\ sl' = [sl EXCEPT !.open = FALSE]
  /\ app' = "done"
  /\ UNCHANGED <<stm, player, recorder, input, fault>>
----------------------------------------------------------------------------
(* The player's thread. *)

MutSilent == stm.draining           \* mutant: shutdown is not looked at
Silent == stm.shutdown \/ stm.draining

\* bufferqueue_callback and player_fullduplex_callback up to the resampler; a
\* stream that is shut down or drains plays silence.  A duplex stream takes
\* the oldest recorded buffer, or silence when there is none.
PlayerCallback ==
  /\ fault = "none" /\ sl.play /\ player.pc = "idle" /\ ~Silent
  /\ IF stm.kind = "duplex" /\ input.queue # <<>>
     THEN /\ player' = [pc |-> "calling", buffer |-> Head(input.queue)]
          /\ input' = [input EXCEPT !.queue = Tail(@)]
     ELSE player' = [pc |-> "calling", buffer |-> NoBuffer] /\ UNCHANGED input
  /\ UNCHANGED <<stm, sl, recorder, app, fault>>

PlayerIdle == player' = [pc |-> "idle", buffer |-> NoBuffer]

\* mutant: the error is told and nothing else done
MutErrorEnds == stm' = [stm EXCEPT !.told = "error"] /\ UNCHANGED sl
ErrorEnds == stm' = [stm EXCEPT !.shutdown = TRUE, !.told = "error"] /\ sl' = Paused

\* Everything was written, or an error told and the stream shut down, or the
\* end has come with or without some frames.
PlayerReturns ==
  /\ fault = "none" /\ player.pc = "calling"
  /\ \/ PlayerIdle /\ stm' = [stm EXCEPT !.written = TRUE] /\ UNCHANGED sl
     \/ PlayerIdle /\ ErrorEnds
     \/ /\ player' = [pc |-> "short", buffer |-> NoBuffer]
        /\ stm' \in {stm, [stm EXCEPT !.written = TRUE]}
        /\ UNCHANGED sl
  /\ UNCHANGED <<recorder, input, app, fault>>

\* set_draining, then the marker that tells when all was played; an output
\* stream that wrote nothing tells so itself.
MutDrainsAtOnce == FALSE      \* mutant: left to a marker that is never reached
DrainsAtOnce == stm.kind = "output" /\ ~stm.written

PlayerDrains ==
  /\ fault = "none" /\ player.pc = "short"
  /\ stm' = [stm EXCEPT !.draining = TRUE, !.told = IF DrainsAtOnce THEN "drained" ELSE @]
  /\ sl' = [sl EXCEPT !.marker = ~DrainsAtOnce]
  /\ player' = [player EXCEPT !.pc = IF DrainsAtOnce THEN "told" ELSE "idle"]
  /\ UNCHANGED <<recorder, input, app, fault>>

\* play_callback: opensl_notify_drained tells DRAINED after it released the
\* mutex; a marker at 0 is not reached.
PlayerMarker ==
  /\ fault = "none" /\ HasOutput /\ sl.play /\ sl.marker /\ stm.written
  /\ player.pc = "idle"
  /\ sl' = [sl EXCEPT !.marker = FALSE]
  /\ IF stm.draining
     THEN stm' = [stm EXCEPT !.told = "drained"] /\ player' = [player EXCEPT !.pc = "told"]
     ELSE UNCHANGED <<stm, player>>
  /\ UNCHANGED <<recorder, input, app, fault>>

\* opensl_stop_player and opensl_stop_recorder, which assert a flag that a
\* start may have cleared meanwhile.
PlayerStops ==
  /\ fault = "none" /\ player.pc = "told"
  /\ IF Silent THEN sl' = Paused /\ UNCHANGED fault ELSE fault' = "stop" /\ UNCHANGED sl
  /\ PlayerIdle
  /\ UNCHANGED <<stm, recorder, input, app>>
----------------------------------------------------------------------------
(* The recorder's thread. *)

\* recorder_callback and recorder_fullduplex_callback read the flags ...
RecorderCallback ==
  /\ fault = "none" /\ sl.record /\ sl.open /\ recorder = "idle"
  /\ recorder' = IF Silent THEN "refuse" ELSE "enqueue"
  /\ UNCHANGED <<stm, sl, player, input, app, fault>>

MutNextBuffer(i) == i             \* mutant: the same buffer again
NextBuffer(i) == (i + 1) % Capacity

\* ... opensl_enqueue_recorder gives the recorder its next buffer, and the one
\* that is full is queued for the player if there is room, or given to the
\* user of a stream that only records.
Enqueue ==
  /\ fault = "none" /\ recorder \in {"refuse", "enqueue"}
  /\ IF app = "buffers gone"
     THEN fault' = "freed" /\ UNCHANGED <<input, recorder>>
     ELSE /\ LET queued == recorder = "enqueue" /\ Len(input.queue) < Capacity
             IN input' = [filling |-> NextBuffer(input.filling),
                          queue |-> IF queued /\ stm.kind = "duplex"
                                    THEN Append(input.queue, input.filling) ELSE input.queue,
                          skipped |-> input.skipped \/ ~queued]
          /\ recorder' = IF recorder = "enqueue" /\ stm.kind = "input" THEN "calling" ELSE "idle"
          /\ UNCHANGED fault
  /\ UNCHANGED <<stm, sl, player, app>>

\* An error is told and the stream shut down, and then treated as a short
\* count as well.
RecorderReturns ==
  /\ fault = "none" /\ recorder = "calling"
  /\ \/ recorder' = "idle" /\ UNCHANGED <<stm, sl>>
     \/ recorder' = "short" /\ UNCHANGED <<stm, sl>>
     \/ recorder' = "short" /\ ErrorEnds
  /\ UNCHANGED <<player, input, app, fault>>

RecorderDrains ==
  /\ fault = "none" /\ recorder = "short"
  /\ stm' = [stm EXCEPT !.draining = TRUE]
  /\ sl' = [sl EXCEPT !.marker = TRUE]
  /\ recorder' = "idle"
  /\ UNCHANGED <<player, input, app, fault>>

\* recorder_marker_callback
RecorderMarker ==
  /\ fault = "none" /\ stm.kind = "input" /\ sl.marker /\ sl.record /\ recorder = "idle"
  /\ sl' = [sl EXCEPT !.marker = FALSE]
  /\ IF stm.draining
     THEN stm' = [stm EXCEPT !.told = "drained"] /\ recorder' = "told"
     ELSE UNCHANGED <<stm, recorder>>
  /\ UNCHANGED <<player, input, app, fault>>

RecorderStops ==
  /\ fault = "none" /\ recorder = "told"
  /\ IF Silent THEN sl' = Paused /\ UNCHANGED fault ELSE fault' = "stop" /\ UNCHANGED sl
  /\ recorder' = "idle"
  /\ UNCHANGED <<stm, player, input, app>>
----------------------------------------------------------------------------
AppNext == StreamInit \/ Start \/ StartObjects \/ Stop \/ StopObjects
        \/ DestroyPlayer \/ FreeBuffers \/ DestroyRecorder
PlayerNext == PlayerCallback \/ PlayerReturns \/ PlayerDrains \/ PlayerMarker \/ PlayerStops
RecorderNext == RecorderCallback \/ Enqueue \/ RecorderReturns \/ RecorderDrains
             \/ RecorderMarker \/ RecorderStops

Next == AppNext \/ PlayerNext \/ RecorderNext

Spec == Init /\ [][Next]_vars

\* The callbacks return, and the marker is reached while the player plays.
Fairness == WF_vars(PlayerReturns) /\ WF_vars(PlayerDrains) /\ SF_vars(PlayerMarker)
         /\ WF_vars(StartObjects)
----------------------------------------------------------------------------
(* Properties *)

\* The program ends only for three reasons: a start cleared the flags while a
\* drain was being told, the recorder called back while its buffers were
\* freed, or it could not be created.
FaultsAreKnown ==
  /\ fault = "stop" => app \in {"start", "running", "refused", "stop"}
  /\ fault = "freed" => app = "buffers gone"
  /\ fault = "no recorder" => app = "none"

\* No callback begins once stop has returned, or an error was told. One that had
\* begun is not waited for and may return after stop has; and a start whose
\* recorder refused leaves a player on, silent if an error was told meanwhile.
StopQuiesces ==
  /\ app \in {"idle", "player gone", "buffers gone", "done"} => ~sl.play /\ ~sl.record
  /\ stm.told = "error" =>
       stm.shutdown /\ (app \notin {"refused", "stop"} => ~sl.play /\ ~sl.record)

\* When destroy returns both callbacks have: their objects waited for them.
FreedIsGone == app = "done" => player.pc = "idle" /\ recorder = "idle"

\* Nothing follows an error but what the user does: of a stream that plays.
AfterError == HasOutput /\ stm.told = "error" => stm'.told = "error" \/ app' # app
ErrorIsLast == [][AfterError]_vars

\* Until a buffer is kept from the queue, by a stop, a drain or a full queue: the
\* recorder fills no buffer that waits in the queue, unless the queue is full,
\* nor the one the player reads, unless the queue is full but for that one. Once
\* one was left out it may: what it fills was not taken, and is lost.
BuffersApart == ~input.skipped =>
  /\ Len(input.queue) < Capacity =>
       \A i \in 1..Len(input.queue) : input.queue[i] # input.filling
  /\ Len(input.queue) < Capacity - 1 /\ input.filling # NoBuffer => player.buffer # input.filling

\* When a callback of an output stream returned too little its user is told that
\* the stream drained, if nothing was written too.
DrainBegins ==
  stm.kind = "output" /\ player.pc = "short" /\ sl.play /\ app = "running"
DrainEnds == stm.told = "drained" \/ app # "running" \/ fault # "none"
DrainIsTold == DrainBegins ~> DrainEnds
----------------------------------------------------------------------------
(* The inductive invariant that the proofs of CubebProofs rest on. *)

\* Which objects and callbacks a stream of each kind has, and when.
KindFits ==
  /\ sl.record \/ recorder # "idle" => HasInput
  /\ recorder \in {"calling", "short", "told"} => stm.kind = "input"
  /\ stm.kind # "duplex" \/ app = "none" => input.queue = <<>> /\ player.buffer = NoBuffer
  /\ HasInput /\ app \notin {"none", "done"} => input.filling \in Buffers
  /\ app \in {"none", "done"} => recorder = "idle"

\* Only a stream that was started runs, and one that was told an error has no
\* callback that could tell it something else.
RunsWhenStarted ==
  /\ app \in {"none", "idle", "player gone", "buffers gone", "done"} => ~sl.play /\ ~sl.record
  /\ app \notin {"start", "running", "refused"} => stm.shutdown
  /\ app \in {"none", "player gone", "buffers gone", "done"} => player.pc = "idle"
  /\ HasOutput /\ player.pc \in {"calling", "short"} => ~stm.draining
  /\ stm.told = "error" =>
       /\ stm.shutdown
       /\ app \notin {"refused", "stop"} => ~sl.play /\ ~sl.record
       /\ HasOutput => player.pc = "idle" /\ ~stm.draining

\* How far a buffer is behind the one that is filled, on the way round.
Behind(b) == IF b < input.filling THEN input.filling - b ELSE input.filling - b + Capacity

\* The queue holds the buffers that were filled last, in their order, and the
\* player reads the one before them.
InputInOrder == ~input.skipped =>
  /\ \A i \in 1..Len(input.queue) :
       input.filling # NoBuffer /\ Behind(input.queue[i]) = Len(input.queue) - i + 1
  /\ player.buffer # NoBuffer /\ Len(input.queue) < Capacity =>
       input.filling # NoBuffer /\ Behind(player.buffer) = Len(input.queue) + 1

IInv == TypeOK /\ KindFits /\ RunsWhenStarted /\ InputInOrder /\ FaultsAreKnown
=============================================================================
