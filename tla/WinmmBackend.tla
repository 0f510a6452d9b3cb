---------------------------- MODULE WinmmBackend ----------------------------
(***************************************************************************)
(* The WinMM backend of cubeb (extlibs/cubeb/src/cubeb_winmm.c): a stream, *)
(* its user, the buffers that go round between the stream and the device,  *)
(* and the context's thread, which takes the buffers that are done from a  *)
(* list of work and refills them.                                          *)
(*                                                                         *)
(* The list is emptied as a batch; what is counted here are the buffers,   *)
(* which are alike.                                                        *)
(***************************************************************************)
EXTENDS Integers

CONSTANT NBufs    \* NBUFS

WinmmAssumption == NBufs \in Nat \ {0}

VARIABLES
  stm,     \* free_buffers, the flags, the event, what was told
  device,  \* waveOut: buffers queued, whether it plays, and what destroy found
           \* it to be (device_valid)
  work,    \* items in the list, the context's event, items of the batch
  thread,  \* where winmm_buffer_thread is
  app,     \* where the user is, and buffers still to be prepared
  fault    \* what ended the program: the user's callback returned an error
           \* (asserted not to happen), the count of the free buffers ran over,
           \* or the thread used a stream that was freed

vars == <<stm, device, work, thread, app, fault>>

\* halted and late are a history: the user has stopped the stream, or not started
\* it yet, and the data callbacks that have begun since.
Streams == [free : 0..NBufs, draining : BOOLEAN, shutdown : BOOLEAN, event : BOOLEAN,
            lost : 0..NBufs, freed : BOOLEAN, halted : BOOLEAN, late : 0..NBufs,
            told : {"none", "started", "stopped", "drained", "error"}]
Devices == [queued : 0..NBufs, plays : BOOLEAN, valid : BOOLEAN]
Works == [items : 0..NBufs, event : BOOLEAN, batch : 0..NBufs]
Places == [pc : {"none", "prepare", "idle", "wait", "done"}, left : 0..NBufs]

TypeOK ==
  /\ stm \in Streams /\ device \in Devices /\ work \in Works /\ app \in Places
  /\ thread \in {"wait", "batch", "call", "last", "signal"}
  /\ fault \in {"none", "callback", "count", "freed"}

Init ==
  /\ stm = [free |-> 0, draining |-> FALSE, shutdown |-> FALSE, event |-> FALSE, lost |-> 0,
            freed |-> FALSE, halted |-> TRUE, late |-> 0, told |-> "none"]
  /\ device = [queued |-> 0, plays |-> FALSE, valid |-> TRUE]
  /\ work = [items |-> 0, event |-> FALSE, batch |-> 0]
  /\ thread = "wait" /\ app = [pc |-> "none", left |-> NBufs] /\ fault = "none"

Ok == fault = "none"

Queue(d) == [d EXCEPT !.queued = @ + 1]
----------------------------------------------------------------------------
(* Both threads: winmm_refill_stream, from the callback's return on.  An   *)
(* error is asserted not to happen.  A buffer that cannot be written is    *)
(* neither free nor queued.                                                *)

Returns ==
  \/ \E short \in BOOLEAN :
       /\ \/ stm' = [stm EXCEPT !.draining = @ \/ short] /\ device' = Queue(device)
          \/ stm' = [stm EXCEPT !.draining = @ \/ short, !.lost = @ + 1, !.told = "error"]
               /\ UNCHANGED device
       /\ UNCHANGED fault
  \/ fault' = "callback" /\ UNCHANGED <<stm, device>>
----------------------------------------------------------------------------
(* The user. *)

\* winmm_stream_init, up to the buffers: waveOutOpen or waveOutPause may fail,
\* and winmm_stream_destroy is called. After waveOutPause there is a device to
\* wait for, and no buffer was ever filled; it may turn out not to be valid.
Open ==
  /\ Ok /\ app.pc = "none"
  /\ \/ app' = [app EXCEPT !.pc = "prepare"] /\ UNCHANGED <<stm, device>>
     \/ stm' = [stm EXCEPT !.freed = TRUE] /\ app' = [app EXCEPT !.pc = "done"] /\ UNCHANGED device
     \/ /\ stm' = [stm EXCEPT !.shutdown = TRUE] /\ app' = [app EXCEPT !.pc = "wait"]
        /\ \E valid \in BOOLEAN : device' = [device EXCEPT !.plays = TRUE, !.valid = valid]
  /\ UNCHANGED <<work, thread, fault>>

\* A buffer is prepared and filled: a stream that drains already keeps it.
Prepare ==
  /\ Ok /\ app.pc = "prepare" /\ app.left > 0
  /\ IF stm.draining
     THEN stm' = [stm EXCEPT !.free = @ + 1, !.event = TRUE] /\ UNCHANGED <<device, fault>>
     ELSE Returns
  /\ app' = IF fault' # "none" THEN app
            ELSE IF app.left = 1 THEN [pc |-> "idle", left |-> 0] ELSE [app EXCEPT !.left = @ - 1]
  /\ UNCHANGED <<work, thread>>

\* winmm_stream_start
Start ==
  /\ Ok /\ app.pc = "idle"
  /\ device' = [device EXCEPT !.plays = TRUE]
  /\ stm' = [stm EXCEPT !.told = "started", !.halted = FALSE, !.late = 0]
  /\ UNCHANGED <<work, thread, app, fault>>

MutPaused(d) == d               \* mutant: the device is not told
Paused(d) == [d EXCEPT !.plays = FALSE]

\* winmm_stream_stop pauses the device and no more: what is on its way back is
\* refilled.
Stop ==
  /\ Ok /\ app.pc = "idle"
  /\ device' = Paused(device)
  /\ stm' = [stm EXCEPT !.told = "stopped", !.halted = TRUE]
  /\ UNCHANGED <<work, thread, app, fault>>

\* winmm_stream_destroy; also when a buffer cannot be prepared. waveOutReset gives
\* every buffer back; on a handle or driver that is gone any of them may stay.
Destroy ==
  /\ Ok /\ app.pc \in {"idle", "prepare"}
  /\ stm' = [stm EXCEPT !.shutdown = TRUE]
  /\ \E valid \in BOOLEAN, back \in 0..NBufs :
       /\ IF valid THEN back = device.queued ELSE back <= device.queued
       /\ device' = [queued |-> device.queued - back, plays |-> TRUE, valid |-> valid]
       /\ work' = [work EXCEPT !.items = @ + back, !.event = @ \/ back > 0]
  /\ app' = [app EXCEPT !.pc = "wait"]
  /\ UNCHANGED <<thread, fault>>

MutEnqueued == 0                 \* mutant: the buffers are not waited for
Enqueued == NBufs - stm.free

\* It waits for all buffers of a device that is valid, on an event that is set
\* for each of them.
WaitForBuffer ==
  /\ Ok /\ app.pc = "wait" /\ device.valid /\ Enqueued > 0 /\ stm.event
  /\ stm' = [stm EXCEPT !.event = FALSE]
  /\ UNCHANGED <<device, work, thread, app, fault>>

Free ==
  /\ Ok /\ app.pc = "wait" /\ (device.valid => Enqueued = 0)
  /\ stm' = [stm EXCEPT !.freed = TRUE]
  /\ app' = [app EXCEPT !.pc = "done"]
  /\ UNCHANGED <<device, work, thread, fault>>
----------------------------------------------------------------------------
(* The device calls winmm_buffer_callback when a buffer is done. *)

BufferDone ==
  /\ Ok /\ device.valid /\ device.plays /\ device.queued > 0
  /\ device' = [device EXCEPT !.queued = @ - 1]
  /\ work' = [work EXCEPT !.items = @ + 1, !.event = TRUE]
  /\ UNCHANGED <<stm, thread, app, fault>>
----------------------------------------------------------------------------
(* winmm_buffer_thread *)

Flush ==
  /\ Ok /\ thread = "wait" /\ work.event
  /\ work' = [items |-> 0, event |-> FALSE, batch |-> work.items]
  /\ thread' = "batch"
  /\ UNCHANGED <<stm, device, app, fault>>

MutAllBack(free) == free + 1 >= NBufs       \* mutant: one buffer still plays
AllBack(free) == free = NBufs

\* What the thread does with a stream that destroy has freed already.
UsesFreed ==
  /\ stm.freed /\ fault' = "freed"
  /\ UNCHANGED <<stm, device, work, thread, app>>

\* winmm_refill_stream up to the callback.
Refill ==
  /\ Ok /\ thread = "batch"
  /\ \/ /\ work.batch = 0
        /\ thread' = "wait" /\ UNCHANGED <<stm, device, work, app, fault>>
     \/ work.batch > 0 /\ UsesFreed
     \/ /\ work.batch > 0 /\ ~stm.freed /\ stm.free >= NBufs
        /\ fault' = "count" /\ UNCHANGED <<stm, device, work, thread, app>>
     \/ /\ work.batch > 0 /\ ~stm.freed /\ stm.free < NBufs
        /\ work' = [work EXCEPT !.batch = @ - 1]
        /\ IF stm.draining \/ stm.shutdown
           THEN /\ stm' = [stm EXCEPT !.free = @ + 1]
                /\ thread' = IF stm.draining /\ AllBack(stm'.free) THEN "last" ELSE "signal"
           ELSE /\ stm' = [stm EXCEPT !.late = IF stm.halted THEN @ + 1 ELSE @]
                /\ thread' = "call"
        /\ UNCHANGED <<device, app, fault>>

CallReturns ==
  /\ Ok /\ thread = "call"
  /\ \/ UsesFreed
     \/ /\ ~stm.freed /\ Returns
        /\ thread' = IF fault' = "none" THEN "batch" ELSE thread
        /\ UNCHANGED <<work, app>>

\* state_callback, without the lock.
TellDrained ==
  /\ Ok /\ thread = "last"
  /\ \/ UsesFreed
     \/ /\ ~stm.freed
        /\ stm' = [stm EXCEPT !.told = "drained"]
        /\ thread' = "signal"
        /\ UNCHANGED <<device, work, app, fault>>

Signalled(s) == [s EXCEPT !.event = TRUE]

Signal ==
  /\ Ok /\ thread = "signal"
  /\ \/ UsesFreed
     \/ /\ ~stm.freed
        /\ stm' = Signalled(stm)
        /\ thread' = "batch"
        /\ UNCHANGED <<device, work, app, fault>>
----------------------------------------------------------------------------
AppNext == Open \/ Prepare \/ Start \/ Stop \/ Destroy \/ WaitForBuffer \/ Free
ThreadNext == Flush \/ Refill \/ CallReturns \/ TellDrained \/ Signal

Next == AppNext \/ BufferDone \/ ThreadNext

Spec == Init /\ [][Next]_vars

\* The thread runs, the device plays, and destroy takes its steps.
Fairness == WF_vars(ThreadNext) /\ WF_vars(BufferDone) /\ WF_vars(WaitForBuffer \/ Free)
----------------------------------------------------------------------------
(* Properties *)

\* Every buffer is in one place: free, at the device, on its way back, with the
\* thread, not prepared yet, or lost because it could not be written, which the
\* user was told as ERROR. None is lost or counted twice in silence.
BuffersAdd ==
  stm.free + device.queued + work.items + work.batch + stm.lost + app.left
    + (IF thread = "call" THEN 1 ELSE 0) = NBufs

\* stop waits for nothing. A callback that runs then goes on, and others begin,
\* but only for buffers that were done: at most NBUFS before the next start.
LateAreFew ==
  stm.halted /\ ~stm.shutdown => stm.late + work.items + work.batch <= NBufs

\* When DRAINED is told no buffer is left at the device or on its way.
DrainedIsLast ==
  thread = "last" => device.queued = 0 /\ work.items = 0 /\ work.batch = 0

\* When destroy frees the stream of a valid device every buffer is back, and all
\* the thread may still do with it is tell DRAINED and set the event: the last
\* buffer is counted before that. Of a device that is gone nothing is waited for.
FreedIsGone ==
  stm.freed => /\ app.pc = "done"
               /\ device.valid => /\ device.queued = 0 /\ work.items = 0 /\ work.batch = 0
                                  /\ thread # "call"

\* The buffers' count never runs over, and a freed stream is used in these two
\* cases only.
FaultsAreKnown ==
  /\ fault # "count"
  /\ fault = "freed" => stm.freed /\ (thread \in {"last", "signal"} \/ ~device.valid)

\* Destroy returns, unless a buffer was never queued at a valid device: one that
\* could not be written, or none was prepared because init failed.
AllComeBack ==
  app.pc = "wait" /\ (device.valid => stm.lost = 0 /\ app.left = 0)
Destroyed == app.pc = "done" \/ stm.lost > 0 \/ fault # "none"
DestroyReturns == AllComeBack ~> Destroyed
----------------------------------------------------------------------------
(* The inductive invariant that the proofs of CubebProofs rest on. *)

\* DRAINED is told with every buffer back, and there it stays; a thread that
\* waits has no batch.
LastHasAll == /\ thread = "last" => stm.free = NBufs
              /\ thread = "wait" => work.batch = 0

\* A stream that was stopped is paused, and callbacks are only counted then.
HaltedIsPaused == /\ stm.halted /\ ~stm.shutdown => ~device.plays
                  /\ ~stm.halted => stm.late = 0

\* Nothing moves before the stream is open.
EndsApart ==
  app.pc = "none" => device.queued = 0 /\ work.items = 0 /\ work.batch = 0 /\ thread # "call"

IInv ==
  /\ TypeOK /\ BuffersAdd /\ LateAreFew /\ HaltedIsPaused /\ LastHasAll /\ EndsApart
  /\ FreedIsGone /\ FaultsAreKnown
----------------------------------------------------------------------------
(* What does not hold, see README.md. *)

\* Destroy waits for as many buffers as the device has.
DestroyEnds == app.pc = "wait" ~> app.pc = "done" \/ fault # "none"
=============================================================================
