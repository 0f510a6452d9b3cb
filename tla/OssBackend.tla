----------------------------- MODULE OssBackend -----------------------------
(***************************************************************************)
(* The OSS backend of cubeb (extlibs/cubeb/src/cubeb_oss.c): one stream,   *)
(* its user and its thread, which is created by the first start, runs      *)
(* oss_audio_loop from a start to a stop, a drain or an error, and waits   *)
(* in between for a doorbell.  Stop waits, once, for the condition that    *)
(* the thread signals after the loop.                                      *)
(*                                                                         *)
(* An action is a critical section of the stream's mutex, the user's       *)
(* callback, or the work of the loop between two looks at the flags.       *)
(***************************************************************************)
EXTENDS Integers

CONSTANTS
  Kinds,        \* of streams: "output", "input", "duplex"
  PlayFrames,   \* frames of the playback buffer
  RecordFrames, \* frames of the recording buffer
  DeviceFrames  \* bound of the model: most frames a device has at a time

OssAssumption ==
  /\ Kinds \subseteq {"output", "input", "duplex"}
  /\ PlayFrames \in Nat \ {0} /\ RecordFrames \in Nat \ {0} /\ DeviceFrames \in Nat

VARIABLES
  s,        \* the stream: the members its mutex protects, and its kind
  thread,   \* where the thread is, and the state it will tell
  nfr,      \* frames of the next callback
  app,      \* where the user is
  fault     \* what ended the program

vars == <<s, thread, nfr, app, fault>>

Cb == {"started", "stopped", "drained", "error"}

Streams == [kind : Kinds, thread_created : BOOLEAN, running : BOOLEAN,
            destroying : BOOLEAN, doorbell : BOOLEAN, state : Cb, told : Cb]
Threads == [pc : {"none", "top", "trigger", "check", "call", "wait", "broken", "tell",
                  "signal", "bell", "exit", "done"}, new : Cb]

TypeOK ==
  /\ s \in Streams /\ thread \in Threads
  /\ nfr \in Nat
  /\ app \in {"none", "idle", "start", "running", "stopping", "woken", "join", "done"}
  /\ fault \in {"none", "assert", "join"}

PlayOn == s.kind # "input"
RecordOn == s.kind # "output"

Init ==
  /\ \E k \in Kinds :
       s = [kind |-> k, thread_created |-> FALSE, running |-> FALSE, destroying |-> FALSE,
            doorbell |-> FALSE, state |-> "stopped", told |-> "stopped"]
  /\ thread = [pc |-> "none", new |-> "stopped"]
  /\ nfr = 0 /\ app = "none" /\ fault = "none"

Goto(pc) == thread' = [pc |-> pc, new |-> "stopped"]
----------------------------------------------------------------------------
(* The user. *)

\* pthread_join of a thread that was never created.
Join(created) == fault' = IF created THEN "none" ELSE "join"

\* oss_stream_init; when a step fails it calls oss_stream_destroy.
StreamInit ==
  /\ fault = "none" /\ app = "none"
  /\ \/ app' = "idle" /\ UNCHANGED fault
     \/ app' = "done" /\ Join(FALSE)
  /\ UNCHANGED <<s, thread, nfr>>

\* oss_stream_start tells STARTED before it takes the mutex.  The user starts
\* again a stream that ended by itself, and is not misled by an end that is
\* told late, after it stopped and started the stream.
Start ==
  /\ fault = "none"
  /\ app = "idle" \/ (app = "running" /\ s.told \in {"drained", "error"} /\ ~s.running)
  /\ s' = [s EXCEPT !.told = "started"]
  /\ app' = "start"
  /\ UNCHANGED <<thread, nfr, fault>>

\* With oss_stream_thr_create: rings the doorbell of a thread that is there.
StartThread ==
  /\ fault = "none" /\ app = "start"
  /\ fault' = IF s.running \/ s.state = "started" THEN "assert" ELSE "none"
  /\ \/ /\ s' = [s EXCEPT !.doorbell = IF s.thread_created THEN TRUE ELSE @, !.state = "started",
                          !.thread_created = TRUE, !.running = TRUE]
        /\ IF s.thread_created THEN UNCHANGED thread ELSE Goto("top")
     \/ /\ ~s.thread_created                 \* pthread_create fails
        /\ s' = [s EXCEPT !.told = "error"]
        /\ UNCHANGED thread
  /\ app' = "running"
  /\ UNCHANGED nfr

MutStopped == TRUE          \* mutant: a running stream is not waited for
Stopped == ~(s.thread_created /\ s.running)

\* oss_stream_stop
Stop ==
  /\ fault = "none" /\ app = "running"
  /\ IF Stopped
     THEN app' = "idle" /\ s' = [s EXCEPT !.state = "stopped", !.told = "stopped"]
     ELSE app' = "stopping" /\ s' = [s EXCEPT !.running = FALSE, !.doorbell = FALSE]
  /\ UNCHANGED <<thread, nfr, fault>>

\* pthread_cond_wait returned.
StopEnds ==
  /\ fault = "none" /\ app = "woken"
  /\ s' = [s EXCEPT !.state = "stopped", !.told = "stopped"]
  /\ app' = "idle"
  /\ UNCHANGED <<thread, nfr, fault>>

MutRing(stream) == [stream EXCEPT !.destroying = TRUE] \* mutant: the doorbell is not rung
Ring(stream) == [stream EXCEPT !.destroying = TRUE, !.doorbell = TRUE]

\* oss_stream_destroy
Destroy ==
  /\ fault = "none" /\ app = "idle"
  /\ s' = IF s.thread_created THEN Ring(s) ELSE s
  /\ Join(s.thread_created)
  /\ app' = "join"
  /\ UNCHANGED <<thread, nfr>>

Joined ==
  /\ fault = "none" /\ app = "join" /\ thread.pc = "done"
  /\ app' = "done"
  /\ UNCHANGED <<s, thread, nfr, fault>>
----------------------------------------------------------------------------
(* oss_io_routine *)

Top ==
  /\ fault = "none" /\ thread.pc = "top"
  /\ Goto(IF s.destroying THEN "exit" ELSE "trigger")
  /\ UNCHANGED <<s, nfr, app, fault>>

\* oss_audio_loop ends by itself.
Breaks(state) == thread' = [pc |-> "broken", new |-> state]

Trigger ==
  /\ fault = "none" /\ thread.pc = "trigger"
  /\ Goto("check") \/ (RecordOn /\ Breaks("error"))
  /\ nfr' = 0
  /\ UNCHANGED <<s, app, fault>>

Ended == ~s.running \/ s.destroying

\* The head of the loop; no callback before the devices were looked at.
Check ==
  /\ fault = "none" /\ thread.pc = "check"
  /\ IF Ended THEN Goto("signal")
     ELSE Goto(IF nfr > 0 THEN "call" ELSE "wait") \/ (nfr > 0 /\ RecordOn /\ Breaks("error"))
  /\ UNCHANGED <<s, nfr, app, fault>>

\* data_cb returns all, an error, or too little: what is there is written, and
\* then a stream that plays has drained and one that records stops.
Call ==
  /\ fault = "none" /\ thread.pc = "call"
  /\ \/ Goto("wait")
     \/ Breaks("error")                \* also: the frames cannot be written
     \/ Breaks(IF PlayOn THEN "drained" ELSE "stopped")
  /\ UNCHANGED <<s, nfr, app, fault>>

MutLimited(n, frames) == n          \* mutant: all the device has
Limited(n, frames) == IF n > frames THEN frames ELSE n

Least(a, b) == IF a < b THEN a ELSE b

\* oss_wait_fds_for_space returns when every device has some frames, and does
\* not look at the flags before.
WaitForSpace ==
  /\ fault = "none" /\ thread.pc = "wait"
  /\ \/ \E p, r \in 1..DeviceFrames :
          nfr' = Least(IF PlayOn THEN Limited(p, PlayFrames) ELSE DeviceFrames,
                       IF RecordOn THEN Limited(r, RecordFrames) ELSE DeviceFrames)
        /\ Goto("check")
     \/ Breaks("error") /\ UNCHANGED nfr
  /\ UNCHANGED <<s, app, fault>>

\* breakdown:
Broken ==
  /\ fault = "none" /\ thread.pc = "broken"
  /\ s' = [s EXCEPT !.state = thread.new, !.running = FALSE]
  /\ thread' = [thread EXCEPT !.pc = "tell"]
  /\ UNCHANGED <<nfr, app, fault>>

\* state_cb, without the mutex.
Tell ==
  /\ fault = "none" /\ thread.pc = "tell"
  /\ s' = [s EXCEPT !.told = thread.new]
  /\ Goto("signal")
  /\ UNCHANGED <<nfr, app, fault>>

MutWoken(place) == place            \* mutant: nobody is signalled
Woken(place) == IF place = "stopping" THEN "woken" ELSE place

\* pthread_cond_signal wakes a stop that waits.
Signal ==
  /\ fault = "none" /\ thread.pc = "signal"
  /\ app' = Woken(app)
  /\ Goto(IF s.destroying THEN "exit" ELSE "bell")
  /\ UNCHANGED <<s, nfr, fault>>

Bell ==
  /\ fault = "none" /\ thread.pc = "bell" /\ s.doorbell
  /\ s' = [s EXCEPT !.doorbell = FALSE]
  /\ Goto("top")
  /\ UNCHANGED <<nfr, app, fault>>

Exit ==
  /\ fault = "none" /\ thread.pc = "exit"
  /\ s' = [s EXCEPT !.thread_created = FALSE]
  /\ Goto("done")
  /\ UNCHANGED <<nfr, app, fault>>
----------------------------------------------------------------------------
AppNext == StreamInit \/ Start \/ StartThread \/ Stop \/ StopEnds \/ Destroy \/ Joined
ThreadNext == Top \/ Trigger \/ Check \/ Call \/ WaitForSpace \/ Broken \/ Tell
           \/ Signal \/ Bell \/ Exit

Next == AppNext \/ ThreadNext

Spec == Init /\ [][Next]_vars

\* The thread runs: its devices get frames and its callbacks return.
Fairness == WF_vars(ThreadNext) /\ WF_vars(StopEnds) /\ WF_vars(Joined)
----------------------------------------------------------------------------
(* Properties *)

\* The callback does not run after stop returned, nor after the loop stored
\* that it drained or failed.
StopQuiesces ==
  app \in {"idle", "join", "done"} \/ s.state \in {"drained", "error"} => thread.pc # "call"

\* The program ends for one reason: a stream is destroyed that was not started.
FaultsAreKnown == fault # "assert" /\ (fault = "join" => ~s.thread_created)

\* A callback is given no more frames than each buffer holds.
FramesFit ==
  thread.pc = "call" => /\ PlayOn => nfr \in 1..PlayFrames
                        /\ RecordOn => nfr \in 1..RecordFrames

\* Destroy returns when the thread has ended, or when there never was one.
FreedIsGone == app = "done" => thread.pc \in {"none", "done"}

\* A stop that was begun returns, unless the thread waits for the doorbell that
\* the start before it rang and the stop has taken back (line 668): then nobody
\* is left to signal.
StopReturns == (app = "stopping" /\ thread.pc # "bell") ~> app = "idle"

\* Destroying a stream that was stopped ends its thread.
DestroyReturns == app = "join" ~> (app = "done" \/ fault # "none")
----------------------------------------------------------------------------
(* What does not hold, see README.md. *)

\* Every stop that was begun returns.
EveryStopReturns == app = "stopping" ~> app = "idle"
----------------------------------------------------------------------------
(* The inductive invariant that the proofs of CubebProofs rest on. *)

\* Where the thread and the flags are while the user is at each of its places.
ThreadFitsApp ==
  /\ s.thread_created <=> thread.pc \notin {"none", "done"}
  /\ thread.pc = "none" => ~s.running
  /\ app \in {"none", "idle", "start"} =>
       /\ ~s.running /\ ~s.doorbell /\ s.state # "started"
       /\ thread.pc \in {"none", "tell", "signal", "bell"}
  /\ app = "none" => thread.pc = "none"
  /\ app = "running" => thread.pc # "done" /\ (s.running \/ s.state # "started")
  /\ app \in {"stopping", "woken"} =>
       ~s.running /\ ~s.doorbell /\ thread.pc \notin {"none", "done"}
  /\ app = "woken" => thread.pc = "bell"
  /\ app \in {"join", "done"} =>
       /\ thread.pc \in {"none", "tell", "signal", "bell", "top", "exit", "done"}
       /\ s.destroying \/ thread.pc = "none"
  /\ s.destroying => app \in {"join", "done"}
  /\ thread.pc \in {"exit", "done"} => s.destroying

\* The loop turns, or is called to, for a stream that was started and is not
\* at an end.
LoopIsStarted ==
  /\ thread.pc \in {"top", "trigger", "check", "call", "wait", "broken"} /\ ~s.destroying =>
       s.state = "started" /\ app \in {"running", "stopping"} /\ (app = "running" => s.running)
  /\ s.doorbell /\ ~s.destroying =>
       s.running /\ s.state = "started" /\ thread.pc \in {"tell", "signal", "bell"}
  /\ thread.new # "started"

\* The frames the devices had fit, or none were looked for.
FramesCounted ==
  thread.pc = "check" /\ nfr > 0 => /\ PlayOn => nfr <= PlayFrames
                                    /\ RecordOn => nfr <= RecordFrames

IInv == TypeOK /\ ThreadFitsApp /\ LoopIsStarted /\ FramesCounted /\ FramesFit /\ FaultsAreKnown
        /\ FreedIsGone
=============================================================================
