---------------------------- MODULE SndioBackend ----------------------------
(***************************************************************************)
(* The sndio backend of cubeb (extlibs/cubeb/src/cubeb_sndio.c): one       *)
(* stream, its user, and the thread of sndio_mainloop, which moves whole   *)
(* blocks between the device and the data callback.  A block is one frame  *)
(* here: what the loop tells apart is whether the block it plays, and the  *)
(* one it records, is done.                                                *)
(*                                                                         *)
(* The thread holds the stream's mutex but in its callbacks and in poll;   *)
(* `active' is read and written without it.                                *)
(***************************************************************************)
EXTENDS Integers

CONSTANTS
  Kinds,     \* of streams: "output", "input", "duplex"
  Blocks,    \* nblks, the blocks of the device's buffer
  MaxFrames  \* bounds the frames of a behaviour

SndioAssumption ==
  /\ Kinds \subseteq {"output", "input", "duplex"}
  /\ Blocks \in Nat \ {0} /\ MaxFrames \in Nat

VARIABLES
  s,         \* the stream: its kind, active, swpos and hwpos
  thread,    \* its thread: where it is, its block and what it tells at the end
  device,    \* the blocks it was given to play and has recorded
  app        \* where the user is

vars == <<s, thread, device, app>>

Streams == [kind : Kinds, active : BOOLEAN, swpos : 0..MaxFrames, hwpos : 0..MaxFrames + 1]
Threads == [pc : {"none", "start", "top", "call", "poll", "end", "gone"},
            played : BOOLEAN, recorded : BOOLEAN, eof : BOOLEAN, prime : 0..Blocks,
            state : {"none", "started", "stopped", "drained", "error"}]
Devices == [played : 0..MaxFrames + 1, recorded : 0..MaxFrames + 1, calls : 0..MaxFrames + 1]

TypeOK ==
  /\ s \in Streams /\ thread \in Threads /\ device \in Devices
  /\ app \in {"none", "idle", "running", "join", "stopped", "done"}

Plays == s.kind # "input"
Records == s.kind # "output"

Init ==
  /\ \E k \in Kinds : s = [kind |-> k, active |-> FALSE, swpos |-> 0, hwpos |-> 0]
  /\ thread = [pc |-> "none", played |-> TRUE, recorded |-> TRUE, eof |-> FALSE, prime |-> 0,
               state |-> "none"]
  /\ device = [played |-> 0, recorded |-> 0, calls |-> 0]
  /\ app = "none"
----------------------------------------------------------------------------
(* The user. *)

\* sndio_stream_init, of which StreamSetup tells more.
StreamInit ==
  /\ app = "none" /\ app' \in {"idle", "done"}
  /\ UNCHANGED <<s, thread, device>>

\* sndio_stream_start; a thread that ended by itself was not joined.
Start ==
  /\ \/ app \in {"idle", "stopped"}
     \/ app = "running" /\ thread.pc = "gone"
  /\ \/ /\ s' = [s EXCEPT !.active = TRUE] /\ app' = "running"
        /\ thread' = [thread EXCEPT !.pc = "start"]
     \/ /\ s' = [s EXCEPT !.active = FALSE] /\ app' = "idle" /\ UNCHANGED thread
  /\ UNCHANGED device

MutClears(b) == b                 \* mutant: stop forgets to clear `active'
Clears(b) == FALSE

\* sndio_stream_stop
Stop ==
  /\ app = "running" /\ s.active
  /\ s' = [s EXCEPT !.active = Clears(@)]
  /\ app' = "join"
  /\ UNCHANGED <<thread, device>>

MutJoined == TRUE                 \* mutant: stop does not wait for the thread
Joined == thread.pc \in {"none", "gone"}

StopReturns ==
  /\ app = "join" /\ Joined
  /\ app' = "stopped"
  /\ UNCHANGED <<s, thread, device>>

\* sndio_stream_destroy
Destroy ==
  /\ app \in {"idle", "stopped"}
  /\ app' = "done"
  /\ UNCHANGED <<s, thread, device>>
----------------------------------------------------------------------------
(* The thread. *)

MutPrimed == 0                    \* mutant: a stream that also records is not primed
Primed == IF Plays THEN Blocks ELSE 0

\* Up to the loop: without memory, or when sio_start fails, STARTED is the last
\* that the user is told.
ThreadStart ==
  /\ thread.pc = "start"
  /\ \/ thread' = [thread EXCEPT !.pc = "top", !.played = TRUE, !.recorded = Plays,
                                 !.eof = FALSE, !.prime = Primed, !.state = "started"]
     \/ \E told \in {"none", "started"} :
          thread' = [thread EXCEPT !.pc = "gone", !.state = told]
  /\ device' = [played |-> 0, recorded |-> 0, calls |-> 0]
  /\ UNCHANGED <<s, app>>

\* The thread tells the state it ends with after it stopped the device.
Ends(state) == thread' = [thread EXCEPT !.pc = "end", !.state = state]

MutDone == thread.recorded        \* mutant: the block to play is not waited for
Done == thread.played /\ thread.recorded

\* The head of the loop.
Top ==
  /\ thread.pc = "top"
  /\ IF ~s.active THEN Ends("stopped")
     ELSE IF Done /\ thread.eof THEN Ends("drained")
     ELSE thread' = [thread EXCEPT !.pc = IF Done THEN "call" ELSE "poll"]
  /\ UNCHANGED <<s, device, app>>

\* The data callback returned a whole block, none of it, a part of it (which is
\* played), or an error.  A block that is not primed is recorded too.
Returns ==
  /\ thread.pc = "call"
  /\ \/ UNCHANGED <<s, device>> /\ Ends("error")
     \/ UNCHANGED <<s, device>> /\ Ends("drained")
     \/ /\ s.swpos < MaxFrames
        /\ s' = [s EXCEPT !.swpos = @ + 1]
        /\ device' = [device EXCEPT !.calls = @ + 1]
        /\ \E short \in IF Plays THEN BOOLEAN ELSE {FALSE} :
             LET prime == IF thread.prime > 0 THEN thread.prime - 1 ELSE 0 IN
             thread' = [thread EXCEPT !.pc = "poll", !.eof = short, !.prime = prime,
                                      !.played = ~Plays, !.recorded = ~Records]
  /\ UNCHANGED app

\* poll and what follows it: the device takes the block, gives one, moves on,
\* or is gone.  While the device is primed the block to record is skipped.
Poll ==
  /\ thread.pc = "poll"
  /\ \/ Ends("error") /\ UNCHANGED <<s, device>>
     \/ \E out \in IF Plays /\ ~thread.played THEN BOOLEAN ELSE {FALSE},
           in \in IF Records /\ ~thread.recorded /\ thread.prime = 0 THEN BOOLEAN ELSE {FALSE} :
          LET skip == Records /\ thread.prime > 0 IN
          /\ thread' = [thread EXCEPT !.pc = "top", !.played = @ \/ out,
                                      !.recorded = @ \/ in \/ skip]
          /\ device' = [device EXCEPT !.played = @ + (IF out THEN 1 ELSE 0),
                                      !.recorded = @ + (IF in THEN 1 ELSE 0)]
          /\ UNCHANGED s
  /\ UNCHANGED app

\* sndio_onmove, called by sio_revents: a frame that was written was played,
\* or one was recorded by the device.
Moved ==
  /\ thread.pc = "poll"
  /\ IF Plays THEN s.hwpos < s.swpos - (IF thread.played THEN 0 ELSE 1)
              ELSE s.hwpos <= device.recorded /\ s.hwpos < MaxFrames
  /\ s' = [s EXCEPT !.hwpos = @ + 1]
  /\ UNCHANGED <<thread, device, app>>

End ==
  /\ thread.pc = "end"
  /\ s' = [s EXCEPT !.hwpos = s.swpos]
  /\ thread' = [thread EXCEPT !.pc = "gone"]
  /\ UNCHANGED <<device, app>>
----------------------------------------------------------------------------
ThreadNext == ThreadStart \/ Top \/ Returns \/ Poll \/ End
AppNext == StreamInit \/ Start \/ Stop \/ StopReturns \/ Destroy

Next == ThreadNext \/ Moved \/ AppNext

Spec == Init /\ [][Next]_vars

\* The thread runs, its callbacks return, and so does poll: the device goes on.
Fairness == WF_vars(ThreadNext) /\ WF_vars(StopReturns)
----------------------------------------------------------------------------
(* Properties *)

\* After stop the thread is gone, so that no callback runs.
StopQuiesces ==
  app \in {"stopped", "done"} => thread.pc \in {"none", "gone"}

\* Playing and recording keep their distance: every callback but the first
\* Blocks of a duplex stream comes with a new block that was recorded, and with
\* the block before it played.
InStep ==
  thread.pc = "call" =>
    /\ Plays => device.played = device.calls
    /\ Records => device.recorded = IF ~Plays THEN device.calls + 1
                                    ELSE IF device.calls < Blocks THEN 0
                                    ELSE device.calls - Blocks + 1

\* A thread that got a short block asks for no other, and DRAINED is told when
\* the device took all that it was given.
ShortIsLast ==
  /\ thread.pc = "call" => ~thread.eof
  /\ thread.pc \in {"end", "gone"} /\ thread.state = "drained" /\ Plays =>
       device.played = device.calls

\* Stop returns.
StopEnds == app = "join" ~> app = "stopped"
----------------------------------------------------------------------------
(* The inductive invariant that the proofs of CubebProofs rest on. *)

\* The thread is there while the user runs the stream or waits for it.
ThreadFitsApp == thread.pc \notin {"none", "gone"} => app \in {"running", "join"}

\* In the loop what the device took and gave is what the callbacks were for,
\* but for the block that is not done; the first blocks of a duplex stream are
\* not recorded.
CountsAdd ==
  thread.pc \in {"top", "call", "poll"} =>
    /\ device.calls <= s.swpos
    /\ IF Plays THEN device.played = device.calls - (IF thread.played THEN 0 ELSE 1)
                ELSE thread.played /\ thread.prime = 0 /\ device.played = 0
    /\ ~Records => thread.recorded /\ device.recorded = 0
    /\ Records /\ ~Plays =>
         device.recorded = device.calls + (IF thread.recorded THEN 1 ELSE 0)
    /\ Records /\ Plays =>
         IF device.calls < Blocks
         THEN thread.prime = Blocks - device.calls /\ device.recorded = 0
         ELSE /\ thread.prime = 0
              /\ device.recorded = device.calls - Blocks + (IF thread.recorded THEN 1 ELSE 0)
    /\ thread.pc = "call" => Done

IInv == TypeOK /\ ThreadFitsApp /\ CountsAdd /\ ShortIsLast
----------------------------------------------------------------------------
(* What does not hold, see README.md. *)

\* A stream is started by a thread that goes on, or the user is told.
StartIsTold == thread.pc = "gone" => thread.state \notin {"none", "started"}

\* sndio_stream_get_latency: a stream that records is never behind itself.
LatencyIsNatural == s.hwpos <= s.swpos
=============================================================================
