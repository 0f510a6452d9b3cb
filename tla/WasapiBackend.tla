--------------------------- MODULE WasapiBackend ---------------------------
(***************************************************************************)
(* The WASAPI backend of cubeb (extlibs/cubeb/src/cubeb_wasapi.cpp): one   *)
(* stream, its user, and its render thread, which waits for the events of  *)
(* the audio clients, a change of the default device and the order to shut *)
(* down.  A user that cannot join the thread in time gives the stream up:  *)
(* once bailout is set, the thread owns it and frees it.                   *)
(*                                                                         *)
(* An action of the thread is the work between two looks at the stream; one *)
(* of the user is a section of stream_reset_lock or a wait.                *)
(***************************************************************************)
EXTENDS Integers

CONSTANTS
  Kinds,         \* of streams: "output", "input", "duplex", "loopback"
  TimeoutLimit   \* timeouts in a row that end the thread

WasapiAssumption ==
  /\ Kinds \subseteq {"output", "input", "duplex", "loopback"}
  /\ TimeoutLimit \in Nat \ {0}

VARIABLES
  s,       \* the stream
  client,  \* what its audio clients do, one for each direction
  ev,      \* the events the thread waits for
  thread,  \* the render thread: where it is, timeouts so far, whether hr failed
  app,     \* where the user is
  fault    \* what ended the program: a failed assertion, or a client that is not there

vars == <<s, client, ev, thread, app, fault>>

Handlers == {"shutdown", "reconfigure", "refill", "input"}

\* pinned: the directions whose device was asked for, or may not be switched;
\* ready: the last setup_wasapi_stream succeeded.
Streams == [kind : Kinds, pinned : SUBSET {"o", "i"}, ready : BOOLEAN, draining : BOOLEAN,
            bailout : BOOLEAN, freed : BOOLEAN,
            told : {"none", "started", "stopped", "drained", "error"}]
Threads == [pc : Handlers \cup {"none", "head", "wait", "timeout", "restart", "read", "ask",
                                "call", "end", "tail", "tell", "free", "done"},
            count : 0..TimeoutLimit, failed : BOOLEAN]

TypeOK ==
  /\ s \in Streams /\ thread \in Threads
  /\ client \in [{"o", "i"} -> {"none", "stopped", "running"}]
  /\ ev \in [Handlers -> BOOLEAN]
  /\ app \in {"none", "idle", "starting", "running", "stop", "joining", "stopped",
              "destroying", "done"}
  /\ fault \in {"none", "draining", "setup", "bailout"}

\* has_input, has_output: a loopback stream has a dummy output that drives it.
Own == CASE s.kind = "output" -> {"o"} [] s.kind = "input" -> {"i"} [] OTHER -> {"o", "i"}
HasOutput == "o" \in Own

\* Those the user asked for.
Asked == IF s.kind = "loopback" THEN {"i"} ELSE Own

Clients(run, stop) ==
  [d \in {"o", "i"} |-> IF d \in run THEN "running" ELSE IF d \in stop THEN "stopped" ELSE "none"]

Init ==
  /\ \E k \in Kinds, p \in SUBSET {"o", "i"} :
       s = [kind |-> k, pinned |-> p, ready |-> FALSE, draining |-> FALSE, bailout |-> FALSE,
            freed |-> FALSE, told |-> "none"]
  /\ s.pinned \subseteq Asked
  /\ client = Clients({}, {})
  /\ ev = [e \in Handlers |-> FALSE]
  /\ thread = [pc |-> "none", count |-> 0, failed |-> FALSE]
  /\ app = "none" /\ fault = "none"

\* wasapi_state_callback
Tell(stream, state) == IF s.bailout THEN stream ELSE [stream EXCEPT !.told = state]

Set(e) == ev' = [ev EXCEPT ![e] = TRUE]
----------------------------------------------------------------------------
(* The user. *)

\* wasapi_stream_init with setup_wasapi_stream; a stream that fails is destroyed.
StreamInit ==
  /\ fault = "none" /\ app = "none"
  /\ \/ /\ s' = [s EXCEPT !.ready = TRUE] /\ client' = Clients({}, Own) /\ app' = "idle"
     \/ /\ s' = [s EXCEPT !.freed = TRUE] /\ UNCHANGED client /\ app' = "done"
  /\ UNCHANGED <<ev, thread, fault>>

Present == {d \in {"o", "i"} : client[d] # "none"}

\* stream_start_one_side for each client there is: one that lost its device is
\* set up again with the other one, which stays as it was set up.
StartSides ==
  \/ client' = Clients(Present, {}) /\ UNCHANGED <<s, ev>>
  \/ /\ \/ client' = Clients(IF "i" \in Own THEN {"i"} ELSE Own, Own)
        \/ client' = Clients(Own, {})
     /\ s' = [s EXCEPT !.ready = TRUE]
     /\ ev' = [ev EXCEPT !["reconfigure"] = FALSE]

\* wasapi_stream_start asserts that there is a client.
Start ==
  /\ fault = "none" /\ app \in {"idle", "stopped"}
  /\ IF Present = {}
     THEN fault' = "setup" /\ UNCHANGED <<s, client, ev, thread, app>>
     ELSE /\ StartSides
          /\ thread' = [pc |-> "head", count |-> 0, failed |-> FALSE]
          /\ app' = "starting"
          /\ UNCHANGED fault

\* A setup that fails leaves the clients it has made.
SetupFails ==
  /\ \E left \in SUBSET Own : client' = Clients({}, left)
  /\ s' = [s EXCEPT !.ready = FALSE]

\* It fails: a client that was started goes on.
StartFails ==
  /\ fault = "none" /\ app \in {"idle", "stopped"} /\ Present # {}
  /\ \/ \E run \in SUBSET Present : client' = Clients(run, Present) /\ UNCHANGED s
     \/ \E run \in SUBSET Own : client' = Clients(run, Own) /\ s' = [s EXCEPT !.ready = TRUE]
     \/ SetupFails
  /\ app' = "idle"
  /\ UNCHANGED <<ev, thread, fault>>

\* STARTED is told with the lock held, after the thread was created.
TellStarted ==
  /\ fault = "none" /\ app = "starting"
  /\ s' = Tell(s, "started")
  /\ app' = "running"
  /\ UNCHANGED <<client, ev, thread, fault>>

\* The section of wasapi_stream_stop; a client that cannot be stopped ends it.
Stop ==
  /\ fault = "none" /\ app = "running"
  /\ \/ /\ client' = [d \in {"o", "i"} |-> IF client[d] = "none" THEN "none" ELSE "stopped"]
        /\ s' = Tell(s, "stopped") /\ app' = "stop"
     \/ /\ \E stop \in SUBSET {d \in Own : client[d] # "none"} :
             client' = [d \in {"o", "i"} |-> IF d \in stop THEN "stopped" ELSE client[d]]
        /\ UNCHANGED <<s, app>>
  /\ UNCHANGED <<ev, thread, fault>>

\* stop_and_join_render_thread asserts that the stream was not given up.
SetShutdown ==
  /\ fault = "none" /\ app = "stop"
  /\ Set("shutdown") /\ app' = "joining"
  /\ fault' = IF s.bailout THEN "bailout" ELSE "none"
  /\ UNCHANGED <<s, client, thread>>

Join ==
  /\ fault = "none" /\ app = "joining" /\ thread.pc = "done"
  /\ ev' = [ev EXCEPT !["shutdown"] = FALSE]
  /\ app' = "stopped"
  /\ UNCHANGED <<s, client, thread, fault>>

MutBailsOut(destroys) == TRUE      \* mutant: stop gives the stream to the thread too
BailsOut(destroys) == destroys

\* Five seconds have passed.
JoinTimesOut ==
  /\ fault = "none" /\ app = "joining" /\ thread.pc # "done"
  /\ s' = [Tell(s, "error") EXCEPT !.bailout = BailsOut(FALSE)]
  /\ app' = "running"
  /\ UNCHANGED <<client, ev, thread, fault>>

\* wasapi_stream_destroy of a stream that was stopped, or could not be.
Destroy ==
  /\ fault = "none"
  /\ \/ app \in {"idle", "stopped"} /\ s' = [s EXCEPT !.freed = TRUE] /\ app' = "done"
        /\ client' = Clients({}, {}) /\ UNCHANGED ev
     \/ app = "running" /\ s.told = "error" /\ Set("shutdown") /\ app' = "destroying"
        /\ UNCHANGED <<s, client>>
  /\ UNCHANGED <<thread, fault>>

DestroyJoins ==
  /\ fault = "none" /\ app = "destroying" /\ thread.pc = "done"
  /\ s' = [s EXCEPT !.freed = TRUE] /\ client' = Clients({}, {}) /\ app' = "done"
  /\ UNCHANGED <<ev, thread, fault>>

DestroyTimesOut ==
  /\ fault = "none" /\ app = "destroying" /\ thread.pc # "done"
  /\ s' = [s EXCEPT !.bailout = BailsOut(TRUE)] /\ app' = "done"
  /\ UNCHANGED <<client, ev, thread, fault>>
----------------------------------------------------------------------------
(* What Windows signals. *)

\* No event for the client that a loopback stream records with.
Signal ==
  /\ fault = "none"
  /\ \/ client["o"] = "running" /\ Set("refill")
     \/ client["i"] = "running" /\ s.kind # "loopback" /\ Set("input")
     \/ /\ ~(Asked \subseteq s.pinned) /\ ~s.freed /\ app # "none"
        /\ Set("reconfigure")                                   \* OnDefaultDeviceChanged
  /\ UNCHANGED <<s, client, thread, app, fault>>
----------------------------------------------------------------------------
(* wasapi_stream_render_loop *)

At(pc) == fault = "none" /\ thread.pc = pc
Goto(pc) == thread' = [thread EXCEPT !.pc = pc]
Fail(pc) == thread' = [thread EXCEPT !.pc = pc, !.failed = TRUE]

\* handle_emergency_bailout
BailOut ==
  /\ fault = "none" /\ thread.pc \in Handlers \cup {"head", "timeout", "tail"} /\ s.bailout
  /\ Goto("free")
  /\ UNCHANGED <<s, client, ev, app, fault>>

Free ==
  /\ At("free")
  /\ s' = [s EXCEPT !.freed = TRUE] /\ client' = Clients({}, {})
  /\ Goto("done")
  /\ UNCHANGED <<ev, app, fault>>

Head ==
  /\ At("head") /\ ~s.bailout /\ Goto("wait")
  /\ UNCHANGED <<s, client, ev, app, fault>>

\* The events in the order of wait_array.
First ==
  IF ev["shutdown"] THEN "shutdown" ELSE IF ev["reconfigure"] THEN "reconfigure"
  ELSE IF ev["refill"] THEN "refill" ELSE IF ev["input"] THEN "input" ELSE "timeout"

\* WaitForMultipleObjects
Wait ==
  /\ At("wait")
  /\ IF First = "timeout"
     THEN /\ thread' = [thread EXCEPT !.pc = "timeout", !.count = @ + 1] /\ UNCHANGED ev
     ELSE /\ thread' = [thread EXCEPT !.pc = First, !.count = 0]
          /\ ev' = [ev EXCEPT ![First] = FALSE]
  /\ UNCHANGED <<s, client, app, fault>>

OnTimeout ==
  /\ At("timeout") /\ ~s.bailout
  /\ IF thread.count >= TimeoutLimit THEN Fail("end") ELSE Goto("head")
  /\ UNCHANGED <<s, client, ev, app, fault>>

OnShutdown ==
  /\ At("shutdown") /\ ~s.bailout
  /\ s' = IF s.draining THEN Tell(s, "drained") ELSE s
  /\ Goto("end")
  /\ UNCHANGED <<client, ev, app, fault>>

\* The streams are stopped, closed and set up with the new default device.
OnReconfigure ==
  /\ At("reconfigure") /\ ~s.bailout /\ app # "starting"
  /\ \/ client' = Clients({}, Own) /\ Goto("restart") /\ s' = [s EXCEPT !.ready = TRUE]
     \/ SetupFails /\ Fail("end")
  /\ UNCHANGED <<ev, app, fault>>

Restart ==
  /\ At("restart")
  /\ \/ client' = Clients(Own, {}) /\ Goto("head")
     \/ \E run \in SUBSET Own : client' = Clients(run, Own) /\ Fail("end")
  /\ UNCHANGED <<s, ev, app, fault>>

\* A client that lost its device: the stream is set up again, or it fails.
Lost(side, kept, told) ==
  IF side \in s.pinned THEN s' = Tell(s, "error") /\ Goto(told) /\ UNCHANGED ev
  ELSE Set("reconfigure") /\ Goto(kept) /\ UNCHANGED s

\* A stream that was started though its setup failed has no client, service or
\* resampler where the thread needs one.
Missing ==
  /\ ~s.ready /\ \E pc \in {"refill", "input", "read"} : At(pc)
  /\ fault' = "setup"
  /\ UNCHANGED <<s, client, ev, thread, app>>

MutDrains == {"head", "ask"}    \* mutant: the buffer of a draining stream is filled
Drains == {"head"}

\* refill_callback_output and refill_callback_duplex up to the data callback.
\* What get_input_buffer tells of a loopback stream is ignored.
OnRefill ==
  /\ At("refill") /\ ~s.bailout
  /\ \/ Lost("o", "head", "end")
     \/ Goto("end") /\ UNCHANGED <<s, ev>>           \* no padding, no buffer
     \/ ~s.draining /\ \E pc \in {"head", "ask"} : Goto(pc) /\ UNCHANGED <<s, ev>>
     \/ s.draining /\ \E pc \in Drains : Goto(pc) /\ UNCHANGED <<s, ev>>
     \/ s.draining /\ s' = Tell(s, "drained") /\ Goto("end") /\ UNCHANGED ev
     \/ s.kind = "loopback" /\ Lost("i", "ask", "ask")
  /\ UNCHANGED <<client, app, fault>>

\* get_input_buffer returns false where the thread tests for a failed HRESULT:
\* it goes on whatever happened.
AfterInput == IF HasOutput THEN "head" ELSE "read"
OnInput ==
  /\ At("input") /\ ~s.bailout
  /\ \/ Goto(AfterInput) /\ UNCHANGED <<s, ev>>
     \/ Lost("i", AfterInput, AfterInput)
  /\ UNCHANGED <<client, app, fault>>

\* refill_callback_input
Read ==
  /\ At("read")
  /\ \/ Lost("i", "head", "end") /\ UNCHANGED fault
     \/ \E pc \in {"end", "head"} : Goto(pc) /\ UNCHANGED <<s, ev, fault>>
     \/ /\ Goto("ask") /\ UNCHANGED <<s, ev>>
        /\ fault' = IF s.draining THEN "draining" ELSE "none"
  /\ UNCHANGED <<client, app>>

MutAsk == Goto("call")          \* mutant: the stream may have been given up
Ask == Goto(IF s.bailout THEN "end" ELSE "call")

\* wasapi_data_callback
CallBack ==
  /\ At("ask") /\ Ask
  /\ UNCHANGED <<s, client, ev, app, fault>>

\* It returns all the frames, too few, or an error.
Returns ==
  /\ At("call") /\ app # "starting"
  /\ \/ (Goto("head") \/ (HasOutput /\ Goto("end"))) /\ UNCHANGED s
     \/ /\ s.kind # "loopback" /\ s' = [s EXCEPT !.draining = TRUE]
        /\ Goto(IF HasOutput THEN "head" ELSE "end")
     \/ s' = Tell(s, "error") /\ Goto("end")
  /\ UNCHANGED <<client, ev, app, fault>>

MutSilenced(cl) == cl           \* mutant: the clients of a thread that ends go on
Silenced(cl) == [d \in {"o", "i"} |-> IF cl[d] = "none" THEN "none" ELSE "stopped"]

\* After the loop.
End ==
  /\ At("end") /\ client' = Silenced(client) /\ Goto("tail")
  /\ UNCHANGED <<s, ev, app, fault>>

Tail ==
  /\ At("tail") /\ ~s.bailout /\ Goto("tell")
  /\ UNCHANGED <<s, client, ev, app, fault>>

TellFailed ==
  /\ At("tell")
  /\ s' = IF thread.failed THEN Tell(s, "error") ELSE s
  /\ thread' = [pc |-> "done", count |-> 0, failed |-> FALSE]
  /\ UNCHANGED <<client, ev, app, fault>>
----------------------------------------------------------------------------
AppNext == StreamInit \/ Start \/ StartFails \/ TellStarted \/ Stop \/ SetShutdown \/ Join
        \/ JoinTimesOut \/ Destroy \/ DestroyJoins \/ DestroyTimesOut
ThreadNext == BailOut \/ Free \/ Head \/ Wait \/ OnTimeout \/ OnShutdown \/ OnReconfigure
           \/ Restart \/ Missing \/ OnRefill \/ OnInput \/ Read \/ CallBack \/ Returns \/ End \/ Tail
           \/ TellFailed

Next == AppNext \/ Signal \/ ThreadNext

Spec == Init /\ [][Next]_vars

Fairness == WF_vars(ThreadNext)
----------------------------------------------------------------------------
(* Properties *)

\* After a stop that returned CUBEB_OK the thread is gone, and no client runs
\* that it restarted meanwhile.
StopQuiesces ==
  app = "stopped" => thread.pc = "done" /\ \A d \in {"o", "i"} : client[d] # "running"

\* The stream is freed by the user or by the thread it was given to; then neither
\* uses it, and it has no client.
FreedIsGone ==
  s.freed => app = "done" /\ thread.pc \in {"none", "done"} /\ Present = {}

\* Nobody joins a thread that was given the stream.  The assertions that can fail
\* are the one on a stream that records and is started again after it returned
\* too few frames, and those on a stream that is used after a setup that failed.
FaultsAreKnown ==
  /\ fault # "bailout"
  /\ fault = "draining" => s.kind = "input" /\ s.draining
  /\ fault = "setup" => ~s.ready

\* A stream that drains asks for no more frames.
NoCallbackAfterShort == thread.pc = "call" => ~s.draining

\* No data callback begins after destroy has returned.
AfterDestroy == thread'.pc = "call" /\ thread.pc # "call" => app # "done"
CallbacksWhileOwned == [][AfterDestroy]_vars

----------------------------------------------------------------------------
(* The inductive invariant that the proofs of CubebProofs rest on. *)

\* The thread runs while the user has the stream; after that it owns the stream.
ThreadFitsApp ==
  /\ app \in {"none", "idle"} => thread.pc \in {"none", "done"}
  /\ app = "stopped" => thread.pc = "done"
  /\ app \in {"starting", "running", "stop", "joining", "destroying"} => thread.pc # "none"
  /\ app = "done" => s.bailout \/ thread.pc \in {"none", "done"}
  /\ s.bailout => app = "done"
  /\ thread.pc = "free" => s.bailout

\* After its loop the thread has stopped the clients; only a start that failed
\* starts one then.
SilentAfterLoop ==
  thread.pc \in {"tail", "tell", "done"} /\ app # "idle" =>
    \A d \in {"o", "i"} : client[d] # "running"

\* What holds at each place of the loop; a stream that was set up has its clients.
LoopFits ==
  /\ thread.pc \notin {"timeout", "end", "tail", "tell", "free", "done"} =>
       thread.count < TimeoutLimit
  /\ thread.pc = "read" => s.kind = "input"
  /\ s.draining => s.kind # "loopback"
  /\ thread.pc = "ask" => ~s.draining \/ fault = "draining"
  /\ s.ready /\ ~s.freed => Own \subseteq Present
  /\ app = "none" => Present = {}

IInv == /\ TypeOK /\ ThreadFitsApp /\ SilentAfterLoop /\ LoopFits
        /\ FreedIsGone /\ FaultsAreKnown /\ NoCallbackAfterShort
----------------------------------------------------------------------------
(* What does not hold, see README.md. *)

\* The data callback stops after an error was told (cubeb.h:421-422).
NoCallbackAfterError == thread.pc = "call" /\ app = "running" => s.told # "error"

\* A render thread that ended by itself told why.
EndIsTold == thread.pc = "done" /\ app = "running" => s.told \in {"drained", "error"}

\* A stream that was started runs in all its directions.
BothSidesRun == app = "starting" /\ thread.pc = "head" => \A d \in Own : client[d] = "running"
=============================================================================
