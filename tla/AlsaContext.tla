---------------------------- MODULE AlsaContext ----------------------------
(***************************************************************************)
(* The ALSA backend of cubeb (extlibs/cubeb/src/cubeb_alsa.c): one thread, *)
(* alsa_run, polls the descriptors of all running streams and a control    *)
(* pipe, and calls the streams' data callbacks; the application's threads  *)
(* open, start, stop and destroy streams meanwhile.                        *)
(*                                                                         *)
(* An action is what a thread does from taking the context's mutex to      *)
(* giving it back, or between two such sections.  A stream plays or        *)
(* records, alone; each is handled by one thread of the application, which *)
(* stops it before it destroys it, as cubeb.h:560 asks.  Locals of alsa_run *)
(* go back to a fixed value where they are no longer read.                 *)
(***************************************************************************)
EXTENDS Integers, FiniteSets

CONSTANTS
  Streams,            \* streams the application may have, one thread for each
  Recording,          \* those of type SND_PCM_STREAM_CAPTURE; the others play
  NoStream,
  CUBEB_STREAM_MAX,   \* streams a context has room for
  PipeSize            \* bytes the control pipe holds before writes fail

ASSUME StreamsAssumption ==
  IsFiniteSet(Streams) /\ NoStream \notin Streams /\ Recording \subseteq Streams
ASSUME BoundsAssumption  == CUBEB_STREAM_MAX \in Nat \ {0} /\ PipeSize \in Nat \ {0}

VARIABLES
  \* The context.
  streams,      \* the sparse array
  rebuild,      \* fds has to be rebuilt before the next poll
  fds,          \* streams whose stm->fds points into the context's fds
  pipe,         \* bytes in the control pipe
  shutdown,
  active_streams,
  \* alsa_run.
  run,          \* where it is
  cur,          \* the stream it processes
  revents,      \* polled streams with events, after the last poll
  control,      \* the pipe had one
  result,       \* what alsa_process_stream returned
  \* The streams.
  state,        \* enum stream_state
  ready,        \* the device has an event for poll
  drained,      \* it is draining and drain_timeout has passed
  short,        \* history: the data callback returned too little since the start
  \* The application.
  app,          \* where the thread of a stream is
  owner         \* where the thread is that owns the context

contextVars == <<streams, rebuild, fds, pipe, shutdown, active_streams>>
runVars     == <<run, cur, revents, control, result>>
streamVars  == <<state, ready, drained, short>>
vars == <<contextVars, runVars, streamVars, app, owner>>

Slots == 1..CUBEB_STREAM_MAX
States == {"INACTIVE", "RUNNING", "DRAINING", "PROCESSING", "ERROR"}
Registered == {s \in Streams : \E i \in Slots : streams[i] = s}
SlotOf(s) == CHOOSE i \in Slots : streams[i] = s

Init ==                              \* alsa_init
  /\ streams = [i \in Slots |-> NoStream]
  /\ rebuild = TRUE /\ fds = {} /\ pipe = 0
  /\ shutdown = FALSE /\ active_streams = 0
  /\ run = "prepare" /\ cur = NoStream /\ revents = {} /\ control = FALSE
  /\ result = "RUNNING"
  /\ state = [s \in Streams |-> "INACTIVE"]
  /\ ready = [s \in Streams |-> FALSE]
  /\ drained = [s \in Streams |-> FALSE]
  /\ short = [s \in Streams |-> FALSE]
  /\ app = [s \in Streams |-> "none"]
  /\ owner = "running"
----------------------------------------------------------------------------
(* poll_wake and alsa_set_stream_state. *)

\* A write to the full, non-blocking pipe fails and is ignored.
Written(bytes, n) == IF bytes + n <= PipeSize THEN bytes + n ELSE PipeSize

\* The broadcast on the condition of each stream of S.
MutWoken(S) == app                   \* mutant: no pthread_cond_broadcast
Woken(S) ==
  [s \in Streams |-> IF s \in S /\ app[s] = "stop wait" THEN "stop" ELSE app[s]]

\* The streams of S change to the states of st; the pipe held "bytes".
SetStates(S, st, bytes) ==
  /\ state' = st
  /\ rebuild' = (rebuild \/ S # {})
  /\ pipe' = Written(bytes, Cardinality(S))
  /\ app' = Woken(S)
----------------------------------------------------------------------------
(* alsa_run. *)

Running == {s \in Registered : state[s] = "RUNNING"}

\* Rebuilds fds if it has to, computes the timeout, and goes to poll.
Prepare ==
  /\ run = "prepare"
  /\ run' = "poll"
  /\ fds' = IF rebuild THEN Running ELSE fds
  /\ rebuild' = FALSE
  /\ UNCHANGED <<streams, pipe, shutdown, active_streams, cur, revents, control, result>>
  /\ UNCHANGED <<streamVars, app, owner>>

Events == {s \in fds : ready[s]}

PollEvents ==
  /\ run = "poll"
  /\ pipe > 0 \/ Events # {}
  /\ run' = "events"
  /\ revents' = Events
  /\ control' = (pipe > 0)
  /\ UNCHANGED <<contextVars, cur, result, streamVars, app, owner>>

\* After a second, or earlier when a stream drains.
PollTimeout ==
  /\ run = "poll"
  /\ pipe = 0 /\ Events = {}
  /\ run' = "timeout"
  /\ UNCHANGED <<contextVars, cur, revents, control, result, streamVars, app, owner>>

ScanUnchanged == UNCHANGED <<streams, fds, shutdown, active_streams, ready, short, owner>>

\* The scan of the array goes on at slot i: the next running stream with an
\* event is set to PROCESSING and processed with the mutex given back; if there
\* is none alsa_run returns.  Before it the streams of S took the states st.
Scan(i, S, st, bytes) ==
  LET due == {j \in Slots : /\ j >= i
                            /\ streams[j] \in revents \cap fds
                            /\ st[streams[j]] = "RUNNING"}
  IN  \/ /\ due = {}
         /\ run' = "prepare" /\ cur' = NoStream /\ revents' = {}
         /\ SetStates(S, st, bytes)
      \/ \E j \in due :
           /\ \A k \in due : j <= k
           /\ run' = "process" /\ cur' = streams[j] /\ UNCHANGED revents
           /\ SetStates(S \cup {streams[j]}, [st EXCEPT ![streams[j]] = "PROCESSING"], bytes)

HandleEvents ==
  /\ run = "events"
  /\ LET bytes == IF control THEN pipe - 1 ELSE pipe
     IN  \/ /\ control /\ shutdown
            /\ run' = "done" /\ revents' = {} /\ pipe' = bytes
            /\ UNCHANGED <<rebuild, cur, state, app>>
         \/ ~(control /\ shutdown) /\ Scan(1, {}, state, bytes)
  /\ control' = FALSE
  /\ UNCHANGED <<result, drained>>
  /\ ScanUnchanged

(* alsa_process_stream, without the mutex of the context. *)

\* It ends with the result r, having read the events of the device away.
Returns(r) ==
  /\ run' = "store" /\ result' = r
  /\ ready' = [ready EXCEPT ![cur] = FALSE]
  /\ UNCHANGED <<contextVars, cur, revents, control, state, drained, app, owner>>

\* No frames yet, or enough of them in the buffer: nothing is asked of the user.
ProcessNull ==
  /\ run = "process"
  /\ Returns("RUNNING") /\ UNCHANGED short

CallBack ==
  /\ run = "process"
  /\ run' = "callback"
  /\ UNCHANGED <<contextVars, cur, revents, control, result, streamVars, app, owner>>

\* The user takes or returns all the frames offered or asked for.
ReturnFull ==
  /\ run = "callback"
  /\ Returns("RUNNING") /\ UNCHANGED short

MutReturnShort ==                    \* mutant: "draining" is forgotten
  run = "callback" /\ Returns("RUNNING") /\ short' = [short EXCEPT ![cur] = TRUE]
\* Fewer frames: a stream that plays gets silence for the rest, with a timer for
\* its length, and drains; one that records keeps the frames and goes on.
ReturnShort ==
  /\ run = "callback"
  /\ Returns(IF cur \in Recording THEN "RUNNING" ELSE "DRAINING")
  /\ short' = [short EXCEPT ![cur] = TRUE]

\* The device, or the user's error, cannot be recovered: the state callback is
\* told before the mutex is taken again.
ProcessFails ==
  /\ run \in {"process", "callback"}
  /\ Returns("ERROR") /\ UNCHANGED short

\* The state is stored whatever it has become meanwhile, and the scan goes on.
Store ==
  /\ run = "store"
  /\ Scan(SlotOf(cur) + 1, {cur}, [state EXCEPT ![cur] = result], pipe)
  /\ result' = "RUNNING"
  /\ UNCHANGED <<control, drained>>
  /\ ScanUnchanged

MutHandleTimeout ==                  \* mutant: ms_since with the wrong sign
  run = "timeout" /\ run' = "prepare" /\ UNCHANGED <<cur, revents, control, result, drained>>
  /\ SetStates({}, state, pipe) /\ ScanUnchanged
\* poll timed out: drains that are over, and running streams without activity
\* for CUBEB_WATCHDOG_MS, which may be any.  The state callbacks run inside,
\* with the mutex held.
HandleTimeout ==
  /\ run = "timeout"
  /\ run' = "prepare"
  /\ \E idle \in SUBSET Running :
       LET over == {s \in Registered : state[s] = "DRAINING" /\ drained[s]}
       IN  /\ SetStates(over \cup idle,
                        [s \in Streams |-> IF s \in over THEN "INACTIVE"
                                           ELSE IF s \in idle THEN "ERROR" ELSE state[s]],
                        pipe)
           /\ drained' = [s \in Streams |-> drained[s] /\ s \notin over]
  /\ UNCHANGED <<cur, revents, control, result>>
  /\ ScanUnchanged
----------------------------------------------------------------------------
(* The threads of the application. *)

AppUnchanged == UNCHANGED <<shutdown, runVars, owner>>

MutOpen(s) ==                        \* mutant: "> CUBEB_STREAM_MAX"
  /\ app[s] = "none" /\ owner = "running" /\ active_streams <= CUBEB_STREAM_MAX
  /\ active_streams' = active_streams + 1 /\ app' = [app EXCEPT ![s] = "opening"]
  /\ fds' = fds \ {s} /\ short' = [short EXCEPT ![s] = FALSE]
  /\ UNCHANGED <<streams, rebuild, pipe, state, ready, drained>> /\ AppUnchanged
\* alsa_stream_init_single: a place is counted first, without it the call fails.
\* The stream is a new one, INACTIVE and without fds.
Open(s) ==
  /\ app[s] = "none" /\ owner = "running"
  /\ active_streams < CUBEB_STREAM_MAX
  /\ active_streams' = active_streams + 1
  /\ app' = [app EXCEPT ![s] = "opening"]
  /\ state' = [state EXCEPT ![s] = "INACTIVE"]
  /\ fds' = fds \ {s}
  /\ short' = [short EXCEPT ![s] = FALSE]
  /\ UNCHANGED <<streams, rebuild, pipe, ready, drained>>
  /\ AppUnchanged

\* The device cannot be opened or set up: alsa_stream_destroy finds no slot.
OpenFails(s) ==
  /\ app[s] = "opening"
  /\ app' = [app EXCEPT ![s] = "unregistered"]
  /\ UNCHANGED <<streams, rebuild, fds, pipe, active_streams, streamVars>>
  /\ AppUnchanged

\* alsa_register_stream: the first free slot; if there were none, as OpenFails.
Register(s) ==
  /\ app[s] = "opening"
  /\ LET free == {i \in Slots : streams[i] = NoStream}
     IN  IF free = {}
         THEN app' = [app EXCEPT ![s] = "unregistered"] /\ UNCHANGED streams
         ELSE /\ app' = [app EXCEPT ![s] = "stopped"]
              /\ \E i \in free : /\ \A k \in free : i <= k
                                 /\ streams' = [streams EXCEPT ![i] = s]
  /\ UNCHANGED <<rebuild, fds, pipe, active_streams, streamVars>>
  /\ AppUnchanged

MutStart(s) ==                       \* mutant: stm->state = RUNNING and no more
  /\ app[s] \in {"stopped", "open"} /\ state[s] = "INACTIVE"
  /\ state' = [state EXCEPT ![s] = "RUNNING"]
  /\ app' = [app EXCEPT ![s] = "open"] /\ short' = [short EXCEPT ![s] = FALSE]
  /\ UNCHANGED <<streams, rebuild, fds, pipe, active_streams, ready, drained>> /\ AppUnchanged
\* alsa_stream_start: an error, which changes nothing, unless it is inactive.
Start(s) ==
  /\ app[s] \in {"stopped", "open"} /\ state[s] = "INACTIVE"
  /\ state' = [state EXCEPT ![s] = "RUNNING"]
  /\ rebuild' = TRUE /\ pipe' = Written(pipe, 1)
  /\ app' = [app EXCEPT ![s] = "open"]
  /\ short' = [short EXCEPT ![s] = FALSE]
  /\ UNCHANGED <<streams, fds, active_streams, ready, drained>>
  /\ AppUnchanged

\* alsa_stream_stop: waits for the end of PROCESSING on the stream's condition,
\* and looks again when it wakes.
StopCall(s) ==
  /\ app[s] \in {"stopped", "open"}
  /\ app' = [app EXCEPT ![s] = "stop"]
  /\ UNCHANGED <<streams, rebuild, fds, pipe, active_streams, streamVars>>
  /\ AppUnchanged

StopWait(s) ==
  /\ app[s] = "stop" /\ state[s] = "PROCESSING"
  /\ app' = [app EXCEPT ![s] = "stop wait"]
  /\ UNCHANGED <<streams, rebuild, fds, pipe, active_streams, streamVars>>
  /\ AppUnchanged

MutStopDone(s) ==                    \* mutant: stop does not wait
  /\ app[s] = "stop" /\ state' = [state EXCEPT ![s] = "INACTIVE"]
  /\ rebuild' = TRUE /\ pipe' = Written(pipe, 1) /\ app' = [app EXCEPT ![s] = "stopped"]
  /\ drained' = [drained EXCEPT ![s] = FALSE]
  /\ UNCHANGED <<streams, fds, active_streams, ready, short>> /\ AppUnchanged
StopDone(s) ==
  /\ app[s] = "stop" /\ state[s] # "PROCESSING"
  /\ state' = [state EXCEPT ![s] = "INACTIVE"]
  /\ rebuild' = TRUE /\ pipe' = Written(pipe, 1)
  /\ app' = [app EXCEPT ![s] = "stopped"]
  /\ drained' = [drained EXCEPT ![s] = FALSE]
  /\ UNCHANGED <<streams, fds, active_streams, ready, short>>
  /\ AppUnchanged

\* alsa_stream_destroy: the device is closed, then the slot is given back, then
\* the place is counted down and the stream freed.
Close(s) ==
  /\ app[s] = "stopped"
  /\ app' = [app EXCEPT ![s] = "closed"]
  /\ ready' = [ready EXCEPT ![s] = FALSE]
  /\ UNCHANGED <<streams, rebuild, fds, pipe, active_streams, state, drained, short>>
  /\ AppUnchanged

Unregister(s) ==
  /\ app[s] = "closed"
  /\ app' = [app EXCEPT ![s] = "unregistered"]
  /\ streams' = [i \in Slots |-> IF streams[i] = s THEN NoStream ELSE streams[i]]
  /\ UNCHANGED <<rebuild, fds, pipe, active_streams, streamVars>>
  /\ AppUnchanged

MutFree(s) ==                        \* mutant: a place is not given back
  /\ app[s] = "unregistered" /\ app' = [app EXCEPT ![s] = "none"]
  /\ UNCHANGED <<streams, rebuild, fds, pipe, active_streams, streamVars>> /\ AppUnchanged
Free(s) ==
  /\ app[s] = "unregistered"
  /\ app' = [app EXCEPT ![s] = "none"]
  /\ active_streams' = active_streams - 1
  /\ UNCHANGED <<streams, rebuild, fds, pipe, streamVars>>
  /\ AppUnchanged

MutDestroy ==                        \* mutant: the thread is not told
  /\ owner = "running" /\ \A s \in Streams : app[s] = "none"
  /\ owner' = "joining" /\ pipe' = Written(pipe, 1)
  /\ UNCHANGED <<streams, rebuild, fds, active_streams, shutdown, runVars, streamVars, app>>
\* alsa_destroy: only when no stream is left.
Destroy ==
  /\ owner = "running" /\ \A s \in Streams : app[s] = "none"
  /\ shutdown' = TRUE /\ pipe' = Written(pipe, 1)
  /\ owner' = "joining"
  /\ UNCHANGED <<streams, rebuild, fds, active_streams, runVars, streamVars, app>>

Join ==
  /\ owner = "joining" /\ run = "done"
  /\ owner' = "destroyed"
  /\ UNCHANGED <<contextVars, runVars, streamVars, app>>
----------------------------------------------------------------------------
(* The devices and the clock. *)

DeviceReady(s) ==
  /\ state[s] \in {"RUNNING", "PROCESSING"} /\ ~ready[s]
  /\ ready' = [ready EXCEPT ![s] = TRUE]
  /\ UNCHANGED <<contextVars, runVars, state, drained, short, app, owner>>

DrainOver(s) ==
  /\ state[s] = "DRAINING" /\ ~drained[s]
  /\ drained' = [drained EXCEPT ![s] = TRUE]
  /\ UNCHANGED <<contextVars, runVars, state, ready, short, app, owner>>

alsa_process_stream ==
  ProcessNull \/ CallBack \/ ReturnFull \/ ReturnShort \/ ProcessFails
alsa_run ==
  \/ Prepare \/ PollEvents \/ PollTimeout \/ HandleEvents \/ HandleTimeout
  \/ alsa_process_stream \/ Store

Next ==
  \/ alsa_run
  \/ \E s \in Streams :
       \/ Open(s) \/ OpenFails(s) \/ Register(s)
       \/ Start(s) \/ StopCall(s) \/ StopWait(s) \/ StopDone(s)
       \/ Close(s) \/ Unregister(s) \/ Free(s)
       \/ DeviceReady(s) \/ DrainOver(s)
  \/ Destroy \/ Join

Spec == Init /\ [][Next]_vars

\* Every thread of the program runs on; the user's callbacks return; the mutex
\* is fair enough that a thread that waits to stop a stream gets it in one of
\* the rounds in which alsa_run gives it back.  The application need not call.
Fairness ==
  /\ WF_vars(alsa_run)
  /\ \A s \in Streams :
       /\ WF_vars(OpenFails(s) \/ Register(s)) /\ WF_vars(StopWait(s)) /\ SF_vars(StopDone(s))
       /\ WF_vars(Unregister(s)) /\ WF_vars(Free(s))
       /\ WF_vars(DrainOver(s))
  /\ WF_vars(Join)

FairSpec == Spec /\ Fairness
----------------------------------------------------------------------------
(* Properties *)

Processing == {"process", "callback", "store"}

TypeOK ==
  /\ streams \in [Slots -> Streams \cup {NoStream}]
  /\ rebuild \in BOOLEAN /\ fds \subseteq Streams
  /\ pipe \in 0..PipeSize /\ shutdown \in BOOLEAN
  /\ active_streams \in 0..CUBEB_STREAM_MAX
  /\ run \in {"prepare", "poll", "events", "timeout", "done"} \cup Processing
  /\ cur \in IF run \in Processing THEN Streams ELSE {NoStream}
  /\ revents \subseteq Streams /\ control \in BOOLEAN
  /\ result \in {"RUNNING", "DRAINING", "ERROR"}
  /\ state \in [Streams -> States]
  /\ ready \in [Streams -> BOOLEAN] /\ drained \in [Streams -> BOOLEAN]
  /\ short \in [Streams -> BOOLEAN]
  /\ app \in [Streams -> {"none", "opening", "stopped", "open", "stop", "stop wait",
                          "closed", "unregistered"}]
  /\ owner \in {"running", "joining", "destroyed"}

\* Once stop has returned, and while the stream is torn down, the thread of the
\* context neither processes it nor calls back for it, nor comes back to it.
StopQuiesces ==
  \A s \in Streams :
    app[s] \in {"none", "opening", "stopped", "closed", "unregistered"} =>
      cur # s /\ state[s] = "INACTIVE"

\* A stop that waits has something to wait for: PROCESSING, of which the end
\* will be broadcast.
WaiterIsWoken ==
  \A s \in Streams : app[s] = "stop wait" => run \in Processing /\ cur = s

\* When poll blocks, it waits for exactly the running streams: a change of
\* state that it has not seen has left a byte in the control pipe.
PollIsCurrent ==
  run = "poll" /\ pipe = 0 =>
    fds = Running /\ ~shutdown

\* Neither side sleeps through what the other does.
NoWakeUpIsLost == WaiterIsWoken /\ PollIsCurrent

\* The count of streams is that of the streams there are, each of which has one
\* slot while it may be found there; a counted stream always finds a free one.
PlacesAgree ==
  /\ active_streams = Cardinality({s \in Streams : app[s] # "none"})
  /\ \A s \in Streams :
       Cardinality({i \in Slots : streams[i] = s}) =
         IF app[s] \in {"stopped", "open", "stop", "stop wait", "closed"} THEN 1 ELSE 0
  /\ (\E s \in Streams : app[s] = "opening") => \E i \in Slots : streams[i] = NoStream

\* cubeb.h:404-406: after a stream that plays has returned too few frames its
\* data callback is not called again, until it is started again.
NoCallbackAfterShort ==
  [][CallBack => ~short[cur] \/ cur \in Recording]_vars

\* A call of stop returns.
StopReturns ==
  \A s \in Streams : app[s] = "stop" ~> app[s] = "stopped"

\* A destroyed context's thread ends and is joined.
DestroyReturns == owner = "joining" ~> owner = "destroyed"

\* The calls that wait for the thread of the context return.
CallsReturn == StopReturns /\ DestroyReturns

\* A stream that has an event is processed, unless it is stopped or fails.
EventsAreServed ==
  \A s \in Streams :
    (state[s] = "RUNNING" /\ ready[s]) ~> (cur = s \/ state[s] # "RUNNING")

\* cubeb.h:406-407: "the state callback will be called with CUBEB_STATE_DRAINED
\* when all the frames have been output": draining comes to an end.
DrainEnds ==
  \A s \in Streams : state[s] = "DRAINING" ~> state[s] # "DRAINING"

\* It does if poll times out again and again: if no other stream keeps it busy.
DrainEndsWhenQuiet == []<>(run = "timeout") => DrainEnds
=============================================================================
