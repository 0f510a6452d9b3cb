-------------------------- MODULE AudioUnitBackend --------------------------
(***************************************************************************)
(* The macOS backend of cubeb (extlibs/cubeb/src/cubeb_audiounit.cpp): one *)
(* stream, its user, the callbacks of its audio units, CoreAudio's         *)
(* notifications of device changes, and the context's serial queue, on     *)
(* which a stream is set up again with the new device and closed.          *)
(*                                                                         *)
(* The context's mutex is held by start, stop and the tasks of the queue;  *)
(* the flags are atomic and are read and written without it.               *)
(***************************************************************************)
EXTENDS Integers, Sequences

CONSTANT Kinds    \* of streams: "output", "input", "duplex"

AudioUnitAssumption == Kinds \subseteq {"output", "input", "duplex"}

VARIABLES
  stm,       \* the stream: its flags, whether it has units, what was told last
  running,   \* its units that run
  listening, \* listeners that are installed: for the system, for its devices
  io,        \* where the callback is that calls the user
  notice,    \* where CoreAudio's notification is
  queue,     \* the tasks of the serial queue
  task,      \* where the task is that runs
  mutex,     \* who holds the context's mutex
  app,       \* where the user is
  fault      \* what ended the program: a failed assertion, or a task without its stream

vars == <<stm, running, listening, io, notice, queue, task, mutex, app, fault>>

\* relisten: a task installed a listener after destroy had removed them (history).
Streams == [kind : Kinds, units : BOOLEAN, shutdown : BOOLEAN, draining : BOOLEAN,
            switching : BOOLEAN, pending : BOOLEAN, destroying : BOOLEAN, freed : BOOLEAN,
            relisten : BOOLEAN,
            told : {"none", "started", "stopped", "drained", "error"}]
Tasks == {"idle", "lock", "stop", "setup", "error", "switched", "pending", "close"}

TypeOK ==
  /\ stm \in Streams
  /\ running \subseteq {"i", "o"}
  /\ listening \subseteq {"system", "device"}
  /\ io \in {"idle", "call"}
  /\ notice \in {"idle", "async"}
  /\ queue \in Seq({"reinit", "close"}) /\ Len(queue) <= 2
  /\ task \in Tasks
  /\ mutex \in {"free", "app", "task"}
  /\ app \in {"none", "idle", "running", "stopping", "stopped", "destroy", "close", "join", "done"}
  /\ fault \in {"none", "units", "freed"}

Own == CASE stm.kind = "output" -> {"o"} [] stm.kind = "input" -> {"i"} [] OTHER -> {"i", "o"}
Caller == IF "o" \in Own THEN "o" ELSE "i"       \* the unit whose callback calls the user

Init ==
  /\ \E k \in Kinds :
       stm = [kind |-> k, units |-> FALSE, shutdown |-> TRUE, draining |-> FALSE,
              switching |-> FALSE, pending |-> FALSE, destroying |-> FALSE, freed |-> FALSE,
              relisten |-> FALSE, told |-> "none"]
  /\ running = {} /\ listening = {} /\ io = "idle" /\ notice = "idle" /\ queue = <<>>
  /\ task = "idle" /\ mutex = "free" /\ app = "none" /\ fault = "none"

\* AudioOutputUnitStart of the input, then of the output: what may run then.
Started(ok) == IF ok THEN {Own} ELSE {{}, IF Own = {"i", "o"} THEN {"i"} ELSE {}}
----------------------------------------------------------------------------
(* The user. *)

\* audiounit_stream_init; a stream that fails is closed again.
StreamInit ==
  /\ fault = "none" /\ app = "none" /\ mutex = "free"
  /\ \/ /\ stm' = [stm EXCEPT !.units = TRUE] /\ listening' = {"system", "device"}
        /\ app' = "idle"
     \/ app' = "done" /\ UNCHANGED <<stm, listening>>
  /\ UNCHANGED <<running, io, notice, queue, task, mutex, fault>>

\* audiounit_stream_start: a stream without units starts nothing, and says OK.
Start ==
  /\ fault = "none" /\ app \in {"idle", "stopped"} /\ mutex = "free"
  /\ \E ok \in BOOLEAN :
       /\ stm.units \/ ok
       /\ stm' = [stm EXCEPT !.shutdown = FALSE, !.draining = FALSE,
                             !.told = IF ok THEN "started" ELSE @]
       /\ running' \in IF stm.units THEN Started(ok) ELSE {{}}
       /\ app' = IF ok THEN "running" ELSE "idle"
  /\ UNCHANGED <<listening, io, notice, queue, task, mutex, fault>>

\* audiounit_stream_stop; AudioOutputUnitStop waits for the callback.
Stop ==
  /\ fault = "none" /\ app \in {"idle", "running"} /\ mutex = "free"
  /\ mutex' = "app"
  /\ stm' = [stm EXCEPT !.shutdown = TRUE]
  /\ app' = "stopping"
  /\ UNCHANGED <<running, listening, io, notice, queue, task, fault>>

StopEnds ==
  /\ fault = "none" /\ app = "stopping" /\ io = "idle"
  /\ running' = {}
  /\ stm' = [stm EXCEPT !.told = "stopped"]
  /\ mutex' = "free" /\ app' = "stopped"
  /\ UNCHANGED <<listening, io, notice, queue, task, fault>>

\* audiounit_stream_destroy: the listeners first.  A listener that was removed
\* is not running any more.
Destroy ==
  /\ fault = "none" /\ app \in {"idle", "stopped"} /\ notice = "idle"
  /\ listening' = {}
  /\ app' = "destroy"
  /\ UNCHANGED <<stm, running, io, notice, queue, task, mutex, fault>>

DestroyStops ==
  /\ fault = "none" /\ app = "destroy"
  /\ \/ stm.shutdown /\ UNCHANGED <<stm, running>>
     \/ /\ ~stm.shutdown /\ mutex = "free" /\ io = "idle"
        /\ running' = {} /\ stm' = [stm EXCEPT !.shutdown = TRUE]
  /\ app' = "close"
  /\ UNCHANGED <<listening, io, notice, queue, task, mutex, fault>>

\* dispatch_sync
DestroyCloses ==
  /\ fault = "none" /\ app = "close"
  /\ stm' = [stm EXCEPT !.destroying = TRUE]
  /\ queue' = Append(queue, "close")
  /\ app' = "join"
  /\ UNCHANGED <<running, listening, io, notice, task, mutex, fault>>
----------------------------------------------------------------------------
(* The callbacks. *)

MutIsPending == FALSE            \* mutant: a task for each change
IsPending == stm.pending

\* audiounit_reinit_stream_async
Async ==
  IF IsPending THEN UNCHANGED <<stm, queue>>
  ELSE stm' = [stm EXCEPT !.pending = TRUE] /\ queue' = Append(queue, "reinit")

\* audiounit_output_callback, or audiounit_input_callback of a stream that only
\* records, up to the data callback.
Callback ==
  /\ fault = "none" /\ io = "idle" /\ Caller \in running /\ ~stm.shutdown
  /\ IF stm.draining
     THEN /\ stm' = [stm EXCEPT !.told = "drained"]
          /\ running' = running \ {Caller} /\ UNCHANGED io
     ELSE io' = "call" /\ UNCHANGED <<stm, running>>
  /\ UNCHANGED <<listening, notice, queue, task, mutex, app, fault>>

\* The data callback returned: all, too few, or an error.
Returns ==
  /\ fault = "none" /\ io = "call"
  /\ \/ \E short \in BOOLEAN : stm' = [stm EXCEPT !.draining = short] /\ UNCHANGED running
     \/ stm' = [stm EXCEPT !.shutdown = TRUE, !.told = "error"] /\ running' = {}
  /\ io' = "idle"
  /\ UNCHANGED <<listening, notice, queue, task, mutex, app, fault>>

\* audiounit_input_callback of a stream that also plays: it stops when the
\* stream drains, and asks for new units when the device changed its profile.
InputCallback ==
  /\ fault = "none" /\ "i" \in running /\ Caller = "o" /\ ~stm.shutdown
  /\ \/ stm.draining /\ running' = running \ {"i"} /\ UNCHANGED <<stm, queue>>
     \/ ~stm.draining /\ Async /\ UNCHANGED running
  /\ UNCHANGED <<listening, io, notice, task, mutex, app, fault>>

\* audiounit_property_listener_callback
DeviceChanged ==
  /\ fault = "none" /\ notice = "idle" /\ listening # {} /\ ~stm.switching
  /\ stm' = [stm EXCEPT !.switching = TRUE]
  /\ notice' = "async"
  /\ UNCHANGED <<running, listening, io, queue, task, mutex, app, fault>>

NoticeAsync ==
  /\ fault = "none" /\ notice = "async" /\ Async
  /\ notice' = "idle"
  /\ UNCHANGED <<running, listening, io, task, mutex, app, fault>>
----------------------------------------------------------------------------
(* The serial queue. *)

\* A task to set up the stream again is dropped when the stream is destroyed.
Dequeue ==
  /\ fault = "none" /\ task = "idle" /\ queue # <<>>
  /\ queue' = Tail(queue)
  /\ task' = CASE Head(queue) = "close" -> "close"
               [] Head(queue) = "reinit" /\ stm.destroying -> "idle"
               [] OTHER -> "lock"
  /\ fault' = IF stm.freed THEN "freed" ELSE "none"
  /\ UNCHANGED <<stm, running, listening, io, notice, mutex, app>>

\* audiounit_reinit_stream
Reinit ==
  /\ fault = "none" /\ task = "lock" /\ mutex = "free"
  /\ mutex' = "task"
  /\ fault' = IF stm.units THEN "none" ELSE "units"
  /\ task' = IF stm.shutdown THEN "setup" ELSE "stop"
  /\ UNCHANGED <<stm, running, listening, io, notice, queue, app>>

ReinitStop ==
  /\ fault = "none" /\ task = "stop" /\ io = "idle"
  /\ running' = {}
  /\ task' = "setup"
  /\ UNCHANGED <<stm, listening, io, notice, queue, mutex, app, fault>>

MutRuns == TRUE                  \* mutant: a stream that was stopped is started
Runs == ~stm.shutdown

\* The listeners for the new devices; the user may have destroyed the stream.
Listens ==
  /\ listening' = listening \cup {"device"}
  /\ stm' = [stm EXCEPT !.units = TRUE, !.relisten = @ \/ app \in {"destroy", "close", "join"}]

\* The units are closed and new ones set up, which run if the stream did.  The
\* second attempt and the error are for streams that record: one that only plays
\* goes on without units.
ReinitSetup ==
  /\ fault = "none" /\ task = "setup" /\ notice = "idle"
  /\ \/ /\ Listens
        /\ running' = (IF Runs THEN Own ELSE {}) /\ task' = "switched"
     \/ /\ \E units \in BOOLEAN : stm' = [stm EXCEPT !.units = units]
        /\ listening' = listening \ {"device"} /\ running' = {} /\ task' = "error"
     \/ /\ Runs /\ Listens
        /\ running' \in Started(FALSE) /\ task' = "error"
     \/ /\ Own = {"o"} /\ listening' = listening \ {"device"} /\ running' = {}
        /\ stm' = [stm EXCEPT !.units = FALSE] /\ task' = "switched"
  /\ mutex' = "free"
  /\ UNCHANGED <<io, notice, queue, app, fault>>

MutKept(l) == l                  \* mutant: the listeners for the system stay
Kept(l) == l \ {"system"}

ReinitFails ==
  /\ fault = "none" /\ task = "error" /\ notice = "idle"
  /\ listening' = Kept(listening)
  /\ stm' = [stm EXCEPT !.told = "error"]
  /\ task' = "switched"
  /\ UNCHANGED <<running, io, notice, queue, mutex, app, fault>>

Switched ==
  /\ fault = "none" /\ task = "switched"
  /\ stm' = [stm EXCEPT !.switching = FALSE]
  /\ task' = "pending"
  /\ UNCHANGED <<running, listening, io, notice, queue, mutex, app, fault>>

ReinitEnds ==
  /\ fault = "none" /\ task = "pending"
  /\ stm' = [stm EXCEPT !.pending = FALSE]
  /\ task' = "idle"
  /\ UNCHANGED <<running, listening, io, notice, queue, mutex, app, fault>>

MutUninstalled(l) == l     \* mutant: what a task installed meanwhile stays
Uninstalled(l) == {}

\* audiounit_stream_destroy_internal, after which the stream is deleted.
Close ==
  /\ fault = "none" /\ task = "close" /\ mutex = "free" /\ notice = "idle"
  /\ listening' = Uninstalled(listening)
  /\ stm' = [stm EXCEPT !.units = FALSE, !.freed = TRUE]
  /\ task' = "idle" /\ app' = "done"
  /\ UNCHANGED <<running, io, notice, queue, mutex, fault>>
----------------------------------------------------------------------------
AppNext == StreamInit \/ Start \/ Stop \/ StopEnds \/ Destroy \/ DestroyStops \/ DestroyCloses
CallNext == Callback \/ Returns \/ InputCallback \/ DeviceChanged \/ NoticeAsync
TaskNext == Dequeue \/ Reinit \/ ReinitStop \/ ReinitSetup \/ ReinitFails \/ Switched
         \/ ReinitEnds \/ Close

Next == AppNext \/ CallNext \/ TaskNext

Spec == Init /\ [][Next]_vars

\* The queue's thread runs, callbacks and notices return, and the mutex is
\* given to everyone who asks for it again and again.
Fairness ==
  /\ SF_vars(TaskNext) /\ WF_vars(Returns) /\ WF_vars(NoticeAsync)
  /\ WF_vars(StopEnds) /\ SF_vars(DestroyStops) /\ WF_vars(DestroyCloses)
----------------------------------------------------------------------------
(* Properties *)

\* After stop nothing runs, also when the devices are changed meanwhile.
StopQuiesces == app = "stopped" => io = "idle" /\ running = {}

\* Nothing uses a stream that was destroyed: no unit, callback, listener or task
\* that began is left, and a task still waits for it only if a listener was
\* installed again behind destroy's back.
FreedIsGone ==
  stm.freed => /\ io = "idle" /\ running = {} /\ ~stm.units
               /\ listening = {} /\ notice = "idle" /\ task = "idle"
               /\ queue # <<>> => stm.relisten

\* Only a stream that plays is set up again without units, which an assertion
\* forbids: after a setup that failed and was not told.  Only a stream with such
\* a late listener is looked at by a task after it was deleted.
FaultsAreKnown ==
  /\ fault = "units" => Own = {"o"}
  /\ fault = "freed" => stm.relisten

\* At most one task to set up the stream waits or runs.
Reinits == {i \in DOMAIN queue : queue[i] = "reinit"}
OneReinit ==
  /\ \A i, j \in Reinits : i = j
  /\ task \notin {"idle", "close"} => Reinits = {}

----------------------------------------------------------------------------
(* The inductive invariant that the proofs of CubebProofs rest on. *)

\* Who holds the mutex.
MutexFits ==
  /\ mutex = "app" <=> app = "stopping"
  /\ mutex = "task" <=> task \in {"stop", "setup"}

\* What the flags of the stream say: once it is shut down nothing of it runs,
\* except while stop waits for the callback.
FlagsFit ==
  /\ stm.shutdown /\ app # "stopping" => io = "idle" /\ running = {}
  /\ app \in {"none", "stopping", "stopped", "close", "join", "done"} => stm.shutdown
  /\ stm.freed => stm.destroying /\ app = "done"
  /\ stm.destroying => app \in {"join", "done"}

\* What waits in the queue: the task that closes the stream at most once, and
\* the one that sets it up again only while it is pending.
Closes == {i \in DOMAIN queue : queue[i] = "close"}
QueueFits ==
  /\ \A i, j \in Closes : i = j
  /\ Closes # {} => app = "join" /\ task # "close"
  /\ task = "close" => app = "join"
  /\ app = "join" => stm.destroying
  /\ Reinits # {} \/ task \notin {"idle", "close"} => stm.pending

\* A stream that records and lost its units is told of an error, and nothing
\* that would set it up again goes on.
UnitsFit ==
  Own # {"o"} /\ ~stm.units /\ ~stm.freed =>
    /\ running = {} /\ Reinits = {}
    /\ task \in {"idle", "close", "error", "switched", "pending"}
    /\ task = "error" => listening \subseteq {"system"}
    /\ task # "error" => listening = {} /\ notice = "idle"

\* What a stream that is being destroyed can still be told, and by whom.
RelistenFits ==
  ~stm.relisten =>
    /\ app \in {"destroy", "close", "join"} => listening = {} /\ notice = "idle"
    /\ Len(queue) = 2 => queue[1] # "close"
    /\ task = "close" \/ stm.freed => queue = <<>>

IInv == /\ TypeOK /\ MutexFits /\ FlagsFit /\ QueueFits /\ UnitsFit /\ RelistenFits
        /\ OneReinit /\ FreedIsGone /\ FaultsAreKnown
----------------------------------------------------------------------------

\* Destroy returns.
DestroyReturns == app = "destroy" ~> (app = "done" \/ fault # "none")
----------------------------------------------------------------------------
(* What does not hold, see README.md. *)

\* A change of devices that was noticed is being dealt with: otherwise no
\* later one is ("Switching is already taking place", cubeb_audiounit.cpp:942).
SwitchIsPending == stm.switching => stm.pending \/ notice = "async" \/ stm.destroying

\* A task never finds its stream deleted.
NoTaskAfterFree == stm.freed => queue = <<>>

\* A stream that was started has units.
StartedHasUnits == app = "running" /\ stm.told = "started" => stm.units
=============================================================================
