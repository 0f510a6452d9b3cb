----------------------------- MODULE SunBackend -----------------------------
(***************************************************************************)
(* The Sun/NetBSD backend of cubeb (extlibs/cubeb/src/cubeb_sun.c): one    *)
(* stream, its user, and the thread of sun_io_routine, which calls the     *)
(* user for a block, writes what it got and reads the next block.          *)
(***************************************************************************)
EXTENDS Integers

CONSTANTS
  Kinds,     \* of streams: "output", "input", "duplex"
  Frames     \* SUN_BUFFER_FRAMES

SunAssumption ==
  /\ Kinds \subseteq {"output", "input", "duplex"}
  /\ Frames \in Nat \ {0}

VARIABLES
  s,         \* the stream: its kind, running, whether its thread was created
  thread,    \* the thread: where it is, what is left of the block, its state
  io,        \* frames the thread was given at its last call, and moved since
  app,       \* where the user is
  fault      \* a thread is joined that does not exist

vars == <<s, thread, io, app, fault>>

Streams == [kind : Kinds, running : BOOLEAN, created : BOOLEAN]
Threads == [pc : {"none", "top", "call", "move", "tell", "gone"},
            write : 0..Frames, read : 0..Frames, drain : BOOLEAN,
            state : {"started", "stopped", "drained", "error"}]
Counts == [called : BOOLEAN, given : 0..Frames, written : 0..Frames, recorded : 0..Frames]

TypeOK ==
  /\ s \in Streams /\ thread \in Threads /\ io \in Counts
  /\ app \in {"none", "idle", "running", "join", "stopped", "done"}
  /\ fault \in BOOLEAN

Plays == s.kind # "input"
Records == s.kind # "output"

Thread(pc) == [pc |-> pc, write |-> 0, read |-> 0, drain |-> FALSE, state |-> "started"]
NoFrames == [called |-> FALSE, given |-> 0, written |-> 0, recorded |-> 0]

Init ==
  /\ \E k \in Kinds : s = [kind |-> k, running |-> FALSE, created |-> FALSE]
  /\ thread = Thread("none") /\ io = NoFrames
  /\ app = "none" /\ fault = FALSE
----------------------------------------------------------------------------
(* The user. *)

\* sun_stream_init
StreamInit ==
  /\ app = "none" /\ app' \in {"idle", "done"}
  /\ UNCHANGED <<s, thread, io, fault>>

\* sun_stream_start: `running' is set before the thread is created, and stays
\* set when it is not.  A thread that ended by itself was not joined.
Start ==
  /\ ~fault
  /\ \/ app \in {"idle", "stopped"}
     \/ app = "running" /\ thread.pc = "gone"
  /\ \E ok \in BOOLEAN :
       /\ s' = [s EXCEPT !.running = TRUE, !.created = ok]
       /\ thread' = IF ok THEN Thread("top") ELSE Thread("none")
       /\ app' = IF ok THEN "running" ELSE "idle"
  /\ io' = NoFrames
  /\ UNCHANGED fault

MutCleared(b) == b                \* mutant: stop forgets to clear `running'
Cleared(b) == FALSE

\* sun_stream_stop, also of destroy.
Stop ==
  /\ ~fault /\ app \in {"idle", "running"} /\ s.running
  /\ s' = [s EXCEPT !.running = Cleared(@)]
  /\ fault' = ~s.created
  /\ app' = "join"
  /\ UNCHANGED <<thread, io>>

MutJoined == TRUE                 \* mutant: stop does not wait for the thread
Joined == thread.pc = "gone"

StopReturns ==
  /\ ~fault /\ app = "join" /\ Joined
  /\ app' = "stopped"
  /\ UNCHANGED <<s, thread, io, fault>>

\* sun_stream_destroy of a stream that does not run.
Destroy ==
  /\ ~fault /\ app \in {"idle", "stopped"} /\ ~s.running
  /\ app' = "done"
  /\ UNCHANGED <<s, thread, io, fault>>
----------------------------------------------------------------------------
(* sun_io_routine *)

Top ==
  /\ ~fault /\ thread.pc = "top"
  /\ thread' = IF s.running THEN [thread EXCEPT !.pc = "call"]
                            ELSE [thread EXCEPT !.pc = "tell", !.state = "stopped"]
  /\ UNCHANGED <<s, io, app, fault>>

MutToWrite(n) == IF n < Frames THEN 0 ELSE n   \* mutant: a short block is dropped
ToWrite(n) == IF Plays THEN n ELSE 0

MutToRead == 0                    \* mutant: nothing is read
ToRead == IF Records THEN Frames ELSE 0

\* The data callback returned n frames, or an error.
Returns ==
  /\ ~fault /\ thread.pc = "call"
  /\ \/ thread' = [thread EXCEPT !.pc = "tell", !.state = "error"] /\ UNCHANGED io
     \/ \E n \in 0..Frames :
          /\ thread' = [thread EXCEPT !.pc = "move", !.write = ToWrite(n), !.read = ToRead,
                                      !.drain = n < Frames]
          /\ io' = [NoFrames EXCEPT !.called = TRUE, !.given = n]
  /\ UNCHANGED <<s, app, fault>>

\* One turn of the loop that writes and reads what the device takes and gives.
Move ==
  /\ ~fault /\ thread.pc = "move" /\ (thread.write > 0 \/ thread.read > 0)
  /\ \/ thread' = [thread EXCEPT !.pc = "tell", !.state = "error"] /\ UNCHANGED io
     \/ \E w \in 0..thread.write, r \in 0..thread.read :
          /\ w + r > 0
          /\ thread' = [thread EXCEPT !.write = @ - w, !.read = @ - r]
          /\ io' = [io EXCEPT !.written = @ + w, !.recorded = @ + r]
  /\ UNCHANGED <<s, app, fault>>

\* The block was moved.
Moved ==
  /\ ~fault /\ thread.pc = "move" /\ thread.write = 0 /\ thread.read = 0
  /\ thread' = IF thread.drain THEN [thread EXCEPT !.pc = "tell", !.state = "drained"]
                               ELSE [thread EXCEPT !.pc = "top"]
  /\ UNCHANGED <<s, io, app, fault>>

Tell ==
  /\ ~fault /\ thread.pc = "tell"
  /\ thread' = [thread EXCEPT !.pc = "gone"]
  /\ UNCHANGED <<s, io, app, fault>>
----------------------------------------------------------------------------
ThreadNext == Top \/ Returns \/ Move \/ Moved \/ Tell
AppNext == StreamInit \/ Start \/ Stop \/ StopReturns \/ Destroy

Next == ThreadNext \/ AppNext

Spec == Init /\ [][Next]_vars

\* The thread runs, the callback returns, and the device takes and gives.
Fairness == WF_vars(ThreadNext) /\ WF_vars(StopReturns)
----------------------------------------------------------------------------
(* Properties *)

\* After stop the thread is gone, so that no callback runs.
StopQuiesces == app \in {"stopped", "done"} => thread.pc \in {"none", "gone"}

\* Before a callback all is written that the last one gave, and a whole block
\* was recorded since.
InStep ==
  thread.pc = "call" =>
    /\ Plays => io.written = io.given
    /\ Records => io.recorded = IF io.called THEN Frames ELSE 0

\* A thread that got a short block asks for no other, and tells DRAINED when the
\* device took all of it.
ShortIsLast ==
  /\ thread.pc \in {"top", "call"} => ~thread.drain
  /\ thread.pc \in {"tell", "gone"} /\ thread.state = "drained" /\ Plays =>
       io.written = io.given

\* A thread does not end without a word: the last state it tells is an end.
EndIsTold == thread.pc = "gone" => thread.state # "started"

\* Only a stream whose thread could not be created is stopped with a thread
\* that does not exist.
FaultsAreKnown == fault => ~s.created

\* Stop returns.
StopEnds == app = "join" ~> (app = "stopped" \/ fault)
----------------------------------------------------------------------------
(* The inductive invariant that the proofs of CubebProofs rest on. *)

\* The thread is there while the user runs the stream or waits for it.
ThreadFitsApp ==
  /\ app \in {"none", "idle"} => thread.pc = "none" /\ ~s.created
  /\ app = "running" => thread.pc # "none" /\ s.created /\ s.running
  /\ app = "join" => ~s.running /\ (fault \/ (s.created /\ thread.pc # "none"))
  /\ app = "stopped" => thread.pc = "gone" /\ ~s.running
  /\ app = "done" => thread.pc \in {"none", "gone"}

\* What is left of a block and what was moved of it make the block.
BlockAdds ==
  /\ thread.pc = "move" =>
       /\ io.called
       /\ IF Plays THEN io.written + thread.write = io.given ELSE thread.write = 0
       /\ IF Records THEN io.recorded + thread.read = Frames ELSE thread.read = 0
  /\ thread.pc = "top" =>
       /\ Plays => io.written = io.given
       /\ Records => io.recorded = IF io.called THEN Frames ELSE 0
  /\ thread.pc = "tell" => thread.state # "started"

IInv == TypeOK /\ ThreadFitsApp /\ BlockAdds /\ InStep /\ ShortIsLast /\ EndIsTold /\ FaultsAreKnown
----------------------------------------------------------------------------
(* What does not hold, see README.md. *)

\* stop joins a thread that exists.
NoFault == ~fault
=============================================================================
