--------------------------- MODULE AAudioBackend ---------------------------
(***************************************************************************)
(* The AAudio backend of cubeb (extlibs/cubeb/src/cubeb_aaudio.cpp): one   *)
(* stream, its user, AAudio's callback thread, the state thread that waits *)
(* for AAudio's state changes on behalf of every stream, and the notifier  *)
(* thread that wakes the state thread when a lock-free notification falls  *)
(* between its last look and its sleep.                                    *)
(*                                                                         *)
(* An action is one atomic access, one call of AAudio or one critical      *)
(* section.  A failed assertion is a fault, after which nothing happens.   *)
(***************************************************************************)
EXTENDS Integers, FiniteSets

CONSTANTS
  Kinds,           \* of streams: "output", "input", "duplex"
  NotifierFirst    \* the notifier sleeps before the first stream is started

AAudioAssumption ==
  Kinds \subseteq {"output", "input", "duplex"} /\ NotifierFirst \in BOOLEAN

VARIABLES
  stm,      \* the stream: kind, state, mutex, what its user was told last
  dev,      \* its AAudio streams
  app,      \* where the user is, with the state that start and stop loaded
  audio,    \* where the data callback is
  ctx,      \* mutex, condition variable and flags of the context
  looker,   \* the state thread
  helper,   \* where the notifier thread is
  fault     \* an assertion failed

vars == <<stm, dev, app, audio, ctx, looker, helper, fault>>

States == {"INIT", "STOPPED", "STOPPING", "STARTED", "STARTING", "DRAINING",
           "ERROR", "SHUTDOWN"}
DevStates == {"absent", "stopped", "starting", "started", "stopping", "lost"}
Outputs == IF stm.kind = "input" THEN {} ELSE {"o"}
Inputs  == IF stm.kind = "output" THEN {} ELSE {"i"}
Own == Outputs \cup Inputs

Streams == [kind : Kinds, state : States, mutex : {"free", "user", "state"},
            told : {"none", "started", "stopped", "drained", "error"}]
Devs == [at : [{"i", "o"} -> DevStates], calls : BOOLEAN, pending : BOOLEAN]
Apps == [pc : {"none", "idle", "start i", "start o", "start cas", "flag", "notify",
               "running", "stop", "stop cas", "close", "join", "joined"},
         loaded : States, next : {"idle", "running"}]
Contexts == [mutex : {"free", "state", "notifier"}, waiting : BOOLEAN, join : BOOLEAN,
             sleepers : SUBSET {"state", "notifier"}]
Lookers == [pc : {"top", "scan", "update", "cas", "after", "sleep", "doze", "asleep",
                  "dozing", "done"},
            waiting : BOOLEAN, old : States, new : States]

TypeOK ==
  /\ stm \in Streams /\ dev \in Devs /\ app \in Apps
  /\ audio \in {"idle", "calling", "flag", "notify"}
  /\ ctx \in Contexts /\ looker \in Lookers
  /\ helper \in {"new", "top", "sleep", "asleep", "done"}
  /\ fault \in BOOLEAN

Init ==
  /\ \E k \in Kinds :
       stm = [kind |-> k, state |-> "INIT", mutex |-> "free", told |-> "none"]
  /\ dev = [at |-> [d \in {"i", "o"} |-> "absent"], calls |-> FALSE, pending |-> FALSE]
  /\ app = [pc |-> "none", loaded |-> "INIT", next |-> "idle"]
  /\ audio = "idle"
  /\ ctx = [mutex |-> "state", waiting |-> FALSE, join |-> FALSE,
            sleepers |-> IF NotifierFirst THEN {"notifier"} ELSE {}]
  /\ looker = [pc |-> "top", waiting |-> FALSE, old |-> "INIT", new |-> "INIT"]
  /\ helper = IF NotifierFirst THEN "asleep" ELSE "new"
  /\ fault = FALSE

\* std::condition_variable: notify_one wakes one of those that sleep.
NotifyOne(c) ==
  IF c.sleepers = {} THEN {c} ELSE {[c EXCEPT !.sleepers = @ \ {t}] : t \in c.sleepers}
----------------------------------------------------------------------------
(* The user. *)

AppGoto(pc) == app' = [app EXCEPT !.pc = pc, !.loaded = "INIT", !.next = "idle"]
Devices(state, on) == [dev EXCEPT !.at = [d \in {"i", "o"} |-> IF d \in on THEN state ELSE @[d]]]

\* aaudio_stream_init with aaudio_stream_init_impl; when a step fails the
\* stream is destroyed, and nothing is left of it.
StreamInit ==
  /\ ~fault /\ app.pc = "none" /\ stm.mutex = "free"
  /\ stm' = [stm EXCEPT !.state = "STOPPED", !.told = "none"]
  /\ dev' = [Devices("stopped", Own) EXCEPT !.calls = TRUE, !.pending = FALSE]
  /\ AppGoto("idle")
  /\ UNCHANGED <<audio, ctx, looker, helper, fault>>

\* aaudio_stream_start looks at the state ...
Start ==
  /\ ~fault /\ app.pc \in {"idle", "running"} /\ stm.mutex = "free"
  /\ CASE stm.state \in {"STARTED", "STARTING"} ->
            AppGoto("running") /\ UNCHANGED stm
       [] stm.state \in {"ERROR", "SHUTDOWN"} -> UNCHANGED <<app, stm>>
       [] OTHER -> /\ stm' = [stm EXCEPT !.mutex = "user"]
                   /\ app' = [app EXCEPT !.pc = "start i", !.loaded = stm.state]
  /\ UNCHANGED <<dev, audio, ctx, looker, helper, fault>>

\* ... asks AAudio, the input first ...
Request(pc, on, next) ==
  /\ ~fault /\ app.pc = pc
  /\ \/ /\ \A d \in on : dev.at[d] # "lost"
        /\ dev' = Devices("starting", on)
        /\ app' = [app EXCEPT !.pc = next]
        /\ UNCHANGED stm
     \/ /\ on # {}                        \* AAudio refuses
        /\ stm' = [stm EXCEPT !.state = "ERROR", !.mutex = "free"]
        /\ AppGoto("running")
        /\ UNCHANGED dev
  /\ UNCHANGED <<audio, ctx, looker, helper, fault>>

StartOver(state) == state \in {"STOPPING", "STOPPED"}

\* ... and replaces the state it had loaded, or one that may be overwritten.
StartCas ==
  /\ ~fault /\ app.pc = "start cas"
  /\ IF stm.state = app.loaded \/ StartOver(stm.state)
     THEN /\ stm' = [stm EXCEPT !.state = "STARTING", !.mutex = "user"]
          /\ app' = [pc |-> "flag", loaded |-> "INIT", next |-> "running"]
          /\ UNCHANGED fault
     ELSE /\ fault' = (stm.state \notin {"ERROR", "DRAINING"})
          /\ stm' = [stm EXCEPT !.mutex = "free"]
          /\ AppGoto("running")
  /\ UNCHANGED <<dev, audio, ctx, looker, helper>>

\* aaudio_stream_stop, likewise.
Stop ==
  /\ ~fault /\ app.pc = "running" /\ stm.mutex = "free"
  /\ IF stm.state \in {"STARTED", "STARTING"}
     THEN /\ stm' = [stm EXCEPT !.mutex = "user"]
          /\ app' = [app EXCEPT !.pc = "stop", !.loaded = stm.state]
     ELSE AppGoto("idle") /\ UNCHANGED stm
  /\ UNCHANGED <<dev, audio, ctx, looker, helper, fault>>

\* AAudioStream_requestStop lets a running callback end.
Quiet == audio = "idle"

StopRequest ==
  /\ ~fault /\ app.pc = "stop"
  /\ \/ /\ Quiet
        /\ \A d \in Own : dev.at[d] # "lost"
        /\ dev' = Devices("stopping", Own)
        /\ app' = [app EXCEPT !.pc = "stop cas"]
        /\ UNCHANGED stm
     \/ /\ stm' = [stm EXCEPT !.state = "ERROR", !.mutex = "free"]
        /\ AppGoto("idle")
        /\ UNCHANGED dev
  /\ UNCHANGED <<audio, ctx, looker, helper, fault>>

StopOver(state) == state = "STARTED"

StopCas ==
  /\ ~fault /\ app.pc = "stop cas"
  /\ IF stm.state = app.loaded \/ StopOver(stm.state)
     THEN /\ stm' = [stm EXCEPT !.state = "STOPPING"]
          /\ app' = [pc |-> "flag", loaded |-> "INIT", next |-> "idle"]
          /\ UNCHANGED fault
     ELSE /\ fault' = (stm.state \notin {"ERROR", "DRAINING", "STOPPING", "STOPPED"})
          /\ stm' = [stm EXCEPT !.mutex = "free"]
          /\ AppGoto("idle")
  /\ UNCHANGED <<dev, audio, ctx, looker, helper>>

\* Then the state thread is told, without its mutex.
Flag ==
  /\ ~fault /\ app.pc = "flag"
  /\ ctx' = [ctx EXCEPT !.waiting = TRUE]
  /\ app' = [app EXCEPT !.pc = "notify"]
  /\ UNCHANGED <<stm, dev, audio, looker, helper, fault>>

Notify ==
  /\ ~fault /\ app.pc = "notify"
  /\ ctx' \in NotifyOne(ctx)
  /\ stm' = [stm EXCEPT !.mutex = "free"]
  /\ AppGoto(app.next)
  /\ UNCHANGED <<dev, audio, looker, helper, fault>>

StoppedBefore(state) == state \in {"STOPPED", "STOPPING", "SHUTDOWN"}

\* aaudio_stream_destroy: stops what may run, then closes it.
Destroy ==
  /\ ~fault /\ app.pc = "idle" /\ stm.mutex = "free"
  /\ StoppedBefore(stm.state) \/ Quiet
  /\ fault' = (stm.state \in {"STARTED", "STARTING"})
  /\ stm' = [stm EXCEPT !.mutex = "user"]
  /\ dev' = IF StoppedBefore(stm.state) THEN dev ELSE [dev EXCEPT !.calls = FALSE]
  /\ app' = [app EXCEPT !.pc = "close"]
  /\ UNCHANGED <<audio, ctx, looker, helper>>

Close ==
  /\ ~fault /\ app.pc = "close"
  /\ dev' = [Devices("absent", Own) EXCEPT !.calls = FALSE, !.pending = FALSE]
  /\ stm' = [stm EXCEPT !.state = "INIT", !.mutex = "free"]
  /\ app' = [app EXCEPT !.pc = "none"]
  /\ UNCHANGED <<audio, ctx, looker, helper, fault>>

\* aaudio_destroy; its notify_all is apart from the store.
Join ==
  /\ ~fault /\ app.pc = "none"
  /\ ctx' = [ctx EXCEPT !.join = TRUE]
  /\ app' = [app EXCEPT !.pc = "join"]
  /\ UNCHANGED <<stm, dev, audio, looker, helper, fault>>

NotifyAll ==
  /\ ~fault /\ app.pc = "join"
  /\ ctx' = [ctx EXCEPT !.sleepers = {}]
  /\ app' = [app EXCEPT !.pc = "joined"]
  /\ UNCHANGED <<stm, dev, audio, looker, helper, fault>>
----------------------------------------------------------------------------
(* AAudio and its callbacks. *)

\* The stream's callback is that of its output, if it has one.
Caller == IF stm.kind = "input" THEN "i" ELSE "o"

\* aaudio_output_data_cb, aaudio_input_data_cb, aaudio_duplex_data_cb: a
\* stream that drains is given silence.
Callback ==
  /\ ~fault /\ audio = "idle" /\ dev.calls
  /\ dev.at[Caller] \in {"starting", "started"}
  /\ fault' = (stm.state = "SHUTDOWN")
  /\ audio' = IF fault' \/ stm.state = "DRAINING" THEN "idle" ELSE "calling"
  /\ UNCHANGED <<stm, dev, app, ctx, looker, helper>>

MutShort == "idle"                  \* mutant: the state thread is not told
Short == "flag"

CallReturns ==
  /\ ~fault /\ audio = "calling"
  /\ \/ audio' = "idle" /\ UNCHANGED <<stm, dev>>
     \/ audio' = Short /\ stm' = [stm EXCEPT !.state = "DRAINING"] /\ UNCHANGED dev
     \/ /\ audio' = "idle" /\ stm' = [stm EXCEPT !.state = "ERROR"]
        /\ dev' = [dev EXCEPT !.calls = FALSE]
  /\ UNCHANGED <<app, ctx, looker, helper, fault>>

CallFlag ==
  /\ ~fault /\ audio = "flag"
  /\ ctx' = [ctx EXCEPT !.waiting = TRUE] /\ audio' = "notify"
  /\ UNCHANGED <<stm, dev, app, looker, helper, fault>>

CallNotify ==
  /\ ~fault /\ audio = "notify"
  /\ ctx' \in NotifyOne(ctx) /\ audio' = "idle"
  /\ UNCHANGED <<stm, dev, app, looker, helper, fault>>

DeviceMoves ==
  /\ ~fault
  /\ \E d \in Own :
       \/ dev.at[d] = "starting" /\ dev' = Devices("started", {d})
       \/ dev.at[d] = "stopping" /\ dev' = Devices("stopped", {d})
  /\ UNCHANGED <<stm, app, audio, ctx, looker, helper, fault>>

DeviceLost ==
  /\ ~fault /\ Quiet
  /\ \A d \in Own : dev.at[d] \notin {"absent", "lost"}
  /\ dev' = [Devices("lost", Own) EXCEPT !.pending = TRUE]
  /\ UNCHANGED <<stm, app, audio, ctx, looker, helper, fault>>

\* aaudio_error_cb
ErrorCallback ==
  /\ ~fault /\ dev.pending
  /\ dev' = [dev EXCEPT !.pending = FALSE]
  /\ stm' = [stm EXCEPT !.state = "ERROR"]
  /\ UNCHANGED <<app, audio, ctx, looker, helper, fault>>
----------------------------------------------------------------------------
(* The state thread. *)

Waiting(state) == state \in {"DRAINING", "STARTING", "STOPPING"}     \* waiting_state
All(states) == \A d \in Own : dev.at[d] \in states

Goto(pc) == looker' = [looker EXCEPT !.pc = pc, !.old = "INIT", !.new = "INIT"]

\* state_thread, the head of its loop.
Top ==
  /\ ~fault /\ looker.pc = "top"
  /\ IF ctx.join
     THEN /\ ctx' \in NotifyOne([ctx EXCEPT !.mutex = "free"]) /\ Goto("done")
     ELSE IF looker.waiting \/ ctx.waiting
     THEN /\ ctx' = [ctx EXCEPT !.waiting = FALSE] /\ Goto("scan")
     ELSE Goto("sleep") /\ UNCHANGED ctx
  /\ UNCHANGED <<stm, dev, app, audio, helper, fault>>

\* update_state: the mutex is only tried, and a state nobody waits for passed.
Scan ==
  /\ ~fault /\ looker.pc = "scan"
  /\ IF stm.mutex = "free" /\ (Waiting(stm.state) \/ stm.state = "ERROR")
     THEN /\ stm' = [stm EXCEPT !.mutex = "state"]
          /\ looker' = [looker EXCEPT !.pc = "update", !.old = stm.state]
     ELSE Goto("after") /\ UNCHANGED stm
  /\ UNCHANGED <<dev, app, audio, ctx, helper, fault>>

\* shutdown
Shutdown ==
  /\ looker.old = "ERROR" \/ ~All(DevStates \ {"lost"})
  /\ Quiet
  /\ dev' = [dev EXCEPT !.at = [d \in {"i", "o"} |->
               IF d \in Own /\ @[d] # "lost" THEN "stopping" ELSE @[d]]]
  /\ stm' = [stm EXCEPT !.state = "SHUTDOWN", !.told = "error", !.mutex = "free"]
  /\ Goto("after") /\ UNCHANGED fault

Told(state, new) ==
  /\ stm' = [stm EXCEPT !.told = state]
  /\ looker' = [looker EXCEPT !.pc = "cas", !.new = new]
  /\ UNCHANGED <<dev, fault>>

Unlock ==
  /\ stm' = [stm EXCEPT !.mutex = "free"]
  /\ Goto("after") /\ UNCHANGED <<dev, fault>>

\* A stream that drains is stopped, its output first.
Drain ==
  /\ Quiet
  /\ dev' = [dev EXCEPT !.at = [d \in {"i", "o"} |->
               IF d \in Own /\ @[d] \in {"starting", "started"} THEN "stopping" ELSE @[d]]]
  /\ stm' = [stm EXCEPT !.mutex = "free"]
  /\ Goto("after") /\ UNCHANGED fault

Update ==
  /\ ~fault /\ looker.pc = "update"
  /\ \/ Shutdown
     \/ /\ looker.old # "ERROR" /\ All(DevStates \ {"lost"})
        /\ CASE looker.old = "STARTING" ->
                  IF All({"started"}) THEN Told("started", "STARTED") ELSE Unlock
             [] looker.old = "DRAINING" ->
                  IF All({"stopped"}) THEN Told("drained", "STOPPED") ELSE Drain
             [] looker.old = "STOPPING" ->
                  IF All({"stopped"}) THEN Told("stopped", "STOPPED")
                  ELSE IF All({"stopping", "stopped"}) THEN Unlock
                  ELSE fault' = TRUE /\ UNCHANGED <<stm, dev, looker>>
             [] OTHER -> fault' = TRUE /\ UNCHANGED <<stm, dev, looker>>
  /\ UNCHANGED <<app, audio, ctx, helper>>

Cas ==
  IF stm.state = looker.old
  THEN /\ stm' = [stm EXCEPT !.state = looker.new, !.mutex = "free"] /\ Goto("after")
  ELSE /\ looker' = [looker EXCEPT !.pc = "update", !.old = stm.state] /\ UNCHANGED stm

UpdateCas ==
  /\ ~fault /\ looker.pc = "cas"
  /\ Cas
  /\ UNCHANGED <<dev, app, audio, ctx, helper, fault>>

After ==
  /\ ~fault /\ looker.pc = "after"
  /\ looker' = [looker EXCEPT !.waiting = ctx.waiting \/ Waiting(stm.state),
                              !.pc = IF ~ctx.waiting /\ Waiting(stm.state) THEN "doze" ELSE "top"]
  /\ UNCHANGED <<stm, dev, app, audio, ctx, helper, fault>>

\* cond.wait and cond.wait_for
Sleep ==
  /\ ~fault /\ looker.pc \in {"sleep", "doze"}
  /\ ctx' = [ctx EXCEPT !.mutex = "free", !.sleepers = @ \cup {"state"}]
  /\ Goto(IF looker.pc = "sleep" THEN "asleep" ELSE "dozing")
  /\ UNCHANGED <<stm, dev, app, audio, helper, fault>>

Wake ==
  /\ ~fault /\ ctx.mutex = "free"
  /\ looker.pc = "dozing" \/ (looker.pc = "asleep" /\ "state" \notin ctx.sleepers)
  /\ ctx' = [ctx EXCEPT !.mutex = "state", !.sleepers = @ \ {"state"}]
  /\ Goto("top")
  /\ UNCHANGED <<stm, dev, app, audio, helper, fault>>
----------------------------------------------------------------------------
(* notifier_thread *)

HelperLocks ==
  /\ ~fault /\ helper = "new" /\ ctx.mutex = "free"
  /\ ctx' = [ctx EXCEPT !.mutex = "notifier"] /\ helper' = "top"
  /\ UNCHANGED <<stm, dev, app, audio, looker, fault>>

HelperTop ==
  /\ ~fault /\ helper = "top"
  /\ IF ctx.join
     THEN ctx' \in NotifyOne([ctx EXCEPT !.mutex = "free"]) /\ helper' = "done"
     ELSE helper' = "sleep" /\ UNCHANGED ctx
  /\ UNCHANGED <<stm, dev, app, audio, looker, fault>>

HelperSleeps ==
  /\ ~fault /\ helper = "sleep"
  /\ ctx' = [ctx EXCEPT !.mutex = "free", !.sleepers = @ \cup {"notifier"}]
  /\ helper' = "asleep"
  /\ UNCHANGED <<stm, dev, app, audio, looker, fault>>

MutPassOn(c) == {c}                 \* mutant: the notification is not passed on
PassOn(c) == IF c.waiting THEN NotifyOne(c) ELSE {c}

HelperWakes ==
  /\ ~fault /\ helper = "asleep" /\ "notifier" \notin ctx.sleepers /\ ctx.mutex = "free"
  /\ ctx' \in PassOn([ctx EXCEPT !.mutex = "notifier"])
  /\ helper' = "top"
  /\ UNCHANGED <<stm, dev, app, audio, looker, fault>>
----------------------------------------------------------------------------
UserNext ==
  \/ StreamInit \/ Start \/ Stop \/ Destroy \/ Join
  \/ Request("start i", Inputs, "start o") \/ Request("start o", Outputs, "start cas")
  \/ StartCas \/ StopRequest \/ StopCas \/ Flag \/ Notify \/ Close \/ NotifyAll

AudioNext == Callback \/ CallReturns \/ CallFlag \/ CallNotify \/ DeviceMoves
          \/ DeviceLost \/ ErrorCallback

LookerNext == Top \/ Scan \/ Update \/ UpdateCas \/ After \/ Sleep \/ Wake
HelperNext == HelperLocks \/ HelperTop \/ HelperSleeps \/ HelperWakes

Next == UserNext \/ AudioNext \/ LookerNext \/ HelperNext

Spec == Init /\ [][Next]_vars

\* The threads run, a call of the user goes on once it is made, the user's
\* callback returns and AAudio's streams do what was asked.
Fairness ==
  /\ WF_vars(LookerNext) /\ SF_vars(Wake) /\ WF_vars(HelperNext) /\ SF_vars(HelperWakes)
  /\ SF_vars(HelperLocks) /\ SF_vars(Update)
  /\ WF_vars(CallReturns) /\ WF_vars(CallFlag \/ CallNotify) /\ SF_vars(DeviceMoves)
  /\ WF_vars(StartCas) /\ WF_vars(StopCas) /\ WF_vars(Flag) /\ WF_vars(Notify)
  /\ WF_vars(Close) /\ WF_vars(NotifyAll) /\ SF_vars(StopRequest)
  /\ WF_vars(Request("start i", Inputs, "start o"))
  /\ WF_vars(Request("start o", Outputs, "start cas"))
----------------------------------------------------------------------------
(* Properties *)

\* No assertion of the backend fails.
NoFault == ~fault

\* The data callback does not run once stop has returned, unless the stream had
\* failed; and never while its AAudio streams are closed.
StopQuiesces ==
  /\ app.pc = "idle" /\ audio = "calling" => stm.state \in {"ERROR", "SHUTDOWN"}
  /\ app.pc = "close" \/ dev.at[Caller] = "absent" => audio # "calling"

\* A user who was last told that the stream stopped or drained has a stream
\* that does not run, unless it was started since.
ToldIsTrue ==
  stm.told \in {"stopped", "drained"} /\ stm.state = "STOPPED" /\ app.pc \in {"idle", "running"}
    => All({"stopped", "lost", "absent"})

----------------------------------------------------------------------------
(* The inductive invariant that the proofs of CubebProofs rest on. *)

Starts == {"start i", "start o", "start cas"}
Ends == {"stopping", "stopped", "lost"}

\* The mutex of the stream is the user's or the state thread's.
MutexFits ==
  /\ stm.mutex = "user" <=> app.pc \in Starts \cup {"flag", "notify", "stop", "stop cas", "close"}
  /\ stm.mutex = "state" <=> looker.pc \in {"update", "cas"}

\* While the user has the mutex, only AAudio's callbacks change the state that
\* was loaded.
UserFits ==
  /\ app.pc \in {"none", "join", "joined"} =>
       stm.state = "INIT" /\ ~dev.pending /\ All({"absent"})
  /\ app.pc \notin {"none", "join", "joined"} =>
       stm.state # "INIT" /\ All(DevStates \ {"absent"})
  /\ app.pc \in Starts =>
       /\ app.loaded \in {"STOPPED", "STOPPING", "DRAINING"}
       /\ stm.state \in {app.loaded, "ERROR", "DRAINING"}
  /\ app.pc \in {"stop", "stop cas"} =>
       /\ app.loaded \in {"STARTED", "STARTING"}
       /\ stm.state \in {app.loaded, "ERROR", "DRAINING"}
  /\ app.pc = "stop cas" => All(Ends)
  /\ app.pc \in {"flag", "notify"} /\ app.next = "idle" =>
       stm.state \in {"STOPPING", "ERROR", "DRAINING"}
  /\ app.pc = "idle" => stm.state \notin {"STARTED", "STARTING"}
  /\ app.pc = "close" =>
       audio # "calling" /\ (~dev.calls \/ dev.at[Caller] \notin {"starting", "started"})

\* The AAudio streams are what the state says.
DevicesFit ==
  /\ stm.state \in {"STOPPING", "SHUTDOWN"} /\ app.pc \notin Starts => All(Ends)
  /\ stm.state = "STOPPED" /\ app.pc \notin Starts => All({"stopped", "lost"})
  /\ audio = "calling" => dev.at[Caller] \in {"starting", "started"} /\ stm.state # "DRAINING"

\* So is what the state thread has seen of them, while it has the mutex.
LookerFits ==
  /\ looker.pc \in {"update", "cas"} =>
       /\ looker.old \in {"STARTING", "STOPPING", "DRAINING", "ERROR"}
       /\ stm.state \in {looker.old, "ERROR", "DRAINING"}
       /\ looker.old = "STOPPING" => All(Ends)
       /\ app.pc = "idle" => looker.old # "STARTING"
  /\ looker.pc = "cas" =>
       \/ looker.old = "STARTING" /\ looker.new = "STARTED"
       \/ looker.old # "ERROR" /\ looker.new = "STOPPED" /\ All({"stopped", "lost"})

IInv == TypeOK /\ MutexFits /\ UserFits /\ DevicesFit /\ LookerFits /\ NoFault
----------------------------------------------------------------------------
(* Liveness, and what does not hold, see README.md. *)

\* A change of state that was asked for is seen: the stream does not stay in a
\* state that the state thread waits for.
ChangeIsSeen == \A s \in {"STARTING", "STOPPING", "DRAINING"} :
  stm.state = s ~> (stm.state # s \/ fault)

\* Every error is told (cubeb_aaudio.cpp:337).
ErrorIsTold == stm.state = "ERROR" ~> (stm.told = "error" \/ stm.state # "ERROR")

\* Destroying the context ends both threads.
DestroyReturns == app.pc = "join" ~> (looker.pc = "done" /\ helper = "done")
=============================================================================
