---------------------------- MODULE PulseBackend ----------------------------
(***************************************************************************)
(* The PulseAudio backend of cubeb (extlibs/cubeb/src/cubeb_pulse.c): a    *)
(* context with its subscription and one stream, used by a thread of the   *)
(* application for each and by the thread of pa_threaded_mainloop, which   *)
(* holds the main loop's lock while it calls back.                         *)
(*                                                                         *)
(* An action is a critical section, or what lies between two; a data       *)
(* callback is two actions with the lock held in between.  The file        *)
(* undefines NDEBUG, so a failed assertion ends the program: it is a fault *)
(* here, after which nothing happens.                                      *)
(***************************************************************************)
EXTENDS Integers, Sequences, FiniteSets

CONSTANTS
  Kinds,                 \* of streams: "output", "input", "duplex"
  Sinks, Sources,        \* names of devices the server may have
  MaxStarts,             \* bound of the model: starts of the stream
  MaxConnects            \* bound of the model: connections to the server

PulseAssumption ==
  /\ Kinds \subseteq {"output", "input", "duplex"}
  /\ MaxStarts \in Nat /\ MaxConnects \in Nat

VARIABLES
  ctx,        \* the context
  host,       \* where the thread is that owns the context
  stm,        \* the stream
  app,        \* where the thread is that owns the stream
  deferred,   \* deferred events of the main loop
  fault       \* what ended the program

vars == <<ctx, host, stm, app, deferred, fault>>

Facilities == {"server", "sink", "source"}
HasOutput == stm.kind # "input"
HasInput  == stm.kind # "output"
Own == (IF HasOutput THEN {"output"} ELSE {}) \cup (IF HasInput THEN {"input"} ELSE {})

Contexts == [conn : {"none", "ready", "bad"}, error : BOOLEAN, connects : 0..MaxConnects,
             mask : SUBSET Facilities, callbacks : SUBSET {"sink", "source"},
             ids : SUBSET (Sinks \cup Sources), listed : SUBSET (Sinks \cup Sources)]
\* good are the PulseAudio streams that are up. The rest is history: bad, those
\* that failed; short, the last callback returned too little or an error; early,
\* the stream was started while it still drained.
Streams == [kind : Kinds, life : {"free", "init", "live", "freed"},
            good : SUBSET {"output", "input"}, bad : SUBSET {"output", "input"},
            corked : BOOLEAN, shutdown : BOOLEAN,
            state : {"unset", "started", "stopped", "drained", "error"},
            timer : BOOLEAN, calling : {"no", "write", "read", "defer"},
            short : BOOLEAN, early : BOOLEAN, starts : 0..MaxStarts]
Stopping == {"waiting", "cork", "corking", "stopped", "quiet", "recork",
             "recorking", "free"}
Starting == {"uncork", "uncorking", "started", "defer"}

TypeOK ==
  /\ ctx \in Contexts
  /\ host \in {"idle", "subscribe", "destroyed"}
  /\ stm \in Streams
  /\ app \in {"none", "init", "idle", "done"} \cup Starting \cup Stopping
  /\ deferred \in 0..MaxStarts
  /\ fault \in {"none", "timer", "size", "write", "freed", "callback",
               "context"}

Init ==
  /\ ctx = [conn |-> "none", error |-> FALSE, connects |-> 0, mask |-> {},
            callbacks |-> {}, ids |-> {}, listed |-> {}]
  /\ host = "idle"
  /\ \E k \in Kinds :
       stm = [kind |-> k, life |-> "free", good |-> {}, bad |-> {}, corked |-> TRUE,
              shutdown |-> FALSE, state |-> "unset", timer |-> FALSE,
              calling |-> "no", short |-> FALSE, early |-> FALSE, starts |-> 0]
  /\ app = "none" /\ deferred = 0 /\ fault = "none"

\* The main loop's lock is free: no callback of the user is running.
Unlocked == fault = "none" /\ stm.calling = "no"
----------------------------------------------------------------------------
(* The context. *)

\* stream_state_callback, for the streams that have failed.
Broken(s, sides) ==
  IF sides = {} THEN s
  ELSE [s EXCEPT !.good = @ \ sides, !.bad = @ \cup sides, !.state = "error"]

\* pulse_context_init: the connection is made, or there is no context.
Connect(c) ==
  { [c EXCEPT !.conn = "ready", !.error = FALSE, !.mask = {}, !.connects = @ + 1],
    [c EXCEPT !.conn = "none", !.mask = {}, !.connects = @ + 1] }

\* What pulse_subscribe_notifications asks for.
Mask(callbacks) == callbacks \cup {"server"}

\* pulse_init, as far as it succeeds: with no server there is no context.
PulseInit ==
  /\ fault = "none" /\ host = "idle" /\ ctx.connects = 0 /\ MaxConnects > 0
  /\ ctx' \in {[c EXCEPT !.mask = Mask({})] : c \in {d \in Connect(ctx) : d.conn = "ready"}}
  /\ UNCHANGED <<host, stm, app, deferred, fault>>

\* pulse_destroy, once the streams are gone and the callbacks unregistered.
PulseDestroy ==
  /\ Unlocked /\ host = "idle" /\ ctx.connects > 0
  /\ stm.life \in {"free", "freed"} /\ ctx.callbacks = {} /\ app \in {"none", "done"}
  /\ ctx' = [ctx EXCEPT !.conn = "none", !.mask = {}, !.ids = {}, !.listed = {}]
  /\ host' = "destroyed" /\ deferred' = 0     \* the loop ends with its events
  /\ UNCHANGED <<stm, app, fault>>

\* The server goes away: context_state_callback, and every stream with it.
ContextFails ==
  /\ Unlocked /\ ctx.conn = "ready" /\ deferred = 0
  /\ ctx' = [ctx EXCEPT !.conn = "bad", !.error = TRUE, !.mask = {}]
  /\ stm' = Broken(stm, stm.good)
  /\ UNCHANGED <<host, app, deferred, fault>>

\* The server ends one stream and stays.
StreamFails ==
  /\ Unlocked /\ ctx.conn = "ready" /\ deferred = 0
  /\ \E side \in stm.good : stm' = Broken(stm, {side})
  /\ UNCHANGED <<ctx, host, app, deferred, fault>>

\* pulse_register_device_collection_changed, first part: the callbacks are
\* replaced without the lock.
Register(facilities, on) ==
  /\ fault = "none" /\ host = "idle" /\ ctx.connects > 0
  /\ ctx' = [ctx EXCEPT !.callbacks = IF on THEN @ \cup facilities ELSE @ \ facilities]
  /\ ctx' # ctx
  /\ host' = "subscribe"
  /\ UNCHANGED <<stm, app, deferred, fault>>

\* Second part, pulse_subscribe_notifications: the subscription follows.
Subscribe ==
  /\ Unlocked /\ host = "subscribe"
  /\ host' = "idle"
  /\ IF ctx.conn = "none"
     THEN fault' = "context" /\ UNCHANGED ctx
     ELSE /\ ctx' = IF ctx.conn = "ready" THEN [ctx EXCEPT !.mask = Mask(ctx.callbacks)] ELSE ctx
          /\ UNCHANGED fault
  /\ UNCHANGED <<stm, app, deferred>>

\* pulse_subscribe_callback for a device that came or went.
CollectionChanged(facility) ==
  /\ Unlocked /\ ctx.conn = "ready" /\ deferred = 0
  /\ facility \in ctx.mask \cap {"sink", "source"}
  /\ facility \notin ctx.callbacks
  /\ fault' = "callback"
  /\ UNCHANGED <<ctx, host, stm, app, deferred>>

MutInterned(ids, seen) == seen      \* mutant: the names live as long as the list
Interned(ids, seen) == ids \cup seen

\* pulse_enumerate_devices: the names of the devices are interned in the
\* context, so that an id stays good when its collection is destroyed.
Enumerate(sinks, sources) ==
  /\ Unlocked /\ host = "idle" /\ ctx.connects > 0
  /\ fault' = IF ctx.conn = "none" THEN "context" ELSE "none"
  /\ LET seen == IF ctx.conn = "ready" THEN sinks \cup sources ELSE {}
     IN ctx' = [ctx EXCEPT !.ids = Interned(@, seen), !.listed = @ \cup seen]
  /\ UNCHANGED <<host, stm, app, deferred>>
----------------------------------------------------------------------------
(* The stream's life. *)

\* pulse_stream_init up to the first wait: reconnects if the connection had
\* failed, makes the PulseAudio streams, and waits for them.
StreamInit ==
  /\ Unlocked /\ app = "none" /\ host # "destroyed" /\ ctx.connects > 0
  /\ \E c \in IF ctx.error /\ ctx.connects < MaxConnects THEN Connect(ctx) ELSE {ctx} :
       /\ ctx' = c
       /\ IF c.conn = "ready" /\ ~c.error
          THEN /\ stm' = [stm EXCEPT !.life = "init", !.good = Own]
               /\ app' = "init"
          ELSE UNCHANGED <<stm, app>>
  /\ UNCHANGED <<host, deferred, fault>>

\* The streams are ready and the timing is known.
StreamReady ==
  /\ Unlocked /\ app = "init" /\ stm.good = Own
  /\ stm' = [stm EXCEPT !.life = "live"]
  /\ app' = "idle"
  /\ UNCHANGED <<ctx, host, deferred, fault>>

\* A stream could not be made or connected: what was made is destroyed.
StreamFailed ==
  /\ Unlocked /\ app = "init"
  /\ stm' = [stm EXCEPT !.life = "freed", !.good = {}]
  /\ app' = "done"
  /\ UNCHANGED <<ctx, host, deferred, fault>>

\* pulse_stream_start clears shutdown without the lock.
StartClear ==
  /\ fault = "none" /\ app \in {"idle", "quiet"}
  /\ stm.starts < MaxStarts
  /\ stm' = [stm EXCEPT !.shutdown = FALSE, !.short = FALSE, !.early = stm.timer, !.starts = @ + 1]
  /\ app' = "uncork"
  /\ UNCHANGED <<ctx, host, deferred, fault>>

StopWait == stm.timer

\* pulse_stream_stop.
StopBegin ==
  /\ Unlocked /\ app = "idle"
  /\ stm' = [stm EXCEPT !.shutdown = TRUE]
  /\ app' = IF StopWait THEN "waiting" ELSE "cork"
  /\ UNCHANGED <<ctx, host, deferred, fault>>

StopWaited ==
  /\ Unlocked /\ app = "waiting" /\ ~stm.timer
  /\ app' = "cork"
  /\ UNCHANGED <<ctx, host, stm, deferred, fault>>

\* stream_cork: waits for the server, unless no stream is left that is good.
Cork(from, wait, next) ==
  /\ Unlocked /\ app = from
  /\ app' = IF stm.good # {} THEN wait ELSE next
  /\ UNCHANGED <<ctx, host, stm, deferred, fault>>

\* operation_wait ends with the server's answer, or when the stream breaks.
Corked(wait, next, corked) ==
  /\ Unlocked /\ app = wait /\ deferred = 0
  /\ stm' = IF stm.good # {} THEN [stm EXCEPT !.corked = corked] ELSE stm
  /\ app' = next
  /\ UNCHANGED <<ctx, host, deferred, fault>>

\* The end of stream_cork: the state is told without the lock.
Told(from, state, next) ==
  /\ fault = "none" /\ app = from
  /\ stm' = [stm EXCEPT !.state = state]
  /\ app' = next
  /\ UNCHANGED <<ctx, host, deferred, fault>>

\* The end of pulse_stream_start: the first callback of an output stream is
\* left to the main loop.
Defer ==
  /\ Unlocked /\ app = "defer"
  /\ app' = "idle"
  /\ deferred' = IF stm.kind = "output" THEN deferred + 1 ELSE deferred
  /\ UNCHANGED <<ctx, host, stm, fault>>

\* pulse_stream_destroy, of a stopped stream (cubeb.h:560).
Destroy ==
  /\ fault = "none" /\ app = "quiet"
  /\ app' = "recork"
  /\ UNCHANGED <<ctx, host, stm, deferred, fault>>

Free ==
  /\ Unlocked /\ app = "free"
  /\ stm' = [stm EXCEPT !.life = "freed", !.good = {},
                        !.timer = IF HasOutput THEN FALSE ELSE @]
  /\ app' = "done"
  /\ UNCHANGED <<ctx, host, deferred, fault>>
----------------------------------------------------------------------------
(* The main loop. *)

MutMayCall == TRUE                  \* mutant: shutdown is not looked at
MayCall == ~stm.shutdown

\* trigger_user_callback up to the user's callback; deferred events come
\* before anything the server sends.
WriteCallback ==
  /\ Unlocked /\ deferred = 0
  /\ "output" \in stm.good /\ ~stm.corked /\ stm.kind = "output"
  /\ MayCall /\ stm.state = "started"
  /\ stm' = [stm EXCEPT !.calling = "write"]
  /\ UNCHANGED <<ctx, host, app, deferred, fault>>

\* What is recorded of a duplex stream is offered with room in its output, and
\* there is none to be had of one that has failed (the assertion at line 271).
ReadCallback ==
  /\ Unlocked /\ deferred = 0
  /\ "input" \in stm.good /\ ~stm.corked /\ MayCall
  /\ IF HasOutput /\ "output" \notin stm.good
     THEN fault' = "write" /\ UNCHANGED stm
     ELSE stm' = [stm EXCEPT !.calling = "read"] /\ UNCHANGED fault
  /\ UNCHANGED <<ctx, host, app, deferred>>

\* pulse_defer_event_cb; a bad stream has no writable size to speak of.
DeferCallback ==
  /\ Unlocked /\ deferred > 0
  /\ deferred' = deferred - 1
  /\ fault' = IF stm.life = "freed" THEN "freed"
              ELSE IF MayCall /\ "output" \notin stm.good THEN "size" ELSE "none"
  /\ stm' = IF fault' = "none" /\ MayCall THEN [stm EXCEPT !.calling = "defer"] ELSE stm
  /\ UNCHANGED <<ctx, host, app>>

\* The user's callback returns: everything, an error, or less than it was
\* asked for, which starts a drain if there is an output.
CallReturns ==
  /\ fault = "none" /\ stm.calling # "no"
  /\ \/ /\ stm' = [stm EXCEPT !.calling = "no"]
        /\ UNCHANGED fault
     \/ /\ stm' = [stm EXCEPT !.calling = "no", !.shutdown = TRUE, !.short = TRUE]
        /\ UNCHANGED fault            \* CUBEB_STATE_ERROR is told, not stored
     \/ /\ stm' = [stm EXCEPT !.calling = "no", !.shutdown = TRUE, !.short = TRUE,
                              !.timer = HasOutput]
        /\ fault' = IF HasOutput /\ stm.timer THEN "timer" ELSE "none"
  /\ UNCHANGED <<ctx, host, app, deferred>>

MutRung(s) == [s EXCEPT !.state = "drained"]   \* mutant: drain_timer keeps its value
Rung(s) == [s EXCEPT !.timer = FALSE, !.state = "drained"]

\* stream_drain_callback.
DrainCallback ==
  /\ Unlocked /\ deferred = 0 /\ stm.timer
  /\ fault' = IF stm.life = "freed" THEN "freed" ELSE "none"
  /\ stm' = Rung(stm)
  /\ UNCHANGED <<ctx, host, app, deferred>>
----------------------------------------------------------------------------
AppNext ==
  \/ StreamInit \/ StreamReady \/ StreamFailed
  \/ StartClear \/ StopBegin \/ StopWaited \/ Defer \/ Destroy \/ Free
  \/ Cork("uncork", "uncorking", "started")
  \/ Told("started", "started", "defer")
  \/ Cork("cork", "corking", "stopped")
  \/ Told("stopped", "stopped", "quiet")
  \/ Cork("recork", "recorking", "free")

HostNext ==
  \/ PulseInit \/ PulseDestroy \/ Subscribe
  \/ \E f \in SUBSET {"sink", "source"}, on \in BOOLEAN : Register(f, on)
  \/ \E sinks \in SUBSET Sinks, sources \in SUBSET Sources : Enumerate(sinks, sources)

LoopNext ==
  \/ WriteCallback \/ ReadCallback \/ DeferCallback \/ CallReturns \/ DrainCallback
  \/ Corked("uncorking", "started", FALSE)
  \/ Corked("corking", "stopped", TRUE)
  \/ Corked("recorking", "free", TRUE)

ServerNext == ContextFails \/ StreamFails \/ \E f \in Facilities : CollectionChanged(f)

Next == AppNext \/ HostNext \/ LoopNext \/ ServerNext

Spec == Init /\ [][Next]_vars

\* The calls of the application go on once they are made, the main loop
\* dispatches, the server answers and the user's callback returns; starting,
\* stopping and failures are nobody's duty.
Fairness ==
  /\ WF_vars(DeferCallback) /\ WF_vars(CallReturns) /\ SF_vars(DrainCallback)
  /\ SF_vars(Corked("corking", "stopped", TRUE)) /\ SF_vars(Cork("cork", "corking", "stopped"))
  /\ WF_vars(Told("stopped", "stopped", "quiet")) /\ SF_vars(StopWaited)
----------------------------------------------------------------------------
(* Properties *)

\* The data callback is not running, nor will it, from the return of stop to
\* the next start.
StopQuiesces == app \in {"quiet", "free", "done"} => stm.calling = "no"

\* A callback that returned too little or an error is not called again before
\* the stream is started anew (cubeb.h:404).
NoCallbackAfterShort == stm.calling # "no" => ~stm.short

\* The program ends only for these reasons: the output had failed, alone or with
\* the server, when its first or its duplex callback was to be called, or when
\* destroy left the deferred event behind; the stream was started while it still
\* drained, and returned too little again; a device came or went while its
\* callback was unregistered without the lock; the context was used after a
\* reconnection had failed.
FaultsAreKnown ==
  /\ fault \in {"size", "write", "freed"} => "output" \in stm.bad
  /\ fault = "timer" => stm.early
  /\ fault = "callback" => host = "subscribe"
  /\ fault = "context" => ctx.conn = "none" /\ ctx.error

\* Destroy leaves no callback running, no drain pending, and the deferred first
\* callback only if the output had failed, so that nobody waited for it.
FreedIsGone ==
  stm.life = "freed" =>
    /\ stm.calling = "no" /\ ~stm.timer
    /\ deferred > 0 => "output" \in stm.bad

\* An id the application was given stays good until the context is destroyed.
IdsStayGood == ctx.listed \subseteq ctx.ids

----------------------------------------------------------------------------
(* The inductive invariant that the proofs of CubebProofs rest on. *)

\* What the stream is at each place of its user.
StreamFits ==
  /\ app \in {"none", "init"} =>
       stm.calling = "no" /\ stm.corked /\ ~stm.short /\ ~stm.timer /\ deferred = 0
  /\ app \in Stopping => stm.calling = "no" /\ stm.shutdown
  /\ app = "done" <=> stm.life = "freed"
  /\ app = "done" => stm.calling = "no" /\ ~stm.timer
  /\ app \in {"none", "done"} => stm.good = {}
  /\ app \notin {"none", "done"} /\ HasOutput => "output" \in stm.good \cup stm.bad
  /\ deferred > 0 => stm.kind = "output"
  /\ app \in {"free", "done"} => deferred = 0 \/ "output" \in stm.bad

\* A callback is called, and a drain runs, only as the flags say.
FlagsFit ==
  /\ stm.short => stm.shutdown
  /\ stm.calling # "no" => ~stm.shutdown
  /\ stm.timer => HasOutput
  /\ stm.timer => stm.shutdown \/ stm.early

\* A deferred event is one of a start that has ended.
DeferredCounted == deferred + (IF app \in Starting THEN 1 ELSE 0) <= stm.starts

\* Nothing is registered without a context, and what is subscribed was
\* registered; a context without a connection had one that failed.
ContextFits ==
  /\ ctx.connects = 0 => ctx.callbacks = {} /\ host = "idle" /\ app = "none"
  /\ ctx.conn # "ready" => ctx.mask = {}
  /\ host # "subscribe" => ctx.mask \subseteq Mask(ctx.callbacks)
  /\ host = "destroyed" => ctx.conn = "none"
  /\ ctx.conn = "none" /\ host # "destroyed" /\ ctx.connects > 0 => ctx.error

IInv == /\ TypeOK /\ StreamFits /\ FlagsFit /\ DeferredCounted /\ ContextFits
        /\ IdsStayGood /\ FaultsAreKnown
----------------------------------------------------------------------------
(* What does not hold of a connection that was made again, see README.md, and *)
(* what only TLC checks.                                                      *)

\* While the connection lasts, the subscription covers what is registered
\* and the default sink.
SubscriptionCovers ==
  ctx.conn = "ready" /\ host = "idle" => Mask(ctx.callbacks) = ctx.mask

\* A stop that was begun returns.
StopReturns ==
  app \in {"waiting", "cork", "corking", "stopped"} ~> (app = "quiet" \/ fault # "none")
=============================================================================
