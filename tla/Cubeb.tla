------------------------------- MODULE Cubeb -------------------------------
(***************************************************************************)
(* The library as its user sees it (extlibs/cubeb/src/cubeb.c): cubeb_init *)
(* takes the first backend that works, and every call goes to that one     *)
(* through the table of functions in its context.  Here the backends are   *)
(* composed, and their promises stated as those of the library.            *)
(*                                                                         *)
(* The variables are shared: each backend renames those it has, and leaves *)
(* the others alone.  The ALSA backend has a module of its own.            *)
(***************************************************************************)
EXTENDS Integers, Sequences, FiniteSets

CONSTANTS
  Compiled,              \* the backends of this build, USE_PULSE and so on
  Kinds,                 \* of streams: "output", "input", "duplex"
  Sinks, Sources, MaxStarts, MaxConnects,                         \* PulseBackend
  Users, MAX_STREAMS, InputOnly, MaxOpens,                        \* JackBackend
  NotifierFirst,                                                  \* AAudioBackend
  Capacity,                                                       \* OpenSLBackend
  PlayFrames, RecordFrames, DeviceFrames,                         \* OssBackend
  TimeoutLimit,                                                   \* WasapiBackend
  NBufs,                                                          \* WinmmBackend
  Blocks, MaxFrames,                                              \* SndioBackend
  Frames                                                          \* SunBackend

VARIABLES
  backend,   \* the backend of the context
  stm,       \* its stream
  app,       \* where its user is
  thread,    \* where its thread or its callback is
  fault,     \* what ended the program
  v1, v2, v3, v4, v5, v6   \* what else it has

vars == <<backend, stm, app, thread, fault, v1, v2, v3, v4, v5, v6>>

Pulse == INSTANCE PulseBackend WITH
  ctx <- v1, host <- v2, deferred <- v3
Jack == INSTANCE JackBackend WITH
  slot <- stm, proc <- thread, user <- app, opens <- v1, hurt <- fault
AAudio == INSTANCE AAudioBackend WITH
  audio <- thread, dev <- v1, ctx <- v2, looker <- v3, helper <- v4
OpenSL == INSTANCE OpenSLBackend WITH
  player <- thread, sl <- v1, recorder <- v2, input <- v3
Oss == INSTANCE OssBackend WITH s <- stm, nfr <- v1
Wasapi == INSTANCE WasapiBackend WITH
  s <- stm, client <- v1, ev <- v2,
  Kinds <- Kinds \cup (IF "input" \in Kinds THEN {"loopback"} ELSE {})
Winmm == INSTANCE WinmmBackend WITH device <- v1, work <- v2
AudioUnit == INSTANCE AudioUnitBackend WITH
  task <- thread, running <- v1, listening <- v2, io <- v3, notice <- v4, queue <- v5, mutex <- v6
Sndio == INSTANCE SndioBackend WITH s <- stm, device <- v1
Sun == INSTANCE SunBackend WITH s <- stm, io <- v1

ASSUME CubebAssumption ==
  /\ Pulse!PulseAssumption /\ Jack!JackAssumption /\ AAudio!AAudioAssumption
  /\ OpenSL!OpenSLAssumption /\ Oss!OssAssumption /\ Wasapi!WasapiAssumption
  /\ Winmm!WinmmAssumption /\ AudioUnit!AudioUnitAssumption
  /\ Sndio!SndioAssumption /\ Sun!SunAssumption
----------------------------------------------------------------------------
(* cubeb_init *)

\* default_init.
Order == <<"pulse", "jack", "sndio", "oss", "audiounit", "wasapi", "winmm", "sun",
           "opensl", "aaudio">>

\* The backend that was asked for is tried before them.
Tried(asked) == (IF asked = "any" THEN <<>> ELSE <<asked>>) \o Order

\* The first of them that is in the build and works, if there is one.
Chosen(asked, works) ==
  {Tried(asked)[i] : i \in {n \in DOMAIN Tried(asked) :
     /\ Tried(asked)[n] \in Compiled \cap works
     /\ \A m \in 1..(n - 1) : Tried(asked)[m] \notin Compiled \cap works}}

None(x) == x = "none"

InitOf(b) ==
  CASE b = "pulse" -> Pulse!Init /\ None(thread) /\ None(v4) /\ None(v5) /\ None(v6)
    [] b = "jack" -> Jack!Init /\ None(v2) /\ None(v3) /\ None(v4) /\ None(v5) /\ None(v6)
    [] b = "aaudio" -> AAudio!Init /\ None(v5) /\ None(v6)
    [] b = "opensl" -> OpenSL!Init /\ None(v4) /\ None(v5) /\ None(v6)
    [] b = "oss" -> Oss!Init /\ None(v2) /\ None(v3) /\ None(v4) /\ None(v5) /\ None(v6)
    [] b = "wasapi" -> Wasapi!Init /\ None(v3) /\ None(v4) /\ None(v5) /\ None(v6)
    [] b = "winmm" -> Winmm!Init /\ None(v3) /\ None(v4) /\ None(v5) /\ None(v6)
    [] b = "audiounit" -> AudioUnit!Init
    [] b = "sndio" -> Sndio!Init /\ None(fault) /\ None(v2) /\ None(v3) /\ None(v4) /\ None(v5) /\ None(v6)
    [] b = "sun" -> Sun!Init /\ None(v2) /\ None(v3) /\ None(v4) /\ None(v5) /\ None(v6)

Init ==
  /\ \E asked \in Compiled \cup {"any"}, works \in SUBSET Compiled :
       backend \in Chosen(asked, works)
  /\ InitOf(backend)
----------------------------------------------------------------------------
(* Every call goes to the backend; its thread and its system are its own. *)

PulseNext == backend = "pulse" /\ Pulse!Next /\ UNCHANGED <<backend, thread, v4, v5, v6>>
JackNext == backend = "jack" /\ Jack!Next /\ UNCHANGED <<backend, v2, v3, v4, v5, v6>>
AAudioNext == backend = "aaudio" /\ AAudio!Next /\ UNCHANGED <<backend, v5, v6>>
OpenSLNext == backend = "opensl" /\ OpenSL!Next /\ UNCHANGED <<backend, v4, v5, v6>>
OssNext == backend = "oss" /\ Oss!Next /\ UNCHANGED <<backend, v2, v3, v4, v5, v6>>
WasapiNext == backend = "wasapi" /\ Wasapi!Next /\ UNCHANGED <<backend, v3, v4, v5, v6>>
WinmmNext == backend = "winmm" /\ Winmm!Next /\ UNCHANGED <<backend, v3, v4, v5, v6>>
AudioUnitNext == backend = "audiounit" /\ AudioUnit!Next /\ UNCHANGED backend
SndioNext == backend = "sndio" /\ Sndio!Next /\ UNCHANGED <<backend, fault, v2, v3, v4, v5, v6>>
SunNext == backend = "sun" /\ Sun!Next /\ UNCHANGED <<backend, v2, v3, v4, v5, v6>>

Next ==
  \/ PulseNext \/ JackNext \/ AAudioNext \/ OpenSLNext \/ OssNext
  \/ WasapiNext \/ WinmmNext \/ AudioUnitNext \/ SndioNext \/ SunNext

Spec == Init /\ [][Next]_vars
----------------------------------------------------------------------------
(* Fairness: what the modules of the backends ask for, each for its reason   *)
(* (see there); the backend does not change, so that those it has not are    *)
(* never enabled and one condition serves several backends.                  *)

Rest(b) == backend = b /\ CASE
       b = "pulse" -> UNCHANGED <<backend, thread, v4, v5, v6>>
    [] b = "aaudio" -> UNCHANGED <<backend, v5, v6>>
    [] b = "opensl" -> UNCHANGED <<backend, v4, v5, v6>>
    [] b \in {"winmm", "wasapi"} -> UNCHANGED <<backend, v3, v4, v5, v6>>
    [] b = "audiounit" -> UNCHANGED backend
    [] b = "sndio" -> UNCHANGED <<backend, fault, v2, v3, v4, v5, v6>>
    [] b \in {"jack", "oss", "sun"} -> UNCHANGED <<backend, v2, v3, v4, v5, v6>>

\* The threads of the backends run, and so do the callbacks they wait for.
ThreadStep ==
  \/ Rest("pulse") /\ Pulse!DeferCallback
  \/ Rest("aaudio") /\ AAudio!LookerNext
  \/ Rest("opensl") /\ OpenSL!PlayerReturns
  \/ Rest("oss") /\ Oss!ThreadNext
  \/ Rest("wasapi") /\ Wasapi!ThreadNext
  \/ Rest("winmm") /\ Winmm!ThreadNext
  \/ Rest("sndio") /\ Sndio!ThreadNext
  \/ Rest("sun") /\ Sun!ThreadNext

SecondStep ==
  \/ Rest("pulse") /\ Pulse!CallReturns
  \/ Rest("aaudio") /\ AAudio!HelperNext
  \/ Rest("opensl") /\ OpenSL!PlayerDrains
  \/ Rest("winmm") /\ Winmm!BufferDone
  \/ Rest("audiounit") /\ AudioUnit!Returns

ThirdStep ==
  \/ Rest("aaudio") /\ AAudio!CallReturns
  \/ Rest("audiounit") /\ AudioUnit!NoticeAsync

FourthStep == Rest("aaudio") /\ (AAudio!CallFlag \/ AAudio!CallNotify)

\* A call of the user that was begun goes on.
AppStep ==
  \/ Rest("pulse") /\ Pulse!Told("stopped", "stopped", "quiet")
  \/ Rest("opensl") /\ OpenSL!StartObjects
  \/ Rest("oss") /\ (Oss!StopEnds \/ Oss!Joined)
  \/ Rest("winmm") /\ (Winmm!WaitForBuffer \/ Winmm!Free)
  \/ Rest("audiounit") /\ (AudioUnit!StopEnds \/ AudioUnit!DestroyCloses)
  \/ Rest("sndio") /\ Sndio!StopReturns
  \/ Rest("sun") /\ Sun!StopReturns
  \/ /\ Rest("aaudio")
     /\ \/ AAudio!StartCas \/ AAudio!StopCas \/ AAudio!Flag \/ AAudio!Notify
        \/ AAudio!Close \/ AAudio!NotifyAll
        \/ AAudio!Request("start i", AAudio!Inputs, "start o")
        \/ AAudio!Request("start o", AAudio!Outputs, "start cas")

\* A lock, or the server, is had again and again by who asks for it; each of
\* these is at one place at a time, so that one condition serves its places.
LockedStep ==
  \/ Rest("pulse") /\ Pulse!DrainCallback
  \/ Rest("aaudio") /\ (AAudio!Wake \/ AAudio!Update)
  \/ Rest("opensl") /\ OpenSL!PlayerMarker
  \/ Rest("audiounit") /\ AudioUnit!TaskNext

LockedSecond == Rest("aaudio") /\ (AAudio!HelperWakes \/ AAudio!HelperLocks)

LockedApp ==
  \/ /\ Rest("pulse")
     /\ \/ Pulse!Corked("corking", "stopped", TRUE)
        \/ Pulse!Cork("cork", "corking", "stopped")
        \/ Pulse!StopWaited
  \/ Rest("aaudio") /\ AAudio!StopRequest
  \/ Rest("audiounit") /\ AudioUnit!DestroyStops

DeviceStep == Rest("aaudio") /\ AAudio!DeviceMoves

Fairness ==
  /\ WF_vars(ThreadStep) /\ WF_vars(SecondStep) /\ WF_vars(ThirdStep) /\ WF_vars(FourthStep)
  /\ WF_vars(AppStep)
  /\ SF_vars(LockedStep) /\ SF_vars(LockedSecond) /\ SF_vars(LockedApp) /\ SF_vars(DeviceStep)

FairSpec == Spec /\ Fairness
----------------------------------------------------------------------------
TypeOK ==
  /\ backend \in Compiled
  /\ backend = "pulse" => Pulse!TypeOK
  /\ backend = "jack" => Jack!TypeOK
  /\ backend = "aaudio" => AAudio!TypeOK
  /\ backend = "opensl" => OpenSL!TypeOK
  /\ backend = "oss" => Oss!TypeOK
  /\ backend = "wasapi" => Wasapi!TypeOK
  /\ backend = "winmm" => Winmm!TypeOK
  /\ backend = "audiounit" => AudioUnit!TypeOK
  /\ backend = "sndio" => Sndio!TypeOK
  /\ backend = "sun" => Sun!TypeOK

\* cubeb_stream_stop: once it has returned the data callback is neither called nor
\* running, but for what each backend names: JACK may begin one more, WinMM as
\* many as it has buffers, OpenSL ES does not wait for one that had begun, nor
\* stops a player whose recorder refused to start, WASAPI promises it only when
\* stop returned CUBEB_OK, and AAudio only of a stream that has not failed.
StopQuiesces ==
  /\ backend = "pulse" => Pulse!StopQuiesces
  /\ backend = "jack" => Jack!AtMostOneLate
  /\ backend = "aaudio" => AAudio!StopQuiesces
  /\ backend = "opensl" => OpenSL!StopQuiesces
  /\ backend = "oss" => Oss!StopQuiesces
  /\ backend = "wasapi" => Wasapi!StopQuiesces
  /\ backend = "winmm" => Winmm!LateAreFew
  /\ backend = "audiounit" => AudioUnit!StopQuiesces
  /\ backend = "sndio" => Sndio!StopQuiesces
  /\ backend = "sun" => Sun!StopQuiesces

\* The program ends, by an assertion or by the use of what is not there, only
\* for the reasons each backend names; sndio's has none to end for.
FaultsAreKnown ==
  /\ backend = "pulse" => Pulse!FaultsAreKnown
  /\ backend = "jack" => Jack!FaultsAreKnown
  /\ backend = "aaudio" => AAudio!NoFault
  /\ backend = "opensl" => OpenSL!FaultsAreKnown
  /\ backend = "oss" => Oss!FaultsAreKnown
  /\ backend = "wasapi" => Wasapi!FaultsAreKnown
  /\ backend = "winmm" => Winmm!FaultsAreKnown
  /\ backend = "audiounit" => AudioUnit!FaultsAreKnown
  /\ backend = "sun" => Sun!FaultsAreKnown

\* cubeb_stream_destroy: when a stream is freed its callbacks, clients, units,
\* buffers and threads are gone, and of what may still look at it there is no
\* more than each backend names: PulseAudio's deferred event of an output that had
\* failed, the end of WinMM's last turn or all of it when the device is gone,
\* and AudioUnit's task of a listener that came back. JACK, whose slots are used
\* again, keeps users away from a stream while its callback runs.
FreedIsGone ==
  /\ backend = "pulse" => Pulse!FreedIsGone
  /\ backend = "jack" => Jack!CallIsAlone
  /\ backend = "opensl" => OpenSL!FreedIsGone
  /\ backend = "oss" => Oss!FreedIsGone
  /\ backend = "wasapi" => Wasapi!FreedIsGone
  /\ backend = "winmm" => Winmm!FreedIsGone
  /\ backend = "audiounit" => AudioUnit!FreedIsGone

\* cubeb.h:404: PulseAudio and WASAPI do not call the data callback again after
\* it returned too little, nor do sndio and Sun, which with WinMM tell DRAINED
\* only when the device took, or gave back, everything it was given. Whether it
\* was heard none of these asks, and WASAPI says that it does not check.
ShortIsLast ==
  /\ backend = "pulse" => Pulse!NoCallbackAfterShort
  /\ backend = "wasapi" => Wasapi!NoCallbackAfterShort
  /\ backend = "winmm" => Winmm!DrainedIsLast
  /\ backend = "sndio" => Sndio!ShortIsLast
  /\ backend = "sun" => Sun!ShortIsLast

\* The buffers and frames between the data callback and the device are accounted
\* for. OpenSL ES: the recorder overwrites no buffer that waits or is read, until
\* one was left out. OSS: a callback gets no more frames than the buffers hold.
\* WinMM: each buffer is in one place, those that were lost with an ERROR
\* counted. sndio, Sun: what was played and recorded is what the callbacks were
\* for.
FramesAgree ==
  /\ backend = "opensl" => OpenSL!BuffersApart
  /\ backend = "oss" => Oss!FramesFit
  /\ backend = "winmm" => Winmm!BuffersAdd
  /\ backend = "sndio" => Sndio!InStep
  /\ backend = "sun" => Sun!InStep

\* What a backend keeps of its streams and devices is what they are.
RecordsAgree ==
  /\ backend = "pulse" => Pulse!IdsStayGood
  /\ backend = "jack" => Jack!SlotsAgree
  /\ backend = "aaudio" => AAudio!ToldIsTrue
  /\ backend = "audiounit" => AudioUnit!OneReinit
  /\ backend = "sun" => Sun!EndIsTold

\* After an error was told, or destroy has returned, no callback begins.
NothingFollows ==
  [][ /\ backend = "opensl" => OpenSL!AfterError
      /\ backend = "wasapi" => Wasapi!AfterDestroy ]_vars

\* cubeb_stream_stop returns, of PulseAudio, sndio and Sun always, and of OSS unless
\* the thread waits for the doorbell that the start before rang.
StopReturns ==
  (\/ backend = "pulse" /\ app \in {"waiting", "cork", "corking", "stopped"}
   \/ backend = "oss" /\ app = "stopping" /\ thread.pc # "bell"
   \/ backend \in {"sndio", "sun"} /\ app = "join")
  ~>
  (\/ backend = "pulse" /\ (app = "quiet" \/ fault # "none")
   \/ backend = "oss" /\ app = "idle"
   \/ backend = "sndio" /\ app = "stopped"
   \/ backend = "sun" /\ (app = "stopped" \/ fault))

\* cubeb_stream_destroy and, of AAudio, cubeb_destroy return; of WinMM unless a
\* buffer never comes back from a device that is there.
DestroyReturns ==
  (\/ backend = "aaudio" /\ app.pc = "join"
   \/ backend \in {"oss", "audiounit"} /\ app \in {"join", "destroy"}
   \/ backend = "winmm" /\ Winmm!AllComeBack)
  ~>
  (\/ backend = "aaudio" /\ v3.pc = "done" /\ v4 = "done"
   \/ backend \in {"oss", "audiounit"} /\ (app = "done" \/ fault # "none")
   \/ backend = "winmm" /\ Winmm!Destroyed)

\* The calls that wait for a thread of the backend return.
CallsReturn == StopReturns /\ DestroyReturns

\* A change that AAudio's state thread waits for is seen by it, and the end of a
\* drain by OpenSL's player, which tells the user.
ChangeIsSeen ==
  /\ \A state \in {"STARTING", "STOPPING", "DRAINING"} :
       (backend = "aaudio" /\ stm.state = state)
         ~> (backend = "aaudio" /\ (stm.state # state \/ fault))
  /\ (backend = "opensl" /\ OpenSL!DrainBegins) ~> (backend = "opensl" /\ OpenSL!DrainEnds)
----------------------------------------------------------------------------
(* What does not hold, see README.md. *)

\* "on error [...] the data callback will stop" (cubeb.h:421-422).
NoCallbackAfterError ==
  /\ backend = "jack" => Jack!NoCallbackAfterError
  /\ backend = "wasapi" => Wasapi!NoCallbackAfterError
=============================================================================
