---------------------------- MODULE StreamSetup ----------------------------
(***************************************************************************)
(* cubeb_stream_init of every backend (extlibs/cubeb/src/cubeb_*.c, .cpp): *)
(* a stream is put together in stages, any of which may fail when the      *)
(* system refuses something.  What the error path then gives back must be  *)
(* what was taken before, no less and no more.                             *)
(*                                                                         *)
(* A backend is the sequence of its stages and the set of things that its  *)
(* error path and its destroy function release.  Stages that only set      *)
(* fields, and two checks with nothing taken in between, are not told      *)
(* apart; what is taken buffer by buffer is one thing.                     *)
(***************************************************************************)
EXTENDS Naturals, Sequences

CONSTANTS
  SetupBackends,   \* those to set streams up with
  SetupKinds       \* of streams: "output", "input", "duplex"

VARIABLES
  call,     \* the call: backend and kind of stream
  at,       \* its next stage
  held,     \* what was taken and not given back
  foreign,  \* what was given back without having been taken
  out,      \* what *stream is: "unset", "null", "stream" or "dangling"
  result    \* "pending", "ok", "error", "crash", "hang" or, later, "destroyed"

vars == <<call, at, held, foreign, out, result>>

SetupAssumption ==
  /\ SetupBackends \subseteq {"pulse", "alsa", "jack", "aaudio", "opensl", "oss", "sun",
       "sndio", "wasapi", "winmm", "audiounit", "kai", "audiotrack"}
  /\ SetupKinds \subseteq {"output", "input", "duplex"}

Every == {"output", "input", "duplex"}
Plays == {"output", "duplex"}
Records == {"input", "duplex"}

\* How a stage ends when it fails: it cannot ("never": it does or the program
\* asserts); nothing was taken yet ("refuse"); the error path runs ("undo");
\* that runs, but CUBEB_OK is returned ("quiet"); nobody looks ("crash", for
\* what is missing is used next; "ignored" otherwise).
Stage(on, fails, takes) == [on |-> on, fails |-> fails, takes |-> takes]

Take(r, on) == Stage(on, "never", {r})
Try(r, on) == Stage(on, "undo", {r})
Check(on) == Stage(on, "undo", {})
Refuse(on) == Stage(on, "refuse", {})
----------------------------------------------------------------------------
(* The stages, backend by backend. *)

\* *stream = NULL.
Null == Stage(Every, "never", {"NULL"})

\* create_pa_stream.
PulseSide(r, on) == Try(r, on)

\* pulse_stream_init: a side, the connection of it, the wait until both are ready.
PulseStages ==
  <<Refuse(Every), Null, Take("stm", Every),
    PulseSide("output", Plays), PulseSide("input", Records), Check(Every)>>

\* pulse_stream_destroy.
PulseFreed == (held \cap {"output", "input"}) \cup {"stm"}

\* alsa_stream_init_single: the place in the context, the stream, the device,
\* its buffer and descriptors, the place in the table.
AlsaSide(on, fails, own) ==
  <<Stage(on, fails, {own.active}), Take(own.stm, on), Try(own.pcm, on), Check(on),
    Take(own.buffer, on), Take(own.fds, on), Try(own.slot, on)>>

AlsaIn == [active |-> "in_active", stm |-> "in_stm", pcm |-> "in_pcm",
           buffer |-> "in_buffer", fds |-> "in_fds", slot |-> "in_slot"]
AlsaOut == [active |-> "out_active", stm |-> "out_stm", pcm |-> "out_pcm",
            buffer |-> "out_buffer", fds |-> "out_fds", slot |-> "out_slot"]

\* alsa_stream_init: the side that records first.
AlsaStages ==
  <<Refuse(Every)>> \o AlsaSide(Records, "refuse", AlsaIn) \o AlsaSide(Plays, "undo", AlsaOut)

\* alsa_stream_destroy of one stream: it is counted off and freed whatever else
\* there is of it.
AlsaSideFreed(own) ==
  (held \cap {own.pcm, own.fds, own.slot, own.buffer}) \cup {own.active, own.stm}

\* The two error paths: alsa_stream_init_single destroys the stream it made, and
\* alsa_stream_init the one that records when the other one failed.
AlsaUndone ==
  (IF AlsaIn.stm \in held THEN AlsaSideFreed(AlsaIn) ELSE {})
  \cup (IF AlsaOut.stm \in held THEN AlsaSideFreed(AlsaOut) ELSE {})

\* alsa_stream_destroy of the stream handed out, and of its other_stream.
AlsaFreed ==
  (IF call.kind \in Plays THEN AlsaSideFreed(AlsaOut) ELSE {})
  \cup (IF call.kind \in Records THEN AlsaSideFreed(AlsaIn) ELSE {})

\* cbjack_stream_init: a slot of the context, the resampler, the ports of each
\* side and their connection.
JackStages ==
  <<Refuse(Every), Null, Stage(Every, "refuse", {"slot"}), Try("resampler", Every),
    Take("output_ports", Plays), Check(Plays),
    Take("input_ports", Records), Check(Records)>>

\* cbjack_stream_destroy.
JackFreed == (held \cap {"output_ports", "input_ports", "resampler"}) \cup {"slot"}

\* realize_stream.
AAudioSide(r, on) == Try(r, on)

\* aaudio_stream_init_impl; the builder is deleted whenever it returns.
AAudioStages ==
  <<Stage(Every, "refuse", {"slot"}), Try("builder", Every),
    AAudioSide("output", Plays), AAudioSide("input", Records), Take("in_buf", Records),
    Try("resampler", Every)>>

\* aaudio_stream_destroy, and the destructor of the builder.
AAudioFreed ==
  (held \cap {"builder", "output", "input", "in_buf", "resampler"}) \cup {"slot"}

\* opensl_configure_playback.
OpenSLPlayback ==
  <<Check(Plays), Try("player", Plays), Take("queuebuf", Plays), Take("buffers", Plays),
    Check(Plays)>>

\* opensl_configure_capture: a failure to create the recorder is looked at only
\* after the second attempt, that with another rate.
OpenSLCapture ==
  <<Check(Records), Stage(Records, "crash", {"recorder"}), Check(Records),
    Take("recorder_queue", Records), Check(Records),
    Take("input_array", Records), Take("input_buffers", Records),
    Take("input_queue", {"duplex"}), Take("input_silent_buffer", {"duplex"}), Check(Records)>>

\* opensl_stream_init.
OpenSLStages ==
  <<Null, Refuse(Every), Take("stm", Every), Take("mutex", Every)>>
  \o OpenSLPlayback \o OpenSLCapture \o <<Try("resampler", Every)>>

\* opensl_destroy_recorder.
OpenSLRecorderFreed ==
  IF "recorder" \notin held THEN {}
  ELSE {"recorder"}
       \cup (IF "recorder_queue" \in held
             THEN held \cap {"recorder_queue", "input_buffers"} ELSE {})
       \cup (held \cap {"input_queue", "input_silent_buffer"})

\* opensl_stream_destroy.
OpenSLFreed ==
  (IF "player" \in held THEN held \cap {"player", "buffers"} ELSE {})
  \cup OpenSLRecorderFreed
  \cup (held \cap {"resampler"}) \cup {"mutex", "stm"}

\* oss_stream_init: when a mutex or a condition variable cannot be made, ret is
\* still CUBEB_OK.
OssStages ==
  <<Stage(Every, "refuse", {"stm"}),
    Check(Records), Try("record.fd", Records), Check(Records),
    Check(Plays), Try("play.fd", Plays), Check(Plays),
    Stage(Every, "quiet", {"mtx"}), Stage(Every, "quiet", {"doorbell_cv"}),
    Stage(Every, "quiet", {"stopped_cv"}),
    Try("play.buf", Plays), Try("record.buf", Records)>>

\* oss_stream_destroy: the thread is joined whether it was made or not.
OssFreed ==
  (held \cap {"play.fd", "record.fd", "play.buf", "record.buf"})
  \cup {"thread", "doorbell_cv", "stopped_cv", "mtx", "stm"}

\* sun_stream_init, with the same fault.
SunStages ==
  <<Stage(Every, "refuse", {"stm"}),
    Check(Records), Try("record.fd", Records), Check(Records),
    Check(Plays), Try("play.fd", Plays), Check(Plays),
    Stage(Every, "quiet", {"mutex"}),
    Try("play.buf", Plays), Try("record.buf", Records)>>

\* sun_stream_destroy.
SunFreed ==
  (held \cap {"play.fd", "record.fd", "play.buf", "record.buf"}) \cup {"mutex", "stm"}

MutSndioStages ==
  <<Stage(Every, "refuse", {"s"}), Check(Every), Try("hdl", Every), Check(Every),
    Try("rbuf", Records), Try("pbuf", Plays)>>

\* sndio_stream_init.
SndioStages ==
  <<Stage(Every, "refuse", {"s"}), Check(Every), Try("hdl", Every), Check(Every),
    Try("pbuf", Plays), Try("rbuf", Records)>>

\* Its label err: the third test, of rbuf, frees pbuf again.
SndioUndone == (held \cap {"hdl", "pbuf"}) \cup {"s"}

\* sndio_stream_destroy.
SndioFreed == (held \cap {"hdl", "pbuf", "rbuf"}) \cup {"s"}

\* setup_wasapi_stream_one_side: the device, a client of it, what it serves.
WasapiSide(device, client, service, on) ==
  <<Try(device, on), Try(client, on), Check(on), Try(service, on)>>

\* setup_wasapi_stream.
WasapiSetup ==
  WasapiSide("input_device", "input_client", "capture_client", Records)
  \o WasapiSide("output_device", "output_client", "render_client", Plays)
  \o <<Try("audio_clock", Plays), Try("resampler", Every), Take("mixers", Every)>>

\* wasapi_stream_init: without the notifications of other default devices the
\* stream does as well.
WasapiStages ==
  <<Refuse(Every), Take("stm", Every), Try("device_enumerator", Every), Check(Every),
    Try("reconfigure_event", Every), Try("refill_event", Every),
    Try("input_available_event", Every)>>
  \o WasapiSetup \o <<Stage(Every, "ignored", {"notification_client"})>>

\* close_wasapi_stream: pointers that may be null, and their counts.
WasapiClosed ==
  held \cap {"input_device", "input_client", "capture_client", "output_device",
             "output_client", "render_client", "audio_clock", "resampler", "mixers"}

\* wasapi_stream_destroy: the events are closed whether they were made or not.
WasapiFreed ==
  WasapiClosed \cup (held \cap {"notification_client", "device_enumerator"})
  \cup {"reconfigure_event", "refill_event", "input_available_event", "stm"}

\* winmm_stream_init: a place, the event, the device, which is paused; then buffer
\* by buffer, each prepared and refilled. Whether waveOutWrite took one, nobody
\* looks here: winmm_refill_stream tells ERROR.
WinmmStages ==
  <<Refuse(Every), Null, Stage(Every, "refuse", {"active"}),
    Take("stm", Every), Take("lock", Every), Try("event", Every), Try("waveout", Every),
    Check(Every), Take("buffers", Every), Try("headers", Every),
    Stage(Every, "ignored", {"queued"})>>

\* winmm_stream_destroy.
WinmmFreed ==
  (IF "waveout" \in held THEN held \cap {"queued", "headers", "waveout"} ELSE {})
  \cup (held \cap {"event", "buffers"}) \cup {"lock", "active", "stm"}

\* It waits until NBUFS buffers have come back, and a buffer that was never queued
\* does not.
WinmmWaits == "waveout" \in held /\ "queued" \notin held

\* audiounit_create_aggregate_device, which removes what it could not finish.
AggregateStage == Try("aggregate", {"duplex"})

\* audiounit_create_unit and audiounit_new_unit_instance.
UnitStages(unit, on) == <<Try(unit, on), Check(on)>>

\* audiounit_configure_input and audiounit_configure_output.
InputStages == <<Check(Records), Take("input_linear_buffer", Records), Check(Records)>>
OutputStages == <<Check(Plays), Take("mixer", Plays), Check(Plays)>>

\* audiounit_install_device_changed_callback, whose failure is only logged.
ListenerStages ==
  <<Stage(Plays, "ignored", {"output_source_listener"}),
    Stage(Records, "ignored", {"input_source_listener"}),
    Stage(Records, "ignored", {"input_alive_listener"})>>

\* audiounit_install_system_changed_callback, whose failure is not.
SystemListenerStages ==
  <<Try("default_output_listener", Plays), Try("default_input_listener", Records)>>

\* audiounit_setup_stream.
AudioUnitSetup ==
  <<Check(Every), AggregateStage>>
  \o UnitStages("input_unit", Records) \o UnitStages("output_unit", Plays)
  \o InputStages \o OutputStages
  \o <<Try("resampler", Every), Check(Every)>> \o ListenerStages

\* audiounit_stream_init.
AudioUnitStages ==
  <<Take("active", Every), Take("stm", Every), Null, Check(Every)>>
  \o AudioUnitSetup \o SystemListenerStages

\* audiounit_close_stream.
AudioUnitClosed ==
  held \cap {"input_unit", "input_linear_buffer", "output_unit", "resampler", "mixer",
             "aggregate"}

\* audiounit_stream_destroy_internal, which is also all that the smart pointer of
\* audiounit_stream_init does.
AudioUnitUndone ==
  (held \cap {"default_output_listener", "default_input_listener",
              "output_source_listener", "input_source_listener", "input_alive_listener"})
  \cup AudioUnitClosed \cup {"active"}

\* audiounit_stream_destroy.
AudioUnitFreed == AudioUnitUndone \cup {"stm"}

MutKaiStages ==
  <<Refuse(Every), Null, Take("stm", Every), Stage(Every, "quiet", {"mutex"}),
    Try("hkai", Every)>>

\* kai_stream_init, kai_stream_destroy.
KaiStages ==
  <<Refuse(Every), Null, Take("stm", Every), Try("mutex", Every), Try("hkai", Every)>>
KaiFreed == (held \cap {"hkai", "mutex"}) \cup {"stm"}

\* audiotrack_stream_init, audiotrack_stream_destroy.
AudioTrackStages ==
  <<Refuse(Every), Take("stm", Every), Take("instance", Every), Take("track", Every),
    Check(Every)>>
AudioTrackFreed == {"track", "instance", "stm"}
----------------------------------------------------------------------------
Stages(b) ==
  CASE b = "pulse" -> PulseStages [] b = "alsa" -> AlsaStages
    [] b = "jack" -> JackStages [] b = "aaudio" -> AAudioStages
    [] b = "opensl" -> OpenSLStages [] b = "oss" -> OssStages
    [] b = "sun" -> SunStages [] b = "sndio" -> SndioStages
    [] b = "wasapi" -> WasapiStages [] b = "winmm" -> WinmmStages
    [] b = "audiounit" -> AudioUnitStages [] b = "kai" -> KaiStages
    [] b = "audiotrack" -> AudioTrackStages

\* What destroy releases.
Freed(b) ==
  CASE b = "pulse" -> PulseFreed [] b = "alsa" -> AlsaFreed
    [] b = "jack" -> JackFreed [] b = "aaudio" -> AAudioFreed
    [] b = "opensl" -> OpenSLFreed [] b = "oss" -> OssFreed
    [] b = "sun" -> SunFreed [] b = "sndio" -> SndioFreed
    [] b = "wasapi" -> WasapiFreed [] b = "winmm" -> WinmmFreed
    [] b = "audiounit" -> AudioUnitFreed [] b = "kai" -> KaiFreed
    [] b = "audiotrack" -> AudioTrackFreed

\* What the error path releases: destroy does it, but for these three.
Undone(b) ==
  CASE b = "alsa" -> AlsaUndone [] b = "sndio" -> SndioUndone
    [] b = "audiounit" -> AudioUnitUndone [] OTHER -> Freed(b)

\* winmm, KAI and AudioTrack only play: validate_stream_params lets a stream
\* through that records, their own first checks assert or refuse.
KindsOf(b) ==
  SetupKinds \cap (IF b \in {"winmm", "kai", "audiotrack"} THEN {"output"} ELSE Every)

Init ==
  /\ call \in {[backend |-> b, kind |-> k] : b \in SetupBackends, k \in SetupKinds}
  /\ call.kind \in KindsOf(call.backend)
  /\ at = 1 /\ held = {} /\ foreign = {} /\ out = "unset" /\ result = "pending"

Here == Stages(call.backend)[at]

Pending == result = "pending" /\ at <= Len(Stages(call.backend))
Reached == Pending /\ call.kind \in Here.on

\* A stage of the side the stream does not have.
PassBy ==
  /\ Pending /\ call.kind \notin Here.on
  /\ at' = at + 1
  /\ UNCHANGED <<call, held, foreign, out, result>>

\* A stage does what it is for.
Advance ==
  /\ Reached
  /\ held' = held \cup (Here.takes \ {"NULL"})
  /\ out' = IF "NULL" \in Here.takes THEN "null" ELSE out
  /\ at' = at + 1
  /\ UNCHANGED <<call, foreign, result>>

\* A failure nobody looks at.
GoOn ==
  /\ Reached /\ Here.fails = "ignored"
  /\ at' = at + 1
  /\ UNCHANGED <<call, held, foreign, out, result>>

\* ALSA's *stream = outstm ? outstm : instm comes after instm was destroyed.
OutAfter ==
  IF call.backend # "alsa" THEN out ELSE IF "in_slot" \in held THEN "dangling" ELSE "null"

\* The first checks, before anything was taken, and the uses of what is missing.
EndHere ==
  /\ Reached /\ Here.fails \in {"refuse", "crash"}
  /\ IF Here.fails = "refuse" THEN result' = "error" /\ out' = OutAfter
     ELSE result' = "crash" /\ UNCHANGED out
  /\ UNCHANGED <<call, at, held, foreign>>

\* A stage fails and the error path runs.
Undo ==
  /\ Reached /\ Here.fails \in {"undo", "quiet"}
  /\ held' = held \ Undone(call.backend)
  /\ foreign' = Undone(call.backend) \ held
  /\ out' = OutAfter
  /\ result' = IF Here.fails = "undo" THEN "error" ELSE "ok"
  /\ UNCHANGED <<call, at>>

\* *stream = stm, when all stages are behind; AAudio's builder goes with its scope.
Succeed ==
  /\ result = "pending" /\ at > Len(Stages(call.backend))
  /\ held' = held \ {"builder"}
  /\ out' = "stream"
  /\ result' = "ok"
  /\ UNCHANGED <<call, at, foreign>>

Destroy ==
  /\ result = "ok" /\ out = "stream"
  /\ held' = held \ Freed(call.backend)
  /\ foreign' = Freed(call.backend) \ held
  /\ out' = "dangling"
  /\ result' = "destroyed"
  /\ UNCHANGED <<call, at>>

\* The error path and destroy, where they wait for what never comes; on a device
\* that turns out to be gone WinMM's does not wait.
WaitForEver ==
  /\ \/ Reached /\ Here.fails \in {"undo", "quiet"}
     \/ result = "ok" /\ out = "stream"
  /\ call.backend = "winmm" /\ WinmmWaits
  /\ result' = "hang"
  /\ UNCHANGED <<call, at, held, foreign, out>>

Next ==
  PassBy \/ Advance \/ GoOn \/ EndHere \/ Undo \/ Succeed \/ Destroy \/ WaitForEver

Spec == Init /\ [][Next]_vars
----------------------------------------------------------------------------
TypeOK ==
  /\ call.backend \in SetupBackends /\ call.kind \in KindsOf(call.backend)
  /\ at \in 1..(Len(Stages(call.backend)) + 1)
  /\ out \in {"unset", "null", "stream", "dangling"}
  /\ result \in {"pending", "ok", "error", "crash", "hang", "destroyed"}

\* What an init that failed leaves behind: macOS its stream, OpenSL two arrays of
\* pointers, also when destroyed.
Leaks ==
  CASE call.backend = "audiounit" /\ result = "error" -> {"stm"}
    [] call.backend = "opensl" -> {"queuebuf", "input_array"}
    [] OTHER -> {}

\* What is given back without having been taken: on OSS a thread that is not
\* there is joined, there and on Sun mutexes that were not made are destroyed,
\* and on Windows handles closed.
Strays ==
  CASE call.backend = "oss" -> {"thread", "mtx", "doorbell_cv", "stopped_cv"}
    [] call.backend = "sun" -> {"mutex"}
    [] call.backend = "wasapi" ->
         {"reconfigure_event", "refill_event", "input_available_event"}
    [] OTHER -> {}

\* cubeb_stream_init, wherever it fails, gives back all it took and nothing it
\* did not take; so does cubeb_stream_destroy; with the exceptions named.
RolledBack ==
  /\ result \in {"error", "destroyed"} => held \subseteq Leaks
  /\ foreign \subseteq Strays

\* What the stages of this kind of stream take, and what a stream does without.
Wanted ==
  (UNION {Stages(call.backend)[n].takes :
            n \in {m \in 1..Len(Stages(call.backend)) :
                     call.kind \in Stages(call.backend)[m].on}}) \ {"NULL", "builder"}
Spared ==
  {"queued", "notification_client", "output_source_listener", "input_source_listener",
   "input_alive_listener"}

\* CUBEB_OK means a stream that has all it needs, an error none, and the call ends,
\* as does cubeb_stream_destroy. The exceptions: a mutex that could not be made, on
\* OSS and Sun; a stream without WASAPI's notifications, CoreAudio's listeners or
\* a buffer that WinMM could not write; the stream destroyed by ALSA that is
\* handed out with the error; OpenSL's recorder; and WinMM's open device that no
\* buffer was queued at, at which destroy waits for ever.
ResultIsTrue ==
  /\ result = "ok" => \/ out = "stream" /\ Wanted \ held \subseteq Spared
                      \/ call.backend \in {"oss", "sun"} /\ held = {}
  /\ result = "error" /\ out = "dangling" => call.backend = "alsa" /\ call.kind = "duplex"
  /\ result = "crash" => call.backend = "opensl" /\ call.kind \in Records
  /\ result = "hang" => call.backend = "winmm" /\ "waveout" \in held /\ "queued" \notin held
=============================================================================
