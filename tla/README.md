# minseq in TLA+

minseq is a terminal program (`src/main.cpp`, `src/utils/`) meant to become a music
sequencer, with the cubeb audio library in its tree (`src/extlibs/cubeb/`). This
directory holds TLA+ models of the parts of that code that keep state, TLC
configurations that check them on small instances, and proofs of their main
invariants for all values of the constants.

1. [The system](#1-the-system): its components, what is hard about them
2. [Modules](#2-modules): what models what, and how they are composed
3. [Runs](#3-runs): what is checked, within which bounds, and why they are enough
4. [Fairness](#4-fairness)
5. [Proofs](#5-proofs): what is proved and how
6. [What the models showed about the code](#6-what-the-models-showed-about-the-code)
7. [Not modelled](#7-not-modelled)
8. [What is left](#8-what-is-left)

Run anything from this directory: `tlc -config Session.cfg Session.tla`,
`tlc -config Components.cfg MCComponents.tla`, `tlapm SessionProofs.tla`.

## 1. The system

The program of today is one thread: `main()` borrows the terminal, draws a menu and
polls the keyboard. The other parts of `src/utils/` are libraries that the editor will
call. cubeb is compiled separately; it brings the threads.

| component | state it keeps | operations | what is hard |
|---|---|---|---|
| Terminal session (`main.cpp`, `utils/linuxinput.h`) | saved and current terminal settings, signal handlers, the quit flag, the editor mode, bytes on stdin | set raw mode, install handlers, draw, poll, read, exit | signals and job control between any two steps; settings outlive the process |
| List selection (`utils/textio.h`) | cursor, redraw mark; the list is the caller's | move, mark, draw a window of five rows | the list changes between calls; a cursor nobody clamps until the draw; signed against unsigned |
| Dynamic bitset (`utils/dynamic_bitset.h`) | number of bits, vector of bytes | construct, set, flip, set all, reset, resize | the last byte has bits beyond the size |
| Versioned serializer (`utils/serialization.h`) | buffer position, integrity counter, data version | add, remove, check, on a writer and a reader | no field names on the wire: both sides must agree from versions alone |
| Library entry points (`cubeb.c`) | the context's table of functions | init, and every stream call | which backend is chosen |
| Setting up and giving back (`*_stream_init`, `*_stream_destroy`) | what was taken so far | up to a dozen stages, an error path, destroy | any stage fails; the error path knows only part of what was taken |
| Lock-free ring buffer (`cubeb_ringbuffer.h`) | two atomic indices, the slots | enqueue, dequeue, available_read/write on either side | two threads without a lock, stale indices, wrap-around, memory order |
| ALSA backend (`cubeb_alsa.c`) | the streams' states, the table of places, poll descriptors, control pipe, shutdown flag | open, start, stop, destroy, and the thread `alsa_run` | a mutex released around poll and around the user's callback; condition variables; a wake-up pipe that can be full |
| PulseAudio backend (`cubeb_pulse.c`) | context, subscription, interned ids, stream, drain timer, deferred events | connect, reconnect, register, enumerate, start, stop, destroy | the server goes away at any time; the first callback is deferred; a drain timer races stop |
| JACK backend (`cubeb_jack.cpp`) | a table of streams with flags | open, start, stop, destroy; the process callback | the process thread reads flags without a lock and only tries the mutex |
| AAudio backend (`cubeb_aaudio.cpp`) | one atomic state per stream, flags between three threads | start, stop, destroy; callback; state thread; notifier | lock-free notification of a thread that may be about to sleep |
| OpenSL backend (`cubeb_opensl.c`) | shutdown, draining, queue of recorded buffers | start, stop, destroy; two callbacks and a marker | flags read under a lock and acted upon after it |
| WASAPI backend (`cubeb_wasapi.cpp`) | clients, events, bailout flag | start, stop, reset, destroy; render thread | a join that times out and hands the stream to the thread |
| WinMM backend (`cubeb_winmm.c`) | free buffers, shutdown, draining, a list of work | start, stop, destroy; completion callback; work thread | buffers counted by one thread while destroy waits for the count |
| AudioUnit backend (`cubeb_audiounit.cpp`) | units, listeners, switching flags, a serial queue | start, stop, destroy; callbacks; device changes | device changes while the stream is destroyed |
| OSS, sndio, Sun backends (`cubeb_oss.c`, `cubeb_sndio.c`, `cubeb_sun.c`) | one thread per stream, flags | start, stop, destroy; the loop | stop against the loop's end; partial reads and writes in step |
| Speex resampler (`subprojects/speex/resample.c`) | filter length, history, position, magic samples | process, set rate, set quality, skip | filter changes while samples are in the memory |
| Resampler front end (`cubeb_resampler.cpp`, `_internal.h`) | queue of input, delay lines, draining | fill, for every combination of rates | frames of two clocks, silence, short and failing callbacks |
| log, queues, interned strings, mixer, utilities, error and scope helpers, float helpers | see section 7 | | |

How they interact: `main()` calls `linuxinput.h` and the macros of `textio.h`.
`cubeb_init` picks a backend and every later call goes to it through a table. A backend
calls the user's data callback on a thread of its own or of the system, through the
resampler front end, which owns up to two speex resamplers; the state callback is called
from there or from the user's call. The ring buffer is used by cubeb's asynchronous
log and by the macOS backend through `audio_ring_buffer_base`.

What makes each component correct:

- **Session**: while the program lives a raw terminal can be given back, an exit gives it
  back, only a signal that kills the process keeps it raw, interrupts cannot kill the loop, a quit key is not lost, a key typed before
  the program was ready is not obeyed.
- **List**: no row outside the list is read, the selected row is always on the screen, no
  stale highlight, and the window moves by at most one row per cursor step.
- **Bitset**: it is a set of positions below its size, its storage covers them, and what a
  resize adds is off, but for the bits left over in the last byte.
- **Serializer**: reader and writer stay in step for all pairs of versions, and the
  fields both programs have arrive.
- **Ring buffer**: it is a bounded FIFO; what a side was told is free or ready stays so;
  the two threads never touch the same slot; audio frames are not torn.
- **Every backend**: after stop returned, nothing calls back; nothing uses a stream that
  is gone; a stream that ended is not called again; calls that wait return; assertions
  hold; buffers and frames are accounted for; its records are what they stand for. Few backends keep
  all of this, and each property names who does not, and when (section 6).
- **ALSA context**, besides: `poll` waits for the right descriptors; places are neither
  lost nor given twice; drains end.
- **Set-up**: a failure gives back what was taken, no more and no less, and is reported.
- **Resampler**: what is read and written is in memory; a change of the filter keeps the
  place in the input; recorded frames reach the callback once and in order.

## 2. Modules

| module | models | form |
|---|---|---|
| `Session` | `main()`, `set_conio_terminal_mode`, `kbhit`, `getch`, the handler; environment: keys, signals, ^Z/fg, end of file | one process with a program counter, environment actions |
| `ListView` | class `TextIO` | one action per method, and one for the caller's list |
| `DynamicBitset`, `BitsetSpec` | `dynamic_bitset`, and what it promises | one action per method; a size and a set of positions |
| `Serializer`, `MCSerializer` | both serializers; schemas for TLC | one action per statement of the generated code |
| `RingBuffer`, `BoundedFifo` | `ring_buffer_base`, and what it promises | two processes; load, copy one element, store are separate steps |
| `AudioRingBuffer` | `audio_ring_buffer_base` | instance of `RingBuffer` with frames converted to samples |
| `AlsaContext` | threads, states, places and wake-ups of `cubeb_alsa.c` | one action per critical section or per stretch between two |
| `AlsaFrames` | `alsa_process_stream`: the buffers of a stream or of a duplex pair | one action per kind of stream, device and callback being any |
| `FrameNumbers` | what `AlsaFrames` and `ResamplerFront` say of sequences of numbered frames | operators |
| `PulseBackend`, `JackBackend`, `AAudioBackend`, `OpenSLBackend`, `OssBackend`, `WasapiBackend`, `WinmmBackend`, `AudioUnitBackend`, `SndioBackend`, `SunBackend` | the backend of that name: its user, its threads or callbacks, the system's events | the same; a failed assertion or a use of what is gone is a fault after which nothing happens |
| `Cubeb` | `cubeb_init` and the calls through the table | the ten backends above composed; the library's promises |
| `StreamSetup` | `*_stream_init` and `*_stream_destroy` of thirteen backends | a sequence of stages, each of which may fail |
| `SpeexBasic`, `SpeexResampler` | the bookkeeping of one channel of `resample.c` | one action per call or per chunk of one |
| `ResamplerFront` | `cubeb_resampler.cpp`, `cubeb_resampler_internal.h` | one action per kind of `fill` |
| `Components`, `MCComponents` | the parts that one thread at a time works on; values for TLC | composition, see below |
| `*Proofs` | theorems about the module of the same name; `BackendProofs` about eight backends, `CubebProofs` about the other two and `Cubeb`; `ResamplerProofs` about `SpeexResampler` and `ResamplerFront`, `ComponentsProofs` about `ListView`, `DynamicBitset`, `AlsaFrames`, `AudioRingBuffer`, `StreamSetup` and `Components` | section 5 |

`PROJECT.json` maps every definition to the lines it stands for.
Definitions named `Mut...` are variants of the definition below them with a plausible
bug (a dropped reset, an off-by-one, a store too early); no specification uses them.
Each property of a run fails when one of them takes the place of the original.

**Composition.** A context has one backend, and the backends do not share state, so
`Cubeb` gives them the same variables: `stm`, `app`, `thread`, `fault` and `v1` to `v6`,
which each instance renames to its own (`INSTANCE PulseBackend WITH ctx <- v1, ...`); those it
does not have keep the value "none". `backend` says whose they are and never changes
after `cubeb_init`. This keeps a state as small as that of one backend, and lets the promises
of `cubeb.h` be stated once for all of them (`StopQuiesces`, `FreedIsGone`,
`ShortIsLast`...), each as the conjunction of what the backends keep of it. Exceptions are part of
the statement, and named there. `Components` does the same for the parts that have no thread;
list, bitset and serializer bring their own variables, so that the theorems about
them are about the very properties that run checks.

**Session.** `pc` names the next statement or system call. Signals and keys act between
any two steps. Signal handlers run as one action, since they run on top of the main
thread. `tty` survives the process. A key carries the terminal mode it was typed in (a
history variable), so that "typed ahead" can be stated. `getch` at end of file returns
an uninitialised variable: any byte, a nondeterministic choice. `signal()` installs
with `SA_RESTART`: `read` restarts, `select` never does.

**ListView.** The cursor is an integer that goes `Overshoot` beyond the ends
between two draws; `ChangeList` lets the caller change the list at any time.
`size()-1` of an empty list is the largest `size_t`, which is what `Clamped` does.

**DynamicBitset.** A byte is the set of its offsets that are on, so shifts and masks are
unions and differences. `stray` holds the bytes beyond the vector that the last operation stored to: the
constructor of 8 to 56 bits stores eight (`dynamic_bitset.h:90`). `BitsetSpec` is a size, a set of
positions, and `stale`, the bits still on in the rest of the last byte; `Resize` keeps the bits, adds bits that
are off, and brings back the stale ones.

**Serializer.** Memory is a sequence of cells: one per plain field, length, check and character. Every
schema field has the versions it was added and removed in; a removed field is a `remove()`
statement in programs that dropped it. After the reader is done it may forward the
message to a program of another version.

**RingBuffer.** An element is its number in the producer's stream, so the slots show
loss, repetition and reordering. `oldReads` and `oldWrites` hold the values of an index that the
other thread may still load: a relaxed atomic load is coherent but not current. `RelaxedStore` says
whether the build and the processor let the relaxed store of `read_index_` pass the
loads of the copy before it; the code permits that (`memory_order_relaxed`, line 174).

**AlsaContext.** Every action is what one thread does while it holds
`context->mutex`, or between two such sections: `Prepare` (rebuild and timeout),
`PollEvents`/`PollTimeout`, `HandleEvents`/`HandleTimeout` (with the scan for the next
stream), the outcomes of `alsa_process_stream` around the data callback, `Store`. On the
application's side each stream has a thread that opens (count, then slot), starts, stops
(call, wait, done), and destroys (close, give the slot back, lower the count). `SetStates`
is `alsa_set_stream_state`: state, broadcast, `rebuild`, one byte in the pipe. The pipe holds
`PipeSize` bytes, and a write to the full pipe is lost, as in the code. Frames
are abstracted to the outcome of the callback: all, too few, error.

**AlsaFrames** has those frames. A frame is its number in the order it was recorded, or made by
the callback; 0 is silence, -1 the bytes of several frames. Each processing of a stream is one
action: the thread does nothing else meanwhile, and the user's calls do not touch the buffers. The device
offers any number of frames, takes or gives any part of them, or fails; the callback takes any part or fails. A
duplex pair is two streams that both fill and empty the other's buffer. `Placed` is the
arithmetic of line 355, which adds frames to a pointer to bytes.

**The other backends** follow the same pattern. What is particular to each:

- *Pulse*: the main loop's lock is free when no callback runs; `deferred` counts the
  events queued for the loop; `ContextFails` is the loss of the server, `StreamFails` that of one of the
  two streams by itself, and `good` and `bad` are those that work and those that failed; registering a
  device callback is two actions, because it writes the callbacks without the lock.
- *JACK*: the process thread has an action for each flag it reads (`ports_ready`,
  the buffers, `pause`, the try of the mutex), because none is protected; destroy
  takes away the ports (`Unregister`) and the resampler in steps of their own.
- *AAudio*: one action per atomic access of the state, three threads besides the user:
  AAudio's callback, the state thread (`looker`) and the notifier (`helper`).
- *OpenSL*: each callback is a critical section, then what it does after releasing the lock. A start whose
  recorder is refused leaves the player on ("refused").
- *OSS*: the doorbell and `stopped_cv` with the loop between them; `FramesFit` for the
  conversions between the device's and the buffer's frames.
- *WASAPI*: `WaitForMultipleObjects` by priority of the events; five seconds that may pass
  at any time; `bailout` hands the stream to its thread. A set-up that fails leaves a stream without
  clients (`ready`) that may be started all the same, and each side looks for its own device.
- *WinMM*: buffers are alike, so they are counted: free, queued, done, in work, lost. `device.valid` falls
  when the device goes away; destroy waits for the buffers of a valid device only.
- *AudioUnit*: the serial queue is a sequence of tasks; the mutex, the notice of a change and
  the flags are separate steps. `Listens` installs a listener at the end of a set-up, also when
  destroy has removed them meanwhile (`relisten`).
- *sndio, Sun*: the loop block by block, with what was played, recorded and asked for.

**StreamSetup.** A backend is a sequence of stages, each with what it takes and what its
failure leads to (`undo` the error path, `refuse` an early return, `quiet` an error path
that returns success, `crash` and `ignored` when nobody looks), and what destroy releases of what is held. For ALSA
those are the calls of `alsa_stream_destroy` one by one, also of a pair of which one side was never made (`AlsaFreed`).
`WaitForEver` is where WinMM's error path, or its destroy, waits for buffers that nobody queued. A stage of the side the
stream does not have is passed by. Whether stages and releases fit together is what is checked.

**SpeexResampler.** One channel's memory is described by where its history, magic samples and
chunk lie. `process` works in chunks as the code does. A setter may fail for want of memory, which
leaves the fall-back resampler. Words are bounded by `MaxWord`, where the code looks for overflow.

**ResamplerFront.** Frames that pass unchanged are numbers and 0 is silence; of resampled ones
only counts are known; ratios are exact fractions where the code has floats.

## 3. Runs

Runs that pass:

| run | question | bounds |
|---|---|---|
| `session` | does every interleaving of keys, signals, stops and end of file keep the terminal recoverable and the loop responsive? | 2 keys out of 3 (both quit keys and one other), 3 signals or stops |
| `ring` | are indices, slots, order and answers right, and is it a FIFO? | 4 slots (3 elements), transfers of 1, 2 and 4, 7 elements |
| `alsa` | is the protocol of the context safe? | 3 streams (one records) for 2 places, a pipe of 2 bytes |
| `alsa_liveness` | do stop, destroy, service and drains come to their end? | 2 streams, one recording |
| `backends` | do the ten other backends keep the promises of `cubeb.h`? | one stream of each kind (JACK: two users, two slots, three openings); two starts; two connections of Pulse; three buffers or a few frames |
| `backends_live` | do the calls that wait return, are changes and drains noticed? | the eight backends with fairness of their own, output streams |
| `components` | are the parts without threads right, and the audio ring? | see below |

Runs that find a violation of something the repository says (section 6):
`session_interrupt_select`, `ring_relaxed`, `alsa_drain`, `serializer_string`, `backends_error`.

Bounds of `components`: the real window of 5 rows with lists up to 12 and 3 steps beyond an end;
bitsets of 0, 3, 8, 9 and 11 bits with three initial values; 3 versions, every schema of three fields out of
eight and two hops; 2 channels, 2 frames and transfers of 1 to 3 in the audio ring; filters of base length
4 and 8 at four ratios with calls of up to 5 frames; an ALSA buffer of 3 frames of 2 bytes, with 4 frames
recorded and made, on streams that play, record, and do both; six kinds of front end with up to 6 recorded frames;
thirteen backends, three kinds of stream, every stage failing.

Why the bounds are enough:

- `session`: the steps before and in the loop are few; two keys give "typed ahead, then a
  quit key", three signals give one during the set-up, one in `select` and one more. Runs end, so deadlock is not checked.
- `ring`: 4 is the least capacity in which a transfer of 2 can wrap in the middle, a
  transfer of 4 is cut short, and a full and an empty buffer have elements around them;
  7 elements wrap almost twice. The proofs have no bound.
- `alsa`: three streams for two places make opening fail and slots be reused; a pipe
  of two bytes fills up at once, where the real one (64 KiB) needs weeks, which
  makes the lost wake-up the normal case. Two streams suffice for liveness, as
  the properties speak of one stream and what another may keep from it. The
  application may stop calling, so deadlock is not checked, in these and in the runs of `Cubeb`.
- `backends`: all but JACK keep nothing that streams share except what was modelled with
  them (AAudio's threads serve all streams, and take them one at a time). Two starts suffice
  for a leftover of the first to meet the second; two connections for a context that was
  lost and made again. Two slots and three openings let a slot be reused
  while the process thread still looks at it. AAudio's state thread starts before its notifier, as in the code;
  only the liveness run has `NotifierFirst = TRUE`, as in the order of the code a change may go unseen (section 6).
- lists: 12 is more than twice the window, so beginning, middle and end are apart;
  3 steps are more than half a window past the end.
- bitset: the sizes straddle the byte boundary (8, 9), the constructor's mask (3) and
  the growth within a byte (9, 11) and beyond it.
- serializer: three versions are the least in which a field can be added, carried and
  dropped by different programs; two hops show what a forwarded message picks up.
- speex: of the ratios 1/2, 2/3, 3/2 and 2, two raise and two lower the rate; two base
  lengths make every change grow, shrink and keep the filter, with history and magic samples of every length
  the calls can leave.
- ALSA buffers: 3 frames are room for one that is left over, one that is new and one that is
  missing; two bytes make a frame that can be torn.
- front end: 6 recorded frames are more than what is kept (`Keep`), so old input is dropped.
- set-up is finite as it is: nothing is bounded.

Histories (`quitFrom`, `cause`, `asked`, `short`, `end`, element numbers) only record; no guard
of a program step reads them, except the bounds `MaxKeys`, `MaxSignals`, `MaxElements`, `MaxHops`,
`MaxStarts`, `MaxConnects`, `MaxOpens`, `MaxFrames`, `MaxPcm`, `MaxRecorded`.

## 4. Fairness

- `Session`: weak fairness of the main thread (`WF(Main)`): the kernel schedules a
  process that can run. The user and the signals owe nothing. Hence the goals "or
  stopped": a process suspended with ^Z may stay so.
- `AlsaContext`: weak fairness of `alsa_run` and of every step of the application
  that completes a call already made (open, register, wait, unregister, free,
  join); nobody needs to *make* a call. Strong fairness of `StopDone` only: it
  needs the mutex in a state in which the stream is not processed, and `alsa_run` gives the
  mutex back and takes it again in every round, so a thread that waits for it is not
  overtaken for ever. A pthread mutex on Linux does not promise this in theory; it holds as long as `alsa_run`
  blocks in `poll` or in the callback now and then. User callbacks
  return. Time passes (`WF(DrainOver)`).
- `Cubeb`: the same principles for each backend, stated as `Fairness` in its module and
  gathered in `Cubeb!Fairness`: threads of the backend run and callbacks return (weak), a call
  begun goes on (weak), a lock that is had again and again by others is had in the end by who
  waits for it (strong), as is PulseAudio's server and AAudio's device. As the backend never changes, one condition
  serves steps of several of them, where each backend has one such step at a time. Devices and servers
  need not fail, users need not call. JACK and WASAPI have no call whose return depends on a
  thread that has to run: JACK's stop does not wait, and WASAPI's gives up after five seconds.
- The other modules state safety only.

## 5. Proofs

All are checked by TLAPS with SMT, Zenon and PTL; nothing is assumed but the named
`ASSUME`s of the modules (constants are naturals, sets are finite, capacities
positive).

| theorems | inductive invariant, and why it is needed |
|---|---|
| `SessionProofs`: TypeCorrect, RawRecoverable, ExitRestores, RawOnlyIfKilled, LoopSurvives, TypeaheadDiscarded | ties each position of the program counter to what was done before it: settings saved and cleanup registered before raw, handlers before the first menu, input flushed once the terminal is raw. Who is killed with it raw either had nothing drawn yet or got a signal without a handler |
| `ComponentsProofs`: ListTypeCorrect, DrawsRight, ScrollIsSmooth | `ScreenInv`: what is on the screen is the window computed from the cursor and size *of that draw*; the properties are then arithmetic on `WindowStart`, for every window height |
| `RingBufferProofs`: TypeCorrect, CountsAlwaysHold for any build; FifoOrderKept, SlotsNotShared, FifoImplemented for builds that keep the store after the copies | `IndexInv`: every value of an index that a thread may still load is its count modulo the capacity, counts are ordered, at most capacity-1 apart, and transfers fit. `DataIInv`: slots between the indices hold the numbers of their elements, as do those already copied in. |
| `ComponentsProofs`: StorageAlwaysCovers, BitsetImplemented | the storage invariant, with the one store outside that it names, is inductive; the refinement needs it so that every tested position, and every one left over, has a byte |
| `ResamplerProofs`: SpeexIsRight, KeepsItsPlace; ResamplesRight | `SpeexResampler!IInv` and `ResamplerFront!IInv`, see below |
| `ComponentsProofs`: BitsetPartImplemented, SerializerPartInStep | a part that is not looked at rests; then the part's own theorem or inductive step |
| `SerializerProofs`: ReaderInStep, MessageAlwaysArrives | `IInv`: between two ends recorded by the writer lies exactly what that statement encodes, which the reader consumes; `ContentInv`: what that is, see below |
| `ComponentsProofs`: PcmAlwaysRight, FramesAlwaysInPlace | the numbers of the frames in each buffer, and the units of the ring, see below |
| `ComponentsProofs`: SetupRolledBack, SetupTellsTruth | what is held at a stage, told from the table of stages, see below |
| `ComponentsProofs`: TypeCorrectness | the invariants of the parts, one beside the other |
| `AlsaContextProofs`: TypeCorrect, StoppedIsQuiet, WakeUpsArrive, ShortIsLast; PlacesAlwaysAgree | see below; for the places `OneSlotEach` on top of it: no stream has two slots and each registered one has its own. A counted stream finds a free slot because there are fewer other streams than slots (pigeonhole) |
| `CubebProofs`: Invariance; TypeCorrect, StopIsFinal, FaultsStayKnown, NothingUsesTheFreed, ShortStaysLast, FramesStayInStep, RecordsStayTrue, NothingComesAfter | `Inv`: the backend that was chosen is one of the build and satisfies the `IInv` of its module, see below |

Refinement, proved for all constants: `RingBuffer` implements `BoundedFifo` (`FifoImplemented`), with the put at
the store of `write_index_` and the take at the store of `read_index_`. By `DataIInv` the
contents are the numbers from the read count on; a put appends to such a sequence and a take
cuts its head, and every other step is a stutter. `DynamicBitset` implements `BitsetSpec`
(`BitsetImplemented`), with the bits below the size as its set and those beyond it, in the last byte, as the stale ones: this
fixes what every resize shows.

The invariant of `AlsaContext` has a conjunct per idea:
`Counted` (the count covers all threads beyond `none`, which bounds it),
`OneProcessed` (PROCESSING only for the stream in hand), `QuietIsInactive`
(a stream without a place or stopped is INACTIVE), `NotListed` (and not
registered before it has a slot), `WaiterIsWoken`, `FdsCurrent` (without a pending
`rebuild`, the descriptors are those of the running streams), `WakeLeft` and `ByteLeft` (while a
rebuild is pending outside `prepare`, or a change was made, the pipe is not empty when `poll`
is reached), `ShutdownSeen` (a shutdown not yet read has left its byte) and `ShortRests` (a playing stream
that returned too little is not RUNNING, nor will it be stored as such).
`PollIsCurrent` alone is not inductive: it speaks of `poll` only, while the
byte it relies on is written, and `rebuild` set, while `alsa_run` is elsewhere.

The library. `Cubeb` is a sum of ten systems: one was chosen by `cubeb_init`, never changes, and
each step is one of its own. So its invariant is a conjunction of implications, and the work
is in the lemmas about each backend `X`, all of the same form: `XInit` (the stream starts in
`IInv`), `XStep` (every action of its `Next` keeps it), `XStutter`, and `XSafe` (`IInv` implies what
`Cubeb` states of the backend). `BackendProofs` has those of eight backends, `CubebProofs` those of
AudioUnit and AAudio and the theorems. They are about the very properties the run `backends`
checks, for any set of compiled backends, sort of stream, number of users, slots and openings (JACK), of
buffers (OpenSL, WinMM), of blocks and frames (OSS, sndio, Sun), of starts, reconnections and devices (Pulse),
and any time-out (WASAPI).

What a backend promises is seldom inductive: it speaks of the moment after stop or destroy has returned, and what
makes it true then was done at several places before. What each `IInv` adds:

- *Sun, sndio*: where the thread is while its user is at each place; what was moved and what is left of a block
  add up to the block (`BlockAdds`, `CountsAdd`). With those the frames agree by arithmetic.
- *OSS*: `ThreadFitsApp` and `LoopIsStarted`: the doorbell rings, and the loop turns, only for a stream
  that was started; so a stop that has seen the bell answered has seen the last callback. `FramesCounted`: what is
  asked for is the least of what was counted for each direction.
- *WinMM*: `BuffersAdd` (free, queued, done, taken, lost and unprepared buffers are all of them) is inductive and part of
  the promise; so destroy of a valid device, which waits until all are free, leaves nothing behind but the last turn's end. `LastHasAll`:
  DRAINED comes when all are back, and there they stay. `HaltedIsPaused`: after stop no buffer gets done any more, so
  the callbacks that are late are only those of buffers that were. `EndsApart`: nothing moves before the stream is open.
- *OpenSL*: `InputInOrder`: on the way round the buffers, those queued are the ones before the buffer that is
  filled, in order, and the player reads the one before them. That no two are the same is then arithmetic modulo their number, which
  is what `BuffersApart` says. `RunsWhenStarted`: after an error was told the player has left its callback for good.
- *WASAPI*: `ThreadFitsApp` (a stream that stop or destroy gave up on belongs to its thread), `SilentAfterLoop`
  (a thread behind its loop has stopped the clients) and `LoopFits` (who asks for frames does not drain, unless an assertion has failed; a
  stream that is set up has its clients).
- *JACK*: `SlotFits` ties each user's place to the flags of the slot it took, which it set without a lock; `LateFits`: after
  a late callback the process thread is past the flag it reads; `CallHasMutex`. `FaultsAreKnown` is inductive with those: what the
  process thread finds gone, it looked for before destroy began.
- *Pulse*: `StreamFits`, `FlagsFit`, `ContextFits` and `DeferredCounted`, which bounds the deferred events by the starts. An output
  is working or has failed as long as the stream is there, so each failed assertion has the failure behind it.
- *AudioUnit*: `MutexFits`; `FlagsFit`: after `shutdown` nothing of the stream runs but a stop that waits;
  `QueueFits`: the task that closes the stream is queued once, behind it no task finds the stream, and one that
  sets up is pending; `UnitsFit`; `RelistenFits`: without a late listener a stream that is being destroyed has none.
- *AAudio*: the mutex has one owner; while the user has it only AAudio's callbacks may have changed the state it
  loaded, so a compare-and-swap that succeeds or fails is right either way; the streams at the device are what the state
  says, also when only some of a duplex pair have got there, and what the state thread has seen of them is still
  true when it stores.

The resamplers. `SpeexResampler!IInv` adds to `MemoryFits` and `FractionInTable` that the filter is even and not empty
(`FilterFits`), without which a change that halves the difference loses a sample, and that a call does not go on with
a fall-back resampler (`CallHasRatio`).

`ResamplerFront!IInv` is about units. A call asks the callback for `Needed` frames, counted before resampling, to get
a number of frames after it, and what is left over is counted in the first and used up in the second. What waits
at the output is always less than what a further frame takes, and the position in it lies before its end (`OutKept`): by
the lemma about the loop (`FrontProcess`, which says where the position is after a call, whether it ended for want of
input or for want of room) `PlaysAll` concludes that the answer of the callback is just enough, and leaves again less than
a frame takes. `InKept` and `TakesAll` say the same of an input that is resampled alone. For the frames with numbers,
`Numbers` says that those in the buffer are the ones after what was given and dropped, in order; `Popped` counts what a cut of
it takes. `InputInOrder` was stated with `SelectSeq` and is now stated without recursion: which numbers wait, and that none
overtakes another.

`ResamplesRight` has two hypotheses. `~Starved`: the backend gives a delay line what it has to pass on (otherwise section 6).
`KeepsEnough`: what is kept, `min_buffered_audio_frame`, is no less than the filter's latency and than the
frames of one step. The code does not compare them. It keeps a twentieth of a second (`cubeb_resampler.cpp:41`), and half a
filter of the qualities it uses is at most 40 frames of the lower rate, 40 ms at the least rate that is accepted
(`cubeb.c:97`); one step, the ratio of the rates, is more than a twentieth of a second only when a very low rate is raised
(1000 Hz to more than 50000 Hz), and there the theorem says nothing. The run satisfies both.

The message. `ReaderInStep` needs of the wire only how wide its pieces are. `MessageAlwaysArrives` needs what they hold:
`Written`, that the piece of each statement is the encoding of what the writer stands for there (`Value`: its own, or the default for a field
it has dropped), and that a field without a piece is at its default; `Read`, that what the reader has so far is that value;
and `Checked`, about the numbers of the checks. Those count statements, and a count is defined by recursion, which the provers
cannot follow. So `Numbering` relates a number to the statements before it without counting: it is one more than that in the last check
before, or 0 if there is none. There is one last check, so writer and reader, who both keep to it, keep to the same number.

The frames of ALSA. The buffer of a stream that plays holds the numbers from what was heard to what was made, each once and rising, with
silence among them (`PlayerFits`). The buffer of one that records holds rising numbers of frames read and not yet given, and every callback
so far was given the ones that follow, unless an earlier read found frames left over in the buffer and wrote on behind them without
counting them, the arithmetic of line 355: that is what `left` remembers, and `PcmIsRight` promises order and whole frames only without it (`RecorderFits`).
A stream that only records leaves
nothing in the buffer while its callback takes all it is offered (`NothingStays`), so there it takes a short callback to tear a frame.
In a duplex pair the callback is offered no more than the room of the other buffer, which is why that never runs over.
`PcmIsRight` used to be stated with a recursive selection of the frames that have numbers; `FrameNumbers` says the same with sets.

Whole frames. `RingBufferProofs` has a section about units: if the storage is one more than a multiple of the unit and all that is
asked for are multiples, then so is everything that is answered, moved or promised, and a call never stops within a unit (`UnitsInv`,
`UnitsStep`), although the indices wrap around at a number that is no multiple. That uses the counts behind the indices, of which the
difference is what an answer is made of. `FramesAlwaysInPlace` takes the channels for the unit; that the slots hold what they should is
`DataIInv`, so it has the hypothesis of that: the relaxed store stays after the copies (section 6).

Setting up. While init goes on, what is held is what the stages behind took (`May`), all of it but what a stage may fail to take and
go on (`Sure`); after success the same but for AAudio's builder, and what a stream of this kind needs is there (`Wanted`) but for what it can do without
(`Spared`) (`SetupInv`). What the error path and destroy
give back depends on what is held, so it remains to say of each backend's table what follows from that: which things some stage takes at all
(`StagesTake`), which are taken before anything can be undone (`Begins`), which of two is always taken first (`Follows`: OpenSL frees its
input buffers through the queue), and that nothing is taken before a stage that refuses (`Opens`). The tables of OpenSL, WASAPI, AudioUnit
and ALSA are put together from those of their parts, with lemmas for two tables one behind the other. What ALSA's destroy releases
depends on how far each side had come; `SidesHeld` says what a side that has, or does not have, its stream holds. `EveryGivesBack` then compares sets,
backend by backend. `RolledBack` and `ResultIsTrue` hold at the end only, of whatever backends are compiled in and for every kind of stream.
The model used to filter the stages of the sides the stream has into a plan, with `SelectSeq`, which is recursive; now a stage of the
other side is passed by, which is what the `if` around it does.

The types. `TypeCorrectness` has the two hypotheses of `ResamplesRight`, for the counts of the front end. The audio ring's types need
only `IndexInv`, so they hold for both values of `RelaxedStore`.

The library's proofs changed two things in the models. `Chosen` was found with `SelectSeq`, which is defined by recursion, and is now
the set of the first backend that works. And in `AudioUnitBackend!Dequeue` two cases overlapped, that of a task that
sets up a stream which is being destroyed: TLC takes the first, but TLA+ leaves open which, and only the proof
noticed; their guards are now apart.

Every safety invariant and action property of a run that passes is the statement of a theorem, some with the
hypotheses named above. Only model-checked:

- liveness (`RequestsEndSession`, `CallsReturn`, `EventsAreServed`, `DrainEndsWhenQuiet`,
  `ChangeIsSeen`): the prover has no reasoning about fairness and ENABLED.

## 6. What the models showed about the code

With a run that shows it:

1. **An interrupt can leave the program blocked** (`session_interrupt_select`,
   `main.cpp:59`). A signal during `select` makes `kbhit()` return -1; the loop
   takes that for a key and blocks in `read`, which restarts. The comment
   (`main.cpp:47`) promises a clean exit; it comes with the next key.
   What does hold is `RequestsEndSession`.
2. **The read index is published with a relaxed store** (`ring_relaxed`,
   `cubeb_ringbuffer.h:174`). Where stores may pass earlier loads, the producer
   overwrites slots that are still being copied. The comment (lines 40-43) says the opposite.
   Indices, counts and answers stay right even then (proved).
3. **A drain may never end** (`alsa_drain`, `cubeb_alsa.c:555`): drains are looked at only when `poll` times
   out, which a second stream with regular events prevents. `DrainEndsWhenQuiet` holds.
4. **A `std::string` grows by one character per hop** (`serializer_string`,
   `serialization.h:76`).
5. **JACK calls a stream back after an error** (`backends_error`, `cubeb_jack.cpp:573`), against
   `cubeb.h:421-422`.

Under "What does not hold", or beside the properties, the modules state further formulas
that their specification violates; no run checks them, as no document of the
repository promises them word for word:

- *Pulse*: after a reconnection the subscription is not renewed (`SubscriptionCovers`). The program ends (`FaultsAreKnown` names when) if the
  output failed, alone or with the server, before the first callback, which is deferred, or before a duplex callback; if the
  deferred event is still queued when a stream whose output failed is destroyed, as nobody waits for it; if a
  stream is started while its drain timer is pending and drains again (the assertion that there is none, `cubeb_pulse.c:323`);
  if a device comes or goes while its callback is being unregistered; and after a reconnection that failed. A timer
  that outlives a new start tells DRAINED of the drain before.
- *ALSA*: recorded frames that the callback left are partly overwritten by the next read
  (`InputIsWhole`): `stm->buffer + stm->bufframes` adds frames to a pointer to bytes
  (`cubeb_alsa.c:355`), and the callback is given torn frames, against `cubeb.h:410`. The same is done with what a duplex stream is to
  play, while the other stream calls back (`OutputIsWhole`, lines 373-374). `RecordedInOrder` says until when recorded
  frames are whole: until a read finds frames that were left, which on a stream that only records takes a callback that took too few.
- *JACK*: the process thread may use ports or a resampler that destroy has taken away
  (`NothingHurt`), if it had read `ports_ready` before destroy began (`FaultsAreKnown`), and stop allows one late call (`AtMostOneLate` is what holds).
- *AAudio*: an error may go untold (`ErrorIsTold`); with the notifier started
  after the state thread, as the code does (`cubeb_aaudio.cpp:1496-1502`), a change may go unseen (`NotifierFirst = FALSE`).
- *OpenSL*: stop does not wait for a callback that has begun; when the recorder is refused, start fails and the player goes on
  (`StopQuiesces` names both). Once a recorded buffer was kept from the full queue the recorder may overwrite
  one that waits (`BuffersApart`).
- *OSS*: stop may wait for a signal that came before (`EveryStopReturns`): the thread signals `stopped_cv` and goes to wait for the
  doorbell, which a start rings and a stop takes back. `StopReturns` leaves that place out. Destroying a stream that was never started
  joins a thread that was not created (`FaultsAreKnown`).
- *WASAPI*: called back after an error (`NoCallbackAfterError`); a thread that ends without a
  word (`EndIsTold`); one side of a duplex stream not running (`BothSidesRun`); a recording stream that is started again after a
  short callback, and a stream that is started, or whose thread goes on, after a set-up that failed, run into an assertion or use what is not there (`FaultsAreKnown`).
- *WinMM*: destroy looks at the count of free buffers before the last one's event is set, so the thread
  may still tell DRAINED and set the event of a freed stream; of a device that is gone it waits for nothing
  (`cubeb_winmm.c:580-588`), and buffers, thread and callback may all use what was freed (`FreedIsGone`). It waits for ever for buffers that were
  never queued or could not be written (`DestroyEnds`). Stop only pauses: callbacks may begin after it, as many as buffers
  were done (`LateAreFew`).
- *AudioUnit*: a change that was noticed and dropped blocks all later ones (`SwitchIsPending`); a
  listener installed by a set-up that overlaps destroy may queue a task that finds its stream deleted (`NoTaskAfterFree`);
  a started stream without units (`StartedHasUnits`).
- *sndio*: STARTED told by a thread that ends (`StartIsTold`); a recording stream behind itself (`LatencyIsNatural`).
- *Sun*: stop joins a thread that was not created (`NoFault`).
- *speex*: after a change of rate that failed the fraction may be beyond the table (`FractionAlways`).
- *front end*: `fill_internal_input` hides a callback's error in an integer division
  (`ErrorIsReturned`); silence put in for missing input stays in the queue (`SilenceOnce`,
  `cubeb_resampler.cpp:86`); a delay line with less than it gives is read beyond its end (`Starved = TRUE`).
- *set-up* (the exceptions in `RolledBack` and `ResultIsTrue`): macOS leaks the stream when
  init fails, OpenSL two arrays, and it crashes when the recorder cannot be created; OSS and Sun return CUBEB_OK when a mutex or
  condition cannot be made; OSS, Sun and WASAPI give back what they did not take; a failed duplex pair of ALSA hands out
  a destroyed stream (`cubeb_alsa.c:1133`). WinMM waits for ever, in init, when the device cannot be paused or a header not be
  prepared (`cubeb_winmm.c:530-534`: no buffer is free yet, and the error path waits for all), and in destroy when none was written
  (lines 220-224). A stream goes without WASAPI's notifications, or CoreAudio's listeners, when those are refused (`Spared`).
- *bitset*: a bitset that grows shows bits that were beyond its size (`GrownBitsAreOff`), as `resize` keeps the last
  byte (`dynamic_bitset.h:175`), unlike the `std::vector` behaviour line 160 refers to; `BitsetSpec` says which ones, and
  that there are no others. The constructor compares bits with bytes (line 80) and for 8 to 56 bits stores eight bytes
  into a shorter vector (`StoresFit`; `StorageCovers` has this one exception). What that overwrites is undefined; the model lets the
  bitset go on, its own bytes being right, as they are when the vector's allocation has that much slack.

Seen while modelling, outside any property:

- A SIGINT or SIGTERM between the switch to raw mode and the installation of the handlers kills
  the process with the terminal raw (`main.cpp:45-51`); so does SIGHUP at any time.
  `LeftRawOnlyByKill` names both, and says that a session ends raw in no other way.
- `linuxinput.h` leaves ISIG on, its flag being commented out of the mask (line 35), so ^Z suspends
  with the terminal raw, and it stays so until the process is continued and ends.
- Drawing an empty list does not clamp the cursor to it (`textio.h:99`, `size()-1` is unsigned),
  against the remark at line 87 that the draw checks it; `DrawnRight` holds nevertheless, as nothing is drawn.
- The test that refuses data newer than the program is commented out (`serialization.h:90`), and a
  `StringHolder` points into the buffer it was read from (line 67).
- When ALSA takes only part of what is written, the volume is applied a second time to the rest
  (`cubeb_alsa.c:454-462`), and a negative `snd_pcm_avail_update` counts as a full
  buffer, by the conversion to unsigned (line 341).
- A recording ALSA stream whose callback returns too few frames goes on
  (`cubeb_alsa.c:493`), while `cubeb.h` says it is stopped; the DRAINED and
  watchdog callbacks run with the mutex held (line 561); stop from the stream's own callback waits for itself (line 1330).
- The asynchronous log has as many producers as there are threads that log, on a queue that
  allows one (`cubeb_log.cpp:67`). `array_queue_get_size` says 0 of a full queue (`cubeb_array_queue.h:86`).

## 7. Not modelled

Components:

- **KAI and AudioTrack backends** (`cubeb_kai.c`, `cubeb_audiotrack.c`): only their set-up, in `StreamSetup`. Their
  thread or callback belongs to the system, and stop and destroy are calls to it.
- **Asynchronous log** (`cubeb_log.cpp`): a loop that empties a `RingBuffer` and prints; its only state of its own
  is a flag set once. That it has more producers than the queue allows depends on which
  threads of all backends log, so no run covers it.
- **Queues of buffers** (`cubeb_array_queue.h`, `cubeb_ring_array.h`): the first is one critical section per call;
  `OpenSLBackend` has it as a sequence of bounded length. The second is used by a test only.
- **Interned strings** (`cubeb_strings.c`): a growing array under its caller's lock; `PulseBackend` has it as a set of ids.
- **Channel mixer** (`cubeb_mixer.cpp`) and **float helpers** (`floatutils.h`): products of floats, which TLA+ does not have.
  `tinymath.h` is switched off by `#if 0`.
- **cubeb utilities**: copies of arrays and a wrapper of the mutex.
- **Error and scope helpers** (`valorerr.h`, `defer.h`): no caller in the repository.
- **Debug and macro headers**, `phantomtype.h`, `rang.hpp`: printing and types without behaviour.
- **Tests, tools and build files**: read for what they say, not part of the program.

Within modelled components:

- *Session and list*: positions and colours on the screen. (`drawMenu(10,10)` passes them in the order
  the function does not expect, `main.cpp:16`.)
- *Bitset*: conversions to strings and integers.
- *Serializer*: the generated code that only counts sizes; data newer than the program, which the code
  does not refuse.
- *All backends*: volume, stream position and latency queries, enumeration of devices (but Pulse's, whose
  records it shares with registration), and the formats of samples.
- *ALSA*: the work-around for PulseAudio's plug-in, and the configuration tree it edits.
- *Speex*: the samples themselves, and the loop of the integer interface, which calls the same steps with buffers of its own.
- *Resampler front end*: what the samples of a resampled frame are.

## 8. What is left

- The log with several producers, to see what a queue for one does with them.
- Stream positions and latencies, which several backends compute from counters of two threads.
- `AlsaFrames` and `AlsaContext` in one specification, in which a stream is stopped between the two halves of a duplex pair.
