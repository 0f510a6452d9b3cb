-------------------------- MODULE AlsaContextProofs --------------------------
(***************************************************************************)
(* For any number of streams, of places and of bytes in the pipe: alsa_run *)
(* and the application's threads keep out of each other's way.             *)
(*                                                                         *)
(* None of the properties is inductive.  That a stopped stream is left     *)
(* alone needs to know which stream is being processed, and that only a    *)
(* registered one can run; that poll is current needs to know that whoever *)
(* asks for a rebuild while alsa_run is in poll leaves a byte in the pipe. *)
(***************************************************************************)
EXTENDS AlsaContext, FiniteSetTheorems, TLAPS

Quiet   == {"none", "opening", "stopped", "closed", "unregistered"}
Unlisted == {"none", "opening", "unregistered"}
Present == {s \in Streams : app[s] # "none"}

\* Places are counted from Open to Free.
Counted == active_streams = Cardinality(Present)

\* The one stream that is PROCESSING is the one alsa_run works on.
OneProcessed ==
  \A s \in Streams : state[s] = "PROCESSING" <=> run \in Processing /\ cur = s

QuietIsInactive ==
  \A s \in Streams : app[s] \in Quiet => state[s] = "INACTIVE"

NotListed ==
  \A s \in Streams : app[s] \in Unlisted => \A i \in Slots : streams[i] # s

\* fds is current or will be rebuilt, and alsa_run is woken for it.
FdsCurrent == rebuild \/ fds = Running
WakeLeft   == run = "poll" /\ rebuild => pipe > 0
ByteLeft   == control => run = "events" /\ pipe > 0
ShutdownSeen == shutdown => run = "done" \/ pipe > 0

\* A stream that played too little neither runs nor is about to again.
ShortRests ==
  \A s \in Streams \ Recording : short[s] =>
    /\ state[s] # "RUNNING"
    /\ run \in {"process", "callback"} => cur # s
    /\ run = "store" /\ cur = s => result # "RUNNING"

IInv ==
  /\ TypeOK /\ Counted
  /\ OneProcessed /\ QuietIsInactive /\ NotListed /\ WaiterIsWoken
  /\ FdsCurrent /\ WakeLeft /\ ByteLeft /\ ShutdownSeen
  /\ ShortRests
----------------------------------------------------------------------------
AppStates == {"none", "opening", "stopped", "open", "stop", "stop wait", "closed",
              "unregistered"}

\* A write to the pipe keeps its bytes, and leaves one if there is something to say.
LEMMA WrittenFacts ==
  ASSUME NEW bytes \in 0..PipeSize, NEW n \in Nat
  PROVE  /\ Written(bytes, n) \in 0..PipeSize
         /\ n > 0 \/ bytes > 0 => Written(bytes, n) > 0
BY BoundsAssumption DEF Written

\* What SetStates leaves behind, whatever the states.
Changed(S, st, bytes) ==
  /\ state' = st
  /\ rebuild' \in BOOLEAN
  /\ rebuild \/ S # {} => rebuild'
  /\ S = {} => rebuild' = rebuild
  /\ pipe' \in 0..PipeSize
  /\ S # {} \/ bytes > 0 => pipe' > 0
  /\ app' \in [Streams -> AppStates]
  /\ \A s \in Streams : /\ app'[s] = app[s] \/ (app[s] = "stop wait" /\ app'[s] = "stop")
                        /\ s \in S => app'[s] # "stop wait"

LEMMA SetStatesFacts ==
  ASSUME TypeOK, NEW S \in SUBSET Streams, NEW st, NEW bytes \in 0..PipeSize,
         SetStates(S, st, bytes)
  PROVE Changed(S, st, bytes)
<1>1. IsFiniteSet(S)
  BY StreamsAssumption, FS_Subset
<1>2. Cardinality(S) \in Nat /\ (S # {} => Cardinality(S) > 0)
  BY <1>1, FS_CardinalityType, FS_EmptySet
<1>3. pipe' \in 0..PipeSize /\ (S # {} \/ bytes > 0 => pipe' > 0)
  BY <1>2, WrittenFacts DEF SetStates
<1>4. app = [s \in Streams |-> app[s]] /\ \A s \in Streams : app[s] \in AppStates
  BY DEF TypeOK, AppStates
<1>5. app' = [s \in Streams |-> IF s \in S /\ app[s] = "stop wait" THEN "stop" ELSE app[s]]
  BY DEF SetStates, Woken
<1>6. app' \in [Streams -> AppStates]
  BY <1>4, <1>5 DEF AppStates
<1>7. QED
  BY <1>3, <1>5, <1>6 DEF SetStates, TypeOK, Changed

LEMMA PresentFinite == IsFiniteSet(Present) /\ Cardinality(Present) \in Nat
BY StreamsAssumption, FS_Subset, FS_CardinalityType DEF Present

LEMMA InitHolds == Init => IInv
<1> SUFFICES ASSUME Init PROVE IInv
  OBVIOUS
<1>1. TypeOK
  <2>1. pipe \in 0..PipeSize /\ active_streams \in 0..CUBEB_STREAM_MAX
    BY BoundsAssumption DEF Init
  <2>2. cur \in IF run \in Processing THEN Streams ELSE {NoStream}
    BY DEF Init, Processing
  <2>3. QED
    BY <2>1, <2>2 DEF Init, TypeOK, States
<1>2. Counted
  <2>1. Present = {}
    BY DEF Init, Present
  <2>2. QED
    BY <2>1, FS_EmptySet DEF Init, Counted
<1>3. OneProcessed /\ QuietIsInactive /\ NotListed /\ WaiterIsWoken
  BY StreamsAssumption
     DEF Init, OneProcessed, QuietIsInactive, NotListed, WaiterIsWoken, Processing, Quiet, Unlisted
<1>4. FdsCurrent /\ WakeLeft /\ ByteLeft /\ ShutdownSeen /\ ShortRests
  BY DEF Init, FdsCurrent, WakeLeft, ByteLeft, ShutdownSeen, ShortRests
<1>5. QED
  BY <1>1, <1>2, <1>3, <1>4 DEF IInv
----------------------------------------------------------------------------
(* alsa_run. *)

\* A scan keeps the invariant if the states it starts from do, with nothing
\* PROCESSING in them and everyone who waits among those it will wake.
LEMMA ScanKeeps ==
  ASSUME IInv, NEW i, NEW S \in SUBSET Streams, NEW st \in [Streams -> States],
         NEW bytes \in 0..PipeSize,
         Scan(i, S, st, bytes), ScanUnchanged, drained' = drained,
         control' = FALSE, result' \in {"RUNNING", "DRAINING", "ERROR"},
         \A s \in Streams : st[s] # "PROCESSING",
         \A s \in Streams : s \notin S => st[s] = state[s] /\ app[s] # "stop wait",
         \A s \in Streams : app[s] \in Quiet => st[s] = "INACTIVE",
         \A s \in Streams \ Recording : short[s] => st[s] # "RUNNING",
         shutdown => bytes > 0
  PROVE  IInv'
<1> USE DEF IInv
<1>0. /\ streams' = streams /\ fds' = fds /\ shutdown' = shutdown
      /\ active_streams' = active_streams /\ ready' = ready /\ short' = short /\ owner' = owner
  BY DEF ScanUnchanged
<1>1. CASE run' = "prepare" /\ cur' = NoStream /\ revents' = {} /\ SetStates(S, st, bytes)
  <2>1. Changed(S, st, bytes)
    BY <1>1, SetStatesFacts
  <2>2. TypeOK'
    BY <1>0, <1>1, <2>1 DEF TypeOK, AppStates, Processing, Changed
  <2>3. Present' = Present
    BY <2>1 DEF Present, Changed
  <2>4. OneProcessed' /\ WaiterIsWoken'
    BY <1>1, <2>1, ZenonT(60) DEF OneProcessed, WaiterIsWoken, Processing, AppStates, Changed
  <2>5. QuietIsInactive' /\ NotListed'
    BY <1>0, <2>1 DEF QuietIsInactive, NotListed, Quiet, Unlisted, Changed
  <2>6. FdsCurrent'
    <3>1. CASE S # {}
      BY <2>1, <3>1 DEF FdsCurrent, TypeOK, Changed
    <3>2. CASE S = {}
      <4>1. st = state
        <5>1. \A s \in Streams : st[s] = state[s]
          BY <3>2
        <5>2. st = [s \in Streams |-> st[s]] /\ state = [s \in Streams |-> state[s]]
          BY DEF TypeOK
        <5>3. QED
          BY <5>1, <5>2
      <4>2. QED
        BY <1>0, <2>1, <3>2, <4>1 DEF FdsCurrent, Running, Registered, Changed
    <3>3. QED
      BY <3>1, <3>2
  <2>7. WakeLeft' /\ ByteLeft' /\ ShutdownSeen'
    BY <1>0, <1>1, <2>1 DEF WakeLeft, ByteLeft, ShutdownSeen, TypeOK, Changed
  <2>8. ShortRests'
    BY <1>0, <1>1, <2>1 DEF ShortRests, Changed
  <2>9. Counted'
    BY <1>0, <2>3 DEF Counted
  <2>10. QED
    BY <2>2, <2>4, <2>5, <2>6, <2>7, <2>8, <2>9
<1>2. ASSUME NEW t \in Streams, st[t] = "RUNNING", run' = "process", cur' = t,
             revents' = revents, SetStates(S \cup {t}, [st EXCEPT ![t] = "PROCESSING"], bytes)
      PROVE  IInv'
  <2> DEFINE new == [st EXCEPT ![t] = "PROCESSING"]
  <2>0. new \in [Streams -> States] /\ new[t] = "PROCESSING"
        /\ \A s \in Streams : s # t => new[s] = st[s]
    BY DEF States
  <2> HIDE DEF new
  <2>1. Changed(S \cup {t}, new, bytes)
    BY <1>2, SetStatesFacts DEF new
  <2>2. TypeOK'
    BY <1>0, <1>2, <2>0, <2>1 DEF TypeOK, AppStates, Processing, Changed
  <2>3. Present' = Present
    BY <2>1 DEF Present, Changed
  <2>4. OneProcessed' /\ WaiterIsWoken'
    <3>1. \A s \in Streams : new[s] = "PROCESSING" <=> s = t
      BY <2>0
    <3>2. \A s \in Streams : app'[s] # "stop wait"
      BY <2>1 DEF Changed
    <3>3. QED
      BY <1>2, <2>1, <3>1, <3>2 DEF OneProcessed, WaiterIsWoken, Processing, Changed
  <2>5. QuietIsInactive' /\ NotListed'
    <3>1. app[t] \notin Quiet
      BY <1>2
    <3>2. QED
      BY <1>0, <2>0, <2>1, <3>1 DEF QuietIsInactive, NotListed, Quiet, Unlisted, Changed
  <2>6. FdsCurrent' /\ WakeLeft' /\ ByteLeft' /\ ShutdownSeen'
    BY <1>0, <1>2, <2>1 DEF FdsCurrent, WakeLeft, ByteLeft, ShutdownSeen, Changed
  <2>7. ShortRests'
    BY <1>0, <1>2, <2>0, <2>1 DEF ShortRests, Changed
  <2>8. Counted'
    BY <1>0, <2>3 DEF Counted
  <2>9. QED
    BY <2>2, <2>4, <2>5, <2>6, <2>7, <2>8
<1>3. QED
  BY <1>1, <1>2 DEF Scan, TypeOK

\* fds takes the running streams in before poll, so nothing is left to rebuild.
LEMMA PrepareKeeps == IInv /\ Prepare => IInv'
<1> SUFFICES ASSUME IInv, Prepare PROVE IInv'
  OBVIOUS
<1> USE DEF IInv, Prepare
<1>1. Running \subseteq Streams /\ Running' = Running
  BY DEF Running, Registered, streamVars
<1>2. UNCHANGED <<streams, pipe, shutdown, active_streams, cur, revents, control, result,
                  state, ready, drained, short, app, owner>>
  BY DEF streamVars
<1>3. TypeOK'
  BY <1>1, <1>2 DEF TypeOK, Processing
<1>4. Counted'
  BY <1>2 DEF Counted, Present
<1>5. OneProcessed' /\ QuietIsInactive' /\ NotListed' /\ WaiterIsWoken'
  BY <1>2 DEF OneProcessed, QuietIsInactive, NotListed, WaiterIsWoken, Processing
<1>6. FdsCurrent'
  BY <1>1 DEF FdsCurrent
<1>7. WakeLeft' /\ ByteLeft' /\ ShutdownSeen'
  BY <1>2 DEF WakeLeft, ByteLeft, ShutdownSeen
<1>8. ShortRests'
  BY <1>2 DEF ShortRests
<1>9. QED
  BY <1>3, <1>4, <1>5, <1>6, <1>7, <1>8

\* poll returns, with the byte it saw still in the pipe.
LEMMA PollKeeps == IInv /\ (PollEvents \/ PollTimeout) => IInv'
<1> SUFFICES ASSUME IInv, PollEvents \/ PollTimeout PROVE IInv'
  OBVIOUS
<1> USE DEF IInv
<1>1. /\ run = "poll" /\ run' \in {"events", "timeout"}
      /\ revents' \subseteq Streams
      /\ control' \in BOOLEAN /\ (control' => run' = "events" /\ pipe > 0)
  <2>1. CASE PollEvents
    <3>1. run = "poll" /\ run' = "events" /\ revents' \subseteq Streams
      BY <2>1 DEF PollEvents, Events, TypeOK
    <3>2. control' \in BOOLEAN /\ (control' => pipe > 0)
      <4>1. control' = (pipe > 0)
        BY <2>1 DEF PollEvents
      <4>2. (pipe > 0) \in BOOLEAN
        OBVIOUS
      <4>3. QED
        BY <4>1, <4>2, Zenon
    <3>3. QED
      BY <3>1, <3>2
  <2>2. CASE PollTimeout
    <3>1. run = "poll" /\ run' = "timeout" /\ revents' = revents /\ control' = control
      BY <2>2 DEF PollTimeout
    <3>2. revents \subseteq Streams /\ control \in BOOLEAN /\ ~control
      BY <3>1 DEF TypeOK, ByteLeft
    <3>3. QED
      BY <3>1, <3>2
  <2>3. QED
    BY <2>1, <2>2
<1>2. UNCHANGED <<streams, rebuild, fds, pipe, shutdown, active_streams, cur, result,
                  state, ready, drained, short, app, owner>>
  BY DEF PollEvents, PollTimeout, contextVars, streamVars
<1>3. TypeOK'
  BY <1>1, <1>2 DEF TypeOK, Processing
<1>4. Counted'
  BY <1>2 DEF Counted, Present
<1>5. OneProcessed' /\ QuietIsInactive' /\ NotListed' /\ WaiterIsWoken'
  BY <1>1, <1>2 DEF OneProcessed, QuietIsInactive, NotListed, WaiterIsWoken, Processing
<1>6. FdsCurrent' /\ WakeLeft' /\ ByteLeft' /\ ShutdownSeen'
  BY <1>1, <1>2 DEF FdsCurrent, Running, Registered, WakeLeft, ByteLeft, ShutdownSeen
<1>7. ShortRests'
  BY <1>1, <1>2 DEF ShortRests
<1>8. QED
  BY <1>3, <1>4, <1>5, <1>6, <1>7

\* Nothing is PROCESSING before the scan; the byte that is read is not the one
\* that tells of a shutdown, or alsa_run ends.
LEMMA HandleEventsKeeps == IInv /\ HandleEvents => IInv'
<1> SUFFICES ASSUME IInv, HandleEvents PROVE IInv'
  OBVIOUS
<1> USE DEF IInv
<1> DEFINE bytes == IF control THEN pipe - 1 ELSE pipe
<1>1. /\ run = "events" /\ control' = FALSE /\ result' = result /\ drained' = drained
      /\ ScanUnchanged
  BY DEF HandleEvents
<1>2. bytes \in 0..PipeSize /\ (~control => bytes = pipe)
  <2>1. pipe \in 0..PipeSize /\ PipeSize \in Nat
    BY BoundsAssumption DEF TypeOK
  <2>2. CASE control
    <3>1. pipe > 0
      BY <2>2 DEF ByteLeft
    <3>2. pipe - 1 \in 0..PipeSize
      BY <2>1, <3>1
    <3>3. QED
      BY <2>2, <3>2
  <2>3. CASE ~control
    BY <2>1, <2>3
  <2>4. QED
    BY <2>2, <2>3
<1>3. /\ \A s \in Streams : state[s] # "PROCESSING" /\ app[s] # "stop wait"
      /\ state \in [Streams -> States] /\ result \in {"RUNNING", "DRAINING", "ERROR"}
  BY <1>1 DEF OneProcessed, WaiterIsWoken, Processing, TypeOK
<1>4. CASE ~(control /\ shutdown) /\ Scan(1, {}, state, bytes)
  <2>1. shutdown => bytes > 0
    BY <1>1, <1>2, <1>4 DEF ShutdownSeen
  <2>2. \A s \in Streams : app[s] \in Quiet => state[s] = "INACTIVE"
    BY DEF QuietIsInactive
  <2>3. \A s \in Streams \ Recording : short[s] => state[s] # "RUNNING"
    BY DEF ShortRests
  <2> HIDE DEF bytes
  <2>4. QED
    BY <1>1, <1>2, <1>3, <1>4, <2>1, <2>2, <2>3, ScanKeeps
<1>5. CASE /\ control /\ shutdown
           /\ run' = "done" /\ revents' = {} /\ pipe' = bytes
           /\ UNCHANGED <<rebuild, cur, state, app>>
  <2>1. UNCHANGED <<streams, fds, shutdown, active_streams, ready, short, owner>>
    BY <1>1 DEF ScanUnchanged
  <2>2. TypeOK'
    BY <1>1, <1>2, <1>5, <2>1 DEF TypeOK, Processing
  <2>3. Counted'
    BY <1>5, <2>1 DEF Counted, Present
  <2>4. OneProcessed' /\ QuietIsInactive' /\ NotListed' /\ WaiterIsWoken'
    BY <1>1, <1>5, <2>1 DEF OneProcessed, QuietIsInactive, NotListed, WaiterIsWoken, Processing
  <2>5. FdsCurrent' /\ WakeLeft' /\ ByteLeft' /\ ShutdownSeen'
    BY <1>1, <1>5, <2>1 DEF FdsCurrent, Running, Registered, WakeLeft, ByteLeft, ShutdownSeen
  <2>6. ShortRests'
    BY <1>1, <1>5, <2>1 DEF ShortRests
  <2>7. QED
    BY <2>2, <2>3, <2>4, <2>5, <2>6
<1>6. QED
  BY <1>4, <1>5 DEF HandleEvents

\* alsa_process_stream touches the device and its own result, and nothing that
\* another thread reads; one that leaves a stream that plays short reports it.
LEMMA ReturnsKeeps ==
  ASSUME IInv, NEW r \in {"RUNNING", "DRAINING", "ERROR"}, run \in {"process", "callback"},
         Returns(r), short' \in [Streams -> BOOLEAN],
         \A s \in Streams \ Recording :
           short'[s] => short[s] \/ (s = cur /\ r # "RUNNING")
  PROVE  IInv'
<1> USE DEF IInv
<1>1. /\ run' = "store" /\ result' = r
      /\ UNCHANGED <<streams, rebuild, fds, pipe, shutdown, active_streams, cur, revents,
                     control, state, drained, app, owner>>
  BY DEF Returns, contextVars
<1>2. cur \in Streams /\ state[cur] = "PROCESSING"
  BY DEF TypeOK, OneProcessed, Processing
<1>3. TypeOK'
  <2>1. ready' \in [Streams -> BOOLEAN]
    BY <1>2 DEF TypeOK, Returns
  <2>2. QED
    BY <1>1, <1>2, <2>1 DEF TypeOK, Processing
<1>4. Counted'
  BY <1>1 DEF Counted, Present
<1>5. OneProcessed' /\ QuietIsInactive' /\ NotListed' /\ WaiterIsWoken'
  BY <1>1 DEF OneProcessed, QuietIsInactive, NotListed, WaiterIsWoken, Processing
<1>6. FdsCurrent' /\ WakeLeft' /\ ByteLeft' /\ ShutdownSeen'
  BY <1>1 DEF FdsCurrent, Running, Registered, WakeLeft, ByteLeft, ShutdownSeen
<1>7. ShortRests'
  BY <1>1, <1>2 DEF ShortRests
<1>8. QED
  BY <1>3, <1>4, <1>5, <1>6, <1>7

LEMMA ProcessKeeps == IInv /\ alsa_process_stream => IInv'
<1> SUFFICES ASSUME IInv, alsa_process_stream PROVE IInv'
  OBVIOUS
<1>1. TypeOK /\ short \in [Streams -> BOOLEAN]
  BY DEF IInv, TypeOK
<1>2. CASE ProcessNull \/ ReturnFull
  BY <1>1, <1>2, ReturnsKeeps DEF ProcessNull, ReturnFull
<1>3. CASE ProcessFails
  BY <1>1, <1>3, ReturnsKeeps DEF ProcessFails
<1>4. CASE ReturnShort
  <2>1. cur \in Streams
    BY <1>1, <1>4 DEF ReturnShort, TypeOK, Processing
  <2> DEFINE r == IF cur \in Recording THEN "RUNNING" ELSE "DRAINING"
  <2>2. /\ run \in {"process", "callback"} /\ Returns(r) /\ r \in {"RUNNING", "DRAINING", "ERROR"}
        /\ (cur \notin Recording => r # "RUNNING")
    BY <1>4 DEF ReturnShort
  <2>3. /\ short' \in [Streams -> BOOLEAN]
        /\ \A s \in Streams : s # cur => short'[s] = short[s]
    BY <1>1, <1>4, <2>1 DEF ReturnShort
  <2> HIDE DEF r
  <2>4. \A s \in Streams \ Recording : short'[s] => short[s] \/ (s = cur /\ r # "RUNNING")
    BY <2>2, <2>3
  <2>5. QED
    BY <2>2, <2>3, <2>4, ReturnsKeeps
<1>5. CASE CallBack
  <2> USE DEF IInv
  <2>1. /\ run = "process" /\ run' = "callback"
        /\ UNCHANGED <<streams, rebuild, fds, pipe, shutdown, active_streams, cur, revents,
                       control, result, state, ready, drained, short, app, owner>>
    BY <1>5 DEF CallBack, contextVars, streamVars
  <2>2. TypeOK' /\ Counted'
    BY <2>1 DEF TypeOK, Processing, Counted, Present
  <2>3. OneProcessed' /\ QuietIsInactive' /\ NotListed' /\ WaiterIsWoken'
    BY <2>1 DEF OneProcessed, QuietIsInactive, NotListed, WaiterIsWoken, Processing
  <2>4. FdsCurrent' /\ WakeLeft' /\ ByteLeft' /\ ShutdownSeen'
    BY <2>1 DEF FdsCurrent, Running, Registered, WakeLeft, ByteLeft, ShutdownSeen
  <2>5. ShortRests'
    BY <2>1 DEF ShortRests
  <2>6. QED
    BY <2>2, <2>3, <2>4, <2>5
<1>6. QED
  BY <1>2, <1>3, <1>4, <1>5 DEF alsa_process_stream

\* The result goes to the stream that was PROCESSING, and its waiter is woken.
LEMMA StoreKeeps == IInv /\ Store => IInv'
<1> SUFFICES ASSUME IInv, Store PROVE IInv'
  OBVIOUS
<1> USE DEF IInv
<1> DEFINE st == [state EXCEPT ![cur] = result]
<1>1. /\ run = "store" /\ result' = "RUNNING" /\ control' = control /\ drained' = drained
      /\ ScanUnchanged /\ Scan(SlotOf(cur) + 1, {cur}, st, pipe)
  BY DEF Store
<1>2. /\ cur \in Streams /\ state[cur] = "PROCESSING" /\ pipe \in 0..PipeSize
      /\ result \in {"RUNNING", "DRAINING", "ERROR"} /\ state \in [Streams -> States]
      /\ control \in BOOLEAN /\ ~control
  BY <1>1 DEF TypeOK, OneProcessed, Processing, ByteLeft
<1>3. /\ st \in [Streams -> States] /\ st[cur] = result
      /\ \A s \in Streams : s # cur => st[s] = state[s]
  BY <1>2 DEF States
<1> HIDE DEF st
<1>4. \A s \in Streams : st[s] # "PROCESSING"
  BY <1>2, <1>3 DEF OneProcessed
<1>5. \A s \in Streams : s \notin {cur} => st[s] = state[s] /\ app[s] # "stop wait"
  BY <1>3 DEF WaiterIsWoken
<1>6. \A s \in Streams : app[s] \in Quiet => st[s] = "INACTIVE"
  BY <1>2, <1>3 DEF QuietIsInactive
<1>7. \A s \in Streams \ Recording : short[s] => st[s] # "RUNNING"
  BY <1>1, <1>2, <1>3 DEF ShortRests
<1>8. shutdown => pipe > 0
  BY <1>1 DEF ShutdownSeen
<1>9. control' = FALSE /\ result' \in {"RUNNING", "DRAINING", "ERROR"} /\ {cur} \in SUBSET Streams
  BY <1>1, <1>2
<1>10. QED
  BY <1>1, <1>2, <1>3, <1>4, <1>5, <1>6, <1>7, <1>8, <1>9, ScanKeeps

LEMMA HandleTimeoutKeeps == IInv /\ HandleTimeout => IInv'
<1> SUFFICES ASSUME IInv, HandleTimeout PROVE IInv'
  OBVIOUS
<1> USE DEF IInv
<1> DEFINE over == {s \in Registered : state[s] = "DRAINING" /\ drained[s]}
<1>1. PICK idle \in SUBSET Running :
        /\ SetStates(over \cup idle,
                     [s \in Streams |-> IF s \in over THEN "INACTIVE"
                                        ELSE IF s \in idle THEN "ERROR" ELSE state[s]],
                     pipe)
        /\ drained' = [s \in Streams |-> drained[s] /\ s \notin over]
  BY DEF HandleTimeout
<1> DEFINE S == over \cup idle
           st == [s \in Streams |-> IF s \in over THEN "INACTIVE"
                                    ELSE IF s \in idle THEN "ERROR" ELSE state[s]]
<1>2. /\ run = "timeout" /\ run' = "prepare"
      /\ UNCHANGED <<cur, revents, control, result, streams, fds, shutdown, active_streams,
                     ready, short, owner>>
  BY DEF HandleTimeout, ScanUnchanged
<1>3. S \subseteq Streams /\ pipe \in 0..PipeSize
  BY DEF Running, Registered, TypeOK
<1>4. Changed(S, st, pipe)
  BY <1>1, <1>3, SetStatesFacts
<1>5. /\ st \in [Streams -> States]
      /\ \A s \in Streams : st[s] = state[s] \/ (s \in S /\ state[s] = "DRAINING" /\ st[s] = "INACTIVE")
                                            \/ (s \in S /\ state[s] = "RUNNING" /\ st[s] = "ERROR")
      /\ S = {} => st = state
  BY <1>1 DEF TypeOK, States, Running
<1>6. drained' \in [Streams -> BOOLEAN]
  BY <1>1
<1> HIDE DEF S, st
<1>7. TypeOK'
  BY <1>2, <1>4, <1>5, <1>6 DEF TypeOK, AppStates, Processing, Changed
<1>8. Counted'
  <2>1. Present' = Present
    BY <1>4 DEF Present, Changed
  <2>2. QED
    BY <1>2, <2>1 DEF Counted
<1>9. OneProcessed' /\ WaiterIsWoken'
  <2>1. \A s \in Streams : state[s] # "PROCESSING" /\ app[s] # "stop wait"
    BY <1>2 DEF OneProcessed, WaiterIsWoken, Processing
  <2>2. \A s \in Streams : st[s] # "PROCESSING" /\ app'[s] # "stop wait"
    BY <1>4, <1>5, <2>1 DEF Changed
  <2>3. QED
    BY <1>2, <1>4, <2>2 DEF OneProcessed, WaiterIsWoken, Processing, Changed
<1>10. QuietIsInactive' /\ NotListed'
  BY <1>2, <1>4, <1>5 DEF QuietIsInactive, NotListed, Quiet, Unlisted, Changed
<1>11. FdsCurrent'
  <2>1. CASE S # {}
    BY <1>4, <2>1 DEF FdsCurrent, Changed
  <2>2. CASE S = {}
    <3>1. state' = state /\ rebuild' = rebuild
      BY <1>4, <1>5, <2>2 DEF Changed
    <3>2. QED
      BY <1>2, <3>1 DEF FdsCurrent, Running, Registered
  <2>3. QED
    BY <2>1, <2>2
<1>12. WakeLeft' /\ ByteLeft' /\ ShutdownSeen'
  BY <1>2, <1>4 DEF WakeLeft, ByteLeft, ShutdownSeen, Changed
<1>13. ShortRests'
  BY <1>2, <1>4, <1>5 DEF ShortRests, Changed
<1>14. QED
  BY <1>7, <1>8, <1>9, <1>10, <1>11, <1>12, <1>13
----------------------------------------------------------------------------
(* The application. *)

\* A thread moves on, and at most its stream's slot changes with it.
Moves(s, to) ==
  /\ app' = [app EXCEPT ![s] = to] /\ to \in AppStates
  /\ UNCHANGED <<rebuild, fds, pipe, active_streams, state, drained, short>> /\ AppUnchanged
  /\ ready' \in [Streams -> BOOLEAN]
  /\ streams' \in [Slots -> Streams \cup {NoStream}]
  /\ app[s] # "none" /\ to # "none"
  /\ to \in Quiet => state[s] = "INACTIVE"
  /\ to = "stop wait" => state[s] = "PROCESSING"
  /\ to \in Unlisted => \A i \in Slots : streams'[i] # s
  /\ \A i \in Slots : \/ streams'[i] = streams[i]
                      \/ streams[i] = s /\ streams'[i] = NoStream
                      \/ streams[i] = NoStream /\ streams'[i] = s
  /\ state[s] = "RUNNING" => streams' = streams

LEMMA MoveKeeps ==
  ASSUME IInv, NEW s \in Streams, NEW to, Moves(s, to)
  PROVE  IInv'
<1> USE DEF IInv, Moves
<1>1. UNCHANGED <<shutdown, run, cur, revents, control, result, owner>>
  BY DEF AppUnchanged, runVars
<1>2. /\ app \in [Streams -> AppStates] /\ app' \in [Streams -> AppStates] /\ app'[s] = to
      /\ \A t \in Streams : t # s => app'[t] = app[t]
  BY DEF TypeOK, AppStates
<1>3. TypeOK'
  BY <1>1, <1>2 DEF TypeOK, AppStates, Processing
<1>4. Counted'
  <2>1. Present' = Present
    BY <1>2 DEF Present
  <2>2. QED
    BY <2>1 DEF Counted
<1>5. OneProcessed' /\ QuietIsInactive'
  BY <1>1, <1>2 DEF OneProcessed, QuietIsInactive, Processing
<1>6. NotListed'
  <2>1. \A t \in Streams : t # s => \A i \in Slots : streams'[i] = t <=> streams[i] = t
    BY StreamsAssumption
  <2>2. \A i \in Slots : app'[s] \in Unlisted => streams'[i] # s
    BY <1>2
  <2>3. \A t \in Streams : t # s /\ app'[t] \in Unlisted => \A i \in Slots : streams'[i] # t
    <3>1. \A t \in Streams : app[t] \in Unlisted => \A i \in Slots : streams[i] # t
      BY DEF NotListed
    <3>2. \A t \in Streams : t # s => app'[t] = app[t]
      BY <1>2
    <3> HIDE DEF IInv, Moves
    <3>3. QED
      BY <2>1, <3>1, <3>2
  <2>4. QED
    BY <2>2, <2>3 DEF NotListed
<1>7. WaiterIsWoken'
  BY <1>1, <1>2 DEF WaiterIsWoken, OneProcessed, Processing
<1>8. FdsCurrent'
  <2>1. CASE state[s] = "RUNNING"
    BY <2>1, ZenonT(60) DEF FdsCurrent, Running, Registered
  <2>2. CASE state[s] # "RUNNING"
    <3>1. \A t \in Streams : t # s => \A i \in Slots : streams'[i] = t <=> streams[i] = t
      BY StreamsAssumption
    <3>2. \A t \in Streams : t # s => (t \in Registered' <=> t \in Registered)
      BY <3>1 DEF Registered
    <3>3. Running' = Running
      BY <2>2, <3>2, ZenonT(60) DEF Running, Registered
    <3>4. QED
      BY <3>3 DEF FdsCurrent
  <2>3. QED
    BY <2>1, <2>2
<1>9. WakeLeft' /\ ByteLeft' /\ ShutdownSeen'
  BY <1>1 DEF WakeLeft, ByteLeft, ShutdownSeen
<1>10. ShortRests'
  BY <1>1 DEF ShortRests
<1>11. QED
  BY <1>3, <1>4, <1>5, <1>6, <1>7, <1>8, <1>9, <1>10

\* Opening fails, stop is called or waits, the device is closed: nobody's
\* streams array changes.
LEMMA StayKeeps ==
  ASSUME IInv, NEW s \in Streams, OpenFails(s) \/ StopCall(s) \/ StopWait(s) \/ Close(s)
  PROVE  IInv'
<1>1. /\ TypeOK /\ app[s] \in {"opening", "stopped", "open", "stop"}
      /\ streams \in [Slots -> Streams \cup {NoStream}] /\ ready \in [Streams -> BOOLEAN]
  BY DEF IInv, TypeOK, OpenFails, StopCall, StopWait, Close
<1>2. PICK to \in {"unregistered", "stop", "stop wait", "closed"} :
        /\ app' = [app EXCEPT ![s] = to]
        /\ to = "unregistered" => app[s] = "opening"
        /\ to = "closed" => app[s] = "stopped"
        /\ to = "stop wait" => state[s] = "PROCESSING"
  BY DEF OpenFails, StopCall, StopWait, Close
<1>3. /\ UNCHANGED <<streams, rebuild, fds, pipe, active_streams, state, drained, short>>
      /\ AppUnchanged /\ ready' \in [Streams -> BOOLEAN]
  BY <1>1 DEF OpenFails, StopCall, StopWait, Close, streamVars
<1>4. to \in AppStates
  BY DEF AppStates
<1>5. to \in Quiet => state[s] = "INACTIVE"
  BY <1>2 DEF IInv, QuietIsInactive, Quiet
<1>6. to \in Unlisted => \A i \in Slots : streams'[i] # s
  BY <1>2, <1>3 DEF IInv, NotListed, Unlisted
<1>7. Moves(s, to)
  BY <1>1, <1>2, <1>3, <1>4, <1>5, <1>6 DEF Moves
<1>8. QED
  BY <1>7, MoveKeeps

LEMMA RegisterKeeps ==
  ASSUME IInv, NEW s \in Streams, Register(s)
  PROVE  IInv'
<1> DEFINE free == {i \in Slots : streams[i] = NoStream}
<1>1. /\ TypeOK /\ app[s] = "opening" /\ state[s] = "INACTIVE"
      /\ streams \in [Slots -> Streams \cup {NoStream}] /\ ready \in [Streams -> BOOLEAN]
  BY DEF IInv, TypeOK, Register, QuietIsInactive, Quiet
<1>2. /\ UNCHANGED <<rebuild, fds, pipe, active_streams, state, ready, drained, short>>
      /\ AppUnchanged
  BY DEF Register, streamVars
<1>3. \A i \in Slots : streams[i] # s
  BY <1>1 DEF IInv, NotListed, Unlisted
<1>4. CASE app' = [app EXCEPT ![s] = "unregistered"] /\ UNCHANGED streams
  <2>1. Moves(s, "unregistered")
    BY <1>1, <1>2, <1>3, <1>4 DEF Moves, AppStates
  <2>2. QED
    BY <2>1, MoveKeeps
<1>5. ASSUME NEW i \in free, app' = [app EXCEPT ![s] = "stopped"],
             streams' = [streams EXCEPT ![i] = s]
      PROVE  IInv'
  <2>1. streams' \in [Slots -> Streams \cup {NoStream}] /\ streams[i] = NoStream /\ streams'[i] = s
        /\ \A k \in Slots : k # i => streams'[k] = streams[k]
    BY <1>1, <1>5
  <2>2. \A k \in Slots : \/ streams'[k] = streams[k]
                         \/ streams[k] = s /\ streams'[k] = NoStream
                         \/ streams[k] = NoStream /\ streams'[k] = s
    BY <2>1
  <2>3. "stopped" \in AppStates /\ "stopped" \notin Unlisted
    BY DEF AppStates, Unlisted
  <2>4. Moves(s, "stopped")
    BY <1>1, <1>2, <1>5, <2>1, <2>2, <2>3 DEF Moves
  <2>5. QED
    BY <2>4, MoveKeeps
<1>6. QED
  BY <1>4, <1>5 DEF Register

LEMMA UnregisterKeeps ==
  ASSUME IInv, NEW s \in Streams, Unregister(s)
  PROVE  IInv'
<1>1. /\ TypeOK /\ app[s] = "closed" /\ state[s] = "INACTIVE"
      /\ streams \in [Slots -> Streams \cup {NoStream}] /\ ready \in [Streams -> BOOLEAN]
  BY DEF IInv, TypeOK, Unregister, QuietIsInactive, Quiet
<1>2. /\ UNCHANGED <<rebuild, fds, pipe, active_streams, state, ready, drained, short>>
      /\ AppUnchanged /\ app' = [app EXCEPT ![s] = "unregistered"]
      /\ streams' = [i \in Slots |-> IF streams[i] = s THEN NoStream ELSE streams[i]]
  BY DEF Unregister, streamVars
<1>3. /\ streams' \in [Slots -> Streams \cup {NoStream}]
      /\ \A i \in Slots : streams'[i] # s
      /\ \A i \in Slots : \/ streams'[i] = streams[i]
                          \/ streams[i] = s /\ streams'[i] = NoStream
                          \/ streams[i] = NoStream /\ streams'[i] = s
  BY <1>1, <1>2, StreamsAssumption
<1>4. "unregistered" \in AppStates
  BY DEF AppStates
<1>5. Moves(s, "unregistered")
  BY <1>1, <1>2, <1>3, <1>4 DEF Moves
<1>6. QED
  BY <1>5, MoveKeeps

\* A new stream is counted, and the limit keeps the count in the array's bounds.
LEMMA OpenKeeps ==
  ASSUME IInv, NEW s \in Streams, Open(s)
  PROVE  IInv'
<1> USE DEF IInv
<1>1. /\ app[s] = "none" /\ active_streams < CUBEB_STREAM_MAX
      /\ active_streams' = active_streams + 1
      /\ app' = [app EXCEPT ![s] = "opening"] /\ state' = [state EXCEPT ![s] = "INACTIVE"]
      /\ fds' = fds \ {s} /\ short' = [short EXCEPT ![s] = FALSE]
      /\ UNCHANGED <<streams, rebuild, pipe, ready, drained>>
  BY DEF Open
<1>2. UNCHANGED <<shutdown, run, cur, revents, control, result, owner>>
  BY DEF Open, AppUnchanged, runVars
<1>3. state[s] = "INACTIVE" /\ state' = state /\ \A i \in Slots : streams[i] # s
  BY <1>1 DEF QuietIsInactive, NotListed, Quiet, Unlisted, TypeOK
<1>4. /\ app \in [Streams -> AppStates] /\ app' \in [Streams -> AppStates] /\ app'[s] = "opening"
      /\ \A t \in Streams : t # s => app'[t] = app[t]
  BY <1>1 DEF TypeOK, AppStates
<1>5. TypeOK'
  <2>1. active_streams' \in 0..CUBEB_STREAM_MAX
    <3>1. active_streams \in 0..CUBEB_STREAM_MAX /\ CUBEB_STREAM_MAX \in Nat
      BY BoundsAssumption DEF TypeOK
    <3>2. QED
      BY <1>1, <3>1
  <2>2. short' \in [Streams -> BOOLEAN] /\ fds' \subseteq Streams
    BY <1>1 DEF TypeOK
  <2>3. QED
    BY <1>1, <1>2, <1>3, <1>4, <2>1, <2>2 DEF TypeOK, AppStates, Processing
<1>6. Counted'
  <2>1. Present' = Present \cup {s} /\ s \notin Present
    BY <1>1, <1>4 DEF Present
  <2>2. Cardinality(Present') = Cardinality(Present) + 1
    BY <2>1, PresentFinite, FS_AddElement
  <2>3. QED
    BY <1>1, <2>2 DEF Counted
<1>7. OneProcessed' /\ QuietIsInactive' /\ WaiterIsWoken'
  BY <1>2, <1>3, <1>4 DEF OneProcessed, QuietIsInactive, WaiterIsWoken, Processing
<1>8. NotListed'
  BY <1>1, <1>3, <1>4 DEF NotListed, Unlisted
<1>9. FdsCurrent'
  <2>1. Running' = Running /\ s \notin Running
    BY <1>1, <1>3 DEF Running, Registered
  <2>2. QED
    BY <1>1, <2>1 DEF FdsCurrent
<1>10. WakeLeft' /\ ByteLeft' /\ ShutdownSeen'
  BY <1>1, <1>2 DEF WakeLeft, ByteLeft, ShutdownSeen
<1>11. ShortRests'
  <2>1. \A t \in Streams : short'[t] => short[t]
    BY <1>1 DEF TypeOK
  <2>2. QED
    BY <1>2, <1>3, <2>1 DEF ShortRests
<1>12. QED
  BY <1>5, <1>6, <1>7, <1>8, <1>9, <1>10, <1>11

LEMMA FreeKeeps ==
  ASSUME IInv, NEW s \in Streams, Free(s)
  PROVE  IInv'
<1> USE DEF IInv
<1>1. /\ app[s] = "unregistered" /\ app' = [app EXCEPT ![s] = "none"]
      /\ active_streams' = active_streams - 1
      /\ UNCHANGED <<streams, rebuild, fds, pipe, state, ready, drained, short, shutdown, run,
                     cur, revents, control, result, owner>>
  BY DEF Free, AppUnchanged, runVars, streamVars
<1>2. /\ app \in [Streams -> AppStates] /\ app' \in [Streams -> AppStates] /\ app'[s] = "none"
      /\ \A t \in Streams : t # s => app'[t] = app[t]
  BY <1>1 DEF TypeOK, AppStates
<1>3. Counted' /\ active_streams' \in 0..CUBEB_STREAM_MAX
  <2>1. Present' = Present \ {s} /\ s \in Present
    BY <1>1, <1>2 DEF Present
  <2>2. Cardinality(Present') = Cardinality(Present) - 1
    BY <2>1, PresentFinite, FS_RemoveElement
  <2>3. IsFiniteSet(Present') /\ Cardinality(Present') \in Nat
    BY <2>1, PresentFinite, FS_RemoveElement, FS_CardinalityType
  <2>4. active_streams \in 0..CUBEB_STREAM_MAX
    BY DEF TypeOK
  <2>5. QED
    BY <1>1, <2>2, <2>3, <2>4, BoundsAssumption DEF Counted
<1>4. TypeOK'
  BY <1>1, <1>2, <1>3 DEF TypeOK, AppStates, Processing
<1>5. OneProcessed' /\ QuietIsInactive' /\ NotListed' /\ WaiterIsWoken'
  BY <1>1, <1>2 DEF OneProcessed, QuietIsInactive, NotListed, WaiterIsWoken, Processing, Quiet, Unlisted
<1>6. FdsCurrent' /\ WakeLeft' /\ ByteLeft' /\ ShutdownSeen'
  BY <1>1 DEF FdsCurrent, Running, Registered, WakeLeft, ByteLeft, ShutdownSeen
<1>7. ShortRests'
  BY <1>1 DEF ShortRests
<1>8. QED
  BY <1>3, <1>4, <1>5, <1>6, <1>7

\* Starting and stopping: the state, the request to rebuild and the byte come in
\* one section, which is why alsa_run cannot miss it.
LEMMA StartKeeps ==
  ASSUME IInv, NEW s \in Streams, Start(s)
  PROVE  IInv'
<1> USE DEF IInv
<1>1. /\ app[s] \in {"stopped", "open"} /\ app' = [app EXCEPT ![s] = "open"]
      /\ state[s] = "INACTIVE" /\ state' = [state EXCEPT ![s] = "RUNNING"]
      /\ rebuild' = TRUE /\ short' = [short EXCEPT ![s] = FALSE]
      /\ UNCHANGED <<streams, fds, active_streams, ready, drained, shutdown, run, cur, revents,
                     control, result, owner>>
  BY DEF Start, AppUnchanged, runVars
<1>2. pipe' \in 0..PipeSize /\ pipe' > 0
  <2>1. pipe' = Written(pipe, 1) /\ pipe \in 0..PipeSize
    BY DEF Start, TypeOK
  <2>2. 1 \in Nat /\ 1 > 0
    OBVIOUS
  <2>3. QED
    BY <2>1, <2>2, WrittenFacts
<1>3. /\ app' \in [Streams -> AppStates] /\ app'[s] = "open" /\ app[s] # "none"
      /\ state' \in [Streams -> States] /\ state'[s] = "RUNNING"
      /\ short' \in [Streams -> BOOLEAN] /\ ~short'[s]
      /\ \A t \in Streams : t # s =>
           app'[t] = app[t] /\ state'[t] = state[t] /\ short'[t] = short[t]
  BY <1>1 DEF TypeOK, AppStates, States
<1>4. TypeOK'
  BY <1>1, <1>2, <1>3 DEF TypeOK, AppStates, Processing
<1>5. Counted'
  <2>1. Present' = Present
    BY <1>3 DEF Present
  <2>2. QED
    BY <1>1, <2>1 DEF Counted
<1>6. OneProcessed'
  BY <1>1, <1>3 DEF OneProcessed, Processing
<1>7. QuietIsInactive' /\ NotListed' /\ WaiterIsWoken'
  BY <1>1, <1>3, ZenonT(60) DEF QuietIsInactive, NotListed, WaiterIsWoken, Processing, Quiet, Unlisted
<1>8. FdsCurrent' /\ WakeLeft' /\ ByteLeft' /\ ShutdownSeen'
  BY <1>1, <1>2 DEF FdsCurrent, WakeLeft, ByteLeft, ShutdownSeen
<1>9. ShortRests'
  BY <1>1, <1>3 DEF ShortRests
<1>10. QED
  BY <1>4, <1>5, <1>6, <1>7, <1>8, <1>9

LEMMA StopDoneKeeps ==
  ASSUME IInv, NEW s \in Streams, StopDone(s)
  PROVE  IInv'
<1> USE DEF IInv
<1>1. /\ app[s] = "stop" /\ app' = [app EXCEPT ![s] = "stopped"]
      /\ state[s] # "PROCESSING" /\ state' = [state EXCEPT ![s] = "INACTIVE"]
      /\ rebuild' = TRUE /\ drained' = [drained EXCEPT ![s] = FALSE]
      /\ UNCHANGED <<streams, fds, active_streams, ready, short, shutdown, run, cur, revents,
                     control, result, owner>>
  BY DEF StopDone, AppUnchanged, runVars
<1>2. pipe' \in 0..PipeSize /\ pipe' > 0
  <2>1. pipe' = Written(pipe, 1) /\ pipe \in 0..PipeSize
    BY DEF StopDone, TypeOK
  <2>2. 1 \in Nat /\ 1 > 0
    OBVIOUS
  <2>3. QED
    BY <2>1, <2>2, WrittenFacts
<1>3. /\ app' \in [Streams -> AppStates] /\ app'[s] = "stopped" /\ app[s] # "none"
      /\ state' \in [Streams -> States] /\ state'[s] = "INACTIVE"
      /\ drained' \in [Streams -> BOOLEAN]
      /\ \A t \in Streams : t # s => app'[t] = app[t] /\ state'[t] = state[t]
  BY <1>1 DEF TypeOK, AppStates, States
<1>4. TypeOK'
  BY <1>1, <1>2, <1>3 DEF TypeOK, AppStates, Processing
<1>5. Counted'
  <2>1. Present' = Present
    BY <1>3 DEF Present
  <2>2. QED
    BY <1>1, <2>1 DEF Counted
<1>6. OneProcessed'
  BY <1>1, <1>3 DEF OneProcessed, Processing
<1>7. QuietIsInactive' /\ NotListed' /\ WaiterIsWoken'
  BY <1>1, <1>3, ZenonT(60) DEF QuietIsInactive, NotListed, WaiterIsWoken, Processing, Quiet, Unlisted
<1>8. FdsCurrent' /\ WakeLeft' /\ ByteLeft' /\ ShutdownSeen'
  BY <1>1, <1>2 DEF FdsCurrent, WakeLeft, ByteLeft, ShutdownSeen
<1>9. ShortRests'
  BY <1>1, <1>3 DEF ShortRests
<1>10. QED
  BY <1>4, <1>5, <1>6, <1>7, <1>8, <1>9

LEMMA EndKeeps == IInv /\ (Destroy \/ Join) => IInv'
<1> SUFFICES ASSUME IInv, Destroy \/ Join PROVE IInv'
  OBVIOUS
<1> USE DEF IInv
<1>1. /\ UNCHANGED <<streams, rebuild, fds, active_streams, run, cur, revents, control, result,
                     state, ready, drained, short, app>>
      /\ owner' \in {"joining", "destroyed"} /\ shutdown' \in BOOLEAN
  BY DEF Destroy, Join, contextVars, runVars, streamVars, TypeOK
<1>2. /\ pipe' \in 0..PipeSize /\ (pipe > 0 => pipe' > 0)
      /\ shutdown' => shutdown \/ pipe' > 0
  <2>1. CASE Destroy
    <3>1. pipe' = Written(pipe, 1) /\ pipe \in 0..PipeSize
      BY <2>1 DEF Destroy, TypeOK
    <3>2. 1 \in Nat /\ 1 > 0
      OBVIOUS
    <3>3. QED
      BY <3>1, <3>2, WrittenFacts
  <2>2. CASE Join
    BY <2>2 DEF Join, contextVars, TypeOK
  <2>3. QED
    BY <2>1, <2>2
<1>3. TypeOK'
  BY <1>1, <1>2 DEF TypeOK, Processing
<1>4. Counted'
  BY <1>1 DEF Counted, Present
<1>5. OneProcessed' /\ QuietIsInactive' /\ NotListed' /\ WaiterIsWoken'
  BY <1>1 DEF OneProcessed, QuietIsInactive, NotListed, WaiterIsWoken, Processing
<1>6. FdsCurrent' /\ WakeLeft' /\ ByteLeft' /\ ShutdownSeen'
  BY <1>1, <1>2 DEF FdsCurrent, Running, Registered, WakeLeft, ByteLeft, ShutdownSeen
<1>7. ShortRests'
  BY <1>1 DEF ShortRests
<1>8. QED
  BY <1>3, <1>4, <1>5, <1>6, <1>7

\* The devices, the clock, and nothing at all.
LEMMA RestKeeps ==
  ASSUME IInv, (\E s \in Streams : DeviceReady(s) \/ DrainOver(s)) \/ UNCHANGED vars
  PROVE  IInv'
<1> USE DEF IInv
<1>1. /\ UNCHANGED <<streams, rebuild, fds, pipe, shutdown, active_streams, run, cur, revents,
                     control, result, state, short, app, owner>>
      /\ ready' \in [Streams -> BOOLEAN] /\ drained' \in [Streams -> BOOLEAN]
  BY DEF DeviceReady, DrainOver, contextVars, runVars, streamVars, vars, TypeOK
<1>2. TypeOK'
  BY <1>1 DEF TypeOK, Processing
<1>3. Counted'
  BY <1>1 DEF Counted, Present
<1>4. OneProcessed' /\ QuietIsInactive' /\ NotListed' /\ WaiterIsWoken'
  BY <1>1 DEF OneProcessed, QuietIsInactive, NotListed, WaiterIsWoken, Processing
<1>5. FdsCurrent' /\ WakeLeft' /\ ByteLeft' /\ ShutdownSeen'
  BY <1>1 DEF FdsCurrent, Running, Registered, WakeLeft, ByteLeft, ShutdownSeen
<1>6. ShortRests'
  BY <1>1 DEF ShortRests
<1>7. QED
  BY <1>2, <1>3, <1>4, <1>5, <1>6
----------------------------------------------------------------------------
THEOREM Invariance == Spec => []IInv
<1>1. Init => IInv
  BY InitHolds
<1>2. IInv /\ [Next]_vars => IInv'
  <2> SUFFICES ASSUME IInv, [Next]_vars PROVE IInv'
    OBVIOUS
  <2>1. CASE alsa_run
    BY <2>1, PrepareKeeps, PollKeeps, HandleEventsKeeps, HandleTimeoutKeeps, ProcessKeeps,
       StoreKeeps DEF alsa_run
  <2>2. ASSUME NEW s \in Streams,
               \/ Open(s) \/ OpenFails(s) \/ Register(s)
               \/ Start(s) \/ StopCall(s) \/ StopWait(s) \/ StopDone(s)
               \/ Close(s) \/ Unregister(s) \/ Free(s)
        PROVE  IInv'
    BY <2>2, OpenKeeps, StayKeeps, RegisterKeeps, StartKeeps, StopDoneKeeps, UnregisterKeeps,
       FreeKeeps
  <2>3. CASE (\E s \in Streams : DeviceReady(s) \/ DrainOver(s)) \/ UNCHANGED vars
    BY <2>3, RestKeeps
  <2>4. CASE Destroy \/ Join
    BY <2>4, EndKeeps
  <2>5. QED
    BY <2>1, <2>2, <2>3, <2>4 DEF Next
<1>3. QED
  BY <1>1, <1>2, PTL DEF Spec

\* Type correctness; with it the count of streams stays within the array
\* (cubeb_alsa.c:1014-1020 and 1172-1175, whose assertion never fails).
THEOREM TypeCorrect == Spec => []TypeOK
<1>1. IInv => TypeOK
  BY DEF IInv
<1>2. QED
  BY <1>1, Invariance, PTL

\* A stream that stop has returned for is left alone by alsa_run
\* (cubeb_alsa.c:1327-1334 against 542-554) until it is started again.
THEOREM StoppedIsQuiet == Spec => []StopQuiesces
<1>1. IInv => StopQuiesces
  <2> SUFFICES ASSUME IInv, NEW s \in Streams, app[s] \in Quiet
               PROVE  cur # s /\ state[s] = "INACTIVE"
    BY DEF StopQuiesces, Quiet
  <2>1. state[s] = "INACTIVE" /\ ~(run \in Processing /\ cur = s)
    BY DEF IInv, OneProcessed, QuietIsInactive
  <2>2. run \notin Processing => cur # s
    BY StreamsAssumption DEF IInv, TypeOK
  <2>3. QED
    BY <2>1, <2>2
<1>2. QED
  BY <1>1, Invariance, PTL

\* A stop that waits on the condition waits for the processing whose end
\* alsa_set_stream_state broadcasts (cubeb_alsa.c:308, 1328-1331).
THEOREM NoLostWaiter == Spec => []WaiterIsWoken
<1>1. IInv => WaiterIsWoken
  BY DEF IInv
<1>2. QED
  BY <1>1, Invariance, PTL

\* poll never blocks on descriptors that are out of date without a byte in the
\* pipe to wake it (cubeb_alsa.c:300-312, 508-527).
THEOREM PollStaysCurrent == Spec => []PollIsCurrent
<1>1. IInv => PollIsCurrent
  <2> SUFFICES ASSUME IInv, run = "poll", pipe = 0 PROVE fds = Running /\ ~shutdown
    BY DEF PollIsCurrent
  <2>1. ~rebuild
    BY DEF IInv, WakeLeft
  <2>2. ~shutdown
    BY DEF IInv, ShutdownSeen
  <2>3. QED
    BY <2>1, <2>2 DEF IInv, FdsCurrent
<1>2. QED
  BY <1>1, Invariance, PTL

\* Neither a waiting stop nor poll sleeps through what the other side does.
THEOREM WakeUpsArrive == Spec => []NoWakeUpIsLost
<1>1. WaiterIsWoken /\ PollIsCurrent => NoWakeUpIsLost
  BY DEF NoWakeUpIsLost
<1>2. QED
  BY NoLostWaiter, PollStaysCurrent, <1>1, PTL

\* A stream that plays and has drained is not asked for more
\* (cubeb_alsa.c:430-448, 495).
THEOREM ShortIsLast == Spec => NoCallbackAfterShort
<1>1. IInv /\ [Next]_vars => [CallBack => ~short[cur] \/ cur \in Recording]_vars
  <2> SUFFICES ASSUME IInv, CallBack PROVE ~short[cur] \/ cur \in Recording
    OBVIOUS
  <2>1. cur \in Streams
    BY DEF IInv, TypeOK, CallBack, Processing
  <2>2. QED
    BY <2>1 DEF IInv, ShortRests, CallBack
<1>2. QED
  BY <1>1, Invariance, PTL DEF Spec, NoCallbackAfterShort
----------------------------------------------------------------------------
(* The places of a context, counted up at cubeb_alsa.c:1015-1019 and down   *)
(* at 1173-1174, and the slots of its array, filled and emptied at 771-802: *)
(* taken and given back in separate sections of code, they always agree.    *)
(* What has to be added to IInv is that no stream has two slots and that    *)
(* each registered one has its own; that a slot is free for a stream that   *)
(* was counted is then the pigeonhole principle.                            *)

OneSlotEach ==
  /\ \A i, j \in Slots : streams[i] = streams[j] /\ streams[i] # NoStream => i = j
  /\ \A s \in Streams : app[s] \notin Unlisted => \E i \in Slots : streams[i] = s

\* A step that leaves the array alone and registers nobody.
LEMMA SlotsKept ==
  ASSUME OneSlotEach, streams' = streams,
         \A s \in Streams : app'[s] \notin Unlisted => app[s] \notin Unlisted
  PROVE  OneSlotEach'
BY DEF OneSlotEach

\* alsa_run changes what the threads do only by waking them.
LEMMA RunKeepsSlots == ASSUME IInv, OneSlotEach, alsa_run PROVE OneSlotEach'
<1>1. app \in [Streams -> AppStates]
  BY DEF IInv, TypeOK, AppStates
<1>2. ASSUME NEW S, app' = Woken(S)
      PROVE  \A s \in Streams : app'[s] \notin Unlisted => app[s] \notin Unlisted
  BY <1>1, <1>2 DEF Woken, Unlisted
<1>3. streams' = streams /\ (app' = app \/ \E S : app' = Woken(S))
  <2>1. CASE Prepare \/ PollEvents \/ PollTimeout
    BY <2>1 DEF Prepare, PollEvents, PollTimeout, contextVars
  <2>2. CASE alsa_process_stream
    BY <2>2 DEF alsa_process_stream, ProcessNull, CallBack, ReturnFull, ReturnShort, ProcessFails,
                Returns, contextVars
  <2>3. CASE HandleEvents
    BY <2>3 DEF HandleEvents, Scan, SetStates, ScanUnchanged
  <2>4. CASE HandleTimeout
    BY <2>4 DEF HandleTimeout, SetStates, ScanUnchanged
  <2>5. CASE Store
    BY <2>5 DEF Store, Scan, SetStates, ScanUnchanged
  <2>6. QED
    BY <2>1, <2>2, <2>3, <2>4, <2>5 DEF alsa_run
<1>4. QED
  BY <1>2, <1>3, SlotsKept

\* A free slot is taken by a stream that has none.
LEMMA RegisterKeepsSlots ==
  ASSUME IInv, OneSlotEach, NEW s \in Streams, Register(s)
  PROVE  OneSlotEach'
<1>1. /\ streams \in [Slots -> Streams \cup {NoStream}] /\ app \in [Streams -> AppStates]
      /\ \A i \in Slots : streams[i] # s
  BY DEF IInv, TypeOK, AppStates, Register, NotListed, Unlisted
<1>2. CASE app' = [app EXCEPT ![s] = "unregistered"] /\ UNCHANGED streams
  BY <1>1, <1>2, SlotsKept DEF Unlisted
<1>3. ASSUME NEW i \in Slots, streams[i] = NoStream, streams' = [streams EXCEPT ![i] = s],
             app' = [app EXCEPT ![s] = "stopped"]
      PROVE  OneSlotEach'
  <2>1. streams'[i] = s /\ \A k \in Slots : k # i => streams'[k] = streams[k]
    BY <1>1, <1>3
  <2>2. \A j, k \in Slots : streams'[j] = streams'[k] /\ streams'[j] # NoStream => j = k
    BY <1>1, <2>1 DEF OneSlotEach
  <2>3. \A t \in Streams : app'[t] \notin Unlisted => \E k \in Slots : streams'[k] = t
    BY <1>1, <1>3, <2>1, StreamsAssumption DEF OneSlotEach
  <2>4. QED
    BY <2>2, <2>3 DEF OneSlotEach
<1>4. QED
  BY <1>2, <1>3 DEF Register

LEMMA UnregisterKeepsSlots ==
  ASSUME IInv, OneSlotEach, NEW s \in Streams, Unregister(s)
  PROVE  OneSlotEach'
<1>1. /\ app \in [Streams -> AppStates] /\ app' = [app EXCEPT ![s] = "unregistered"]
      /\ streams' = [i \in Slots |-> IF streams[i] = s THEN NoStream ELSE streams[i]]
  BY DEF IInv, TypeOK, AppStates, Unregister
<1>2. \A j, k \in Slots : streams'[j] = streams'[k] /\ streams'[j] # NoStream => j = k
  BY <1>1 DEF OneSlotEach
<1>3. \A t \in Streams : app'[t] \notin Unlisted => t # s /\ app[t] \notin Unlisted
  BY <1>1 DEF Unlisted
<1>4. \A t \in Streams : app'[t] \notin Unlisted => \E k \in Slots : streams'[k] = t
  BY <1>1, <1>3 DEF OneSlotEach
<1>5. QED
  BY <1>2, <1>4 DEF OneSlotEach

\* Every other call of the application.
LEMMA CallKeepsSlots ==
  ASSUME IInv, OneSlotEach, NEW s \in Streams,
         \/ Open(s) \/ OpenFails(s) \/ Start(s) \/ StopCall(s) \/ StopWait(s) \/ StopDone(s)
         \/ Close(s) \/ Free(s) \/ DeviceReady(s) \/ DrainOver(s)
  PROVE  OneSlotEach'
<1>1. app \in [Streams -> AppStates]
  BY DEF IInv, TypeOK, AppStates
<1>2. streams' = streams
  BY DEF Open, OpenFails, Start, StopCall, StopWait, StopDone, Close, Free, DeviceReady, DrainOver,
         contextVars
<1>3. \A t \in Streams : app'[t] \notin Unlisted => app[t] \notin Unlisted
  BY <1>1 DEF Open, OpenFails, Start, StopCall, StopWait, StopDone, Close, Free, DeviceReady,
              DrainOver, Unlisted
<1>4. QED
  BY <1>2, <1>3, SlotsKept

LEMMA SlotsInvariance == Spec => []OneSlotEach
<1>1. Init => OneSlotEach
  BY DEF Init, OneSlotEach, Unlisted
<1>2. IInv /\ OneSlotEach /\ [Next]_vars => OneSlotEach'
  <2> SUFFICES ASSUME IInv, OneSlotEach, [Next]_vars PROVE OneSlotEach'
    OBVIOUS
  <2>1. CASE alsa_run
    BY <2>1, RunKeepsSlots
  <2>2. CASE Destroy \/ Join \/ UNCHANGED vars
    BY <2>2, SlotsKept DEF Destroy, Join, vars, contextVars
  <2>3. QED
    BY <2>1, <2>2, RegisterKeepsSlots, UnregisterKeepsSlots, CallKeepsSlots DEF Next
<1>3. QED
  BY <1>1, <1>2, Invariance, PTL DEF Spec
----------------------------------------------------------------------------
\* A registered stream has one slot, any other none.
LEMMA SlotsCounted ==
  ASSUME IInv, OneSlotEach, NEW s \in Streams
  PROVE  Cardinality({i \in Slots : streams[i] = s}) = IF app[s] \in Unlisted THEN 0 ELSE 1
<1>1. CASE app[s] \in Unlisted
  <2>1. {i \in Slots : streams[i] = s} = {}
    BY <1>1 DEF IInv, NotListed
  <2>2. QED
    BY <1>1, <2>1, FS_EmptySet
<1>2. CASE app[s] \notin Unlisted
  <2>1. PICK i \in Slots : streams[i] = s
    BY <1>2 DEF OneSlotEach
  <2>2. {k \in Slots : streams[k] = s} = {i}
    BY <2>1, StreamsAssumption DEF OneSlotEach
  <2>3. QED
    BY <1>2, <2>2, FS_Singleton
<1>3. QED
  BY <1>1, <1>2

\* While a stream is being opened not every slot can be taken: there are fewer
\* other streams than slots.
LEMMA SlotIsFree ==
  ASSUME IInv, OneSlotEach, NEW s \in Streams, app[s] = "opening"
  PROVE  \E i \in Slots : streams[i] = NoStream
<1> DEFINE others == Present \ {s}
<1>1. streams \in [Slots -> Streams \cup {NoStream}] /\ active_streams \in 0..CUBEB_STREAM_MAX
  BY DEF IInv, TypeOK
<1>2. IsFiniteSet(Slots) /\ Cardinality(Slots) = CUBEB_STREAM_MAX
  BY BoundsAssumption, FS_Interval DEF Slots
<1>3. s \in Present /\ active_streams = Cardinality(Present)
  BY DEF Present, IInv, Counted
<1>4. IsFiniteSet(others) /\ Cardinality(others) = Cardinality(Present) - 1
  BY <1>3, PresentFinite, FS_RemoveElement
<1>5. Cardinality(others) < Cardinality(Slots)
  BY <1>1, <1>2, <1>3, <1>4, BoundsAssumption
<1>6. SUFFICES ASSUME \A i \in Slots : streams[i] # NoStream PROVE FALSE
  OBVIOUS
<1>7. streams \in [Slots -> others]
  BY <1>1, <1>6 DEF IInv, NotListed, Unlisted, Present
<1>8. \E i, j \in Slots : i # j /\ streams[i] = streams[j]
  <2> HIDE DEF others
  <2>1. QED
    BY <1>2, <1>4, <1>5, <1>7, FS_PigeonHole
<1>9. QED
  BY <1>6, <1>8 DEF OneSlotEach

\* The count of streams, the streams and the slots agree, and a stream that was
\* counted finds a slot, so that alsa_register_stream does not fail for lack of one.
THEOREM PlacesAlwaysAgree == Spec => []PlacesAgree
<1>1. IInv /\ OneSlotEach => PlacesAgree
  <2> SUFFICES ASSUME IInv, OneSlotEach PROVE PlacesAgree
    OBVIOUS
  <2>1. active_streams = Cardinality({s \in Streams : app[s] # "none"})
    BY DEF IInv, Counted, Present
  <2>2. ASSUME NEW s \in Streams
        PROVE  Cardinality({i \in Slots : streams[i] = s}) =
                 IF app[s] \in {"stopped", "open", "stop", "stop wait", "closed"} THEN 1 ELSE 0
    <3>1. app[s] \in AppStates
      BY DEF IInv, TypeOK, AppStates
    <3>2. QED
      BY <3>1, SlotsCounted DEF AppStates, Unlisted
  <2>3. (\E s \in Streams : app[s] = "opening") => \E i \in Slots : streams[i] = NoStream
    BY SlotIsFree
  <2>4. QED
    BY <2>1, <2>2, <2>3 DEF PlacesAgree
<1>2. QED
  BY <1>1, Invariance, SlotsInvariance, PTL
=============================================================================
