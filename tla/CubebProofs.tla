---------------------------- MODULE CubebProofs ----------------------------
(***************************************************************************)
(* The library, whatever backends are compiled into it and whichever of    *)
(* them was chosen.  First the two backends with the most actors, AudioUnit *)
(* and AAudio, in the form of BackendProofs; then the library: the         *)
(* inductive invariant is that of the backend that was chosen, and what    *)
(* cubeb.h promises of a stream follows from it.                           *)
(***************************************************************************)
EXTENDS BackendProofs

----------------------------------------------------------------------------
(* The AudioUnit backend *)

\* What the invariant asks of the stream u, of what runs and listens, of where
\* everyone is, and of the queue: whether a task to set the stream up again
\* (reinits) and one to close it (closes) wait in it, and in which order (q).
AudioUnitKeeps(u, running, listening, io, notice, task, mutex, user, failed, reinits, closes, q) ==
  /\ u \in AudioUnit!Streams /\ running \subseteq {"i", "o"}
  /\ listening \subseteq {"system", "device"} /\ io \in {"idle", "call"}
  /\ notice \in {"idle", "async"} /\ task \in AudioUnit!Tasks
  /\ mutex \in {"free", "app", "task"} /\ failed \in {"none", "units", "freed"}
  /\ user \in {"none", "idle", "running", "stopping", "stopped", "destroy", "close", "join", "done"}
  /\ mutex = "app" <=> user = "stopping"
  /\ mutex = "task" <=> task \in {"stop", "setup"}
  /\ u.shutdown /\ user # "stopping" => io = "idle" /\ running = {}
  /\ user \in {"none", "stopping", "stopped", "close", "join", "done"} => u.shutdown
  /\ u.freed => u.destroying /\ user = "done"
  /\ u.destroying => user \in {"join", "done"}
  /\ closes => user = "join" /\ task # "close"
  /\ task = "close" => user = "join"
  /\ user = "join" => u.destroying
  /\ reinits \/ task \notin {"idle", "close"} => u.pending
  /\ u.kind # "output" /\ ~u.units /\ ~u.freed =>
       /\ running = {} /\ ~reinits
       /\ task \in {"idle", "close", "error", "switched", "pending"}
       /\ task = "error" => listening \subseteq {"system"}
       /\ task # "error" => listening = {} /\ notice = "idle"
  /\ task \notin {"idle", "close"} => ~reinits
  /\ u.freed => /\ io = "idle" /\ running = {} /\ ~u.units
                /\ listening = {} /\ notice = "idle" /\ task = "idle"
  /\ failed = "units" => u.kind = "output"
  /\ failed = "freed" => u.relisten
  /\ ~u.relisten => /\ user \in {"destroy", "close", "join"} => listening = {} /\ notice = "idle"
                    /\ Len(q) = 2 => q[1] # "close"
                    /\ task = "close" \/ u.freed => q = <<>>

\* The queue holds each of its two tasks at most once.
AudioUnitOnce ==
  /\ v5 \in Seq({"reinit", "close"}) /\ Len(v5) <= 2
  /\ \A i, j \in AudioUnit!Reinits : i = j
  /\ \A i, j \in AudioUnit!Closes : i = j

\* Only a stream that only plays has its output as its one unit.
LEMMA AudioUnitOwn ==
  ASSUME CubebAssumption, stm \in AudioUnit!Streams
  PROVE  /\ stm.kind \in {"output", "input", "duplex"}
         /\ AudioUnit!Own = {"o"} <=> stm.kind = "output"
         /\ AudioUnit!Own \subseteq {"i", "o"}
  <1>1. stm.kind \in {"output", "input", "duplex"}
    BY DEF CubebAssumption, AudioUnit!AudioUnitAssumption, AudioUnit!Streams
  <1>2. CASE stm.kind = "output"
    BY <1>2 DEF AudioUnit!Own
  <1>3. CASE stm.kind = "input"
    BY <1>3 DEF AudioUnit!Own
  <1>4. CASE stm.kind = "duplex"
    BY <1>4 DEF AudioUnit!Own
  <1> QED BY <1>1, <1>2, <1>3, <1>4

\* The invariant in these terms.
LEMMA AudioUnitBefore ==
  ASSUME CubebAssumption, AudioUnit!IInv
  PROVE  /\ AudioUnitOnce
         /\ AudioUnitKeeps(stm, v1, v2, v3, v4, thread, v6, app, fault,
                           AudioUnit!Reinits # {}, AudioUnit!Closes # {}, v5)
  <1>1. AudioUnitOnce
    BY DEF AudioUnit!IInv, AudioUnit!TypeOK, AudioUnit!OneReinit, AudioUnit!QueueFits, AudioUnitOnce
  <1>2. stm \in AudioUnit!Streams
    BY DEF AudioUnit!IInv, AudioUnit!TypeOK
  <1>3. AudioUnit!Own = {"o"} <=> stm.kind = "output"
    BY <1>2, AudioUnitOwn
  <1>4. AudioUnitKeeps(stm, v1, v2, v3, v4, thread, v6, app, fault,
                       AudioUnit!Reinits # {}, AudioUnit!Closes # {}, v5)
    BY <1>3 DEF AudioUnit!IInv, AudioUnit!TypeOK, AudioUnit!MutexFits, AudioUnit!FlagsFit,
       AudioUnit!QueueFits, AudioUnit!UnitsFit, AudioUnit!OneReinit, AudioUnit!FreedIsGone,
       AudioUnit!FaultsAreKnown, AudioUnit!RelistenFits, AudioUnitKeeps
  <1> QED BY <1>1, <1>4

\* What is enough for the invariant to hold after a step.
LEMMA AudioUnitGoesOn ==
  ASSUME CubebAssumption, AudioUnitOnce',
         AudioUnitKeeps(stm', v1', v2', v3', v4', thread', v6', app', fault',
                        AudioUnit!Reinits' # {}, AudioUnit!Closes' # {}, v5')
  PROVE  AudioUnit!IInv'
  <1>1. stm' \in AudioUnit!Streams
    BY DEF AudioUnitKeeps
  <1>2. stm'.kind \in {"output", "input", "duplex"}
    BY <1>1 DEF CubebAssumption, AudioUnit!AudioUnitAssumption, AudioUnit!Streams
  <1>3. AudioUnit!Own' = {"o"} <=> stm'.kind = "output"
    <2>1. CASE stm'.kind = "output"
      BY <2>1 DEF AudioUnit!Own
    <2>2. CASE stm'.kind = "input"
      BY <2>2 DEF AudioUnit!Own
    <2>3. CASE stm'.kind = "duplex"
      BY <2>3 DEF AudioUnit!Own
    <2> QED BY <1>2, <2>1, <2>2, <2>3
  <1>4. AudioUnit!TypeOK'
    BY DEF AudioUnitKeeps, AudioUnitOnce, AudioUnit!TypeOK
  <1>5. AudioUnit!MutexFits' /\ AudioUnit!FlagsFit' /\ AudioUnit!FreedIsGone' /\ AudioUnit!RelistenFits'
    <2>1. AudioUnit!MutexFits' /\ AudioUnit!FlagsFit'
      BY DEF AudioUnitKeeps, AudioUnit!MutexFits, AudioUnit!FlagsFit
    <2>2. AudioUnit!FreedIsGone' /\ AudioUnit!RelistenFits'
      BY DEF AudioUnitKeeps, AudioUnit!FreedIsGone, AudioUnit!RelistenFits
    <2> QED BY <2>1, <2>2
  <1>6. AudioUnit!QueueFits' /\ AudioUnit!OneReinit'
    BY DEF AudioUnitKeeps, AudioUnitOnce, AudioUnit!QueueFits, AudioUnit!OneReinit
  <1>7. AudioUnit!UnitsFit' /\ AudioUnit!FaultsAreKnown'
    BY <1>3 DEF AudioUnitKeeps, AudioUnit!UnitsFit, AudioUnit!FaultsAreKnown
  <1> QED BY <1>4, <1>5, <1>6, <1>7 DEF AudioUnit!IInv

\* A step that leaves the queue alone.
LEMMA AudioUnitQueueStays ==
  ASSUME AudioUnitOnce, UNCHANGED v5
  PROVE  AudioUnitOnce' /\ UNCHANGED <<AudioUnit!Reinits, AudioUnit!Closes>>
  BY DEF AudioUnitOnce, AudioUnit!Reinits, AudioUnit!Closes

\* A task that is put into the queue and was not there.
LEMMA AudioUnitReinitAppended ==
  ASSUME AudioUnitOnce, AudioUnit!Reinits = {}, v5' = Append(v5, "reinit")
  PROVE  /\ AudioUnitOnce' /\ AudioUnit!Reinits' # {} /\ UNCHANGED AudioUnit!Closes
         /\ AudioUnit!Closes = {} => Len(v5') = 1
  <1>1. /\ v5 \in Seq({"reinit", "close"}) /\ Len(v5) \in Nat /\ DOMAIN v5 = 1..Len(v5)
        /\ \A i \in 1..Len(v5) : v5[i] \in {"reinit", "close"}
    BY DEF AudioUnitOnce
  <1>2. \A i \in 1..Len(v5) : v5[i] = "close"
    BY <1>1 DEF AudioUnit!Reinits
  <1>3. ~(Len(v5) = 2)
    <2>1. SUFFICES ASSUME Len(v5) = 2 PROVE FALSE
      OBVIOUS
    <2>2. 1 \in AudioUnit!Closes /\ 2 \in AudioUnit!Closes
      BY <1>1, <1>2, <2>1 DEF AudioUnit!Closes
    <2>3. \A i, j \in AudioUnit!Closes : i = j
      BY DEF AudioUnitOnce
    <2>4. 1 = 2
      BY <2>2, <2>3, Zenon
    <2> QED BY <2>4
  <1>4. /\ v5' \in Seq({"reinit", "close"}) /\ Len(v5') = Len(v5) + 1
        /\ DOMAIN v5' = 1..Len(v5') /\ v5'[Len(v5) + 1] = "reinit"
        /\ \A i \in 1..Len(v5) : v5'[i] = v5[i]
    BY <1>1
  <1>5. Len(v5') <= 2
    BY <1>1, <1>3, <1>4 DEF AudioUnitOnce
  <1>6. AudioUnit!Reinits' = {Len(v5) + 1}
    BY <1>1, <1>2, <1>4 DEF AudioUnit!Reinits
  <1>7. AudioUnit!Closes' = AudioUnit!Closes
    BY <1>1, <1>2, <1>4 DEF AudioUnit!Closes
  <1>8. AudioUnit!Closes = {} => Len(v5') = 1
    <2>1. SUFFICES ASSUME AudioUnit!Closes = {}, Len(v5) # 0 PROVE FALSE
      BY <1>1, <1>4
    <2>2. 1 \in AudioUnit!Closes
      BY <1>1, <1>2, <2>1 DEF AudioUnit!Closes
    <2> QED BY <2>1, <2>2
  <1> QED BY <1>4, <1>5, <1>6, <1>7, <1>8 DEF AudioUnitOnce

\* The same of the task that closes the stream.
LEMMA AudioUnitCloseAppended ==
  ASSUME AudioUnitOnce, AudioUnit!Closes = {}, v5' = Append(v5, "close")
  PROVE  /\ AudioUnitOnce' /\ AudioUnit!Closes' # {} /\ UNCHANGED AudioUnit!Reinits
         /\ Len(v5') = 2 => v5'[1] # "close"
  <1>1. /\ v5 \in Seq({"reinit", "close"}) /\ Len(v5) \in Nat /\ DOMAIN v5 = 1..Len(v5)
        /\ \A i \in 1..Len(v5) : v5[i] \in {"reinit", "close"}
    BY DEF AudioUnitOnce
  <1>2. \A i \in 1..Len(v5) : v5[i] = "reinit"
    BY <1>1 DEF AudioUnit!Closes
  <1>3. ~(Len(v5) = 2)
    <2>1. SUFFICES ASSUME Len(v5) = 2 PROVE FALSE
      OBVIOUS
    <2>2. 1 \in AudioUnit!Reinits /\ 2 \in AudioUnit!Reinits
      BY <1>1, <1>2, <2>1 DEF AudioUnit!Reinits
    <2>3. \A i, j \in AudioUnit!Reinits : i = j
      BY DEF AudioUnitOnce
    <2>4. 1 = 2
      BY <2>2, <2>3, Zenon
    <2> QED BY <2>4
  <1>4. /\ v5' \in Seq({"reinit", "close"}) /\ Len(v5') = Len(v5) + 1
        /\ DOMAIN v5' = 1..Len(v5') /\ v5'[Len(v5) + 1] = "close"
        /\ \A i \in 1..Len(v5) : v5'[i] = v5[i]
    BY <1>1
  <1>5. Len(v5') <= 2
    BY <1>1, <1>3, <1>4 DEF AudioUnitOnce
  <1>6. AudioUnit!Closes' = {Len(v5) + 1}
    BY <1>1, <1>2, <1>4 DEF AudioUnit!Closes
  <1>7. AudioUnit!Reinits' = AudioUnit!Reinits
    BY <1>1, <1>2, <1>4 DEF AudioUnit!Reinits
  <1>8. Len(v5') = 2 => v5'[1] # "close"
    BY <1>1, <1>2, <1>4
  <1> QED BY <1>4, <1>5, <1>6, <1>7, <1>8 DEF AudioUnitOnce

\* A task that is taken from the queue is not in it any more, and none is new.
LEMMA AudioUnitDequeued ==
  ASSUME AudioUnitOnce, v5 # <<>>, v5' = Tail(v5)
  PROVE  /\ AudioUnitOnce' /\ Head(v5) \in {"reinit", "close"}
         /\ AudioUnit!Reinits' # {} => AudioUnit!Reinits # {} /\ Head(v5) # "reinit"
         /\ AudioUnit!Closes' # {} => AudioUnit!Closes # {} /\ Head(v5) # "close"
         /\ Head(v5) = "reinit" => AudioUnit!Reinits # {}
         /\ Head(v5) = "close" => AudioUnit!Closes # {}
         /\ Len(v5') # 2 /\ (Head(v5) = "close" => (Len(v5) = 2 /\ v5[1] = "close") \/ v5' = <<>>)
  <1>1. /\ v5 \in Seq({"reinit", "close"}) /\ Len(v5) \in Nat /\ Len(v5) # 0
        /\ DOMAIN v5 = 1..Len(v5) /\ Head(v5) = v5[1] /\ Len(v5) <= 2
        /\ \A i \in 1..Len(v5) : v5[i] \in {"reinit", "close"}
    BY DEF AudioUnitOnce
  <1>2. /\ v5' \in Seq({"reinit", "close"}) /\ Len(v5') = Len(v5) - 1 /\ DOMAIN v5' = 1..Len(v5')
        /\ \A i \in 1..Len(v5') : v5'[i] = v5[i + 1] /\ i + 1 \in 1..Len(v5)
    BY <1>1
  <1>3. 1 \in DOMAIN v5
    BY <1>1
  <1>4. \A i \in AudioUnit!Reinits' : i \in Nat /\ i > 0 /\ i + 1 \in AudioUnit!Reinits
    BY <1>1, <1>2 DEF AudioUnit!Reinits
  <1>5. \A i \in AudioUnit!Closes' : i \in Nat /\ i > 0 /\ i + 1 \in AudioUnit!Closes
    BY <1>1, <1>2 DEF AudioUnit!Closes
  <1>6. /\ Head(v5) = "reinit" => 1 \in AudioUnit!Reinits
        /\ Head(v5) = "close" => 1 \in AudioUnit!Closes
    BY <1>1, <1>3 DEF AudioUnit!Reinits, AudioUnit!Closes
  <1>7. /\ \A i, j \in AudioUnit!Reinits : i = j
        /\ \A i, j \in AudioUnit!Closes : i = j
    BY DEF AudioUnitOnce
  <1>8. \A i, j \in AudioUnit!Reinits' : i = j
    <2> TAKE i, j \in AudioUnit!Reinits'
    <2>1. i + 1 = j + 1
      BY <1>4, <1>7, Zenon
    <2> QED BY <1>4, <2>1
  <1>9. \A i, j \in AudioUnit!Closes' : i = j
    <2> TAKE i, j \in AudioUnit!Closes'
    <2>1. i + 1 = j + 1
      BY <1>5, <1>7, Zenon
    <2> QED BY <1>5, <2>1
  <1>10. ASSUME NEW i \in AudioUnit!Reinits' PROVE Head(v5) # "reinit"
    <2>1. SUFFICES ASSUME Head(v5) = "reinit" PROVE FALSE
      OBVIOUS
    <2>2. i + 1 = 1
      BY <1>4, <1>6, <1>7, <2>1, Zenon
    <2> QED BY <1>4, <2>2
  <1>11. ASSUME NEW i \in AudioUnit!Closes' PROVE Head(v5) # "close"
    <2>1. SUFFICES ASSUME Head(v5) = "close" PROVE FALSE
      OBVIOUS
    <2>2. i + 1 = 1
      BY <1>5, <1>6, <1>7, <2>1, Zenon
    <2> QED BY <1>5, <2>2
  <1>12. AudioUnitOnce'
    BY <1>1, <1>2, <1>8, <1>9 DEF AudioUnitOnce
  <1>13. Head(v5) \in {"reinit", "close"}
    BY <1>1, <1>3
  <1>14. /\ AudioUnit!Reinits' # {} => AudioUnit!Reinits # {} /\ Head(v5) # "reinit"
         /\ AudioUnit!Closes' # {} => AudioUnit!Closes # {} /\ Head(v5) # "close"
    BY <1>4, <1>5, <1>10, <1>11, Zenon
  <1>15. Len(v5') # 2 /\ (Head(v5) = "close" => (Len(v5) = 2 /\ v5[1] = "close") \/ v5' = <<>>)
    <2>1. Len(v5') = 0 => v5' = <<>>
      BY <1>2
    <2>2. Len(v5) # 2 => Len(v5') = 0
      BY <1>1, <1>2
    <2>3. Len(v5') # 2
      BY <1>1, <1>2
    <2> QED BY <1>1, <2>1, <2>2, <2>3
  <1> QED BY <1>6, <1>12, <1>13, <1>14, <1>15

\* The stream and its units start as the invariant says.
LEMMA AudioUnitInit ==
  ASSUME CubebAssumption, AudioUnit!Init PROVE AudioUnit!IInv
  <1>1. PICK k \in Kinds :
          stm = [kind |-> k, units |-> FALSE, shutdown |-> TRUE, draining |-> FALSE,
                 switching |-> FALSE, pending |-> FALSE, destroying |-> FALSE, freed |-> FALSE,
                 relisten |-> FALSE, told |-> "none"]
    BY DEF AudioUnit!Init
  <1>2. /\ v1 = {} /\ v2 = {} /\ v3 = "idle" /\ v4 = "idle" /\ v5 = <<>>
        /\ thread = "idle" /\ v6 = "free" /\ app = "none" /\ fault = "none"
    BY DEF AudioUnit!Init
  <1>3. /\ stm \in AudioUnit!Streams /\ ~stm.units /\ stm.shutdown /\ ~stm.freed /\ ~stm.destroying
        /\ ~stm.pending
    BY <1>1 DEF AudioUnit!Streams
  <1>4. v5 \in Seq({"reinit", "close"}) /\ Len(v5) <= 2 /\ DOMAIN v5 = {}
    <2>1. v5 = <<>>
      BY <1>2
    <2> QED BY <2>1
  <1>5. AudioUnit!Reinits = {} /\ AudioUnit!Closes = {}
    BY <1>4 DEF AudioUnit!Reinits, AudioUnit!Closes
  <1>6. AudioUnit!TypeOK
    <2>1. /\ v1 \subseteq {"i", "o"} /\ v2 \subseteq {"system", "device"} /\ v3 \in {"idle", "call"}
          /\ v4 \in {"idle", "async"} /\ thread \in AudioUnit!Tasks
          /\ v6 \in {"free", "app", "task"} /\ fault \in {"none", "units", "freed"}
          /\ app \in {"none", "idle", "running", "stopping", "stopped", "destroy", "close", "join",
                     "done"}
      BY <1>2 DEF AudioUnit!Tasks
    <2> QED BY <1>3, <1>4, <2>1 DEF AudioUnit!TypeOK
  <1>7. AudioUnit!MutexFits /\ AudioUnit!FlagsFit /\ AudioUnit!FreedIsGone /\ AudioUnit!FaultsAreKnown
    BY <1>2, <1>3
       DEF AudioUnit!MutexFits, AudioUnit!FlagsFit, AudioUnit!FreedIsGone, AudioUnit!FaultsAreKnown
  <1>8. /\ AudioUnit!QueueFits /\ AudioUnit!OneReinit /\ AudioUnit!UnitsFit
        /\ AudioUnit!RelistenFits
    <2>1. AudioUnit!QueueFits /\ AudioUnit!OneReinit /\ AudioUnit!UnitsFit
      BY <1>2, <1>3, <1>5 DEF AudioUnit!QueueFits, AudioUnit!OneReinit, AudioUnit!UnitsFit
    <2>2. Len(v5) # 2
      BY <1>2
    <2> QED BY <1>2, <2>1, <2>2 DEF AudioUnit!RelistenFits
  <1> QED BY <1>6, <1>7, <1>8 DEF AudioUnit!IInv

\* Every step of the user preserves the invariant.
LEMMA AudioUnitAppStep ==
  ASSUME CubebAssumption, AudioUnit!IInv, AudioUnit!AppNext PROVE AudioUnit!IInv'
  <1>0. AudioUnitOnce /\ stm \in AudioUnit!Streams
        /\ AudioUnitKeeps(stm, v1, v2, v3, v4, thread, v6, app, fault,
                          AudioUnit!Reinits # {}, AudioUnit!Closes # {}, v5)
    BY AudioUnitBefore DEF AudioUnitKeeps
  <1>q. UNCHANGED v5 => AudioUnitOnce' /\ UNCHANGED <<AudioUnit!Reinits, AudioUnit!Closes>>
    BY <1>0, AudioUnitQueueStays
  <1>o. /\ stm.kind \in {"output", "input", "duplex"}
        /\ AudioUnit!Own = {"o"} <=> stm.kind = "output"
        /\ AudioUnit!Own \subseteq {"i", "o"}
    BY <1>0, AudioUnitOwn
  <1>1. CASE AudioUnit!StreamInit
    <2>1. /\ fault = "none" /\ app = "none" /\ UNCHANGED <<v1, v3, v4, v5, thread, v6, fault>>
          /\ \/ stm' = [stm EXCEPT !.units = TRUE] /\ v2' = {"system", "device"} /\ app' = "idle"
             \/ app' = "done" /\ UNCHANGED <<stm, v2>>
      BY <1>1 DEF AudioUnit!StreamInit
    <2>2. CASE stm' = [stm EXCEPT !.units = TRUE] /\ v2' = {"system", "device"} /\ app' = "idle"
      <3>1. /\ stm' \in AudioUnit!Streams
            /\ stm'.units /\ stm'.kind = stm.kind /\ stm'.shutdown = stm.shutdown
            /\ stm'.pending = stm.pending /\ stm'.destroying = stm.destroying
            /\ stm'.freed = stm.freed /\ stm'.relisten = stm.relisten
        BY <1>0, <2>2 DEF AudioUnit!Streams
      <3>2. AudioUnitKeeps(stm', v1', v2', v3', v4', thread', v6', app', fault',
                         AudioUnit!Reinits' # {}, AudioUnit!Closes' # {}, v5')
        BY <1>0, <1>q, <2>1, <2>2, <3>1 DEF AudioUnitKeeps
      <3> QED BY <1>q, <2>1, <3>2, AudioUnitGoesOn
    <2>3. CASE app' = "done" /\ UNCHANGED <<stm, v2>>
      <3>1. AudioUnitKeeps(stm', v1', v2', v3', v4', thread', v6', app', fault',
                         AudioUnit!Reinits' # {}, AudioUnit!Closes' # {}, v5')
        BY <1>0, <1>q, <2>1, <2>3 DEF AudioUnitKeeps
      <3> QED BY <1>q, <2>1, <3>1, AudioUnitGoesOn
    <2> QED BY <2>1, <2>2, <2>3
  <1>2. CASE AudioUnit!Start
    <2>1. PICK ok \in BOOLEAN :
            /\ stm' = [stm EXCEPT !.shutdown = FALSE, !.draining = FALSE,
                                  !.told = IF ok THEN "started" ELSE stm.told]
            /\ v1' \in IF stm.units THEN AudioUnit!Started(ok) ELSE {{}}
            /\ app' = IF ok THEN "running" ELSE "idle"
      BY <1>2 DEF AudioUnit!Start
    <2>2. /\ fault = "none" /\ app \in {"idle", "stopped"} /\ v6 = "free"
          /\ UNCHANGED <<v2, v3, v4, v5, thread, v6, fault>>
      BY <1>2 DEF AudioUnit!Start
    <2>3. v1' \subseteq {"i", "o"} /\ (~stm.units => v1' = {})
      BY <1>o, <2>1 DEF AudioUnit!Started
    <2>4. app' \in {"running", "idle"}
      BY <2>1
    <2>5. /\ stm' \in AudioUnit!Streams /\ ~stm'.shutdown
          /\ stm'.kind = stm.kind /\ stm'.units = stm.units /\ stm'.pending = stm.pending
          /\ stm'.destroying = stm.destroying /\ stm'.freed = stm.freed /\ stm'.relisten = stm.relisten
      BY <1>0, <2>1 DEF AudioUnit!Streams
    <2>6. AudioUnitKeeps(stm', v1', v2', v3', v4', thread', v6', app', fault',
                         AudioUnit!Reinits' # {}, AudioUnit!Closes' # {}, v5')
      BY <1>0, <1>q, <2>2, <2>3, <2>4, <2>5 DEF AudioUnitKeeps
    <2> QED BY <1>q, <2>2, <2>6, AudioUnitGoesOn
  <1>3. CASE AudioUnit!Stop
    <2>1. /\ fault = "none" /\ app \in {"idle", "running"} /\ v6 = "free" /\ v6' = "app" /\ app' = "stopping"
          /\ stm' = [stm EXCEPT !.shutdown = TRUE] /\ UNCHANGED <<v1, v2, v3, v4, v5, thread, fault>>
      BY <1>3 DEF AudioUnit!Stop
    <2>2. /\ stm' \in AudioUnit!Streams
          /\ stm'.kind = stm.kind
          /\ stm'.units = stm.units
          /\ stm'.shutdown
          /\ stm'.pending = stm.pending
          /\ stm'.destroying = stm.destroying
          /\ stm'.freed = stm.freed /\ stm'.relisten = stm.relisten
      BY <1>0, <2>1 DEF AudioUnit!Streams
    <2>3. AudioUnitKeeps(stm', v1', v2', v3', v4', thread', v6', app', fault',
                         AudioUnit!Reinits' # {}, AudioUnit!Closes' # {}, v5')
      BY <1>0, <2>1, <2>2, <1>q DEF AudioUnitKeeps, AudioUnit!Tasks
    <2> QED BY <1>q, <2>1, <2>3, AudioUnitGoesOn
  <1>4. CASE AudioUnit!StopEnds
    <2>1. /\ fault = "none" /\ app = "stopping" /\ v3 = "idle" /\ v1' = {} /\ v6' = "free" /\ app' = "stopped"
          /\ stm' = [stm EXCEPT !.told = "stopped"] /\ UNCHANGED <<v2, v3, v4, v5, thread, fault>>
      BY <1>4 DEF AudioUnit!StopEnds
    <2>2. /\ stm' \in AudioUnit!Streams
          /\ stm'.kind = stm.kind
          /\ stm'.units = stm.units
          /\ stm'.shutdown = stm.shutdown
          /\ stm'.pending = stm.pending
          /\ stm'.destroying = stm.destroying
          /\ stm'.freed = stm.freed /\ stm'.relisten = stm.relisten
      BY <1>0, <2>1 DEF AudioUnit!Streams
    <2>3. AudioUnitKeeps(stm', v1', v2', v3', v4', thread', v6', app', fault',
                         AudioUnit!Reinits' # {}, AudioUnit!Closes' # {}, v5')
      BY <1>0, <2>1, <2>2, <1>q DEF AudioUnitKeeps, AudioUnit!Tasks
    <2> QED BY <1>q, <2>1, <2>3, AudioUnitGoesOn
  <1>5. CASE AudioUnit!Destroy
    <2>1. /\ fault = "none" /\ app \in {"idle", "stopped"} /\ v4 = "idle" /\ v2' = {} /\ app' = "destroy"
          /\ UNCHANGED <<stm, v1, v3, v4, v5, thread, v6, fault>>
      BY <1>5 DEF AudioUnit!Destroy
    <2>3. AudioUnitKeeps(stm', v1', v2', v3', v4', thread', v6', app', fault',
                         AudioUnit!Reinits' # {}, AudioUnit!Closes' # {}, v5')
      BY <1>0, <2>1, <1>q DEF AudioUnitKeeps, AudioUnit!Tasks
    <2> QED BY <1>q, <2>1, <2>3, AudioUnitGoesOn
  <1>6. CASE AudioUnit!DestroyStops
    <2>1. /\ fault = "none" /\ app = "destroy" /\ app' = "close"
          /\ UNCHANGED <<v2, v3, v4, v5, thread, v6, fault>>
          /\ \/ stm.shutdown /\ UNCHANGED <<stm, v1>>
             \/ v3 = "idle" /\ v1' = {} /\ stm' = [stm EXCEPT !.shutdown = TRUE]
      BY <1>6 DEF AudioUnit!DestroyStops
    <2>2. CASE stm.shutdown /\ UNCHANGED <<stm, v1>>
      <3>1. AudioUnitKeeps(stm', v1', v2', v3', v4', thread', v6', app', fault',
                         AudioUnit!Reinits' # {}, AudioUnit!Closes' # {}, v5')
        BY <1>0, <1>q, <2>1, <2>2 DEF AudioUnitKeeps
      <3> QED BY <1>q, <2>1, <3>1, AudioUnitGoesOn
    <2>3. CASE v3 = "idle" /\ v1' = {} /\ stm' = [stm EXCEPT !.shutdown = TRUE]
      <3>1. /\ stm' \in AudioUnit!Streams /\ stm'.shutdown
            /\ stm'.kind = stm.kind /\ stm'.units = stm.units /\ stm'.pending = stm.pending
            /\ stm'.destroying = stm.destroying /\ stm'.freed = stm.freed /\ stm'.relisten = stm.relisten
        BY <1>0, <2>3 DEF AudioUnit!Streams
      <3>2. AudioUnitKeeps(stm', v1', v2', v3', v4', thread', v6', app', fault',
                         AudioUnit!Reinits' # {}, AudioUnit!Closes' # {}, v5')
        BY <1>0, <1>q, <2>1, <2>3, <3>1 DEF AudioUnitKeeps
      <3> QED BY <1>q, <2>1, <3>2, AudioUnitGoesOn
    <2> QED BY <2>1, <2>2, <2>3
  <1>7. CASE AudioUnit!DestroyCloses
    <2>1. /\ fault = "none" /\ app = "close" /\ app' = "join" /\ v5' = Append(v5, "close")
          /\ stm' = [stm EXCEPT !.destroying = TRUE]
          /\ UNCHANGED <<v1, v2, v3, v4, thread, v6, fault>>
      BY <1>7 DEF AudioUnit!DestroyCloses
    <2>2. AudioUnit!Closes = {} /\ thread # "close"
      BY <1>0, <2>1 DEF AudioUnitKeeps
    <2>3. /\ AudioUnitOnce' /\ AudioUnit!Closes' # {} /\ UNCHANGED AudioUnit!Reinits
          /\ Len(v5') = 2 => v5'[1] # "close"
      BY <1>0, <2>1, <2>2, AudioUnitCloseAppended
    <2>4. /\ stm' \in AudioUnit!Streams /\ stm'.destroying
          /\ stm'.kind = stm.kind /\ stm'.units = stm.units /\ stm'.pending = stm.pending
          /\ stm'.shutdown = stm.shutdown /\ stm'.freed = stm.freed /\ stm'.relisten = stm.relisten
      BY <1>0, <2>1 DEF AudioUnit!Streams
    <2>5. AudioUnitKeeps(stm', v1', v2', v3', v4', thread', v6', app', fault',
                         AudioUnit!Reinits' # {}, AudioUnit!Closes' # {}, v5')
      BY <1>0, <2>1, <2>2, <2>3, <2>4 DEF AudioUnitKeeps
    <2> QED BY <2>3, <2>5, AudioUnitGoesOn
  <1> QED
    BY <1>1, <1>2, <1>3, <1>4, <1>5, <1>6, <1>7 DEF AudioUnit!AppNext

\* A notice that asks for the stream to be set up again.
LEMMA AudioUnitAsync ==
  ASSUME CubebAssumption, AudioUnit!IInv, AudioUnit!Async, v4' = v4 \/ v4' = "idle",
         UNCHANGED <<v1, v2, v3, thread, v6, app, fault>>,
         stm.pending \/ stm.kind = "output" \/ stm.units \/ stm.freed,
         stm.relisten \/ app \notin {"join", "done"} \/ (app # "join" /\ ~stm.freed)
  PROVE  AudioUnit!IInv'
  <1>0. AudioUnitOnce /\ stm \in AudioUnit!Streams
        /\ AudioUnitKeeps(stm, v1, v2, v3, v4, thread, v6, app, fault,
                          AudioUnit!Reinits # {}, AudioUnit!Closes # {}, v5)
    BY AudioUnitBefore DEF AudioUnitKeeps
  <1>q. UNCHANGED v5 => AudioUnitOnce' /\ UNCHANGED <<AudioUnit!Reinits, AudioUnit!Closes>>
    BY <1>0, AudioUnitQueueStays
  <1>1. CASE UNCHANGED <<stm, v5>>
    <2>1. AudioUnitKeeps(stm', v1', v2', v3', v4', thread', v6', app', fault',
                         AudioUnit!Reinits' # {}, AudioUnit!Closes' # {}, v5')
      BY <1>0, <1>q, <1>1 DEF AudioUnitKeeps
    <2> QED BY <1>q, <1>1, <2>1, AudioUnitGoesOn
  <1>2. CASE ~stm.pending /\ stm' = [stm EXCEPT !.pending = TRUE] /\ v5' = Append(v5, "reinit")
    <2>1. AudioUnit!Reinits = {} /\ thread \in {"idle", "close"}
      BY <1>0, <1>2 DEF AudioUnitKeeps
    <2>2. /\ AudioUnitOnce' /\ AudioUnit!Reinits' # {} /\ UNCHANGED AudioUnit!Closes
          /\ AudioUnit!Closes = {} => Len(v5') = 1
      BY <1>0, <1>2, <2>1, AudioUnitReinitAppended
    <2>5. stm.relisten \/ (Len(v5') # 2 /\ thread # "close" /\ ~stm.freed)
      BY <1>0, <2>2 DEF AudioUnitKeeps
    <2>3. /\ stm' \in AudioUnit!Streams /\ stm'.pending
          /\ stm'.kind = stm.kind /\ stm'.units = stm.units /\ stm'.destroying = stm.destroying
          /\ stm'.shutdown = stm.shutdown /\ stm'.freed = stm.freed /\ stm'.relisten = stm.relisten
      BY <1>0, <1>2 DEF AudioUnit!Streams
    <2>4. AudioUnitKeeps(stm', v1', v2', v3', v4', thread', v6', app', fault',
                         AudioUnit!Reinits' # {}, AudioUnit!Closes' # {}, v5')
      BY <1>0, <1>2, <2>1, <2>2, <2>3, <2>5 DEF AudioUnitKeeps
    <2> QED BY <2>2, <2>4, AudioUnitGoesOn
  <1> QED
    BY <1>1, <1>2 DEF AudioUnit!Async, AudioUnit!IsPending

\* Every callback and notification preserves it.
LEMMA AudioUnitCallStep ==
  ASSUME CubebAssumption, AudioUnit!IInv, AudioUnit!CallNext PROVE AudioUnit!IInv'
  <1>0. AudioUnitOnce /\ stm \in AudioUnit!Streams
        /\ AudioUnitKeeps(stm, v1, v2, v3, v4, thread, v6, app, fault,
                          AudioUnit!Reinits # {}, AudioUnit!Closes # {}, v5)
    BY AudioUnitBefore DEF AudioUnitKeeps
  <1>q. UNCHANGED v5 => AudioUnitOnce' /\ UNCHANGED <<AudioUnit!Reinits, AudioUnit!Closes>>
    BY <1>0, AudioUnitQueueStays
  <1>o. /\ stm.kind \in {"output", "input", "duplex"}
        /\ AudioUnit!Own = {"o"} <=> stm.kind = "output"
        /\ AudioUnit!Own \subseteq {"i", "o"}
    BY <1>0, AudioUnitOwn
  <1>1. CASE AudioUnit!Callback
    <2>1. /\ fault = "none" /\ v3 = "idle" /\ AudioUnit!Caller \in v1 /\ ~stm.shutdown
          /\ UNCHANGED <<v2, v4, v5, thread, v6, app, fault>>
          /\ \/ stm' = [stm EXCEPT !.told = "drained"] /\ v1' \subseteq v1 /\ UNCHANGED v3
             \/ v3' = "call" /\ UNCHANGED <<stm, v1>>
      BY <1>1 DEF AudioUnit!Callback
    <2>2. CASE stm' = [stm EXCEPT !.told = "drained"] /\ v1' \subseteq v1 /\ UNCHANGED v3
      <3>1. /\ stm' \in AudioUnit!Streams /\ stm'.shutdown = stm.shutdown
            /\ stm'.kind = stm.kind /\ stm'.units = stm.units /\ stm'.pending = stm.pending
            /\ stm'.destroying = stm.destroying /\ stm'.freed = stm.freed /\ stm'.relisten = stm.relisten
        BY <1>0, <2>2 DEF AudioUnit!Streams
      <3>2. AudioUnitKeeps(stm', v1', v2', v3', v4', thread', v6', app', fault',
                         AudioUnit!Reinits' # {}, AudioUnit!Closes' # {}, v5')
        BY <1>0, <1>q, <2>1, <2>2, <3>1 DEF AudioUnitKeeps
      <3> QED BY <1>q, <2>1, <3>2, AudioUnitGoesOn
    <2>3. CASE v3' = "call" /\ UNCHANGED <<stm, v1>>
      <3>1. AudioUnitKeeps(stm', v1', v2', v3', v4', thread', v6', app', fault',
                         AudioUnit!Reinits' # {}, AudioUnit!Closes' # {}, v5')
        BY <1>0, <1>q, <2>1, <2>3 DEF AudioUnitKeeps
      <3> QED BY <1>q, <2>1, <3>1, AudioUnitGoesOn
    <2> QED BY <2>1, <2>2, <2>3
  <1>2. CASE AudioUnit!Returns
    <2>1. /\ fault = "none" /\ v3 = "call" /\ v3' = "idle" /\ UNCHANGED <<v2, v4, v5, thread, v6, app, fault>>
          /\ \/ \E short \in BOOLEAN : stm' = [stm EXCEPT !.draining = short] /\ UNCHANGED v1
             \/ stm' = [stm EXCEPT !.shutdown = TRUE, !.told = "error"] /\ v1' = {}
      BY <1>2 DEF AudioUnit!Returns
    <2>2. CASE \E short \in BOOLEAN : stm' = [stm EXCEPT !.draining = short] /\ UNCHANGED v1
      <3>1. /\ stm' \in AudioUnit!Streams /\ stm'.shutdown = stm.shutdown
            /\ stm'.kind = stm.kind /\ stm'.units = stm.units /\ stm'.pending = stm.pending
            /\ stm'.destroying = stm.destroying /\ stm'.freed = stm.freed /\ stm'.relisten = stm.relisten
        BY <1>0, <2>2 DEF AudioUnit!Streams
      <3>2. AudioUnitKeeps(stm', v1', v2', v3', v4', thread', v6', app', fault',
                         AudioUnit!Reinits' # {}, AudioUnit!Closes' # {}, v5')
        BY <1>0, <1>q, <2>1, <2>2, <3>1 DEF AudioUnitKeeps
      <3> QED BY <1>q, <2>1, <3>2, AudioUnitGoesOn
    <2>3. CASE stm' = [stm EXCEPT !.shutdown = TRUE, !.told = "error"] /\ v1' = {}
      <3>1. /\ stm' \in AudioUnit!Streams /\ stm'.shutdown
            /\ stm'.kind = stm.kind /\ stm'.units = stm.units /\ stm'.pending = stm.pending
            /\ stm'.destroying = stm.destroying /\ stm'.freed = stm.freed /\ stm'.relisten = stm.relisten
        BY <1>0, <2>3 DEF AudioUnit!Streams
      <3>2. AudioUnitKeeps(stm', v1', v2', v3', v4', thread', v6', app', fault',
                         AudioUnit!Reinits' # {}, AudioUnit!Closes' # {}, v5')
        BY <1>0, <1>q, <2>1, <2>3, <3>1 DEF AudioUnitKeeps
      <3> QED BY <1>q, <2>1, <3>2, AudioUnitGoesOn
    <2> QED BY <2>1, <2>2, <2>3
  <1>3. CASE AudioUnit!InputCallback
    <2>1. /\ fault = "none" /\ "i" \in v1 /\ ~stm.shutdown /\ UNCHANGED <<v2, v3, v4, thread, v6, app, fault>>
          /\ \/ v1' \subseteq v1 /\ UNCHANGED <<stm, v5>>
             \/ AudioUnit!Async /\ UNCHANGED v1
      BY <1>3 DEF AudioUnit!InputCallback
    <2>2. CASE v1' \subseteq v1 /\ UNCHANGED <<stm, v5>>
      <3>1. AudioUnitKeeps(stm', v1', v2', v3', v4', thread', v6', app', fault',
                         AudioUnit!Reinits' # {}, AudioUnit!Closes' # {}, v5')
        BY <1>0, <1>q, <2>1, <2>2 DEF AudioUnitKeeps
      <3> QED BY <1>q, <2>1, <2>2, <3>1, AudioUnitGoesOn
    <2>3. CASE AudioUnit!Async /\ UNCHANGED v1
      <3>1. /\ stm.kind = "output" \/ stm.units \/ stm.freed
            /\ app \notin {"join", "done"}
        BY <1>0, <2>1 DEF AudioUnitKeeps
      <3> QED BY <2>1, <2>3, <3>1, AudioUnitAsync
    <2> QED BY <2>1, <2>2, <2>3
  <1>4. CASE AudioUnit!DeviceChanged
    <2>1. /\ fault = "none" /\ v4 = "idle" /\ v2 # {} /\ v4' = "async"
          /\ stm' = [stm EXCEPT !.switching = TRUE]
          /\ UNCHANGED <<v1, v2, v3, v5, thread, v6, app, fault>>
      BY <1>4 DEF AudioUnit!DeviceChanged
    <2>2. /\ stm' \in AudioUnit!Streams /\ stm'.shutdown = stm.shutdown
          /\ stm'.kind = stm.kind /\ stm'.units = stm.units /\ stm'.pending = stm.pending
          /\ stm'.destroying = stm.destroying /\ stm'.freed = stm.freed /\ stm'.relisten = stm.relisten
      BY <1>0, <2>1 DEF AudioUnit!Streams
    <2>3. AudioUnitKeeps(stm', v1', v2', v3', v4', thread', v6', app', fault',
                         AudioUnit!Reinits' # {}, AudioUnit!Closes' # {}, v5')
      BY <1>0, <1>q, <2>1, <2>2 DEF AudioUnitKeeps
    <2> QED BY <1>q, <2>1, <2>3, AudioUnitGoesOn
  <1>5. CASE AudioUnit!NoticeAsync
    <2>1. /\ fault = "none" /\ v4 = "async" /\ AudioUnit!Async /\ v4' = "idle"
          /\ UNCHANGED <<v1, v2, v3, thread, v6, app, fault>>
      BY <1>5 DEF AudioUnit!NoticeAsync
    <2>2. /\ stm.pending \/ stm.kind = "output" \/ stm.units \/ stm.freed
          /\ stm.relisten \/ (app # "join" /\ ~stm.freed)
      BY <1>0, <2>1 DEF AudioUnitKeeps
    <2> QED BY <2>1, <2>2, AudioUnitAsync
  <1> QED
    BY <1>1, <1>2, <1>3, <1>4, <1>5 DEF AudioUnit!CallNext

\* Every step of the serial queue preserves it.
LEMMA AudioUnitTaskStep ==
  ASSUME CubebAssumption, AudioUnit!IInv, AudioUnit!TaskNext PROVE AudioUnit!IInv'
  <1>0. AudioUnitOnce /\ stm \in AudioUnit!Streams
        /\ AudioUnitKeeps(stm, v1, v2, v3, v4, thread, v6, app, fault,
                          AudioUnit!Reinits # {}, AudioUnit!Closes # {}, v5)
    BY AudioUnitBefore DEF AudioUnitKeeps
  <1>q. UNCHANGED v5 => AudioUnitOnce' /\ UNCHANGED <<AudioUnit!Reinits, AudioUnit!Closes>>
    BY <1>0, AudioUnitQueueStays
  <1>o. /\ stm.kind \in {"output", "input", "duplex"}
        /\ AudioUnit!Own = {"o"} <=> stm.kind = "output"
        /\ AudioUnit!Own \subseteq {"i", "o"}
    BY <1>0, AudioUnitOwn
  <1>1. CASE AudioUnit!Dequeue
    <2>1. /\ fault = "none" /\ thread = "idle" /\ v5 # <<>> /\ v5' = Tail(v5)
          /\ thread' = CASE Head(v5) = "close" -> "close"
                        [] Head(v5) = "reinit" /\ stm.destroying -> "idle"
                        [] OTHER -> "lock"
          /\ fault' = IF stm.freed THEN "freed" ELSE "none"
          /\ UNCHANGED <<stm, v1, v2, v3, v4, v6, app>>
      BY <1>1 DEF AudioUnit!Dequeue
    <2>2. /\ AudioUnitOnce' /\ Head(v5) \in {"reinit", "close"}
          /\ AudioUnit!Reinits' # {} => AudioUnit!Reinits # {} /\ Head(v5) # "reinit"
          /\ AudioUnit!Closes' # {} => AudioUnit!Closes # {} /\ Head(v5) # "close"
          /\ Head(v5) = "reinit" => AudioUnit!Reinits # {}
          /\ Head(v5) = "close" => AudioUnit!Closes # {}
          /\ Len(v5') # 2 /\ (Head(v5) = "close" => (Len(v5) = 2 /\ v5[1] = "close") \/ v5' = <<>>)
      BY <1>0, <2>1, AudioUnitDequeued
    <2>6. /\ fault' \in {"none", "freed"} /\ (fault' = "freed" => stm.relisten)
          /\ stm.freed => stm.relisten
          /\ Head(v5) = "close" => stm.relisten \/ v5' = <<>>
      <3>1. stm.freed => stm.relisten
        BY <1>0, <2>1 DEF AudioUnitKeeps
      <3>2. Head(v5) = "close" => stm.relisten \/ v5' = <<>>
        BY <1>0, <2>2 DEF AudioUnitKeeps
      <3> QED BY <2>1, <3>1, <3>2
    <2>3. CASE Head(v5) = "close"
      <3>1. thread' = "close" /\ app = "join"
        <4>1. thread' = "close"
          BY <2>1, <2>3
        <4>2. AudioUnit!Closes # {}
          BY <2>2, <2>3
        <4> QED BY <1>0, <4>1, <4>2 DEF AudioUnitKeeps
      <3>2. AudioUnitKeeps(stm', v1', v2', v3', v4', thread', v6', app', fault',
                         AudioUnit!Reinits' # {}, AudioUnit!Closes' # {}, v5')
        BY <1>0, <2>1, <2>2, <2>6, <2>3, <3>1 DEF AudioUnitKeeps, AudioUnit!Tasks
      <3> QED BY <2>2, <3>2, AudioUnitGoesOn
    <2>4. CASE Head(v5) = "reinit" /\ stm.destroying
      <3>1. thread' = "idle"
        BY <2>1, <2>4
      <3>2. AudioUnitKeeps(stm', v1', v2', v3', v4', thread', v6', app', fault',
                         AudioUnit!Reinits' # {}, AudioUnit!Closes' # {}, v5')
        BY <1>0, <2>1, <2>2, <2>6, <2>4, <3>1 DEF AudioUnitKeeps, AudioUnit!Tasks
      <3> QED BY <2>2, <3>2, AudioUnitGoesOn
    <2>5. CASE Head(v5) = "reinit" /\ ~stm.destroying
      <3>1. thread' = "lock" /\ AudioUnit!Reinits' = {} /\ ~stm.freed
        BY <1>0, <2>1, <2>2, <2>5 DEF AudioUnitKeeps
      <3>2. AudioUnitKeeps(stm', v1', v2', v3', v4', thread', v6', app', fault',
                         AudioUnit!Reinits' # {}, AudioUnit!Closes' # {}, v5')
        BY <1>0, <2>1, <2>2, <2>6, <2>5, <3>1 DEF AudioUnitKeeps, AudioUnit!Tasks
      <3> QED BY <2>2, <3>2, AudioUnitGoesOn
    <2> QED BY <2>2, <2>3, <2>4, <2>5
  <1>2. CASE AudioUnit!Reinit
    <2>1. /\ fault = "none" /\ thread = "lock" /\ v6 = "free" /\ v6' = "task" /\ fault' = (IF stm.units THEN "none" ELSE "units")
          /\ thread' \in {"stop", "setup"}
          /\ UNCHANGED <<stm, v1, v2, v3, v4, v5, app>>
      BY <1>2 DEF AudioUnit!Reinit
    <2>2. fault' \in {"none", "units"} /\ (fault' = "units" => ~stm.units)
      BY <1>0, <2>1 DEF AudioUnit!Streams
    <2>3. ~stm.freed /\ (~stm.units => stm.kind = "output")
      BY <1>0, <2>1 DEF AudioUnitKeeps
    <2>4. AudioUnitKeeps(stm', v1', v2', v3', v4', thread', v6', app', fault',
                         AudioUnit!Reinits' # {}, AudioUnit!Closes' # {}, v5')
      BY <1>0, <1>q, <2>1, <2>2, <2>3 DEF AudioUnitKeeps, AudioUnit!Tasks
    <2> QED BY <1>q, <2>1, <2>4, AudioUnitGoesOn
  <1>3. CASE AudioUnit!ReinitStop
    <2>1. /\ fault = "none" /\ thread = "stop" /\ v3 = "idle" /\ v1' = {} /\ thread' = "setup"
          /\ UNCHANGED <<stm, v2, v3, v4, v5, v6, app, fault>>
      BY <1>3 DEF AudioUnit!ReinitStop
    <2>2. AudioUnitKeeps(stm', v1', v2', v3', v4', thread', v6', app', fault',
                         AudioUnit!Reinits' # {}, AudioUnit!Closes' # {}, v5')
      BY <1>0, <1>q, <2>1 DEF AudioUnitKeeps, AudioUnit!Tasks
    <2> QED BY <1>q, <2>1, <2>2, AudioUnitGoesOn
  <1>4. CASE AudioUnit!ReinitSetup
    <2>1. /\ fault = "none" /\ thread = "setup" /\ v4 = "idle" /\ v6' = "free"
          /\ UNCHANGED <<v3, v4, v5, app, fault>>
      BY <1>4 DEF AudioUnit!ReinitSetup
    <2>2. /\ ~stm.freed /\ v6 = "task" /\ app \notin {"stopping"} /\ stm.pending
          /\ AudioUnit!Reinits = {}
      BY <1>0, <2>1 DEF AudioUnitKeeps
    <2>3. PICK units \in BOOLEAN :
            /\ \E late \in BOOLEAN :
                 /\ stm' = [stm EXCEPT !.units = units, !.relisten = late]
                 /\ (stm.relisten => late)
                 /\ (late \/ app \notin {"destroy", "close", "join"} \/ v2' \subseteq v2)
            /\ v1' \subseteq {"i", "o"} /\ (v1' # {} => ~stm.shutdown)
            /\ \/ units /\ v2' \in {v2 \cup {"device"}, v2 \ {"device"}}
               \/ v2' = v2 \ {"device"} /\ v1' = {}
            /\ thread' \in {"switched", "error"}
            /\ ~units => thread' = "error" \/ stm.kind = "output"
      <3>0. stm.relisten \in BOOLEAN /\ stm = [stm EXCEPT !.relisten = stm.relisten]
        BY <1>0 DEF AudioUnit!Streams
      <3>5. ASSUME AudioUnit!Listens
            PROVE  /\ v2' = v2 \cup {"device"}
                   /\ \E late \in BOOLEAN :
                        /\ stm' = [stm EXCEPT !.units = TRUE, !.relisten = late]
                        /\ (stm.relisten => late)
                        /\ (late \/ app \notin {"destroy", "close", "join"} \/ v2' \subseteq v2)
        BY <3>0, <3>5 DEF AudioUnit!Listens
      <3>6. ASSUME NEW units \in BOOLEAN, stm' = [stm EXCEPT !.units = units], v2' = v2 \ {"device"}
            PROVE  \E late \in BOOLEAN :
                     /\ stm' = [stm EXCEPT !.units = units, !.relisten = late]
                     /\ (stm.relisten => late)
                     /\ (late \/ app \notin {"destroy", "close", "join"} \/ v2' \subseteq v2)
        <4>1. stm' = [stm EXCEPT !.units = units, !.relisten = stm.relisten]
          BY <1>0, <3>6 DEF AudioUnit!Streams
        <4> QED BY <3>0, <3>6, <4>1
      <3>1. CASE /\ AudioUnit!Listens
                 /\ v1' = (IF AudioUnit!Runs THEN AudioUnit!Own ELSE {}) /\ thread' = "switched"
        BY <1>o, <3>1, <3>5 DEF AudioUnit!Runs
      <3>2. CASE /\ \E units \in BOOLEAN : stm' = [stm EXCEPT !.units = units]
                 /\ v2' = v2 \ {"device"} /\ v1' = {} /\ thread' = "error"
        BY <3>2, <3>6
      <3>3. CASE /\ AudioUnit!Runs /\ AudioUnit!Listens
                 /\ v1' \in AudioUnit!Started(FALSE) /\ thread' = "error"
        BY <3>3, <3>5 DEF AudioUnit!Runs, AudioUnit!Started
      <3>4. CASE /\ AudioUnit!Own = {"o"} /\ v2' = v2 \ {"device"} /\ v1' = {}
                 /\ stm' = [stm EXCEPT !.units = FALSE] /\ thread' = "switched"
        BY <1>o, <3>4, <3>6
      <3> QED BY <1>4, <3>1, <3>2, <3>3, <3>4 DEF AudioUnit!ReinitSetup
    <2>4. /\ stm' \in AudioUnit!Streams /\ (stm'.units <=> units)
          /\ stm'.kind = stm.kind /\ stm'.shutdown = stm.shutdown /\ stm'.pending = stm.pending
          /\ stm'.destroying = stm.destroying /\ stm'.freed = stm.freed
          /\ (stm.relisten => stm'.relisten)
          /\ stm'.relisten \/ app \notin {"destroy", "close", "join"} \/ v2' \subseteq v2
      BY <1>0, <2>3 DEF AudioUnit!Streams
    <2>5. v2' \subseteq {"system", "device"} /\ (~units => v2' \subseteq {"system"} /\ v1' = {})
      BY <1>0, <2>3 DEF AudioUnitKeeps
    <2>6. AudioUnitKeeps(stm', v1', v2', v3', v4', thread', v6', app', fault',
                         AudioUnit!Reinits' # {}, AudioUnit!Closes' # {}, v5')
      BY <1>0, <1>q, <2>1, <2>2, <2>3, <2>4, <2>5 DEF AudioUnitKeeps, AudioUnit!Tasks
    <2> QED BY <1>q, <2>1, <2>6, AudioUnitGoesOn
  <1>5. CASE AudioUnit!ReinitFails
    <2>1. /\ fault = "none" /\ thread = "error" /\ v4 = "idle" /\ v2' = v2 \ {"system"}
          /\ thread' = "switched" /\ stm' = [stm EXCEPT !.told = "error"]
          /\ UNCHANGED <<v1, v3, v4, v5, v6, app, fault>>
      BY <1>5 DEF AudioUnit!ReinitFails, AudioUnit!Kept
    <2>2. /\ stm' \in AudioUnit!Streams /\ stm'.shutdown = stm.shutdown
          /\ stm'.kind = stm.kind /\ stm'.units = stm.units /\ stm'.pending = stm.pending
          /\ stm'.destroying = stm.destroying /\ stm'.freed = stm.freed /\ stm'.relisten = stm.relisten
      BY <1>0, <2>1 DEF AudioUnit!Streams
    <2>3. AudioUnitKeeps(stm', v1', v2', v3', v4', thread', v6', app', fault',
                         AudioUnit!Reinits' # {}, AudioUnit!Closes' # {}, v5')
      BY <1>0, <1>q, <2>1, <2>2 DEF AudioUnitKeeps, AudioUnit!Tasks
    <2> QED BY <1>q, <2>1, <2>3, AudioUnitGoesOn
  <1>6. CASE AudioUnit!Switched
    <2>1. /\ fault = "none" /\ thread = "switched" /\ thread' = "pending"
          /\ stm' = [stm EXCEPT !.switching = FALSE]
          /\ UNCHANGED <<v1, v2, v3, v4, v5, v6, app, fault>>
      BY <1>6 DEF AudioUnit!Switched
    <2>2. /\ stm' \in AudioUnit!Streams /\ stm'.shutdown = stm.shutdown
          /\ stm'.kind = stm.kind /\ stm'.units = stm.units /\ stm'.pending = stm.pending
          /\ stm'.destroying = stm.destroying /\ stm'.freed = stm.freed /\ stm'.relisten = stm.relisten
      BY <1>0, <2>1 DEF AudioUnit!Streams
    <2>3. AudioUnitKeeps(stm', v1', v2', v3', v4', thread', v6', app', fault',
                         AudioUnit!Reinits' # {}, AudioUnit!Closes' # {}, v5')
      BY <1>0, <1>q, <2>1, <2>2 DEF AudioUnitKeeps, AudioUnit!Tasks
    <2> QED BY <1>q, <2>1, <2>3, AudioUnitGoesOn
  <1>7. CASE AudioUnit!ReinitEnds
    <2>1. /\ fault = "none" /\ thread = "pending" /\ thread' = "idle"
          /\ stm' = [stm EXCEPT !.pending = FALSE]
          /\ UNCHANGED <<v1, v2, v3, v4, v5, v6, app, fault>>
      BY <1>7 DEF AudioUnit!ReinitEnds
    <2>2. /\ stm' \in AudioUnit!Streams /\ stm'.kind = stm.kind /\ stm'.units = stm.units
          /\ stm'.shutdown = stm.shutdown /\ stm'.destroying = stm.destroying
          /\ stm'.freed = stm.freed /\ stm'.relisten = stm.relisten
      BY <1>0, <2>1 DEF AudioUnit!Streams
    <2>3. AudioUnitKeeps(stm', v1', v2', v3', v4', thread', v6', app', fault',
                         AudioUnit!Reinits' # {}, AudioUnit!Closes' # {}, v5')
      BY <1>0, <1>q, <2>1, <2>2 DEF AudioUnitKeeps, AudioUnit!Tasks
    <2> QED BY <1>q, <2>1, <2>3, AudioUnitGoesOn
  <1>8. CASE AudioUnit!Close
    <2>1. /\ fault = "none" /\ thread = "close" /\ v6 = "free" /\ v4 = "idle" /\ v2' = {}
          /\ thread' = "idle" /\ app' = "done" /\ stm' = [stm EXCEPT !.units = FALSE, !.freed = TRUE]
          /\ UNCHANGED <<v1, v3, v4, v5, v6, fault>>
      BY <1>8 DEF AudioUnit!Close, AudioUnit!Uninstalled
    <2>2. /\ stm' \in AudioUnit!Streams /\ stm'.kind = stm.kind /\ stm'.freed
          /\ stm'.relisten = stm.relisten
          /\ stm'.shutdown = stm.shutdown /\ stm'.destroying = stm.destroying
          /\ stm'.pending = stm.pending /\ ~stm'.units
      BY <1>0, <2>1 DEF AudioUnit!Streams
    <2>3. AudioUnitKeeps(stm', v1', v2', v3', v4', thread', v6', app', fault',
                         AudioUnit!Reinits' # {}, AudioUnit!Closes' # {}, v5')
      BY <1>0, <1>q, <2>1, <2>2 DEF AudioUnitKeeps, AudioUnit!Tasks
    <2> QED BY <1>q, <2>1, <2>3, AudioUnitGoesOn
  <1> QED
    BY <1>1, <1>2, <1>3, <1>4, <1>5, <1>6, <1>7, <1>8 DEF AudioUnit!TaskNext

\* Every step preserves the invariant.
LEMMA AudioUnitStep ==
  ASSUME CubebAssumption, AudioUnit!IInv, AudioUnit!Next PROVE AudioUnit!IInv'
  BY AudioUnitAppStep, AudioUnitCallStep, AudioUnitTaskStep DEF AudioUnit!Next

\* So does a step that changes nothing of the stream.
LEMMA AudioUnitStutter ==
  ASSUME AudioUnit!IInv, UNCHANGED <<stm, app, thread, fault, v1, v2, v3, v4, v5, v6>>
  PROVE  AudioUnit!IInv'
  <1>1. UNCHANGED <<AudioUnit!Own, AudioUnit!Reinits, AudioUnit!Closes>>
    BY DEF AudioUnit!Own, AudioUnit!Reinits, AudioUnit!Closes
  <1>2. AudioUnit!TypeOK' /\ AudioUnit!MutexFits' /\ AudioUnit!FlagsFit'
    BY DEF AudioUnit!IInv, AudioUnit!TypeOK, AudioUnit!MutexFits, AudioUnit!FlagsFit
  <1>3. AudioUnit!QueueFits' /\ AudioUnit!OneReinit'
    BY <1>1 DEF AudioUnit!IInv, AudioUnit!QueueFits, AudioUnit!OneReinit
  <1>4. /\ AudioUnit!UnitsFit' /\ AudioUnit!FreedIsGone' /\ AudioUnit!FaultsAreKnown'
        /\ AudioUnit!RelistenFits'
    BY <1>1 DEF AudioUnit!IInv, AudioUnit!UnitsFit, AudioUnit!FreedIsGone, AudioUnit!FaultsAreKnown,
       AudioUnit!RelistenFits
  <1> QED BY <1>2, <1>3, <1>4 DEF AudioUnit!IInv

\* What the invariant says of the properties.
LEMMA AudioUnitSafe ==
  ASSUME AudioUnit!IInv
  PROVE  AudioUnit!TypeOK /\ AudioUnit!StopQuiesces /\ AudioUnit!FreedIsGone
         /\ AudioUnit!FaultsAreKnown
  BY DEF AudioUnit!IInv, AudioUnit!FlagsFit, AudioUnit!StopQuiesces

----------------------------------------------------------------------------
(* The AAudio backend *)

\* What the invariant asks, of a stream of kind k whose AAudio streams are at:
\* all it has are in the states S, and the one that calls back may do so.
AAudioAll(k, at, S) == (k # "input" => at["o"] \in S) /\ (k # "output" => at["i"] \in S)
AAudioPlays(k, at) ==
  /\ k = "input" => at["i"] \in {"starting", "started"}
  /\ k # "input" => at["o"] \in {"starting", "started"}
AAudioOpen == {"stopped", "starting", "started", "stopping", "lost"}

\* MutexFits, UserFits, DevicesFit and LookerFits of the stream u, its AAudio
\* streams d, the user a, the callback c and the state thread l.
AAudioMutex(u, a, l) ==
  /\ u.mutex = "user" <=> a.pc \in {"start i", "start o", "start cas", "flag", "notify", "stop",
                                    "stop cas", "close"}
  /\ u.mutex = "state" <=> l.pc \in {"update", "cas"}
AAudioUser(u, d, a, c) ==
  /\ a.pc \in {"none", "join", "joined"} =>
       u.state = "INIT" /\ ~d.pending /\ AAudioAll(u.kind, d.at, {"absent"})
  /\ a.pc \notin {"none", "join", "joined"} =>
       u.state # "INIT" /\ AAudioAll(u.kind, d.at, AAudioOpen)
  /\ a.pc \in {"start i", "start o", "start cas"} =>
       /\ a.loaded \in {"STOPPED", "STOPPING", "DRAINING"}
       /\ u.state \in {a.loaded, "ERROR", "DRAINING"}
  /\ a.pc \in {"stop", "stop cas"} =>
       /\ a.loaded \in {"STARTED", "STARTING"}
       /\ u.state \in {a.loaded, "ERROR", "DRAINING"}
  /\ a.pc = "stop cas" => AAudioAll(u.kind, d.at, {"stopping", "stopped", "lost"})
  /\ a.pc \in {"flag", "notify"} /\ a.next = "idle" =>
       u.state \in {"STOPPING", "ERROR", "DRAINING"}
  /\ a.pc = "idle" => u.state \notin {"STARTED", "STARTING"}
  /\ a.pc = "close" => c # "calling" /\ (~d.calls \/ ~AAudioPlays(u.kind, d.at))
AAudioDevices(u, d, a, c) ==
  /\ u.state \in {"STOPPING", "SHUTDOWN"} /\ a.pc \notin {"start i", "start o", "start cas"} =>
       AAudioAll(u.kind, d.at, {"stopping", "stopped", "lost"})
  /\ u.state = "STOPPED" /\ a.pc \notin {"start i", "start o", "start cas"} =>
       AAudioAll(u.kind, d.at, {"stopped", "lost"})
  /\ c = "calling" => AAudioPlays(u.kind, d.at) /\ u.state # "DRAINING"
AAudioLooker(u, d, a, l) ==
  /\ l.pc \in {"update", "cas"} =>
       /\ l.old \in {"STARTING", "STOPPING", "DRAINING", "ERROR"}
       /\ u.state \in {l.old, "ERROR", "DRAINING"}
       /\ l.old = "STOPPING" => AAudioAll(u.kind, d.at, {"stopping", "stopped", "lost"})
       /\ a.pc = "idle" => l.old # "STARTING"
  /\ l.pc = "cas" =>
       \/ l.old = "STARTING" /\ l.new = "STARTED"
       \/ l.old # "ERROR" /\ l.new = "STOPPED" /\ AAudioAll(u.kind, d.at, {"stopped", "lost"})
AAudioTypes(u, d, a, c, x, l, h) ==
  /\ u \in AAudio!Streams /\ u.kind \in {"output", "input", "duplex"}
  /\ d \in AAudio!Devs /\ a \in AAudio!Apps /\ c \in {"idle", "calling", "flag", "notify"}
  /\ x \in AAudio!Contexts /\ l \in AAudio!Lookers
  /\ h \in {"new", "top", "sleep", "asleep", "done"}

\* Which AAudio streams a stream has.
LEMMA AAudioOwn ==
  ASSUME stm.kind \in {"output", "input", "duplex"}
  PROVE  /\ AAudio!Outputs \subseteq {"o"} /\ AAudio!Inputs \subseteq {"i"}
         /\ AAudio!Own \subseteq {"i", "o"}
         /\ "o" \in AAudio!Outputs <=> stm.kind # "input"
         /\ "i" \in AAudio!Inputs <=> stm.kind # "output"
         /\ "o" \in AAudio!Own <=> stm.kind # "input"
         /\ "i" \in AAudio!Own <=> stm.kind # "output"
         /\ "o" \notin AAudio!Inputs /\ "i" \notin AAudio!Outputs
         /\ stm.kind = "input" => AAudio!Caller = "i"
         /\ stm.kind # "input" => AAudio!Caller = "o"
         /\ \A S : AAudio!All(S) <=> AAudioAll(stm.kind, v1.at, S)
  BY DEF AAudio!Outputs, AAudio!Inputs, AAudio!Own, AAudio!Caller, AAudio!All, AAudioAll

\* A state that is given to some of the AAudio streams.
LEMMA AAudioDevicesSet ==
  ASSUME v1 \in AAudio!Devs, NEW state \in AAudio!DevStates, NEW on
  PROVE  /\ AAudio!Devices(state, on) \in AAudio!Devs
         /\ AAudio!Devices(state, on).calls = v1.calls
         /\ AAudio!Devices(state, on).pending = v1.pending
         /\ AAudio!Devices(state, on).at["o"] = IF "o" \in on THEN state ELSE v1.at["o"]
         /\ AAudio!Devices(state, on).at["i"] = IF "i" \in on THEN state ELSE v1.at["i"]
  BY DEF AAudio!Devs, AAudio!Devices

\* A notification wakes one thread, and changes nothing else of the context.
LEMMA AAudioNotified ==
  ASSUME NEW c \in AAudio!Contexts, NEW e \in AAudio!NotifyOne(c)
  PROVE  e \in AAudio!Contexts
  BY DEF AAudio!Contexts, AAudio!NotifyOne

\* The invariant in these terms.
LEMMA AAudioBefore ==
  ASSUME CubebAssumption, AAudio!IInv
  PROVE  /\ AAudioTypes(stm, v1, app, thread, v2, v3, v4) /\ fault = FALSE
         /\ AAudioMutex(stm, app, v3) /\ AAudioUser(stm, v1, app, thread)
         /\ AAudioDevices(stm, v1, app, thread) /\ AAudioLooker(stm, v1, app, v3)
  <1>1. stm.kind \in {"output", "input", "duplex"}
    BY DEF CubebAssumption, AAudio!AAudioAssumption, AAudio!IInv, AAudio!TypeOK, AAudio!Streams
  <1>2. AAudioTypes(stm, v1, app, thread, v2, v3, v4) /\ fault = FALSE
    BY <1>1 DEF AAudio!IInv, AAudio!TypeOK, AAudioTypes, AAudio!NoFault
  <1>3. /\ \A S : AAudio!All(S) <=> AAudioAll(stm.kind, v1.at, S)
        /\ stm.kind = "input" => AAudio!Caller = "i"
        /\ stm.kind # "input" => AAudio!Caller = "o"
    BY <1>1, AAudioOwn
  <1>4. AAudioMutex(stm, app, v3)
    BY DEF AAudio!IInv, AAudio!MutexFits, AAudio!Starts, AAudioMutex
  <1>5. AAudioUser(stm, v1, app, thread)
    <2>1. AAudio!UserFits
      BY DEF AAudio!IInv
    <2>2. AAudio!DevStates \ {"absent"} = AAudioOpen
      BY DEF AAudio!DevStates, AAudioOpen
    <2> QED BY <1>1, <1>3, <2>1, <2>2
          DEF AAudio!UserFits, AAudio!Starts, AAudio!Ends, AAudioUser, AAudioPlays
  <1>6. AAudioDevices(stm, v1, app, thread)
    BY <1>1, <1>3
       DEF AAudio!IInv, AAudio!DevicesFit, AAudio!Starts, AAudio!Ends, AAudioDevices, AAudioPlays
  <1>7. AAudioLooker(stm, v1, app, v3)
    BY <1>3 DEF AAudio!IInv, AAudio!LookerFits, AAudio!Ends, AAudioLooker
  <1> QED BY <1>2, <1>4, <1>5, <1>6, <1>7

\* What is enough for the invariant to hold after a step.
LEMMA AAudioGoesOn ==
  ASSUME AAudioTypes(stm', v1', app', thread', v2', v3', v4'), fault' = FALSE,
         AAudioMutex(stm', app', v3'), AAudioUser(stm', v1', app', thread'),
         AAudioDevices(stm', v1', app', thread'), AAudioLooker(stm', v1', app', v3')
  PROVE  AAudio!IInv'
  <1>1. stm'.kind \in {"output", "input", "duplex"}
    BY DEF AAudioTypes
  <1>2. AAudio!TypeOK' /\ AAudio!NoFault'
    BY DEF AAudioTypes, AAudio!TypeOK, AAudio!NoFault
  <1>3. /\ stm'.kind = "input" => AAudio!Caller' = "i"
        /\ stm'.kind # "input" => AAudio!Caller' = "o"
    BY DEF AAudio!Caller
  <1>4. AAudio!MutexFits'
    BY DEF AAudio!MutexFits, AAudio!Starts, AAudioMutex
  <1>5. AAudio!UserFits'
    <2>1. AAudio!DevStates \ {"absent"} = AAudioOpen
      BY DEF AAudio!DevStates, AAudioOpen
    <2>2. /\ AAudioAll(stm'.kind, v1'.at, {"absent"}) => AAudio!All({"absent"})'
          /\ AAudioAll(stm'.kind, v1'.at, AAudioOpen) => AAudio!All(AAudio!DevStates \ {"absent"})'
          /\ AAudioAll(stm'.kind, v1'.at, {"stopping", "stopped", "lost"}) => AAudio!All(AAudio!Ends)'
      BY <2>1 DEF AAudioAll, AAudio!All, AAudio!Own, AAudio!Outputs, AAudio!Inputs, AAudio!Ends
    <2> QED BY <1>1, <1>3, <2>2 DEF AAudio!UserFits, AAudio!Starts, AAudioUser, AAudioPlays
  <1>6. AAudio!DevicesFit'
    <2>1. /\ AAudioAll(stm'.kind, v1'.at, {"stopped", "lost"}) => AAudio!All({"stopped", "lost"})'
          /\ AAudioAll(stm'.kind, v1'.at, {"stopping", "stopped", "lost"}) => AAudio!All(AAudio!Ends)'
      BY DEF AAudioAll, AAudio!All, AAudio!Own, AAudio!Outputs, AAudio!Inputs, AAudio!Ends
    <2> QED BY <1>1, <1>3, <2>1 DEF AAudio!DevicesFit, AAudio!Starts, AAudioDevices, AAudioPlays
  <1>7. AAudio!LookerFits'
    <2>1. /\ AAudioAll(stm'.kind, v1'.at, {"stopped", "lost"}) => AAudio!All({"stopped", "lost"})'
          /\ AAudioAll(stm'.kind, v1'.at, {"stopping", "stopped", "lost"}) => AAudio!All(AAudio!Ends)'
      BY DEF AAudioAll, AAudio!All, AAudio!Own, AAudio!Outputs, AAudio!Inputs, AAudio!Ends
    <2> QED BY <2>1 DEF AAudio!LookerFits, AAudioLooker
  <1> QED BY <1>2, <1>4, <1>5, <1>6, <1>7 DEF AAudio!IInv

\* The stream and the threads start as the invariant says.
LEMMA AAudioInit ==
  ASSUME CubebAssumption, AAudio!Init PROVE AAudio!IInv
  <1>1. PICK k \in Kinds : stm = [kind |-> k, state |-> "INIT", mutex |-> "free", told |-> "none"]
    BY DEF AAudio!Init
  <1>2. stm \in AAudio!Streams /\ stm.state = "INIT" /\ stm.mutex = "free"
    BY <1>1 DEF AAudio!Streams, AAudio!States
  <1>3. /\ v1 \in AAudio!Devs /\ v1.at["i"] = "absent" /\ v1.at["o"] = "absent" /\ ~v1.pending
        /\ \A d \in {"i", "o"} : v1.at[d] = "absent"
    BY DEF AAudio!Init, AAudio!Devs, AAudio!DevStates
  <1>4. app \in AAudio!Apps /\ app.pc = "none"
    BY DEF AAudio!Init, AAudio!Apps, AAudio!States
  <1>5. thread = "idle" /\ fault = FALSE /\ v4 \in {"asleep", "new"}
    BY DEF AAudio!Init
  <1>6. v2 \in AAudio!Contexts
    BY DEF AAudio!Init, AAudio!Contexts
  <1>7. v3 \in AAudio!Lookers /\ v3.pc = "top"
    BY DEF AAudio!Init, AAudio!Lookers, AAudio!States
  <1>8. AAudio!TypeOK /\ AAudio!NoFault
    BY <1>2, <1>3, <1>4, <1>5, <1>6, <1>7 DEF AAudio!TypeOK, AAudio!NoFault
  <1>9. AAudio!MutexFits /\ AAudio!DevicesFit /\ AAudio!LookerFits
    BY <1>2, <1>4, <1>5, <1>7
       DEF AAudio!MutexFits, AAudio!DevicesFit, AAudio!LookerFits, AAudio!Starts
  <1>10. AAudio!UserFits
    <2>1. AAudio!All({"absent"})
      BY <1>3 DEF AAudio!All, AAudio!Own, AAudio!Outputs, AAudio!Inputs
    <2> QED BY <1>2, <1>3, <1>4, <2>1 DEF AAudio!UserFits, AAudio!Starts
  <1> QED BY <1>8, <1>9, <1>10 DEF AAudio!IInv

\* Every step that begins a call of the user preserves the invariant.
LEMMA AAudioCallStep ==
  ASSUME CubebAssumption, AAudio!IInv,
         \/ AAudio!StreamInit \/ AAudio!Start \/ AAudio!Stop \/ AAudio!Destroy \/ AAudio!Join
  PROVE  AAudio!IInv'
  <1>0. /\ AAudioTypes(stm, v1, app, thread, v2, v3, v4) /\ fault = FALSE
        /\ AAudioMutex(stm, app, v3) /\ AAudioUser(stm, v1, app, thread)
        /\ AAudioDevices(stm, v1, app, thread) /\ AAudioLooker(stm, v1, app, v3)
    BY AAudioBefore
  <1>t. /\ stm \in AAudio!Streams /\ stm.kind \in {"output", "input", "duplex"}
        /\ v1 \in AAudio!Devs /\ app \in AAudio!Apps /\ v3 \in AAudio!Lookers
        /\ v2 \in AAudio!Contexts
    BY <1>0 DEF AAudioTypes
  <1>o. /\ AAudio!Outputs \subseteq {"o"} /\ AAudio!Inputs \subseteq {"i"}
        /\ "o" \in AAudio!Outputs <=> stm.kind # "input"
        /\ "i" \in AAudio!Inputs <=> stm.kind # "output"
        /\ "o" \in AAudio!Own <=> stm.kind # "input"
        /\ "i" \in AAudio!Own <=> stm.kind # "output"
        /\ "o" \notin AAudio!Inputs /\ "i" \notin AAudio!Outputs
        /\ AAudio!Own \subseteq {"i", "o"}
    BY <1>t, AAudioOwn
  <1>1. CASE AAudio!StreamInit
    <2>1. /\ app.pc = "none" /\ stm.mutex = "free" /\ UNCHANGED <<thread, v2, v3, v4, fault>>
          /\ stm' = [stm EXCEPT !.state = "STOPPED", !.told = "none"]
          /\ v1' = [AAudio!Devices("stopped", AAudio!Own) EXCEPT !.calls = TRUE, !.pending = FALSE]
          /\ app' = [app EXCEPT !.pc = "idle", !.loaded = "INIT", !.next = "idle"]
      BY <1>1 DEF AAudio!StreamInit, AAudio!AppGoto
    <2>2. /\ stm' \in AAudio!Streams /\ stm'.kind = stm.kind
          /\ stm'.state = "STOPPED" /\ stm'.mutex = stm.mutex
      BY <1>t, <2>1 DEF AAudio!Streams, AAudio!States
    <2>3. /\ app' \in AAudio!Apps /\ app'.pc = "idle" /\ app'.next = "idle"
      BY <1>t, <2>1 DEF AAudio!Apps, AAudio!States
    <2>4. /\ v1' \in AAudio!Devs
          /\ v1'.at["o"] = IF "o" \in AAudio!Own THEN "stopped" ELSE v1.at["o"]
          /\ v1'.at["i"] = IF "i" \in AAudio!Own THEN "stopped" ELSE v1.at["i"]
      BY <1>t, <2>1 DEF AAudio!Devs, AAudio!Devices, AAudio!DevStates
    <2>5. /\ stm.kind # "input" => v1'.at["o"] = "stopped"
          /\ stm.kind # "output" => v1'.at["i"] = "stopped"
      BY <1>o, <2>4
    <2>10. AAudioMutex(stm', app', v3')
      BY <1>0, <2>1, <2>2, <2>3, <2>4, <2>5 DEF AAudioMutex
    <2>11. AAudioUser(stm', v1', app', thread')
      BY <1>0, <2>1, <2>2, <2>3, <2>4, <2>5 DEF AAudioTypes, AAudioMutex, AAudioUser, AAudioDevices, AAudioLooker, AAudioAll,
         AAudioPlays, AAudioOpen
    <2>12. AAudioDevices(stm', v1', app', thread')
      BY <1>0, <2>1, <2>2, <2>3, <2>4, <2>5 DEF AAudioTypes, AAudioMutex, AAudioUser, AAudioDevices, AAudioLooker, AAudioAll,
         AAudioPlays, AAudioOpen
    <2>13. AAudioLooker(stm', v1', app', v3')
      BY <1>0, <2>1, <2>2, <2>3, <2>4, <2>5 DEF AAudioTypes, AAudioMutex, AAudioUser, AAudioDevices, AAudioLooker, AAudioAll,
         AAudioPlays, AAudioOpen
    <2> QED BY <1>0, <2>1, <2>2, <2>3, <2>4, <2>5, <2>10, <2>11, <2>12, <2>13, AAudioGoesOn DEF AAudioTypes
  <1>2. CASE AAudio!Start
    <2>1. /\ app.pc \in {"idle", "running"} /\ stm.mutex = "free" /\ UNCHANGED <<v1, thread, v2, v3, v4, fault>>
          /\ \/ /\ stm.state \in {"STARTED", "STARTING"} /\ UNCHANGED stm
                /\ app' = [app EXCEPT !.pc = "running", !.loaded = "INIT", !.next = "idle"]
             \/ UNCHANGED <<app, stm>>
             \/ /\ stm.state \notin {"STARTED", "STARTING", "ERROR", "SHUTDOWN"}
                /\ stm' = [stm EXCEPT !.mutex = "user"]
                /\ app' = [app EXCEPT !.pc = "start i", !.loaded = stm.state]
      BY <1>2 DEF AAudio!Start, AAudio!AppGoto
    <2>2. CASE /\ stm.state \in {"STARTED", "STARTING"} /\ UNCHANGED stm
               /\ app' = [app EXCEPT !.pc = "running", !.loaded = "INIT", !.next = "idle"]
      <3>1. /\ app' \in AAudio!Apps /\ app'.pc = "running"
        BY <1>t, <2>2 DEF AAudio!Apps, AAudio!States
      <3>10. AAudioMutex(stm', app', v3')
        BY <1>0, <2>1, <2>2, <3>1 DEF AAudioMutex
      <3>11. AAudioUser(stm', v1', app', thread')
        BY <1>0, <2>1, <2>2, <3>1 DEF AAudioTypes, AAudioMutex, AAudioUser, AAudioDevices, AAudioLooker, AAudioAll,
           AAudioPlays, AAudioOpen
      <3>12. AAudioDevices(stm', v1', app', thread')
        BY <1>0, <2>1, <2>2, <3>1 DEF AAudioTypes, AAudioMutex, AAudioUser, AAudioDevices, AAudioLooker, AAudioAll,
           AAudioPlays, AAudioOpen
      <3>13. AAudioLooker(stm', v1', app', v3')
        BY <1>0, <2>1, <2>2, <3>1 DEF AAudioTypes, AAudioMutex, AAudioUser, AAudioDevices, AAudioLooker, AAudioAll,
           AAudioPlays, AAudioOpen
      <3> QED BY <1>0, <2>1, <2>2, <3>1, <3>10, <3>11, <3>12, <3>13, AAudioGoesOn DEF AAudioTypes
    <2>3. CASE UNCHANGED <<app, stm>>
      <3>10. AAudioMutex(stm', app', v3')
        BY <1>0, <2>1, <2>3 DEF AAudioMutex
      <3>11. AAudioUser(stm', v1', app', thread')
        BY <1>0, <2>1, <2>3 DEF AAudioTypes, AAudioMutex, AAudioUser, AAudioDevices, AAudioLooker, AAudioAll,
           AAudioPlays, AAudioOpen
      <3>12. AAudioDevices(stm', v1', app', thread')
        BY <1>0, <2>1, <2>3 DEF AAudioTypes, AAudioMutex, AAudioUser, AAudioDevices, AAudioLooker, AAudioAll,
           AAudioPlays, AAudioOpen
      <3>13. AAudioLooker(stm', v1', app', v3')
        BY <1>0, <2>1, <2>3 DEF AAudioTypes, AAudioMutex, AAudioUser, AAudioDevices, AAudioLooker, AAudioAll,
           AAudioPlays, AAudioOpen
      <3> QED BY <1>0, <2>1, <2>3, <3>10, <3>11, <3>12, <3>13, AAudioGoesOn DEF AAudioTypes
    <2>4. CASE /\ stm.state \notin {"STARTED", "STARTING", "ERROR", "SHUTDOWN"}
               /\ stm' = [stm EXCEPT !.mutex = "user"]
               /\ app' = [app EXCEPT !.pc = "start i", !.loaded = stm.state]
      <3>1. /\ stm' \in AAudio!Streams /\ stm'.kind = stm.kind
            /\ stm'.state = stm.state /\ stm'.mutex = "user"
        BY <1>t, <2>4 DEF AAudio!Streams, AAudio!States
      <3>2. stm.state \in AAudio!States
        BY <1>t DEF AAudio!Streams
      <3>3. /\ app' \in AAudio!Apps /\ app'.pc = "start i" /\ app'.loaded = stm.state
        BY <1>t, <2>4, <3>2 DEF AAudio!Apps
      <3>4. stm.state \in {"STOPPED", "STOPPING", "DRAINING"}
        BY <1>0, <2>1, <2>4, <3>2 DEF AAudioUser, AAudio!States
      <3>10. AAudioMutex(stm', app', v3')
        BY <1>0, <2>1, <3>1, <3>3, <3>4 DEF AAudioMutex
      <3>11. AAudioUser(stm', v1', app', thread')
        BY <1>0, <2>1, <3>1, <3>3, <3>4, ZenonT(60) DEF AAudioTypes, AAudioMutex, AAudioUser, AAudioDevices, AAudioLooker, AAudioAll,
           AAudioPlays, AAudioOpen
      <3>12. AAudioDevices(stm', v1', app', thread')
        BY <1>0, <2>1, <3>1, <3>3, <3>4 DEF AAudioTypes, AAudioMutex, AAudioUser, AAudioDevices, AAudioLooker, AAudioAll,
           AAudioPlays, AAudioOpen
      <3>13. AAudioLooker(stm', v1', app', v3')
        BY <1>0, <2>1, <3>1, <3>3, <3>4 DEF AAudioTypes, AAudioMutex, AAudioUser, AAudioDevices, AAudioLooker, AAudioAll,
           AAudioPlays, AAudioOpen
      <3> QED BY <1>0, <2>1, <3>1, <3>3, <3>4, <3>10, <3>11, <3>12, <3>13, AAudioGoesOn DEF AAudioTypes
    <2> QED BY <2>1, <2>2, <2>3, <2>4
  <1>3. CASE AAudio!Stop
    <2>1. /\ app.pc = "running" /\ stm.mutex = "free" /\ UNCHANGED <<v1, thread, v2, v3, v4, fault>>
          /\ \/ /\ stm.state \in {"STARTED", "STARTING"}
                /\ stm' = [stm EXCEPT !.mutex = "user"]
                /\ app' = [app EXCEPT !.pc = "stop", !.loaded = stm.state]
             \/ /\ stm.state \notin {"STARTED", "STARTING"} /\ UNCHANGED stm
                /\ app' = [app EXCEPT !.pc = "idle", !.loaded = "INIT", !.next = "idle"]
      BY <1>3 DEF AAudio!Stop, AAudio!AppGoto
    <2>2. CASE /\ stm.state \in {"STARTED", "STARTING"}
               /\ stm' = [stm EXCEPT !.mutex = "user"]
               /\ app' = [app EXCEPT !.pc = "stop", !.loaded = stm.state]
      <3>1. /\ stm' \in AAudio!Streams /\ stm'.kind = stm.kind
            /\ stm'.state = stm.state /\ stm'.mutex = "user"
        BY <1>t, <2>2 DEF AAudio!Streams, AAudio!States
      <3>2. stm.state \in AAudio!States
        BY <1>t DEF AAudio!Streams
      <3>3. /\ app' \in AAudio!Apps /\ app'.pc = "stop" /\ app'.loaded = stm.state
        BY <1>t, <2>2, <3>2 DEF AAudio!Apps
      <3>10. AAudioMutex(stm', app', v3')
        BY <1>0, <2>1, <2>2, <3>1, <3>3 DEF AAudioMutex
      <3>11. AAudioUser(stm', v1', app', thread')
        BY <1>0, <2>1, <2>2, <3>1, <3>3 DEF AAudioTypes, AAudioMutex, AAudioUser, AAudioDevices, AAudioLooker, AAudioAll,
           AAudioPlays, AAudioOpen
      <3>12. AAudioDevices(stm', v1', app', thread')
        BY <1>0, <2>1, <2>2, <3>1, <3>3 DEF AAudioTypes, AAudioMutex, AAudioUser, AAudioDevices, AAudioLooker, AAudioAll,
           AAudioPlays, AAudioOpen
      <3>13. AAudioLooker(stm', v1', app', v3')
        BY <1>0, <2>1, <2>2, <3>1, <3>3 DEF AAudioTypes, AAudioMutex, AAudioUser, AAudioDevices, AAudioLooker, AAudioAll,
           AAudioPlays, AAudioOpen
      <3> QED BY <1>0, <2>1, <2>2, <3>1, <3>3, <3>10, <3>11, <3>12, <3>13, AAudioGoesOn DEF AAudioTypes
    <2>3. CASE /\ stm.state \notin {"STARTED", "STARTING"} /\ UNCHANGED stm
               /\ app' = [app EXCEPT !.pc = "idle", !.loaded = "INIT", !.next = "idle"]
      <3>1. /\ app' \in AAudio!Apps /\ app'.pc = "idle"
        BY <1>t, <2>3 DEF AAudio!Apps, AAudio!States
      <3>10. AAudioMutex(stm', app', v3')
        BY <1>0, <2>1, <2>3, <3>1 DEF AAudioMutex
      <3>11. AAudioUser(stm', v1', app', thread')
        BY <1>0, <2>1, <2>3, <3>1 DEF AAudioTypes, AAudioMutex, AAudioUser, AAudioDevices, AAudioLooker, AAudioAll,
           AAudioPlays, AAudioOpen
      <3>12. AAudioDevices(stm', v1', app', thread')
        BY <1>0, <2>1, <2>3, <3>1 DEF AAudioTypes, AAudioMutex, AAudioUser, AAudioDevices, AAudioLooker, AAudioAll,
           AAudioPlays, AAudioOpen
      <3>13. AAudioLooker(stm', v1', app', v3')
        BY <1>0, <2>1, <2>3, <3>1 DEF AAudioTypes, AAudioMutex, AAudioUser, AAudioDevices, AAudioLooker, AAudioAll,
           AAudioPlays, AAudioOpen
      <3> QED BY <1>0, <2>1, <2>3, <3>1, <3>10, <3>11, <3>12, <3>13, AAudioGoesOn DEF AAudioTypes
    <2> QED BY <2>1, <2>2, <2>3
  <1>4. CASE AAudio!Destroy
    <2>1. /\ app.pc = "idle" /\ stm.mutex = "free" /\ UNCHANGED <<thread, v2, v3, v4>>
          /\ \/ stm.state \in {"STOPPED", "STOPPING", "SHUTDOWN"}
             \/ thread = "idle"
          /\ fault' = (stm.state \in {"STARTED", "STARTING"})
          /\ stm' = [stm EXCEPT !.mutex = "user"]
          /\ v1' = IF stm.state \in {"STOPPED", "STOPPING", "SHUTDOWN"} THEN v1 ELSE [v1 EXCEPT !.calls = FALSE]
          /\ app' = [app EXCEPT !.pc = "close"]
      BY <1>4 DEF AAudio!Destroy, AAudio!StoppedBefore, AAudio!Quiet
    <2>2. /\ stm' \in AAudio!Streams /\ stm'.kind = stm.kind
          /\ stm'.state = stm.state /\ stm'.mutex = "user"
      BY <1>t, <2>1 DEF AAudio!Streams, AAudio!States
    <2>3. /\ app' \in AAudio!Apps /\ app'.pc = "close" /\ app'.loaded = app.loaded /\ app'.next = app.next
      BY <1>t, <2>1 DEF AAudio!Apps, AAudio!States
    <2>4. /\ v1' \in AAudio!Devs /\ v1'.at = v1.at /\ v1'.pending = v1.pending
          /\ stm.state \notin {"STOPPED", "STOPPING", "SHUTDOWN"} => ~v1'.calls
      BY <1>t, <2>1 DEF AAudio!Devs
    <2>5. fault' = FALSE
      <3>1. stm.state \notin {"STARTED", "STARTING"}
        BY <1>0, <2>1 DEF AAudioUser
      <3>2. fault' = (stm.state \in {"STARTED", "STARTING"})
        BY <2>1
      <3>3. (stm.state \in {"STARTED", "STARTING"}) = FALSE
        BY ONLY <3>1
      <3> QED BY ONLY <3>2, <3>3
    <2>10. AAudioMutex(stm', app', v3')
      BY <1>0, <2>1, <2>2, <2>3, <2>4, <2>5 DEF AAudioMutex
    <2>11. AAudioUser(stm', v1', app', thread')
      BY <1>0, <2>1, <2>2, <2>3, <2>4, <2>5 DEF AAudioTypes, AAudioMutex, AAudioUser, AAudioDevices, AAudioLooker, AAudioAll,
         AAudioPlays, AAudioOpen
    <2>12. AAudioDevices(stm', v1', app', thread')
      BY <1>0, <2>1, <2>2, <2>3, <2>4, <2>5 DEF AAudioTypes, AAudioMutex, AAudioUser, AAudioDevices, AAudioLooker, AAudioAll,
         AAudioPlays, AAudioOpen
    <2>13. AAudioLooker(stm', v1', app', v3')
      BY <1>0, <2>1, <2>2, <2>3, <2>4, <2>5 DEF AAudioTypes, AAudioMutex, AAudioUser, AAudioDevices, AAudioLooker, AAudioAll,
         AAudioPlays, AAudioOpen
    <2> QED BY <1>0, <2>1, <2>2, <2>3, <2>4, <2>5, <2>10, <2>11, <2>12, <2>13, AAudioGoesOn DEF AAudioTypes
  <1>5. CASE AAudio!Join
    <2>1. /\ app.pc = "none" /\ v2' = [v2 EXCEPT !.join = TRUE] /\ app' = [app EXCEPT !.pc = "join"]
          /\ UNCHANGED <<stm, v1, thread, v3, v4, fault>>
      BY <1>5 DEF AAudio!Join
    <2>2. /\ app' \in AAudio!Apps /\ app'.pc = "join" /\ app'.loaded = app.loaded /\ app'.next = app.next
      BY <1>t, <2>1 DEF AAudio!Apps, AAudio!States
    <2>3. v2' \in AAudio!Contexts
      BY <1>t, <2>1 DEF AAudio!Contexts
    <2>10. AAudioMutex(stm', app', v3')
      BY <1>0, <2>1, <2>2, <2>3 DEF AAudioMutex
    <2>11. AAudioUser(stm', v1', app', thread')
      BY <1>0, <2>1, <2>2, <2>3 DEF AAudioTypes, AAudioMutex, AAudioUser, AAudioDevices, AAudioLooker, AAudioAll,
         AAudioPlays, AAudioOpen
    <2>12. AAudioDevices(stm', v1', app', thread')
      BY <1>0, <2>1, <2>2, <2>3 DEF AAudioTypes, AAudioMutex, AAudioUser, AAudioDevices, AAudioLooker, AAudioAll,
         AAudioPlays, AAudioOpen
    <2>13. AAudioLooker(stm', v1', app', v3')
      BY <1>0, <2>1, <2>2, <2>3 DEF AAudioTypes, AAudioMutex, AAudioUser, AAudioDevices, AAudioLooker, AAudioAll,
         AAudioPlays, AAudioOpen
    <2> QED BY <1>0, <2>1, <2>2, <2>3, <2>10, <2>11, <2>12, <2>13, AAudioGoesOn DEF AAudioTypes
  <1> QED BY <1>1, <1>2, <1>3, <1>4, <1>5

\* Every later step of a call of the user preserves it.
LEMMA AAudioGoesOnCalling ==
  ASSUME CubebAssumption, AAudio!IInv,
         \/ AAudio!Request("start i", AAudio!Inputs, "start o")
         \/ AAudio!Request("start o", AAudio!Outputs, "start cas")
         \/ AAudio!StartCas \/ AAudio!StopRequest \/ AAudio!StopCas
         \/ AAudio!Flag \/ AAudio!Notify \/ AAudio!Close \/ AAudio!NotifyAll
  PROVE  AAudio!IInv'
  <1>0. /\ AAudioTypes(stm, v1, app, thread, v2, v3, v4) /\ fault = FALSE
        /\ AAudioMutex(stm, app, v3) /\ AAudioUser(stm, v1, app, thread)
        /\ AAudioDevices(stm, v1, app, thread) /\ AAudioLooker(stm, v1, app, v3)
    BY AAudioBefore
  <1>t. /\ stm \in AAudio!Streams /\ stm.kind \in {"output", "input", "duplex"}
        /\ v1 \in AAudio!Devs /\ app \in AAudio!Apps /\ v3 \in AAudio!Lookers
        /\ v2 \in AAudio!Contexts
    BY <1>0 DEF AAudioTypes
  <1>o. /\ AAudio!Outputs \subseteq {"o"} /\ AAudio!Inputs \subseteq {"i"}
        /\ "o" \in AAudio!Outputs <=> stm.kind # "input"
        /\ "i" \in AAudio!Inputs <=> stm.kind # "output"
        /\ "o" \in AAudio!Own <=> stm.kind # "input"
        /\ "i" \in AAudio!Own <=> stm.kind # "output"
        /\ "o" \notin AAudio!Inputs /\ "i" \notin AAudio!Outputs
        /\ AAudio!Own \subseteq {"i", "o"}
    BY <1>t, AAudioOwn
  <1>1. CASE AAudio!Request("start i", AAudio!Inputs, "start o")
    <2>1. /\ app.pc = "start i" /\ UNCHANGED <<thread, v2, v3, v4, fault>>
          /\ \/ /\ v1' = AAudio!Devices("starting", AAudio!Inputs)
                /\ app' = [app EXCEPT !.pc = "start o"] /\ UNCHANGED stm
             \/ /\ stm' = [stm EXCEPT !.state = "ERROR", !.mutex = "free"] /\ UNCHANGED v1
                /\ app' = [app EXCEPT !.pc = "running", !.loaded = "INIT", !.next = "idle"]
      BY <1>1 DEF AAudio!Request, AAudio!AppGoto
    <2>2. CASE /\ v1' = AAudio!Devices("starting", AAudio!Inputs)
               /\ app' = [app EXCEPT !.pc = "start o"] /\ UNCHANGED stm
      <3>1. "starting" \in AAudio!DevStates
        BY DEF AAudio!DevStates
      <3>2. /\ v1' \in AAudio!Devs /\ v1'.calls = v1.calls /\ v1'.pending = v1.pending
            /\ v1'.at["o"] = IF "o" \in AAudio!Inputs THEN "starting" ELSE v1.at["o"]
            /\ v1'.at["i"] = IF "i" \in AAudio!Inputs THEN "starting" ELSE v1.at["i"]
        BY <1>t, <2>2, <3>1, AAudioDevicesSet, ZenonT(60)
      <3>3. v1'.at["o"] \in {"starting", v1.at["o"]} /\ v1'.at["i"] \in {"starting", v1.at["i"]}
        BY <3>2
      <3>4. /\ app' \in AAudio!Apps /\ app'.pc = "start o" /\ app'.loaded = app.loaded
        BY <1>t, <2>2 DEF AAudio!Apps
      <3>5. v3.pc \notin {"update", "cas"}
        BY <1>0, <2>1 DEF AAudioMutex
      <3>6. /\ v1'.at["o"] # v1.at["o"] => v1'.at["o"] = "starting"
            /\ v1'.at["i"] # v1.at["i"] => v1'.at["i"] = "starting"
        BY <3>3
      <3>10. AAudioMutex(stm', app', v3')
        BY <1>0, <2>1, <2>2, <3>2, <3>4, <3>5, <3>6 DEF AAudioMutex
      <3>11. AAudioUser(stm', v1', app', thread')
        BY <1>0, <2>1, <2>2, <3>2, <3>4, <3>5, <3>6 DEF AAudioTypes, AAudioMutex, AAudioUser, AAudioDevices, AAudioLooker, AAudioAll,
           AAudioPlays, AAudioOpen
      <3>12. AAudioDevices(stm', v1', app', thread')
        BY <1>0, <2>1, <2>2, <3>2, <3>4, <3>5, <3>6 DEF AAudioTypes, AAudioMutex, AAudioUser, AAudioDevices, AAudioLooker, AAudioAll,
           AAudioPlays, AAudioOpen
      <3>13. AAudioLooker(stm', v1', app', v3')
        BY <1>0, <2>1, <2>2, <3>2, <3>4, <3>5, <3>6 DEF AAudioTypes, AAudioMutex, AAudioUser, AAudioDevices, AAudioLooker, AAudioAll,
           AAudioPlays, AAudioOpen
      <3> QED BY <1>0, <2>1, <2>2, <3>2, <3>4, <3>5, <3>6, <3>10, <3>11, <3>12, <3>13, AAudioGoesOn DEF AAudioTypes
    <2>3. CASE /\ stm' = [stm EXCEPT !.state = "ERROR", !.mutex = "free"] /\ UNCHANGED v1
               /\ app' = [app EXCEPT !.pc = "running", !.loaded = "INIT", !.next = "idle"]
      <3>1. /\ stm' \in AAudio!Streams /\ stm'.kind = stm.kind
            /\ stm'.state = "ERROR" /\ stm'.mutex = "free"
        BY <1>t, <2>3 DEF AAudio!Streams, AAudio!States
      <3>2. /\ app' \in AAudio!Apps /\ app'.pc = "running"
        BY <1>t, <2>3 DEF AAudio!Apps, AAudio!States
      <3>10. AAudioMutex(stm', app', v3')
        BY <1>0, <2>1, <2>3, <3>1, <3>2 DEF AAudioMutex
      <3>11. AAudioUser(stm', v1', app', thread')
        BY <1>0, <2>1, <2>3, <3>1, <3>2 DEF AAudioTypes, AAudioMutex, AAudioUser, AAudioDevices, AAudioLooker, AAudioAll,
           AAudioPlays, AAudioOpen
      <3>12. AAudioDevices(stm', v1', app', thread')
        BY <1>0, <2>1, <2>3, <3>1, <3>2 DEF AAudioTypes, AAudioMutex, AAudioUser, AAudioDevices, AAudioLooker, AAudioAll,
           AAudioPlays, AAudioOpen
      <3>13. AAudioLooker(stm', v1', app', v3')
        BY <1>0, <2>1, <2>3, <3>1, <3>2 DEF AAudioTypes, AAudioMutex, AAudioUser, AAudioDevices, AAudioLooker, AAudioAll,
           AAudioPlays, AAudioOpen
      <3> QED BY <1>0, <2>1, <2>3, <3>1, <3>2, <3>10, <3>11, <3>12, <3>13, AAudioGoesOn DEF AAudioTypes
    <2> QED BY <2>1, <2>2, <2>3
  <1>2. CASE AAudio!Request("start o", AAudio!Outputs, "start cas")
    <2>1. /\ app.pc = "start o" /\ UNCHANGED <<thread, v2, v3, v4, fault>>
          /\ \/ /\ v1' = AAudio!Devices("starting", AAudio!Outputs)
                /\ app' = [app EXCEPT !.pc = "start cas"] /\ UNCHANGED stm
             \/ /\ stm' = [stm EXCEPT !.state = "ERROR", !.mutex = "free"] /\ UNCHANGED v1
                /\ app' = [app EXCEPT !.pc = "running", !.loaded = "INIT", !.next = "idle"]
      BY <1>2 DEF AAudio!Request, AAudio!AppGoto
    <2>2. CASE /\ v1' = AAudio!Devices("starting", AAudio!Outputs)
               /\ app' = [app EXCEPT !.pc = "start cas"] /\ UNCHANGED stm
      <3>1. "starting" \in AAudio!DevStates
        BY DEF AAudio!DevStates
      <3>2. /\ v1' \in AAudio!Devs /\ v1'.calls = v1.calls /\ v1'.pending = v1.pending
            /\ v1'.at["o"] = IF "o" \in AAudio!Outputs THEN "starting" ELSE v1.at["o"]
            /\ v1'.at["i"] = IF "i" \in AAudio!Outputs THEN "starting" ELSE v1.at["i"]
        BY <1>t, <2>2, <3>1, AAudioDevicesSet, ZenonT(60)
      <3>3. v1'.at["o"] \in {"starting", v1.at["o"]} /\ v1'.at["i"] \in {"starting", v1.at["i"]}
        BY <3>2
      <3>4. /\ app' \in AAudio!Apps /\ app'.pc = "start cas" /\ app'.loaded = app.loaded
        BY <1>t, <2>2 DEF AAudio!Apps
      <3>5. v3.pc \notin {"update", "cas"}
        BY <1>0, <2>1 DEF AAudioMutex
      <3>6. /\ v1'.at["o"] # v1.at["o"] => v1'.at["o"] = "starting"
            /\ v1'.at["i"] # v1.at["i"] => v1'.at["i"] = "starting"
        BY <3>3
      <3>10. AAudioMutex(stm', app', v3')
        BY <1>0, <2>1, <2>2, <3>2, <3>4, <3>5, <3>6 DEF AAudioMutex
      <3>11. AAudioUser(stm', v1', app', thread')
        BY <1>0, <2>1, <2>2, <3>2, <3>4, <3>5, <3>6 DEF AAudioTypes, AAudioMutex, AAudioUser, AAudioDevices, AAudioLooker, AAudioAll,
           AAudioPlays, AAudioOpen
      <3>12. AAudioDevices(stm', v1', app', thread')
        BY <1>0, <2>1, <2>2, <3>2, <3>4, <3>5, <3>6 DEF AAudioTypes, AAudioMutex, AAudioUser, AAudioDevices, AAudioLooker, AAudioAll,
           AAudioPlays, AAudioOpen
      <3>13. AAudioLooker(stm', v1', app', v3')
        BY <1>0, <2>1, <2>2, <3>2, <3>4, <3>5, <3>6 DEF AAudioTypes, AAudioMutex, AAudioUser, AAudioDevices, AAudioLooker, AAudioAll,
           AAudioPlays, AAudioOpen
      <3> QED BY <1>0, <2>1, <2>2, <3>2, <3>4, <3>5, <3>6, <3>10, <3>11, <3>12, <3>13, AAudioGoesOn DEF AAudioTypes
    <2>3. CASE /\ stm' = [stm EXCEPT !.state = "ERROR", !.mutex = "free"] /\ UNCHANGED v1
               /\ app' = [app EXCEPT !.pc = "running", !.loaded = "INIT", !.next = "idle"]
      <3>1. /\ stm' \in AAudio!Streams /\ stm'.kind = stm.kind
            /\ stm'.state = "ERROR" /\ stm'.mutex = "free"
        BY <1>t, <2>3 DEF AAudio!Streams, AAudio!States
      <3>2. /\ app' \in AAudio!Apps /\ app'.pc = "running"
        BY <1>t, <2>3 DEF AAudio!Apps, AAudio!States
      <3>10. AAudioMutex(stm', app', v3')
        BY <1>0, <2>1, <2>3, <3>1, <3>2 DEF AAudioMutex
      <3>11. AAudioUser(stm', v1', app', thread')
        BY <1>0, <2>1, <2>3, <3>1, <3>2 DEF AAudioTypes, AAudioMutex, AAudioUser, AAudioDevices, AAudioLooker, AAudioAll,
           AAudioPlays, AAudioOpen
      <3>12. AAudioDevices(stm', v1', app', thread')
        BY <1>0, <2>1, <2>3, <3>1, <3>2 DEF AAudioTypes, AAudioMutex, AAudioUser, AAudioDevices, AAudioLooker, AAudioAll,
           AAudioPlays, AAudioOpen
      <3>13. AAudioLooker(stm', v1', app', v3')
        BY <1>0, <2>1, <2>3, <3>1, <3>2 DEF AAudioTypes, AAudioMutex, AAudioUser, AAudioDevices, AAudioLooker, AAudioAll,
           AAudioPlays, AAudioOpen
      <3> QED BY <1>0, <2>1, <2>3, <3>1, <3>2, <3>10, <3>11, <3>12, <3>13, AAudioGoesOn DEF AAudioTypes
    <2> QED BY <2>1, <2>2, <2>3
  <1>3. CASE AAudio!StartCas
    <2>1. /\ app.pc = "start cas" /\ UNCHANGED <<v1, thread, v2, v3, v4>>
          /\ \/ /\ stm' = [stm EXCEPT !.state = "STARTING", !.mutex = "user"] /\ UNCHANGED fault
                /\ app' = [pc |-> "flag", loaded |-> "INIT", next |-> "running"]
             \/ /\ stm.state # app.loaded /\ fault' = (stm.state \notin {"ERROR", "DRAINING"})
                /\ stm' = [stm EXCEPT !.mutex = "free"]
                /\ app' = [app EXCEPT !.pc = "running", !.loaded = "INIT", !.next = "idle"]
      BY <1>3 DEF AAudio!StartCas, AAudio!AppGoto
    <2>2. CASE /\ stm' = [stm EXCEPT !.state = "STARTING", !.mutex = "user"] /\ UNCHANGED fault
               /\ app' = [pc |-> "flag", loaded |-> "INIT", next |-> "running"]
      <3>1. /\ stm' \in AAudio!Streams /\ stm'.kind = stm.kind
            /\ stm'.state = "STARTING" /\ stm'.mutex = "user"
        BY <1>0, <1>t, <2>1, <2>2 DEF AAudio!Streams, AAudio!States, AAudioMutex
      <3>2. /\ app' \in AAudio!Apps /\ app'.pc = "flag" /\ app'.next = "running"
        BY <2>2 DEF AAudio!Apps, AAudio!States
      <3>3. v3.pc \notin {"update", "cas"}
        BY <1>0, <2>1 DEF AAudioMutex
      <3>10. AAudioMutex(stm', app', v3')
        BY <1>0, <2>1, <2>2, <3>1, <3>2, <3>3 DEF AAudioMutex
      <3>11. AAudioUser(stm', v1', app', thread')
        BY <1>0, <2>1, <2>2, <3>1, <3>2, <3>3 DEF AAudioTypes, AAudioMutex, AAudioUser, AAudioDevices, AAudioLooker, AAudioAll,
           AAudioPlays, AAudioOpen
      <3>12. AAudioDevices(stm', v1', app', thread')
        BY <1>0, <2>1, <2>2, <3>1, <3>2, <3>3 DEF AAudioTypes, AAudioMutex, AAudioUser, AAudioDevices, AAudioLooker, AAudioAll,
           AAudioPlays, AAudioOpen
      <3>13. AAudioLooker(stm', v1', app', v3')
        BY <1>0, <2>1, <2>2, <3>1, <3>2, <3>3 DEF AAudioTypes, AAudioMutex, AAudioUser, AAudioDevices, AAudioLooker, AAudioAll,
           AAudioPlays, AAudioOpen
      <3> QED BY <1>0, <2>1, <2>2, <3>1, <3>2, <3>3, <3>10, <3>11, <3>12, <3>13, AAudioGoesOn DEF AAudioTypes
    <2>3. CASE /\ stm.state # app.loaded /\ fault' = (stm.state \notin {"ERROR", "DRAINING"})
               /\ stm' = [stm EXCEPT !.mutex = "free"]
               /\ app' = [app EXCEPT !.pc = "running", !.loaded = "INIT", !.next = "idle"]
      <3>1. /\ stm' \in AAudio!Streams /\ stm'.kind = stm.kind
            /\ stm'.state = stm.state /\ stm'.mutex = "free"
        BY <1>t, <2>3 DEF AAudio!Streams
      <3>2. /\ app' \in AAudio!Apps /\ app'.pc = "running"
        BY <1>t, <2>3 DEF AAudio!Apps, AAudio!States
      <3>3. stm.state \in {"ERROR", "DRAINING"}
        BY <1>0, <2>1, <2>3 DEF AAudioUser
      <3>4. fault' = FALSE
        BY ONLY <2>3, <3>3
      <3>10. AAudioMutex(stm', app', v3')
        BY <1>0, <2>1, <3>1, <3>2, <3>3, <3>4 DEF AAudioMutex
      <3>11. AAudioUser(stm', v1', app', thread')
        BY <1>0, <2>1, <3>1, <3>2, <3>3, <3>4, ZenonT(60) DEF AAudioTypes, AAudioMutex, AAudioUser, AAudioDevices, AAudioLooker, AAudioAll,
           AAudioPlays, AAudioOpen
      <3>12. AAudioDevices(stm', v1', app', thread')
        BY <1>0, <2>1, <3>1, <3>2, <3>3, <3>4, ZenonT(60) DEF AAudioTypes, AAudioMutex, AAudioUser, AAudioDevices, AAudioLooker, AAudioAll,
           AAudioPlays, AAudioOpen
      <3>13. AAudioLooker(stm', v1', app', v3')
        BY <1>0, <2>1, <3>1, <3>2, <3>3, <3>4 DEF AAudioTypes, AAudioMutex, AAudioUser, AAudioDevices, AAudioLooker, AAudioAll,
           AAudioPlays, AAudioOpen
      <3> QED BY <1>0, <2>1, <3>1, <3>2, <3>3, <3>4, <3>10, <3>11, <3>12, <3>13, AAudioGoesOn DEF AAudioTypes
    <2> QED BY <2>1, <2>2, <2>3
  <1>4. CASE AAudio!StopRequest
    <2>1. /\ app.pc = "stop" /\ UNCHANGED <<thread, v2, v3, v4, fault>>
          /\ \/ /\ thread = "idle" /\ v1' = AAudio!Devices("stopping", AAudio!Own)
                /\ app' = [app EXCEPT !.pc = "stop cas"] /\ UNCHANGED stm
             \/ /\ stm' = [stm EXCEPT !.state = "ERROR", !.mutex = "free"] /\ UNCHANGED v1
                /\ app' = [app EXCEPT !.pc = "idle", !.loaded = "INIT", !.next = "idle"]
      BY <1>4 DEF AAudio!StopRequest, AAudio!AppGoto, AAudio!Quiet
    <2>2. CASE /\ thread = "idle" /\ v1' = AAudio!Devices("stopping", AAudio!Own)
               /\ app' = [app EXCEPT !.pc = "stop cas"] /\ UNCHANGED stm
      <3>1. "stopping" \in AAudio!DevStates
        BY DEF AAudio!DevStates
      <3>2. /\ v1' \in AAudio!Devs /\ v1'.calls = v1.calls /\ v1'.pending = v1.pending
            /\ v1'.at["o"] = IF "o" \in AAudio!Own THEN "stopping" ELSE v1.at["o"]
            /\ v1'.at["i"] = IF "i" \in AAudio!Own THEN "stopping" ELSE v1.at["i"]
        BY <1>t, <2>2, <3>1, AAudioDevicesSet, ZenonT(60)
      <3>3. /\ stm.kind # "input" => v1'.at["o"] = "stopping"
            /\ stm.kind # "output" => v1'.at["i"] = "stopping"
        BY <1>o, <3>2
      <3>4. /\ app' \in AAudio!Apps /\ app'.pc = "stop cas" /\ app'.loaded = app.loaded
        BY <1>t, <2>2 DEF AAudio!Apps
      <3>5. v3.pc \notin {"update", "cas"}
        BY <1>0, <2>1 DEF AAudioMutex
      <3>10. AAudioMutex(stm', app', v3')
        BY <1>0, <2>1, <2>2, <3>2, <3>3, <3>4, <3>5 DEF AAudioMutex
      <3>11. AAudioUser(stm', v1', app', thread')
        BY <1>0, <2>1, <2>2, <3>2, <3>3, <3>4, <3>5 DEF AAudioTypes, AAudioMutex, AAudioUser, AAudioDevices, AAudioLooker, AAudioAll,
           AAudioPlays, AAudioOpen
      <3>12. AAudioDevices(stm', v1', app', thread')
        BY <1>0, <2>1, <2>2, <3>2, <3>3, <3>4, <3>5 DEF AAudioTypes, AAudioMutex, AAudioUser, AAudioDevices, AAudioLooker, AAudioAll,
           AAudioPlays, AAudioOpen
      <3>13. AAudioLooker(stm', v1', app', v3')
        BY <1>0, <2>1, <2>2, <3>2, <3>3, <3>4, <3>5 DEF AAudioTypes, AAudioMutex, AAudioUser, AAudioDevices, AAudioLooker, AAudioAll,
           AAudioPlays, AAudioOpen
      <3> QED BY <1>0, <2>1, <2>2, <3>2, <3>3, <3>4, <3>5, <3>10, <3>11, <3>12, <3>13, AAudioGoesOn DEF AAudioTypes
    <2>3. CASE /\ stm' = [stm EXCEPT !.state = "ERROR", !.mutex = "free"] /\ UNCHANGED v1
               /\ app' = [app EXCEPT !.pc = "idle", !.loaded = "INIT", !.next = "idle"]
      <3>1. /\ stm' \in AAudio!Streams /\ stm'.kind = stm.kind
            /\ stm'.state = "ERROR" /\ stm'.mutex = "free"
        BY <1>t, <2>3 DEF AAudio!Streams, AAudio!States
      <3>2. /\ app' \in AAudio!Apps /\ app'.pc = "idle"
        BY <1>t, <2>3 DEF AAudio!Apps, AAudio!States
      <3>10. AAudioMutex(stm', app', v3')
        BY <1>0, <2>1, <2>3, <3>1, <3>2 DEF AAudioMutex
      <3>11. AAudioUser(stm', v1', app', thread')
        BY <1>0, <2>1, <2>3, <3>1, <3>2 DEF AAudioTypes, AAudioMutex, AAudioUser, AAudioDevices, AAudioLooker, AAudioAll,
           AAudioPlays, AAudioOpen
      <3>12. AAudioDevices(stm', v1', app', thread')
        BY <1>0, <2>1, <2>3, <3>1, <3>2 DEF AAudioTypes, AAudioMutex, AAudioUser, AAudioDevices, AAudioLooker, AAudioAll,
           AAudioPlays, AAudioOpen
      <3>13. AAudioLooker(stm', v1', app', v3')
        BY <1>0, <2>1, <2>3, <3>1, <3>2 DEF AAudioTypes, AAudioMutex, AAudioUser, AAudioDevices, AAudioLooker, AAudioAll,
           AAudioPlays, AAudioOpen
      <3> QED BY <1>0, <2>1, <2>3, <3>1, <3>2, <3>10, <3>11, <3>12, <3>13, AAudioGoesOn DEF AAudioTypes
    <2> QED BY <2>1, <2>2, <2>3
  <1>5. CASE AAudio!StopCas
    <2>1. /\ app.pc = "stop cas" /\ UNCHANGED <<v1, thread, v2, v3, v4>>
          /\ \/ /\ stm' = [stm EXCEPT !.state = "STOPPING"] /\ UNCHANGED fault
                /\ app' = [pc |-> "flag", loaded |-> "INIT", next |-> "idle"]
             \/ /\ stm.state # app.loaded /\ fault' = (stm.state \notin {"ERROR", "DRAINING", "STOPPING", "STOPPED"})
                /\ stm' = [stm EXCEPT !.mutex = "free"]
                /\ app' = [app EXCEPT !.pc = "idle", !.loaded = "INIT", !.next = "idle"]
      BY <1>5 DEF AAudio!StopCas, AAudio!AppGoto
    <2>2. CASE /\ stm' = [stm EXCEPT !.state = "STOPPING"] /\ UNCHANGED fault
               /\ app' = [pc |-> "flag", loaded |-> "INIT", next |-> "idle"]
      <3>1. /\ stm' \in AAudio!Streams /\ stm'.kind = stm.kind
            /\ stm'.state = "STOPPING" /\ stm'.mutex = "user"
        BY <1>0, <1>t, <2>1, <2>2 DEF AAudio!Streams, AAudio!States, AAudioMutex
      <3>2. /\ app' \in AAudio!Apps /\ app'.pc = "flag" /\ app'.next = "idle"
        BY <2>2 DEF AAudio!Apps, AAudio!States
      <3>3. v3.pc \notin {"update", "cas"}
        BY <1>0, <2>1 DEF AAudioMutex
      <3>10. AAudioMutex(stm', app', v3')
        BY <1>0, <2>1, <2>2, <3>1, <3>2, <3>3 DEF AAudioMutex
      <3>11. AAudioUser(stm', v1', app', thread')
        BY <1>0, <2>1, <2>2, <3>1, <3>2, <3>3 DEF AAudioTypes, AAudioMutex, AAudioUser, AAudioDevices, AAudioLooker, AAudioAll,
           AAudioPlays, AAudioOpen
      <3>12. AAudioDevices(stm', v1', app', thread')
        BY <1>0, <2>1, <2>2, <3>1, <3>2, <3>3 DEF AAudioTypes, AAudioMutex, AAudioUser, AAudioDevices, AAudioLooker, AAudioAll,
           AAudioPlays, AAudioOpen
      <3>13. AAudioLooker(stm', v1', app', v3')
        BY <1>0, <2>1, <2>2, <3>1, <3>2, <3>3 DEF AAudioTypes, AAudioMutex, AAudioUser, AAudioDevices, AAudioLooker, AAudioAll,
           AAudioPlays, AAudioOpen
      <3> QED BY <1>0, <2>1, <2>2, <3>1, <3>2, <3>3, <3>10, <3>11, <3>12, <3>13, AAudioGoesOn DEF AAudioTypes
    <2>3. CASE /\ stm.state # app.loaded /\ fault' = (stm.state \notin {"ERROR", "DRAINING", "STOPPING", "STOPPED"})
               /\ stm' = [stm EXCEPT !.mutex = "free"]
               /\ app' = [app EXCEPT !.pc = "idle", !.loaded = "INIT", !.next = "idle"]
      <3>1. /\ stm' \in AAudio!Streams /\ stm'.kind = stm.kind
            /\ stm'.state = stm.state /\ stm'.mutex = "free"
        BY <1>t, <2>3 DEF AAudio!Streams
      <3>2. /\ app' \in AAudio!Apps /\ app'.pc = "idle"
        BY <1>t, <2>3 DEF AAudio!Apps, AAudio!States
      <3>3. stm.state \in {"ERROR", "DRAINING"}
        BY <1>0, <2>1, <2>3 DEF AAudioUser
      <3>4. fault' = FALSE
        BY ONLY <2>3, <3>3
      <3>10. AAudioMutex(stm', app', v3')
        BY <1>0, <2>1, <3>1, <3>2, <3>3, <3>4 DEF AAudioMutex
      <3>11. AAudioUser(stm', v1', app', thread')
        BY <1>0, <2>1, <3>1, <3>2, <3>3, <3>4, ZenonT(60) DEF AAudioTypes, AAudioMutex, AAudioUser, AAudioDevices, AAudioLooker, AAudioAll,
           AAudioPlays, AAudioOpen
      <3>12. AAudioDevices(stm', v1', app', thread')
        BY <1>0, <2>1, <3>1, <3>2, <3>3, <3>4 DEF AAudioTypes, AAudioMutex, AAudioUser, AAudioDevices, AAudioLooker, AAudioAll,
           AAudioPlays, AAudioOpen
      <3>13. AAudioLooker(stm', v1', app', v3')
        BY <1>0, <2>1, <3>1, <3>2, <3>3, <3>4 DEF AAudioTypes, AAudioMutex, AAudioUser, AAudioDevices, AAudioLooker, AAudioAll,
           AAudioPlays, AAudioOpen
      <3> QED BY <1>0, <2>1, <3>1, <3>2, <3>3, <3>4, <3>10, <3>11, <3>12, <3>13, AAudioGoesOn DEF AAudioTypes
    <2> QED BY <2>1, <2>2, <2>3
  <1>6. CASE AAudio!Flag
    <2>1. /\ app.pc = "flag" /\ v2' = [v2 EXCEPT !.waiting = TRUE] /\ app' = [app EXCEPT !.pc = "notify"]
          /\ UNCHANGED <<stm, v1, thread, v3, v4, fault>>
      BY <1>6 DEF AAudio!Flag
    <2>2. /\ app' \in AAudio!Apps /\ app'.pc = "notify" /\ app'.loaded = app.loaded /\ app'.next = app.next
      BY <1>t, <2>1 DEF AAudio!Apps, AAudio!States
    <2>3. v2' \in AAudio!Contexts
      BY <1>t, <2>1 DEF AAudio!Contexts
    <2>10. AAudioMutex(stm', app', v3')
      BY <1>0, <2>1, <2>2, <2>3 DEF AAudioMutex
    <2>11. AAudioUser(stm', v1', app', thread')
      BY <1>0, <2>1, <2>2, <2>3 DEF AAudioTypes, AAudioMutex, AAudioUser, AAudioDevices, AAudioLooker, AAudioAll,
         AAudioPlays, AAudioOpen
    <2>12. AAudioDevices(stm', v1', app', thread')
      BY <1>0, <2>1, <2>2, <2>3, ZenonT(60) DEF AAudioTypes, AAudioMutex, AAudioUser, AAudioDevices, AAudioLooker, AAudioAll,
         AAudioPlays, AAudioOpen
    <2>13. AAudioLooker(stm', v1', app', v3')
      BY <1>0, <2>1, <2>2, <2>3 DEF AAudioTypes, AAudioMutex, AAudioUser, AAudioDevices, AAudioLooker, AAudioAll,
         AAudioPlays, AAudioOpen
    <2> QED BY <1>0, <2>1, <2>2, <2>3, <2>10, <2>11, <2>12, <2>13, AAudioGoesOn DEF AAudioTypes
  <1>7. CASE AAudio!Notify
    <2>1. /\ app.pc = "notify" /\ v2' \in AAudio!NotifyOne(v2)
          /\ stm' = [stm EXCEPT !.mutex = "free"]
          /\ app' = [app EXCEPT !.pc = app.next, !.loaded = "INIT", !.next = "idle"]
          /\ UNCHANGED <<v1, thread, v3, v4, fault>>
      BY <1>7 DEF AAudio!Notify, AAudio!AppGoto
    <2>2. /\ stm' \in AAudio!Streams /\ stm'.kind = stm.kind
          /\ stm'.state = stm.state /\ stm'.mutex = "free"
      BY <1>t, <2>1 DEF AAudio!Streams, AAudio!States
    <2>3. /\ app' \in AAudio!Apps /\ app'.pc = app.next /\ app'.next = "idle"
          /\ app.next \in {"idle", "running"}
      BY <1>t, <2>1 DEF AAudio!Apps, AAudio!States
    <2>4. v2' \in AAudio!Contexts
      BY <1>t, <2>1, AAudioNotified
    <2>10. AAudioMutex(stm', app', v3')
      BY <1>0, <2>1, <2>2, <2>3, <2>4 DEF AAudioMutex
    <2>11. AAudioUser(stm', v1', app', thread')
      BY <1>0, <2>1, <2>2, <2>3, <2>4, ZenonT(60) DEF AAudioTypes, AAudioMutex, AAudioUser, AAudioDevices, AAudioLooker, AAudioAll,
         AAudioPlays, AAudioOpen
    <2>12. AAudioDevices(stm', v1', app', thread')
      BY <1>0, <2>1, <2>2, <2>3, <2>4, ZenonT(60) DEF AAudioTypes, AAudioMutex, AAudioUser, AAudioDevices, AAudioLooker, AAudioAll,
         AAudioPlays, AAudioOpen
    <2>13. AAudioLooker(stm', v1', app', v3')
      BY <1>0, <2>1, <2>2, <2>3, <2>4 DEF AAudioTypes, AAudioMutex, AAudioUser, AAudioDevices, AAudioLooker, AAudioAll,
         AAudioPlays, AAudioOpen
    <2> QED BY <1>0, <2>1, <2>2, <2>3, <2>4, <2>10, <2>11, <2>12, <2>13, AAudioGoesOn DEF AAudioTypes
  <1>8. CASE AAudio!Close
    <2>1. /\ app.pc = "close" /\ UNCHANGED <<thread, v2, v3, v4, fault>>
          /\ v1' = [AAudio!Devices("absent", AAudio!Own) EXCEPT !.calls = FALSE, !.pending = FALSE]
          /\ stm' = [stm EXCEPT !.state = "INIT", !.mutex = "free"]
          /\ app' = [app EXCEPT !.pc = "none"]
      BY <1>8 DEF AAudio!Close
    <2>2. /\ stm' \in AAudio!Streams /\ stm'.kind = stm.kind
          /\ stm'.state = "INIT" /\ stm'.mutex = "free"
      BY <1>t, <2>1 DEF AAudio!Streams, AAudio!States
    <2>3. /\ app' \in AAudio!Apps /\ app'.pc = "none" /\ app'.loaded = app.loaded /\ app'.next = app.next
      BY <1>t, <2>1 DEF AAudio!Apps, AAudio!States
    <2>4. /\ v1' \in AAudio!Devs /\ ~v1'.pending
          /\ v1'.at["o"] = IF "o" \in AAudio!Own THEN "absent" ELSE v1.at["o"]
          /\ v1'.at["i"] = IF "i" \in AAudio!Own THEN "absent" ELSE v1.at["i"]
      BY <1>t, <2>1 DEF AAudio!Devs, AAudio!Devices, AAudio!DevStates
    <2>5. /\ stm.kind # "input" => v1'.at["o"] = "absent"
          /\ stm.kind # "output" => v1'.at["i"] = "absent"
      BY <1>o, <2>4
    <2>10. AAudioMutex(stm', app', v3')
      BY <1>0, <2>1, <2>2, <2>3, <2>4, <2>5 DEF AAudioMutex
    <2>11. AAudioUser(stm', v1', app', thread')
      BY <1>0, <2>1, <2>2, <2>3, <2>4, <2>5 DEF AAudioTypes, AAudioMutex, AAudioUser, AAudioDevices, AAudioLooker, AAudioAll,
         AAudioPlays, AAudioOpen
    <2>12. AAudioDevices(stm', v1', app', thread')
      BY <1>0, <2>1, <2>2, <2>3, <2>4, <2>5 DEF AAudioTypes, AAudioMutex, AAudioUser, AAudioDevices, AAudioLooker, AAudioAll,
         AAudioPlays, AAudioOpen
    <2>13. AAudioLooker(stm', v1', app', v3')
      BY <1>0, <2>1, <2>2, <2>3, <2>4, <2>5 DEF AAudioTypes, AAudioMutex, AAudioUser, AAudioDevices, AAudioLooker, AAudioAll,
         AAudioPlays, AAudioOpen
    <2> QED BY <1>0, <2>1, <2>2, <2>3, <2>4, <2>5, <2>10, <2>11, <2>12, <2>13, AAudioGoesOn DEF AAudioTypes
  <1>9. CASE AAudio!NotifyAll
    <2>1. /\ app.pc = "join" /\ v2' = [v2 EXCEPT !.sleepers = {}] /\ app' = [app EXCEPT !.pc = "joined"]
          /\ UNCHANGED <<stm, v1, thread, v3, v4, fault>>
      BY <1>9 DEF AAudio!NotifyAll
    <2>2. /\ app' \in AAudio!Apps /\ app'.pc = "joined" /\ app'.loaded = app.loaded /\ app'.next = app.next
      BY <1>t, <2>1 DEF AAudio!Apps, AAudio!States
    <2>3. v2' \in AAudio!Contexts
      BY <1>t, <2>1 DEF AAudio!Contexts
    <2>10. AAudioMutex(stm', app', v3')
      BY <1>0, <2>1, <2>2, <2>3 DEF AAudioMutex
    <2>11. AAudioUser(stm', v1', app', thread')
      BY <1>0, <2>1, <2>2, <2>3 DEF AAudioTypes, AAudioMutex, AAudioUser, AAudioDevices, AAudioLooker, AAudioAll,
         AAudioPlays, AAudioOpen
    <2>12. AAudioDevices(stm', v1', app', thread')
      BY <1>0, <2>1, <2>2, <2>3 DEF AAudioTypes, AAudioMutex, AAudioUser, AAudioDevices, AAudioLooker, AAudioAll,
         AAudioPlays, AAudioOpen
    <2>13. AAudioLooker(stm', v1', app', v3')
      BY <1>0, <2>1, <2>2, <2>3 DEF AAudioTypes, AAudioMutex, AAudioUser, AAudioDevices, AAudioLooker, AAudioAll,
         AAudioPlays, AAudioOpen
    <2> QED BY <1>0, <2>1, <2>2, <2>3, <2>10, <2>11, <2>12, <2>13, AAudioGoesOn DEF AAudioTypes
  <1> QED BY <1>1, <1>2, <1>3, <1>4, <1>5, <1>6, <1>7, <1>8, <1>9

\* Every step of AAudio and its callbacks preserves it.
LEMMA AAudioAudioStep ==
  ASSUME CubebAssumption, AAudio!IInv, AAudio!AudioNext PROVE AAudio!IInv'
  <1>0. /\ AAudioTypes(stm, v1, app, thread, v2, v3, v4) /\ fault = FALSE
        /\ AAudioMutex(stm, app, v3) /\ AAudioUser(stm, v1, app, thread)
        /\ AAudioDevices(stm, v1, app, thread) /\ AAudioLooker(stm, v1, app, v3)
    BY AAudioBefore
  <1>t. /\ stm \in AAudio!Streams /\ stm.kind \in {"output", "input", "duplex"}
        /\ v1 \in AAudio!Devs /\ app \in AAudio!Apps /\ v3 \in AAudio!Lookers
        /\ v2 \in AAudio!Contexts
    BY <1>0 DEF AAudioTypes
  <1>o. /\ AAudio!Outputs \subseteq {"o"} /\ AAudio!Inputs \subseteq {"i"}
        /\ "o" \in AAudio!Outputs <=> stm.kind # "input"
        /\ "i" \in AAudio!Inputs <=> stm.kind # "output"
        /\ "o" \in AAudio!Own <=> stm.kind # "input"
        /\ "i" \in AAudio!Own <=> stm.kind # "output"
        /\ "o" \notin AAudio!Inputs /\ "i" \notin AAudio!Outputs
        /\ AAudio!Own \subseteq {"i", "o"}
    BY <1>t, AAudioOwn
  <1>1. CASE AAudio!Callback
    <2>1. /\ thread = "idle" /\ v1.calls /\ v1.at[AAudio!Caller] \in {"starting", "started"}
          /\ fault' = (stm.state = "SHUTDOWN")
          /\ thread' = IF fault' \/ stm.state = "DRAINING" THEN "idle" ELSE "calling"
          /\ UNCHANGED <<stm, v1, app, v2, v3, v4>>
      BY <1>1 DEF AAudio!Callback
    <2>2. AAudioPlays(stm.kind, v1.at)
      <3>1. /\ stm.kind = "input" => AAudio!Caller = "i"
            /\ stm.kind # "input" => AAudio!Caller = "o"
        BY DEF AAudio!Caller
      <3> QED BY <2>1, <3>1 DEF AAudioPlays
    <2>3. app.pc \notin {"none", "join", "joined", "stop cas"} /\ (app.pc = "close" => ~v1.calls)
      BY <1>0, <2>2 DEF AAudioTypes, AAudioUser, AAudioAll, AAudioPlays
    <2>4. stm.state # "SHUTDOWN"
      BY <1>0, <2>1, <2>2, <2>3
         DEF AAudioTypes, AAudioUser, AAudioDevices, AAudioAll, AAudioPlays
    <2>5. fault' = FALSE
      <3>1. (stm.state = "SHUTDOWN") = FALSE
        BY ONLY <2>4
      <3> QED BY ONLY <2>1, <3>1
    <2>6. thread' \in {"idle", "calling"} /\ (thread' = "calling" => stm.state # "DRAINING")
      BY ONLY <2>1
    <2>10. AAudioMutex(stm', app', v3')
      BY <1>0, <2>1, <2>2, <2>3, <2>4, <2>5, <2>6 DEF AAudioMutex
    <2>11. AAudioUser(stm', v1', app', thread')
      BY <1>0, <2>1, <2>2, <2>3, <2>4, <2>5, <2>6, ZenonT(60) DEF AAudioTypes, AAudioMutex, AAudioUser, AAudioDevices, AAudioLooker, AAudioAll,
         AAudioPlays, AAudioOpen
    <2>12. AAudioDevices(stm', v1', app', thread')
      BY <1>0, <2>1, <2>2, <2>3, <2>4, <2>5, <2>6 DEF AAudioTypes, AAudioMutex, AAudioUser, AAudioDevices, AAudioLooker, AAudioAll,
         AAudioPlays, AAudioOpen
    <2>13. AAudioLooker(stm', v1', app', v3')
      BY <1>0, <2>1, <2>2, <2>3, <2>4, <2>5, <2>6 DEF AAudioTypes, AAudioMutex, AAudioUser, AAudioDevices, AAudioLooker, AAudioAll,
         AAudioPlays, AAudioOpen
    <2> QED BY <1>0, <2>1, <2>2, <2>3, <2>4, <2>5, <2>6, <2>10, <2>11, <2>12, <2>13, AAudioGoesOn DEF AAudioTypes
  <1>2. CASE AAudio!CallReturns
    <2>1. /\ thread = "calling" /\ UNCHANGED <<app, v2, v3, v4, fault>>
          /\ \/ thread' = "idle" /\ UNCHANGED <<stm, v1>>
             \/ thread' = "flag" /\ stm' = [stm EXCEPT !.state = "DRAINING"] /\ UNCHANGED v1
             \/ /\ thread' = "idle" /\ stm' = [stm EXCEPT !.state = "ERROR"]
                /\ v1' = [v1 EXCEPT !.calls = FALSE]
      BY <1>2 DEF AAudio!CallReturns, AAudio!Short
    <2>2. app.pc \notin {"none", "join", "joined", "stop cas", "close"}
      BY <1>0, <2>1 DEF AAudioTypes, AAudioUser, AAudioDevices, AAudioAll, AAudioPlays
    <2>3. CASE thread' = "idle" /\ UNCHANGED <<stm, v1>>
      <3>10. AAudioMutex(stm', app', v3')
        BY <1>0, <2>1, <2>2, <2>3 DEF AAudioMutex
      <3>11. AAudioUser(stm', v1', app', thread')
        BY <1>0, <2>1, <2>2, <2>3, ZenonT(60) DEF AAudioTypes, AAudioMutex, AAudioUser, AAudioDevices, AAudioLooker, AAudioAll,
           AAudioPlays, AAudioOpen
      <3>12. AAudioDevices(stm', v1', app', thread')
        BY <1>0, <2>1, <2>2, <2>3 DEF AAudioTypes, AAudioMutex, AAudioUser, AAudioDevices, AAudioLooker, AAudioAll,
           AAudioPlays, AAudioOpen
      <3>13. AAudioLooker(stm', v1', app', v3')
        BY <1>0, <2>1, <2>2, <2>3 DEF AAudioTypes, AAudioMutex, AAudioUser, AAudioDevices, AAudioLooker, AAudioAll,
           AAudioPlays, AAudioOpen
      <3> QED BY <1>0, <2>1, <2>2, <2>3, <3>10, <3>11, <3>12, <3>13, AAudioGoesOn DEF AAudioTypes
    <2>4. CASE thread' = "flag" /\ stm' = [stm EXCEPT !.state = "DRAINING"] /\ UNCHANGED v1
      <3>1. /\ stm' \in AAudio!Streams /\ stm'.kind = stm.kind
            /\ stm'.state = "DRAINING" /\ stm'.mutex = stm.mutex
        BY <1>t, <2>4 DEF AAudio!Streams, AAudio!States
      <3>10. AAudioMutex(stm', app', v3')
        BY <1>0, <2>1, <2>2, <2>4, <3>1 DEF AAudioMutex
      <3>11. AAudioUser(stm', v1', app', thread')
        BY <1>0, <2>1, <2>2, <2>4, <3>1, ZenonT(60) DEF AAudioTypes, AAudioMutex, AAudioUser, AAudioDevices, AAudioLooker, AAudioAll,
           AAudioPlays, AAudioOpen
      <3>12. AAudioDevices(stm', v1', app', thread')
        BY <1>0, <2>1, <2>2, <2>4, <3>1 DEF AAudioTypes, AAudioMutex, AAudioUser, AAudioDevices, AAudioLooker, AAudioAll,
           AAudioPlays, AAudioOpen
      <3>13. AAudioLooker(stm', v1', app', v3')
        BY <1>0, <2>1, <2>2, <2>4, <3>1 DEF AAudioTypes, AAudioMutex, AAudioUser, AAudioDevices, AAudioLooker, AAudioAll,
           AAudioPlays, AAudioOpen
      <3> QED BY <1>0, <2>1, <2>2, <2>4, <3>1, <3>10, <3>11, <3>12, <3>13, AAudioGoesOn DEF AAudioTypes
    <2>5. CASE /\ thread' = "idle" /\ stm' = [stm EXCEPT !.state = "ERROR"]
               /\ v1' = [v1 EXCEPT !.calls = FALSE]
      <3>1. /\ stm' \in AAudio!Streams /\ stm'.kind = stm.kind
            /\ stm'.state = "ERROR" /\ stm'.mutex = stm.mutex
        BY <1>t, <2>5 DEF AAudio!Streams, AAudio!States
      <3>2. v1' \in AAudio!Devs /\ v1'.at = v1.at /\ v1'.pending = v1.pending /\ ~v1'.calls
        BY <1>t, <2>5 DEF AAudio!Devs
      <3>10. AAudioMutex(stm', app', v3')
        BY <1>0, <2>1, <2>2, <2>5, <3>1, <3>2 DEF AAudioMutex
      <3>11. AAudioUser(stm', v1', app', thread')
        BY <1>0, <2>1, <2>2, <2>5, <3>1, <3>2 DEF AAudioTypes, AAudioMutex, AAudioUser, AAudioDevices, AAudioLooker, AAudioAll,
           AAudioPlays, AAudioOpen
      <3>12. AAudioDevices(stm', v1', app', thread')
        BY <1>0, <2>1, <2>2, <2>5, <3>1, <3>2 DEF AAudioTypes, AAudioMutex, AAudioUser, AAudioDevices, AAudioLooker, AAudioAll,
           AAudioPlays, AAudioOpen
      <3>13. AAudioLooker(stm', v1', app', v3')
        BY <1>0, <2>1, <2>2, <2>5, <3>1, <3>2 DEF AAudioTypes, AAudioMutex, AAudioUser, AAudioDevices, AAudioLooker, AAudioAll,
           AAudioPlays, AAudioOpen
      <3> QED BY <1>0, <2>1, <2>2, <2>5, <3>1, <3>2, <3>10, <3>11, <3>12, <3>13, AAudioGoesOn DEF AAudioTypes
    <2> QED BY <2>1, <2>3, <2>4, <2>5
  <1>3. CASE AAudio!CallFlag
    <2>1. /\ thread = "flag" /\ v2' = [v2 EXCEPT !.waiting = TRUE] /\ thread' = "notify"
          /\ UNCHANGED <<stm, v1, app, v3, v4, fault>>
      BY <1>3 DEF AAudio!CallFlag
    <2>2. v2' \in AAudio!Contexts
      BY <1>t, <2>1 DEF AAudio!Contexts
    <2>10. AAudioMutex(stm', app', v3')
      BY <1>0, <2>1, <2>2 DEF AAudioMutex
    <2>11. AAudioUser(stm', v1', app', thread')
      BY <1>0, <2>1, <2>2 DEF AAudioUser
    <2>12. AAudioDevices(stm', v1', app', thread')
      BY <1>0, <2>1, <2>2, ZenonT(60) DEF AAudioTypes, AAudioMutex, AAudioUser, AAudioDevices, AAudioLooker, AAudioAll,
         AAudioPlays, AAudioOpen
    <2>13. AAudioLooker(stm', v1', app', v3')
      BY <1>0, <2>1, <2>2, ZenonT(60) DEF AAudioTypes, AAudioMutex, AAudioUser, AAudioDevices, AAudioLooker, AAudioAll,
         AAudioPlays, AAudioOpen
    <2> QED BY <1>0, <2>1, <2>2, <2>10, <2>11, <2>12, <2>13, AAudioGoesOn DEF AAudioTypes
  <1>4. CASE AAudio!CallNotify
    <2>1. /\ thread = "notify" /\ v2' \in AAudio!NotifyOne(v2) /\ thread' = "idle"
          /\ UNCHANGED <<stm, v1, app, v3, v4, fault>>
      BY <1>4 DEF AAudio!CallNotify
    <2>2. v2' \in AAudio!Contexts
      BY <1>t, <2>1, AAudioNotified
    <2>10. AAudioMutex(stm', app', v3')
      BY <1>0, <2>1, <2>2 DEF AAudioMutex
    <2>11. AAudioUser(stm', v1', app', thread')
      BY <1>0, <2>1, <2>2 DEF AAudioUser
    <2>12. AAudioDevices(stm', v1', app', thread')
      BY <1>0, <2>1, <2>2, ZenonT(60) DEF AAudioTypes, AAudioMutex, AAudioUser, AAudioDevices, AAudioLooker, AAudioAll,
         AAudioPlays, AAudioOpen
    <2>13. AAudioLooker(stm', v1', app', v3')
      BY <1>0, <2>1, <2>2, ZenonT(60) DEF AAudioTypes, AAudioMutex, AAudioUser, AAudioDevices, AAudioLooker, AAudioAll,
         AAudioPlays, AAudioOpen
    <2> QED BY <1>0, <2>1, <2>2, <2>10, <2>11, <2>12, <2>13, AAudioGoesOn DEF AAudioTypes
  <1>5. CASE AAudio!DeviceMoves
    <2>1. UNCHANGED <<stm, app, thread, v2, v3, v4, fault>>
      BY <1>5 DEF AAudio!DeviceMoves
    <2>2. PICK d \in AAudio!Own :
            \/ v1.at[d] = "starting" /\ v1' = AAudio!Devices("started", {d})
            \/ v1.at[d] = "stopping" /\ v1' = AAudio!Devices("stopped", {d})
      BY <1>5 DEF AAudio!DeviceMoves
    <2>3. PICK new \in {"started", "stopped"} :
            /\ v1' = AAudio!Devices(new, {d})
            /\ new = "started" => v1.at[d] = "starting"
            /\ new = "stopped" => v1.at[d] = "stopping"
      BY <2>2
    <2>4. new \in AAudio!DevStates
      BY DEF AAudio!DevStates
    <2>5. /\ v1' \in AAudio!Devs /\ v1'.calls = v1.calls /\ v1'.pending = v1.pending
          /\ v1'.at["o"] = IF "o" \in {d} THEN new ELSE v1.at["o"]
          /\ v1'.at["i"] = IF "i" \in {d} THEN new ELSE v1.at["i"]
      BY <1>t, <2>3, <2>4 DEF AAudio!Devs, AAudio!Devices, AAudio!DevStates
    <2>6. d \in {"i", "o"}
      BY <1>o, <2>2
    <2>7. /\ \/ v1'.at["o"] = v1.at["o"]
             \/ v1.at["o"] = "starting" /\ v1'.at["o"] = "started"
             \/ v1.at["o"] = "stopping" /\ v1'.at["o"] = "stopped"
          /\ \/ v1'.at["i"] = v1.at["i"]
             \/ v1.at["i"] = "starting" /\ v1'.at["i"] = "started"
             \/ v1.at["i"] = "stopping" /\ v1'.at["i"] = "stopped"
      BY <2>3, <2>5, <2>6
    <2>8. v1' \in AAudio!Devs /\ v1'.calls = v1.calls /\ v1'.pending = v1.pending
      BY <2>5
    <2>9. app.pc \notin {"none", "join", "joined"}
      BY <1>0, <1>o, <2>2 DEF AAudioUser, AAudioAll
    <2>10. /\ AAudioPlays(stm.kind, v1'.at) <=> AAudioPlays(stm.kind, v1.at)
           /\ AAudioAll(stm.kind, v1.at, AAudioOpen) => AAudioAll(stm.kind, v1'.at, AAudioOpen)
           /\ AAudioAll(stm.kind, v1.at, {"stopping", "stopped", "lost"}) =>
                AAudioAll(stm.kind, v1'.at, {"stopping", "stopped", "lost"})
           /\ AAudioAll(stm.kind, v1.at, {"stopped", "lost"}) =>
                AAudioAll(stm.kind, v1'.at, {"stopped", "lost"})
      BY <2>7 DEF AAudioAll, AAudioPlays, AAudioOpen
    <2>11. AAudioMutex(stm', app', v3')
      BY <1>0, <2>1 DEF AAudioMutex
    <2>12. AAudioUser(stm', v1', app', thread')
      BY <1>0, <2>1, <2>8, <2>9, <2>10 DEF AAudioUser
    <2>13. AAudioDevices(stm', v1', app', thread')
      BY <1>0, <2>1, <2>10 DEF AAudioDevices
    <2>14. AAudioLooker(stm', v1', app', v3')
      BY <1>0, <2>1, <2>10 DEF AAudioLooker
    <2> QED BY <1>0, <2>1, <2>8, <2>11, <2>12, <2>13, <2>14, AAudioGoesOn DEF AAudioTypes
  <1>6. CASE AAudio!DeviceLost
    <2>1. /\ thread = "idle" /\ UNCHANGED <<stm, app, thread, v2, v3, v4, fault>>
          /\ \A d \in AAudio!Own : v1.at[d] \notin {"absent", "lost"}
          /\ v1' = [AAudio!Devices("lost", AAudio!Own) EXCEPT !.pending = TRUE]
      BY <1>6 DEF AAudio!DeviceLost, AAudio!Quiet
    <2>2. /\ v1' \in AAudio!Devs /\ v1'.calls = v1.calls
          /\ v1'.at["o"] = IF "o" \in AAudio!Own THEN "lost" ELSE v1.at["o"]
          /\ v1'.at["i"] = IF "i" \in AAudio!Own THEN "lost" ELSE v1.at["i"]
      BY <1>t, <2>1 DEF AAudio!Devs, AAudio!Devices, AAudio!DevStates
    <2>3. /\ stm.kind # "input" => v1.at["o"] # "absent" /\ v1'.at["o"] = "lost"
          /\ stm.kind # "output" => v1.at["i"] # "absent" /\ v1'.at["i"] = "lost"
      BY <1>o, <2>1, <2>2
    <2>4. app.pc \notin {"none", "join", "joined"}
      BY <1>0, <2>3 DEF AAudioTypes, AAudioUser, AAudioAll
    <2>5. v1' \in AAudio!Devs /\ v1'.calls = v1.calls
      BY <2>2
    <2>10. AAudioMutex(stm', app', v3')
      BY <1>0, <2>1, <2>3, <2>4, <2>5 DEF AAudioMutex
    <2>11. AAudioUser(stm', v1', app', thread')
      BY <1>0, <2>1, <2>3, <2>4, <2>5, ZenonT(60) DEF AAudioTypes, AAudioMutex, AAudioUser, AAudioDevices, AAudioLooker, AAudioAll,
         AAudioPlays, AAudioOpen
    <2>12. AAudioDevices(stm', v1', app', thread')
      BY <1>0, <2>1, <2>3, <2>4, <2>5 DEF AAudioTypes, AAudioMutex, AAudioUser, AAudioDevices, AAudioLooker, AAudioAll,
         AAudioPlays, AAudioOpen
    <2>13. AAudioLooker(stm', v1', app', v3')
      BY <1>0, <2>1, <2>3, <2>4, <2>5 DEF AAudioTypes, AAudioMutex, AAudioUser, AAudioDevices, AAudioLooker, AAudioAll,
         AAudioPlays, AAudioOpen
    <2> QED BY <1>0, <2>1, <2>3, <2>4, <2>5, <2>10, <2>11, <2>12, <2>13, AAudioGoesOn DEF AAudioTypes
  <1>7. CASE AAudio!ErrorCallback
    <2>1. /\ v1.pending /\ v1' = [v1 EXCEPT !.pending = FALSE]
          /\ stm' = [stm EXCEPT !.state = "ERROR"] /\ UNCHANGED <<app, thread, v2, v3, v4, fault>>
      BY <1>7 DEF AAudio!ErrorCallback
    <2>2. /\ stm' \in AAudio!Streams /\ stm'.kind = stm.kind
          /\ stm'.state = "ERROR" /\ stm'.mutex = stm.mutex
      BY <1>t, <2>1 DEF AAudio!Streams, AAudio!States
    <2>3. v1' \in AAudio!Devs /\ v1'.at = v1.at /\ ~v1'.pending /\ v1'.calls = v1.calls
      BY <1>t, <2>1 DEF AAudio!Devs
    <2>10. AAudioMutex(stm', app', v3')
      BY <1>0, <2>1, <2>2, <2>3 DEF AAudioMutex
    <2>11. AAudioUser(stm', v1', app', thread')
      BY <1>0, <2>1, <2>2, <2>3, ZenonT(60) DEF AAudioTypes, AAudioMutex, AAudioUser, AAudioDevices, AAudioLooker, AAudioAll,
         AAudioPlays, AAudioOpen
    <2>12. AAudioDevices(stm', v1', app', thread')
      BY <1>0, <2>1, <2>2, <2>3 DEF AAudioTypes, AAudioMutex, AAudioUser, AAudioDevices, AAudioLooker, AAudioAll,
         AAudioPlays, AAudioOpen
    <2>13. AAudioLooker(stm', v1', app', v3')
      BY <1>0, <2>1, <2>2, <2>3, ZenonT(60) DEF AAudioTypes, AAudioMutex, AAudioUser, AAudioDevices, AAudioLooker, AAudioAll,
         AAudioPlays, AAudioOpen
    <2> QED BY <1>0, <2>1, <2>2, <2>3, <2>10, <2>11, <2>12, <2>13, AAudioGoesOn DEF AAudioTypes
  <1> QED BY <1>1, <1>2, <1>3, <1>4, <1>5, <1>6, <1>7 DEF AAudio!AudioNext

\* Every step of the state thread preserves it.
LEMMA AAudioLookerStep ==
  ASSUME CubebAssumption, AAudio!IInv, AAudio!LookerNext PROVE AAudio!IInv'
  <1>0. /\ AAudioTypes(stm, v1, app, thread, v2, v3, v4) /\ fault = FALSE
        /\ AAudioMutex(stm, app, v3) /\ AAudioUser(stm, v1, app, thread)
        /\ AAudioDevices(stm, v1, app, thread) /\ AAudioLooker(stm, v1, app, v3)
    BY AAudioBefore
  <1>t. /\ stm \in AAudio!Streams /\ stm.kind \in {"output", "input", "duplex"}
        /\ v1 \in AAudio!Devs /\ app \in AAudio!Apps /\ v3 \in AAudio!Lookers
        /\ v2 \in AAudio!Contexts
    BY <1>0 DEF AAudioTypes
  <1>o. /\ AAudio!Outputs \subseteq {"o"} /\ AAudio!Inputs \subseteq {"i"}
        /\ "o" \in AAudio!Outputs <=> stm.kind # "input"
        /\ "i" \in AAudio!Inputs <=> stm.kind # "output"
        /\ "o" \in AAudio!Own <=> stm.kind # "input"
        /\ "i" \in AAudio!Own <=> stm.kind # "output"
        /\ "o" \notin AAudio!Inputs /\ "i" \notin AAudio!Outputs
        /\ AAudio!Own \subseteq {"i", "o"}
    BY <1>t, AAudioOwn
  <1>1. CASE AAudio!Top
    <2>1. v3.pc = "top" /\ UNCHANGED <<stm, v1, app, thread, v4, fault>>
      BY <1>1 DEF AAudio!Top
    <2>2. v3' \in AAudio!Lookers /\ v3'.pc \in {"done", "scan", "sleep"}
      BY <1>t, <1>1 DEF AAudio!Top, AAudio!Goto, AAudio!Lookers, AAudio!States
    <2>3. v2' \in AAudio!Contexts
      <3>1. [v2 EXCEPT !.mutex = "free"] \in AAudio!Contexts
        BY <1>t DEF AAudio!Contexts
      <3>2. \A e \in AAudio!NotifyOne([v2 EXCEPT !.mutex = "free"]) : e \in AAudio!Contexts
        BY <3>1, AAudioNotified
      <3>3. [v2 EXCEPT !.waiting = FALSE] \in AAudio!Contexts
        BY <1>t DEF AAudio!Contexts
      <3>4. \/ v2' \in AAudio!NotifyOne([v2 EXCEPT !.mutex = "free"])
            \/ v2' = [v2 EXCEPT !.waiting = FALSE]
            \/ v2' = v2
        BY <1>1 DEF AAudio!Top
      <3> QED BY <1>t, <3>2, <3>3, <3>4
    <2>10. AAudioMutex(stm', app', v3') /\ AAudioLooker(stm', v1', app', v3')
      BY <1>0, <2>1, <2>2, <2>3 DEF AAudioMutex, AAudioLooker
    <2>11. AAudioUser(stm', v1', app', thread') /\ AAudioDevices(stm', v1', app', thread')
      BY <1>0, <2>1, <2>2, <2>3 DEF AAudioUser, AAudioDevices
    <2> QED BY <1>0, <2>1, <2>2, <2>3, <2>10, <2>11, AAudioGoesOn DEF AAudioTypes
  <1>2. CASE AAudio!Scan
    <2>1. /\ v3.pc = "scan" /\ UNCHANGED <<v1, app, thread, v2, v4, fault>>
          /\ \/ /\ stm.mutex = "free" /\ stm.state \in {"DRAINING", "STARTING", "STOPPING", "ERROR"}
                /\ stm' = [stm EXCEPT !.mutex = "state"]
                /\ v3' = [v3 EXCEPT !.pc = "update", !.old = stm.state]
             \/ AAudio!Goto("after") /\ UNCHANGED stm
      BY <1>2 DEF AAudio!Scan, AAudio!Waiting
    <2>2. CASE /\ stm.mutex = "free" /\ stm.state \in {"DRAINING", "STARTING", "STOPPING", "ERROR"}
               /\ stm' = [stm EXCEPT !.mutex = "state"]
               /\ v3' = [v3 EXCEPT !.pc = "update", !.old = stm.state]
      <3>1. /\ stm' \in AAudio!Streams /\ stm'.kind = stm.kind
            /\ stm'.state = stm.state /\ stm'.mutex = "state"
        BY <1>t, <2>2 DEF AAudio!Streams
      <3>2. stm.state \in AAudio!States
        BY <1>t DEF AAudio!Streams
      <3>3. v3' \in AAudio!Lookers /\ v3'.pc = "update" /\ v3'.old = stm.state
        BY <1>t, <2>2, <3>2 DEF AAudio!Lookers
      <3>10. AAudioMutex(stm', app', v3')
        BY <1>0, <2>1, <2>2, <3>1, <3>3 DEF AAudioMutex
      <3>11. AAudioUser(stm', v1', app', thread')
        BY <1>0, <2>1, <2>2, <3>1, <3>3, ZenonT(60) DEF AAudioTypes, AAudioMutex, AAudioUser, AAudioDevices, AAudioLooker, AAudioAll,
           AAudioPlays, AAudioOpen
      <3>12. AAudioDevices(stm', v1', app', thread')
        BY <1>0, <2>1, <2>2, <3>1, <3>3, ZenonT(60) DEF AAudioTypes, AAudioMutex, AAudioUser, AAudioDevices, AAudioLooker, AAudioAll,
           AAudioPlays, AAudioOpen
      <3>13. AAudioLooker(stm', v1', app', v3')
        BY <1>0, <2>1, <2>2, <3>1, <3>3, ZenonT(60) DEF AAudioTypes, AAudioMutex, AAudioUser, AAudioDevices, AAudioLooker, AAudioAll,
           AAudioPlays, AAudioOpen
      <3> QED BY <1>0, <2>1, <2>2, <3>1, <3>3, <3>10, <3>11, <3>12, <3>13, AAudioGoesOn DEF AAudioTypes
    <2>3. CASE AAudio!Goto("after") /\ UNCHANGED stm
      <3>1. v3' \in AAudio!Lookers /\ v3'.pc = "after"
        BY <1>t, <2>3 DEF AAudio!Goto, AAudio!Lookers, AAudio!States
      <3>10. AAudioMutex(stm', app', v3') /\ AAudioLooker(stm', v1', app', v3')
        BY <1>0, <2>1, <2>3, <3>1 DEF AAudioMutex, AAudioLooker
      <3>11. AAudioUser(stm', v1', app', thread') /\ AAudioDevices(stm', v1', app', thread')
        BY <1>0, <2>1, <2>3, <3>1 DEF AAudioUser, AAudioDevices
      <3> QED BY <1>0, <2>1, <2>3, <3>1, <3>10, <3>11, AAudioGoesOn DEF AAudioTypes
    <2> QED BY <2>1, <2>2, <2>3
  <1>3. CASE AAudio!Update
    <2>1. v3.pc = "update" /\ UNCHANGED <<app, thread, v2, v4>>
      BY <1>3 DEF AAudio!Update
    <2>2. /\ v3.old \in {"STARTING", "STOPPING", "DRAINING", "ERROR"} /\ stm.mutex = "state"
          /\ app.pc \in {"idle", "running"} /\ stm.state \in {v3.old, "ERROR", "DRAINING"}
      <3>1. /\ v3.old \in {"STARTING", "STOPPING", "DRAINING", "ERROR"} /\ stm.mutex = "state"
            /\ stm.state \in {v3.old, "ERROR", "DRAINING"}
        BY <1>0, <2>1 DEF AAudioMutex, AAudioLooker
      <3>2. app.pc \notin {"start i", "start o", "start cas", "flag", "notify", "stop", "stop cas",
                          "close"}
        BY <1>0, <3>1 DEF AAudioMutex
      <3>3. app.pc \notin {"none", "join", "joined"}
        BY <1>0, <3>1 DEF AAudioUser
      <3> QED BY <1>t, <3>1, <3>2, <3>3 DEF AAudio!Apps
    <2>3. \A S : AAudio!All(S) <=> AAudioAll(stm.kind, v1.at, S)
      BY <1>t, AAudioOwn
    <2>4. CASE AAudio!Shutdown
      <3>1. /\ thread = "idle" /\ UNCHANGED fault
            /\ v1' = [v1 EXCEPT !.at = [d \in {"i", "o"} |->
                 IF d \in AAudio!Own /\ v1.at[d] # "lost" THEN "stopping" ELSE v1.at[d]]]
            /\ stm' = [stm EXCEPT !.state = "SHUTDOWN", !.told = "error", !.mutex = "free"]
            /\ AAudio!Goto("after")
        BY <2>4 DEF AAudio!Shutdown, AAudio!Quiet
      <3>2. /\ stm' \in AAudio!Streams /\ stm'.kind = stm.kind
            /\ stm'.state = "SHUTDOWN" /\ stm'.mutex = "free"
        BY <1>t, <3>1 DEF AAudio!Streams, AAudio!States
      <3>3. /\ v1' \in AAudio!Devs /\ v1'.calls = v1.calls /\ v1'.pending = v1.pending
            /\ v1'.at["o"] = IF "o" \in AAudio!Own /\ v1.at["o"] # "lost" THEN "stopping" ELSE v1.at["o"]
            /\ v1'.at["i"] = IF "i" \in AAudio!Own /\ v1.at["i"] # "lost" THEN "stopping" ELSE v1.at["i"]
        BY <1>t, <3>1 DEF AAudio!Devs, AAudio!DevStates
      <3>4. /\ stm.kind # "input" => v1'.at["o"] \in {"stopping", "lost"}
            /\ stm.kind # "output" => v1'.at["i"] \in {"stopping", "lost"}
        BY <1>o, <3>3
      <3>5. v3' \in AAudio!Lookers /\ v3'.pc = "after"
        BY <1>t, <3>1 DEF AAudio!Goto, AAudio!Lookers, AAudio!States
      <3>6. v1' \in AAudio!Devs
        BY <3>3
      <3>10. AAudioMutex(stm', app', v3')
        BY <1>0, <2>1, <2>2, <3>1, <3>2, <3>4, <3>5, <3>6 DEF AAudioMutex
      <3>11. AAudioUser(stm', v1', app', thread')
        BY <1>0, <2>1, <2>2, <3>1, <3>2, <3>4, <3>5, <3>6 DEF AAudioTypes, AAudioMutex, AAudioUser, AAudioDevices, AAudioLooker, AAudioAll,
           AAudioPlays, AAudioOpen
      <3>12. AAudioDevices(stm', v1', app', thread')
        BY <1>0, <2>1, <2>2, <3>1, <3>2, <3>4, <3>5, <3>6 DEF AAudioTypes, AAudioMutex, AAudioUser, AAudioDevices, AAudioLooker, AAudioAll,
           AAudioPlays, AAudioOpen
      <3>13. AAudioLooker(stm', v1', app', v3')
        BY <1>0, <2>1, <2>2, <3>1, <3>2, <3>4, <3>5, <3>6 DEF AAudioTypes, AAudioMutex, AAudioUser, AAudioDevices, AAudioLooker, AAudioAll,
           AAudioPlays, AAudioOpen
      <3> QED BY <1>0, <2>1, <2>2, <3>1, <3>2, <3>4, <3>5, <3>6, <3>10, <3>11, <3>12, <3>13, AAudioGoesOn DEF AAudioTypes
    <2>5. CASE AAudio!Drain
      <3>1. /\ thread = "idle" /\ UNCHANGED fault
            /\ v1' = [v1 EXCEPT !.at = [d \in {"i", "o"} |->
                 IF d \in AAudio!Own /\ v1.at[d] \in {"starting", "started"} THEN "stopping" ELSE v1.at[d]]]
            /\ stm' = [stm EXCEPT !.mutex = "free"] /\ AAudio!Goto("after")
        BY <2>5 DEF AAudio!Drain, AAudio!Quiet
      <3>2. /\ stm' \in AAudio!Streams /\ stm'.kind = stm.kind
            /\ stm'.state = stm.state /\ stm'.mutex = "free"
        BY <1>t, <3>1 DEF AAudio!Streams
      <3>3. /\ v1' \in AAudio!Devs /\ v1'.calls = v1.calls /\ v1'.pending = v1.pending
            /\ v1'.at["o"] = IF "o" \in AAudio!Own /\ v1.at["o"] \in {"starting", "started"}
                             THEN "stopping" ELSE v1.at["o"]
            /\ v1'.at["i"] = IF "i" \in AAudio!Own /\ v1.at["i"] \in {"starting", "started"}
                             THEN "stopping" ELSE v1.at["i"]
        BY <1>t, <3>1 DEF AAudio!Devs, AAudio!DevStates
      <3>4. /\ v1' \in AAudio!Devs
            /\ \/ v1'.at["o"] = v1.at["o"]
               \/ v1'.at["o"] = "stopping" /\ v1.at["o"] \in {"starting", "started"}
            /\ \/ v1'.at["i"] = v1.at["i"]
               \/ v1'.at["i"] = "stopping" /\ v1.at["i"] \in {"starting", "started"}
        BY <3>3
      <3>5. v3' \in AAudio!Lookers /\ v3'.pc = "after"
        BY <1>t, <3>1 DEF AAudio!Goto, AAudio!Lookers, AAudio!States
      <3>10. AAudioMutex(stm', app', v3')
        BY <1>0, <2>1, <2>2, <3>1, <3>2, <3>4, <3>5 DEF AAudioMutex
      <3>11. AAudioUser(stm', v1', app', thread')
        BY <1>0, <2>1, <2>2, <3>1, <3>2, <3>4, <3>5, ZenonT(60) DEF AAudioTypes, AAudioMutex, AAudioUser, AAudioDevices, AAudioLooker, AAudioAll,
           AAudioPlays, AAudioOpen
      <3>12. AAudioDevices(stm', v1', app', thread')
        BY <1>0, <2>1, <2>2, <3>1, <3>2, <3>4, <3>5, ZenonT(60) DEF AAudioTypes, AAudioMutex, AAudioUser, AAudioDevices, AAudioLooker, AAudioAll,
           AAudioPlays, AAudioOpen
      <3>13. AAudioLooker(stm', v1', app', v3')
        BY <1>0, <2>1, <2>2, <3>1, <3>2, <3>4, <3>5 DEF AAudioTypes, AAudioMutex, AAudioUser, AAudioDevices, AAudioLooker, AAudioAll,
           AAudioPlays, AAudioOpen
      <3> QED BY <1>0, <2>1, <2>2, <3>1, <3>2, <3>4, <3>5, <3>10, <3>11, <3>12, <3>13, AAudioGoesOn DEF AAudioTypes
    <2>6. CASE AAudio!Unlock
      <3>1. stm' = [stm EXCEPT !.mutex = "free"] /\ AAudio!Goto("after") /\ UNCHANGED <<v1, fault>>
        BY <2>6 DEF AAudio!Unlock
      <3>2. /\ stm' \in AAudio!Streams /\ stm'.kind = stm.kind
            /\ stm'.state = stm.state /\ stm'.mutex = "free"
        BY <1>t, <3>1 DEF AAudio!Streams
      <3>3. v3' \in AAudio!Lookers /\ v3'.pc = "after"
        BY <1>t, <3>1 DEF AAudio!Goto, AAudio!Lookers, AAudio!States
      <3>10. AAudioMutex(stm', app', v3')
        BY <1>0, <2>1, <2>2, <3>1, <3>2, <3>3 DEF AAudioMutex
      <3>11. AAudioUser(stm', v1', app', thread')
        BY <1>0, <2>1, <2>2, <3>1, <3>2, <3>3, ZenonT(60) DEF AAudioTypes, AAudioMutex, AAudioUser, AAudioDevices, AAudioLooker, AAudioAll,
           AAudioPlays, AAudioOpen
      <3>12. AAudioDevices(stm', v1', app', thread')
        BY <1>0, <2>1, <2>2, <3>1, <3>2, <3>3, ZenonT(60) DEF AAudioTypes, AAudioMutex, AAudioUser, AAudioDevices, AAudioLooker, AAudioAll,
           AAudioPlays, AAudioOpen
      <3>13. AAudioLooker(stm', v1', app', v3')
        BY <1>0, <2>1, <2>2, <3>1, <3>2, <3>3 DEF AAudioTypes, AAudioMutex, AAudioUser, AAudioDevices, AAudioLooker, AAudioAll,
           AAudioPlays, AAudioOpen
      <3> QED BY <1>0, <2>1, <2>2, <3>1, <3>2, <3>3, <3>10, <3>11, <3>12, <3>13, AAudioGoesOn DEF AAudioTypes
    <2>7. ASSUME NEW told \in {"started", "drained", "stopped"}, NEW new \in {"STARTED", "STOPPED"},
                 AAudio!Told(told, new),
                 \/ new = "STARTED" /\ v3.old = "STARTING"
                 \/ new = "STOPPED" /\ v3.old # "ERROR" /\ AAudio!All({"stopped"})
          PROVE  AAudio!IInv'
      <3>1. /\ stm' = [stm EXCEPT !.told = told] /\ UNCHANGED <<v1, fault>>
            /\ v3' = [v3 EXCEPT !.pc = "cas", !.new = new]
        BY <2>7 DEF AAudio!Told
      <3>2. /\ stm' \in AAudio!Streams /\ stm'.kind = stm.kind
            /\ stm'.state = stm.state /\ stm'.mutex = stm.mutex
        BY <1>t, <3>1 DEF AAudio!Streams
      <3>3. v3' \in AAudio!Lookers /\ v3'.pc = "cas" /\ v3'.new = new /\ v3'.old = v3.old
        BY <1>t, <3>1 DEF AAudio!Lookers, AAudio!States
      <3>4. \/ new = "STARTED" /\ v3.old = "STARTING"
            \/ new = "STOPPED" /\ v3.old # "ERROR" /\ AAudioAll(stm.kind, v1.at, {"stopped"})
        BY <2>3, <2>7
      <3>10. AAudioMutex(stm', app', v3')
        BY <1>0, <2>1, <2>2, <3>1, <3>2, <3>3, <3>4 DEF AAudioMutex
      <3>11. AAudioUser(stm', v1', app', thread')
        BY <1>0, <2>1, <2>2, <3>1, <3>2, <3>3, <3>4, ZenonT(60) DEF AAudioTypes, AAudioMutex, AAudioUser, AAudioDevices, AAudioLooker, AAudioAll,
           AAudioPlays, AAudioOpen
      <3>12. AAudioDevices(stm', v1', app', thread')
        BY <1>0, <2>1, <2>2, <3>1, <3>2, <3>3, <3>4, ZenonT(60) DEF AAudioTypes, AAudioMutex, AAudioUser, AAudioDevices, AAudioLooker, AAudioAll,
           AAudioPlays, AAudioOpen
      <3>13. AAudioLooker(stm', v1', app', v3')
        BY <1>0, <2>1, <2>2, <3>1, <3>2, <3>3, <3>4, ZenonT(60) DEF AAudioTypes, AAudioMutex, AAudioUser, AAudioDevices, AAudioLooker, AAudioAll,
           AAudioPlays, AAudioOpen
      <3> QED BY <1>0, <2>1, <2>2, <3>1, <3>2, <3>3, <3>4, <3>10, <3>11, <3>12, <3>13, AAudioGoesOn DEF AAudioTypes
    <2>8. \/ AAudio!Shutdown
          \/ v3.old = "STARTING" /\ (AAudio!Told("started", "STARTED") \/ AAudio!Unlock)
          \/ /\ v3.old = "DRAINING"
             /\ (AAudio!All({"stopped"}) /\ AAudio!Told("drained", "STOPPED")) \/ AAudio!Drain
          \/ /\ v3.old = "STOPPING"
             /\ (AAudio!All({"stopped"}) /\ AAudio!Told("stopped", "STOPPED")) \/ AAudio!Unlock
      <3>1. SUFFICES ASSUME ~AAudio!Shutdown
                     PROVE  \/ v3.old = "STARTING" /\ (AAudio!Told("started", "STARTED") \/ AAudio!Unlock)
                            \/ /\ v3.old = "DRAINING"
                               /\ (AAudio!All({"stopped"}) /\ AAudio!Told("drained", "STOPPED"))
                                  \/ AAudio!Drain
                            \/ /\ v3.old = "STOPPING"
                               /\ (AAudio!All({"stopped"}) /\ AAudio!Told("stopped", "STOPPED"))
                                  \/ AAudio!Unlock
        OBVIOUS
      <3>2. v3.old # "ERROR" /\ AAudio!All(AAudio!DevStates \ {"lost"})
        BY <1>3, <3>1 DEF AAudio!Update
      <3>3. v3.old = "STOPPING" => AAudio!All({"stopping", "stopped"})
        <4>1. v3.old = "STOPPING" => AAudioAll(stm.kind, v1.at, {"stopping", "stopped", "lost"})
          BY <1>0, <2>1 DEF AAudioLooker
        <4>2. AAudioAll(stm.kind, v1.at, AAudio!DevStates \ {"lost"})
          BY <2>3, <3>2
        <4>3. v3.old = "STOPPING" => AAudioAll(stm.kind, v1.at, {"stopping", "stopped"})
          BY <4>1, <4>2 DEF AAudioAll
        <4> QED BY <2>3, <4>3
      <3>4. CASE v3.old = "STARTING"
        BY <1>3, <3>1, <3>2, <3>4 DEF AAudio!Update
      <3>5. CASE v3.old = "DRAINING"
        BY <1>3, <3>1, <3>2, <3>5 DEF AAudio!Update
      <3>6. CASE v3.old = "STOPPING"
        BY <1>3, <3>1, <3>2, <3>3, <3>6 DEF AAudio!Update
      <3> QED BY <2>2, <3>2, <3>4, <3>5, <3>6
    <2> QED BY <2>4, <2>5, <2>6, <2>7, <2>8
  <1>4. CASE AAudio!UpdateCas
    <2>1. /\ v3.pc = "cas" /\ UNCHANGED <<v1, app, thread, v2, v4, fault>>
          /\ \/ /\ stm.state = v3.old /\ AAudio!Goto("after")
                /\ stm' = [stm EXCEPT !.state = v3.new, !.mutex = "free"]
             \/ /\ stm.state # v3.old /\ UNCHANGED stm
                /\ v3' = [v3 EXCEPT !.pc = "update", !.old = stm.state]
      BY <1>4 DEF AAudio!UpdateCas, AAudio!Cas
    <2>2. CASE /\ stm.state = v3.old /\ AAudio!Goto("after")
               /\ stm' = [stm EXCEPT !.state = v3.new, !.mutex = "free"]
      <3>1. /\ stm' \in AAudio!Streams /\ stm'.kind = stm.kind
            /\ stm'.state = v3.new /\ stm'.mutex = "free"
        BY <1>t, <2>2 DEF AAudio!Streams, AAudio!Lookers
      <3>2. v3' \in AAudio!Lookers /\ v3'.pc = "after"
        BY <1>t, <2>2 DEF AAudio!Goto, AAudio!Lookers, AAudio!States
      <3>3. stm.mutex = "state"
        BY <1>0, <2>1 DEF AAudioMutex
      <3>10. AAudioMutex(stm', app', v3')
        BY <1>0, <2>1, <2>2, <3>1, <3>2, <3>3 DEF AAudioMutex
      <3>11. AAudioUser(stm', v1', app', thread')
        BY <1>0, <2>1, <2>2, <3>1, <3>2, <3>3, ZenonT(60) DEF AAudioTypes, AAudioMutex, AAudioUser, AAudioDevices, AAudioLooker, AAudioAll,
           AAudioPlays, AAudioOpen
      <3>12. AAudioDevices(stm', v1', app', thread')
        BY <1>0, <2>1, <2>2, <3>1, <3>2, <3>3, ZenonT(60) DEF AAudioTypes, AAudioMutex, AAudioUser, AAudioDevices, AAudioLooker, AAudioAll,
           AAudioPlays, AAudioOpen
      <3>13. AAudioLooker(stm', v1', app', v3')
        BY <1>0, <2>1, <2>2, <3>1, <3>2, <3>3 DEF AAudioTypes, AAudioMutex, AAudioUser, AAudioDevices, AAudioLooker, AAudioAll,
           AAudioPlays, AAudioOpen
      <3> QED BY <1>0, <2>1, <2>2, <3>1, <3>2, <3>3, <3>10, <3>11, <3>12, <3>13, AAudioGoesOn DEF AAudioTypes
    <2>3. CASE /\ stm.state # v3.old /\ UNCHANGED stm
               /\ v3' = [v3 EXCEPT !.pc = "update", !.old = stm.state]
      <3>1. stm.state \in AAudio!States
        BY <1>t DEF AAudio!Streams
      <3>2. v3' \in AAudio!Lookers /\ v3'.pc = "update" /\ v3'.old = stm.state
        BY <1>t, <2>3, <3>1 DEF AAudio!Lookers
      <3>10. AAudioMutex(stm', app', v3')
        BY <1>0, <2>1, <2>3, <3>2 DEF AAudioMutex
      <3>11. AAudioUser(stm', v1', app', thread')
        BY <1>0, <2>1, <2>3, <3>2, ZenonT(60) DEF AAudioTypes, AAudioMutex, AAudioUser, AAudioDevices, AAudioLooker, AAudioAll,
           AAudioPlays, AAudioOpen
      <3>12. AAudioDevices(stm', v1', app', thread')
        BY <1>0, <2>1, <2>3, <3>2 DEF AAudioTypes, AAudioMutex, AAudioUser, AAudioDevices, AAudioLooker, AAudioAll,
           AAudioPlays, AAudioOpen
      <3>13. AAudioLooker(stm', v1', app', v3')
        BY <1>0, <2>1, <2>3, <3>2 DEF AAudioTypes, AAudioMutex, AAudioUser, AAudioDevices, AAudioLooker, AAudioAll,
           AAudioPlays, AAudioOpen
      <3> QED BY <1>0, <2>1, <2>3, <3>2, <3>10, <3>11, <3>12, <3>13, AAudioGoesOn DEF AAudioTypes
    <2> QED BY <2>1, <2>2, <2>3
  <1>5. CASE AAudio!After
    <2>1. /\ v3.pc = "after" /\ UNCHANGED <<stm, v1, app, thread, v2, v4, fault>>
          /\ v3' = [v3 EXCEPT !.waiting = v2.waiting \/ AAudio!Waiting(stm.state),
                       !.pc = IF ~v2.waiting /\ AAudio!Waiting(stm.state) THEN "doze" ELSE "top"]
      BY <1>5 DEF AAudio!After
    <2>2. (v2.waiting \/ AAudio!Waiting(stm.state)) \in BOOLEAN
      OBVIOUS
    <2>3. v3' \in AAudio!Lookers /\ v3'.pc \in {"doze", "top"}
      BY <1>t, <2>1, <2>2 DEF AAudio!Lookers
    <2>10. AAudioMutex(stm', app', v3') /\ AAudioLooker(stm', v1', app', v3')
      BY <1>0, <2>1, <2>3 DEF AAudioMutex, AAudioLooker
    <2>11. AAudioUser(stm', v1', app', thread') /\ AAudioDevices(stm', v1', app', thread')
      BY <1>0, <2>1, <2>3 DEF AAudioUser, AAudioDevices
    <2> QED BY <1>0, <2>1, <2>3, <2>10, <2>11, AAudioGoesOn DEF AAudioTypes
  <1>6. CASE AAudio!Sleep
    <2>1. /\ UNCHANGED <<stm, v1, app, thread, v4, fault>> /\ v3.pc \in {"sleep", "doze"}
          /\ v2' = [v2 EXCEPT !.mutex = "free", !.sleepers = v2.sleepers \cup {"state"}]
          /\ \/ AAudio!Goto("asleep") \/ AAudio!Goto("dozing")
      BY <1>6 DEF AAudio!Sleep
    <2>2. v2' \in AAudio!Contexts
      BY <1>t, <2>1 DEF AAudio!Contexts
    <2>3. v3' \in AAudio!Lookers /\ v3'.pc \in {"asleep", "dozing"}
      BY <1>t, <2>1 DEF AAudio!Goto, AAudio!Lookers, AAudio!States
    <2>10. AAudioMutex(stm', app', v3') /\ AAudioLooker(stm', v1', app', v3')
      BY <1>0, <2>1, <2>2, <2>3 DEF AAudioMutex, AAudioLooker
    <2>11. AAudioUser(stm', v1', app', thread') /\ AAudioDevices(stm', v1', app', thread')
      BY <1>0, <2>1, <2>2, <2>3 DEF AAudioUser, AAudioDevices
    <2> QED BY <1>0, <2>1, <2>2, <2>3, <2>10, <2>11, AAudioGoesOn DEF AAudioTypes
  <1>7. CASE AAudio!Wake
    <2>1. /\ UNCHANGED <<stm, v1, app, thread, v4, fault>> /\ v3.pc \in {"dozing", "asleep"}
          /\ v2' = [v2 EXCEPT !.mutex = "state", !.sleepers = v2.sleepers \ {"state"}]
          /\ AAudio!Goto("top")
      BY <1>7 DEF AAudio!Wake
    <2>2. v2' \in AAudio!Contexts
      BY <1>t, <2>1 DEF AAudio!Contexts
    <2>3. v3' \in AAudio!Lookers /\ v3'.pc = "top"
      BY <1>t, <2>1 DEF AAudio!Goto, AAudio!Lookers, AAudio!States
    <2>10. AAudioMutex(stm', app', v3') /\ AAudioLooker(stm', v1', app', v3')
      BY <1>0, <2>1, <2>2, <2>3 DEF AAudioMutex, AAudioLooker
    <2>11. AAudioUser(stm', v1', app', thread') /\ AAudioDevices(stm', v1', app', thread')
      BY <1>0, <2>1, <2>2, <2>3 DEF AAudioUser, AAudioDevices
    <2> QED BY <1>0, <2>1, <2>2, <2>3, <2>10, <2>11, AAudioGoesOn DEF AAudioTypes
  <1> QED BY <1>1, <1>2, <1>3, <1>4, <1>5, <1>6, <1>7 DEF AAudio!LookerNext

\* Every step of the notifier preserves it.
LEMMA AAudioHelperStep ==
  ASSUME CubebAssumption, AAudio!IInv, AAudio!HelperNext PROVE AAudio!IInv'
  <1>0. /\ AAudioTypes(stm, v1, app, thread, v2, v3, v4) /\ fault = FALSE
        /\ AAudioMutex(stm, app, v3) /\ AAudioUser(stm, v1, app, thread)
        /\ AAudioDevices(stm, v1, app, thread) /\ AAudioLooker(stm, v1, app, v3)
    BY AAudioBefore
  <1>t. /\ stm \in AAudio!Streams /\ stm.kind \in {"output", "input", "duplex"}
        /\ v1 \in AAudio!Devs /\ app \in AAudio!Apps /\ v3 \in AAudio!Lookers
        /\ v2 \in AAudio!Contexts
    BY <1>0 DEF AAudioTypes
  <1>1. UNCHANGED <<stm, v1, app, thread, v3, fault>> /\ v4' \in {"top", "done", "sleep", "asleep"}
    BY DEF AAudio!HelperNext, AAudio!HelperLocks, AAudio!HelperTop, AAudio!HelperSleeps,
       AAudio!HelperWakes
  <1>2. \E c \in AAudio!Contexts : v2' = c \/ v2' \in AAudio!NotifyOne(c)
    <2>1. CASE AAudio!HelperLocks
      <3>1. [v2 EXCEPT !.mutex = "notifier"] \in AAudio!Contexts
        BY <1>t DEF AAudio!Contexts
      <3> QED BY <2>1, <3>1 DEF AAudio!HelperLocks
    <2>2. CASE AAudio!HelperTop
      <3>1. [v2 EXCEPT !.mutex = "free"] \in AAudio!Contexts
        BY <1>t DEF AAudio!Contexts
      <3> QED BY <1>t, <2>2, <3>1 DEF AAudio!HelperTop
    <2>3. CASE AAudio!HelperSleeps
      <3>1. [v2 EXCEPT !.mutex = "free", !.sleepers = v2.sleepers \cup {"notifier"}] \in AAudio!Contexts
        BY <1>t DEF AAudio!Contexts
      <3> QED BY <2>3, <3>1 DEF AAudio!HelperSleeps
    <2>4. CASE AAudio!HelperWakes
      <3>1. [v2 EXCEPT !.mutex = "notifier"] \in AAudio!Contexts
        BY <1>t DEF AAudio!Contexts
      <3> QED BY <2>4, <3>1 DEF AAudio!HelperWakes, AAudio!PassOn
    <2> QED BY <2>1, <2>2, <2>3, <2>4 DEF AAudio!HelperNext
  <1>3. v2' \in AAudio!Contexts
    BY <1>2, AAudioNotified
  <1>4. AAudioMutex(stm', app', v3') /\ AAudioLooker(stm', v1', app', v3')
    BY <1>0, <1>1, <1>3 DEF AAudioMutex, AAudioLooker
  <1>5. AAudioUser(stm', v1', app', thread') /\ AAudioDevices(stm', v1', app', thread')
    BY <1>0, <1>1, <1>3 DEF AAudioUser, AAudioDevices
  <1> QED BY <1>0, <1>1, <1>3, <1>4, <1>5, AAudioGoesOn DEF AAudioTypes

\* Every step preserves the invariant.
LEMMA AAudioStep ==
  ASSUME CubebAssumption, AAudio!IInv, AAudio!Next PROVE AAudio!IInv'
  BY AAudioCallStep, AAudioGoesOnCalling, AAudioAudioStep, AAudioLookerStep, AAudioHelperStep
     DEF AAudio!Next, AAudio!UserNext

\* So does a step that changes nothing of the stream and its threads.
LEMMA AAudioStutter ==
  ASSUME CubebAssumption, AAudio!IInv, UNCHANGED <<stm, app, thread, fault, v1, v2, v3, v4>>
  PROVE  AAudio!IInv'
  <1>0. /\ AAudioTypes(stm, v1, app, thread, v2, v3, v4) /\ fault = FALSE
        /\ AAudioMutex(stm, app, v3) /\ AAudioUser(stm, v1, app, thread)
        /\ AAudioDevices(stm, v1, app, thread) /\ AAudioLooker(stm, v1, app, v3)
    BY AAudioBefore
  <1>t. /\ stm \in AAudio!Streams /\ stm.kind \in {"output", "input", "duplex"}
        /\ v1 \in AAudio!Devs /\ app \in AAudio!Apps /\ v3 \in AAudio!Lookers
        /\ v2 \in AAudio!Contexts
    BY <1>0 DEF AAudioTypes
  <1>1. AAudioMutex(stm', app', v3') /\ AAudioLooker(stm', v1', app', v3')
    BY <1>0 DEF AAudioMutex, AAudioLooker
  <1>2. AAudioUser(stm', v1', app', thread') /\ AAudioDevices(stm', v1', app', thread')
    BY <1>0 DEF AAudioUser, AAudioDevices
  <1> QED BY <1>0, <1>1, <1>2, AAudioGoesOn DEF AAudioTypes

\* What the invariant says of the properties.
LEMMA AAudioSafe ==
  ASSUME CubebAssumption, AAudio!IInv
  PROVE  AAudio!TypeOK /\ AAudio!NoFault /\ AAudio!StopQuiesces /\ AAudio!ToldIsTrue
  <1>0. /\ AAudioTypes(stm, v1, app, thread, v2, v3, v4) /\ fault = FALSE
        /\ AAudioMutex(stm, app, v3) /\ AAudioUser(stm, v1, app, thread)
        /\ AAudioDevices(stm, v1, app, thread) /\ AAudioLooker(stm, v1, app, v3)
    BY AAudioBefore
  <1>t. /\ stm \in AAudio!Streams /\ stm.kind \in {"output", "input", "duplex"}
        /\ v1 \in AAudio!Devs /\ app \in AAudio!Apps /\ v3 \in AAudio!Lookers
        /\ v2 \in AAudio!Contexts
    BY <1>0 DEF AAudioTypes
  <1>1. /\ stm.kind = "input" => AAudio!Caller = "i"
        /\ stm.kind # "input" => AAudio!Caller = "o"
        /\ \A S : AAudio!All(S) <=> AAudioAll(stm.kind, v1.at, S)
    BY <1>t, AAudioOwn
  <1>2. ASSUME thread = "calling"
        PROVE  /\ v1.at[AAudio!Caller] \in {"starting", "started"} /\ app.pc # "close"
               /\ app.pc = "idle" => stm.state \in {"ERROR", "SHUTDOWN"}
    <2>1. AAudioPlays(stm.kind, v1.at) /\ stm.state # "DRAINING" /\ app.pc # "close"
      BY <1>0, <1>2 DEF AAudioDevices, AAudioUser
    <2>2. v1.at[AAudio!Caller] \in {"starting", "started"}
      BY <1>1, <2>1 DEF AAudioPlays
    <2>3. app.pc = "idle" => stm.state \notin {"INIT", "STARTED", "STARTING", "STOPPED", "STOPPING"}
      BY <1>0, <1>t, <2>1 DEF AAudioUser, AAudioDevices, AAudioPlays, AAudioAll
    <2>4. stm.state \in AAudio!States
      BY <1>t DEF AAudio!Streams
    <2> QED BY <2>1, <2>2, <2>3, <2>4 DEF AAudio!States
  <1>3. AAudio!StopQuiesces
    BY <1>2 DEF AAudio!StopQuiesces
  <1>4. AAudio!ToldIsTrue
    <2>1. SUFFICES ASSUME stm.state = "STOPPED", app.pc \in {"idle", "running"}
                   PROVE  AAudio!All({"stopped", "lost", "absent"})
      BY DEF AAudio!ToldIsTrue
    <2>2. AAudioAll(stm.kind, v1.at, {"stopped", "lost"})
      BY <1>0, <2>1 DEF AAudioDevices
    <2>3. AAudioAll(stm.kind, v1.at, {"stopped", "lost", "absent"})
      BY <2>2 DEF AAudioAll
    <2> QED BY <1>1, <2>3
  <1> QED BY <1>3, <1>4 DEF AAudio!IInv
----------------------------------------------------------------------------
(* The library *)

\* Of the backend that was chosen, the invariant of its module.
Inv ==
  /\ backend \in Compiled
  /\ backend = "pulse" => Pulse!IInv
  /\ backend = "jack" => Jack!IInv
  /\ backend = "aaudio" => AAudio!IInv
  /\ backend = "opensl" => OpenSL!IInv
  /\ backend = "oss" => Oss!IInv
  /\ backend = "wasapi" => Wasapi!IInv
  /\ backend = "winmm" => Winmm!IInv
  /\ backend = "audiounit" => AudioUnit!IInv
  /\ backend = "sndio" => Sndio!IInv
  /\ backend = "sun" => Sun!IInv

\* cubeb_init takes a backend of the build.
LEMMA ChosenIsCompiled ==
  ASSUME NEW asked, NEW works \in SUBSET Compiled, NEW b \in Chosen(asked, works)
  PROVE  b \in Compiled
BY DEF Chosen

LEMMA InitInv == ASSUME CubebAssumption, Init PROVE Inv
<1>1. backend \in Compiled
  BY ChosenIsCompiled DEF Init
<1>2. InitOf(backend)
  BY DEF Init
<1>3. backend = "pulse" => Pulse!IInv
  BY <1>2, PulseInitially DEF InitOf
<1>4. backend = "jack" => Jack!IInv
  BY <1>2, JackInit DEF InitOf
<1>5. backend = "aaudio" => AAudio!IInv
  BY <1>2, AAudioInit DEF InitOf
<1>6. backend = "opensl" => OpenSL!IInv
  BY <1>2, OpenSLInit DEF InitOf
<1>7. backend = "oss" => Oss!IInv
  BY <1>2, OssInit DEF InitOf
<1>8. backend = "wasapi" => Wasapi!IInv
  BY <1>2, WasapiInit DEF InitOf
<1>9. backend = "winmm" => Winmm!IInv
  BY <1>2, WinmmInit DEF InitOf
<1>10. backend = "audiounit" => AudioUnit!IInv
  BY <1>2, AudioUnitInit DEF InitOf
<1>11. backend = "sndio" => Sndio!IInv
  BY <1>2, SndioInit DEF InitOf
<1>12. backend = "sun" => Sun!IInv
  BY <1>2, SunInit DEF InitOf
<1>13. QED
  BY <1>1, <1>3, <1>4, <1>5, <1>6, <1>7, <1>8, <1>9, <1>10, <1>11, <1>12 DEF Inv

\* A step is one of the backend that was chosen, and leaves the choice alone.
LEMMA NextInv == ASSUME CubebAssumption, Inv, Next PROVE Inv'
<1>1. CASE PulseNext
  <2>1. backend = "pulse" /\ backend' = "pulse" /\ Pulse!IInv'
    BY <1>1, PulseStep DEF Inv, PulseNext
  <2>2. QED
    BY <2>1 DEF Inv
<1>2. CASE JackNext
  <2>1. backend = "jack" /\ backend' = "jack" /\ Jack!IInv'
    BY <1>2, JackStep DEF Inv, JackNext
  <2>2. QED
    BY <2>1 DEF Inv
<1>3. CASE AAudioNext
  <2>1. backend = "aaudio" /\ backend' = "aaudio" /\ AAudio!IInv'
    BY <1>3, AAudioStep DEF Inv, AAudioNext
  <2>2. QED
    BY <2>1 DEF Inv
<1>4. CASE OpenSLNext
  <2>1. backend = "opensl" /\ backend' = "opensl" /\ OpenSL!IInv'
    BY <1>4, OpenSLStep DEF Inv, OpenSLNext
  <2>2. QED
    BY <2>1 DEF Inv
<1>5. CASE OssNext
  <2>1. backend = "oss" /\ backend' = "oss" /\ Oss!IInv'
    BY <1>5, OssAppStep, OssThreadStep DEF Inv, OssNext, Oss!Next
  <2>2. QED
    BY <2>1 DEF Inv
<1>6. CASE WasapiNext
  <2>1. backend = "wasapi" /\ backend' = "wasapi" /\ Wasapi!IInv'
    BY <1>6, WasapiStep DEF Inv, WasapiNext
  <2>2. QED
    BY <2>1 DEF Inv
<1>7. CASE WinmmNext
  <2>1. backend = "winmm" /\ backend' = "winmm" /\ Winmm!IInv'
    BY <1>7, WinmmAppStep, WinmmBufferDone, WinmmThreadStep DEF Inv, WinmmNext, Winmm!Next
  <2>2. QED
    BY <2>1 DEF Inv
<1>8. CASE AudioUnitNext
  <2>1. backend = "audiounit" /\ backend' = "audiounit" /\ AudioUnit!IInv'
    BY <1>8, AudioUnitStep DEF Inv, AudioUnitNext
  <2>2. QED
    BY <2>1 DEF Inv
<1>9. CASE SndioNext
  <2>1. backend = "sndio" /\ backend' = "sndio" /\ Sndio!IInv'
    BY <1>9, SndioStep DEF Inv, SndioNext
  <2>2. QED
    BY <2>1 DEF Inv
<1>10. CASE SunNext
  <2>1. backend = "sun" /\ backend' = "sun" /\ Sun!IInv'
    BY <1>10, SunStep DEF Inv, SunNext
  <2>2. QED
    BY <2>1 DEF Inv
<1>11. QED
  BY <1>1, <1>2, <1>3, <1>4, <1>5, <1>6, <1>7, <1>8, <1>9, <1>10 DEF Next

LEMMA StutterInv == ASSUME CubebAssumption, Inv, UNCHANGED vars PROVE Inv'
<1>1. UNCHANGED <<backend, stm, app, thread, fault, v1, v2, v3, v4, v5, v6>>
  BY DEF vars
<1>2. backend = "pulse" => Pulse!IInv'
  BY <1>1, PulseStutter DEF Inv
<1>3. backend = "jack" => Jack!IInv'
  BY <1>1, JackStutter DEF Inv
<1>4. backend = "aaudio" => AAudio!IInv'
  BY <1>1, AAudioStutter DEF Inv
<1>5. backend = "opensl" => OpenSL!IInv'
  BY <1>1, OpenSLStutter DEF Inv, OpenSL!vars
<1>6. backend = "oss" => Oss!IInv'
  BY <1>1, OssStutter DEF Inv, Oss!vars
<1>7. backend = "wasapi" => Wasapi!IInv'
  BY <1>1, WasapiStutter DEF Inv
<1>8. backend = "winmm" => Winmm!IInv'
  BY <1>1, WinmmStutter DEF Inv, Winmm!vars
<1>9. backend = "audiounit" => AudioUnit!IInv'
  BY <1>1, AudioUnitStutter DEF Inv
<1>10. backend = "sndio" => Sndio!IInv'
  BY <1>1, SndioStutter DEF Inv, Sndio!vars
<1>11. backend = "sun" => Sun!IInv'
  BY <1>1, SunStutter DEF Inv, Sun!vars
<1>12. QED
  BY <1>1, <1>2, <1>3, <1>4, <1>5, <1>6, <1>7, <1>8, <1>9, <1>10, <1>11 DEF Inv

\* The invariant of the chosen backend always holds.
THEOREM Invariance == Spec => []Inv
<1>1. Init => Inv
  BY CubebAssumption, InitInv
<1>2. Inv /\ [Next]_vars => Inv'
  BY CubebAssumption, NextInv, StutterInv
<1>3. QED
  BY <1>1, <1>2, PTL DEF Spec

\* Every backend keeps its state within its types.
THEOREM TypeCorrect == Spec => []TypeOK
<1>1. ASSUME Inv PROVE TypeOK
  <2>1. /\ backend = "pulse" => Pulse!TypeOK
        /\ backend = "jack" => Jack!TypeOK
        /\ backend = "aaudio" => AAudio!TypeOK
        /\ backend = "opensl" => OpenSL!TypeOK
        /\ backend = "oss" => Oss!TypeOK
    BY <1>1, CubebAssumption, PulseSafe, JackSafe, AAudioSafe, OpenSLSafe, OssSafe DEF Inv
  <2>2. /\ backend = "wasapi" => Wasapi!TypeOK
        /\ backend = "winmm" => Winmm!TypeOK
        /\ backend = "audiounit" => AudioUnit!TypeOK
        /\ backend = "sndio" => Sndio!TypeOK
        /\ backend = "sun" => Sun!TypeOK
    BY <1>1, CubebAssumption, WasapiSafe, WinmmSafe, AudioUnitSafe, SndioSafe, SunSafe DEF Inv
  <2>3. QED
    BY <1>1, <2>1, <2>2 DEF Inv, TypeOK
<1>2. QED
  BY <1>1, Invariance, PTL

\* Once cubeb_stream_stop has returned the data callback is neither called nor
\* running, but for what each of the ten backends names: JACK may begin one more,
\* WinMM as many as it has buffers, OpenSL ES does not wait for one that had begun
\* (cubeb.c:412-419).
THEOREM StopIsFinal == Spec => []StopQuiesces
<1>1. ASSUME Inv PROVE StopQuiesces
  <2>1. /\ backend = "pulse" => Pulse!StopQuiesces
        /\ backend = "jack" => Jack!AtMostOneLate
        /\ backend = "aaudio" => AAudio!StopQuiesces
        /\ backend = "opensl" => OpenSL!StopQuiesces
        /\ backend = "oss" => Oss!StopQuiesces
    BY <1>1, CubebAssumption, PulseSafe, JackSafe, AAudioSafe, OpenSLSafe, OssSafe DEF Inv
  <2>2. /\ backend = "wasapi" => Wasapi!StopQuiesces
        /\ backend = "winmm" => Winmm!LateAreFew
        /\ backend = "audiounit" => AudioUnit!StopQuiesces
        /\ backend = "sndio" => Sndio!StopQuiesces
        /\ backend = "sun" => Sun!StopQuiesces
    BY <1>1, CubebAssumption, WasapiSafe, WinmmSafe, AudioUnitSafe, SndioSafe, SunSafe DEF Inv
  <2>3. QED
    BY <2>1, <2>2 DEF StopQuiesces
<1>2. QED
  BY <1>1, Invariance, PTL

\* The program ends, by an assertion or by the use of what is not there, only for
\* the reasons each backend names: of PulseAudio also after the server killed one
\* stream (cubeb_pulse.c:240), of JACK only when a stream's ports went away under
\* its own destroy (cubeb_jack.cpp:1001).
THEOREM FaultsStayKnown == Spec => []FaultsAreKnown
<1>1. ASSUME Inv PROVE FaultsAreKnown
  <2>1. /\ backend = "pulse" => Pulse!FaultsAreKnown
        /\ backend = "jack" => Jack!FaultsAreKnown
        /\ backend = "aaudio" => AAudio!NoFault
        /\ backend = "opensl" => OpenSL!FaultsAreKnown
        /\ backend = "oss" => Oss!FaultsAreKnown
    BY <1>1, CubebAssumption, PulseSafe, JackSafe, AAudioSafe, OpenSLSafe, OssSafe DEF Inv
  <2>2. /\ backend = "wasapi" => Wasapi!FaultsAreKnown
        /\ backend = "winmm" => Winmm!FaultsAreKnown
        /\ backend = "audiounit" => AudioUnit!FaultsAreKnown
        /\ backend = "sun" => Sun!FaultsAreKnown
    BY <1>1, CubebAssumption, WasapiSafe, WinmmSafe, AudioUnitSafe, SunSafe DEF Inv
  <2>3. QED
    BY <2>1, <2>2 DEF FaultsAreKnown
<1>2. QED
  BY <1>1, Invariance, PTL

\* When a stream is freed its callbacks, clients, units, buffers and threads are
\* gone, and of what may still look at it there is no more than each backend
\* names; while a data callback of JACK runs its stream is nobody else's
\* (cubeb.c:392-399).
THEOREM NothingUsesTheFreed == Spec => []FreedIsGone
<1>1. ASSUME Inv PROVE FreedIsGone
  <2>1. /\ backend = "pulse" => Pulse!FreedIsGone
        /\ backend = "jack" => Jack!CallIsAlone
        /\ backend = "opensl" => OpenSL!FreedIsGone
        /\ backend = "oss" => Oss!FreedIsGone
    BY <1>1, CubebAssumption, PulseSafe, JackSafe, OpenSLSafe, OssSafe DEF Inv
  <2>2. /\ backend = "wasapi" => Wasapi!FreedIsGone
        /\ backend = "winmm" => Winmm!FreedIsGone
        /\ backend = "audiounit" => AudioUnit!FreedIsGone
    BY <1>1, CubebAssumption, WasapiSafe, WinmmSafe, AudioUnitSafe DEF Inv
  <2>3. QED
    BY <2>1, <2>2 DEF FreedIsGone
<1>2. QED
  BY <1>1, Invariance, PTL

\* A data callback of PulseAudio, WASAPI, sndio or Sun that returned too little was
\* the last one, and WinMM, sndio and Sun tell DRAINED only when the device took,
\* or gave back, everything it was given (cubeb.h:404).
THEOREM ShortStaysLast == Spec => []ShortIsLast
<1>1. ASSUME Inv PROVE ShortIsLast
  <2>1. /\ backend = "pulse" => Pulse!NoCallbackAfterShort
        /\ backend = "wasapi" => Wasapi!NoCallbackAfterShort
        /\ backend = "winmm" => Winmm!DrainedIsLast
        /\ backend = "sndio" => Sndio!ShortIsLast
        /\ backend = "sun" => Sun!ShortIsLast
    BY <1>1, CubebAssumption, PulseSafe, WasapiSafe, WinmmSafe, SndioSafe, SunSafe DEF Inv
  <2>2. QED
    BY <2>1 DEF ShortIsLast
<1>2. QED
  BY <1>1, Invariance, PTL

\* The buffers and frames between the data callback and the device are accounted
\* for, in the way each backend does it: an OpenSL ES recorder overwrites nothing
\* until a buffer was left out, an OSS callback gets what the buffers hold, each
\* WinMM buffer is in one place or was lost with an ERROR, and sndio and Sun play
\* and record what the callbacks were for.
THEOREM FramesStayInStep == Spec => []FramesAgree
<1>1. ASSUME Inv PROVE FramesAgree
  <2>1. /\ backend = "opensl" => OpenSL!BuffersApart
        /\ backend = "oss" => Oss!FramesFit
        /\ backend = "winmm" => Winmm!BuffersAdd
        /\ backend = "sndio" => Sndio!InStep
        /\ backend = "sun" => Sun!InStep
    BY <1>1, CubebAssumption, OpenSLSafe, OssSafe, WinmmSafe, SndioSafe, SunSafe DEF Inv
  <2>2. QED
    BY <2>1 DEF FramesAgree
<1>2. QED
  BY <1>1, Invariance, PTL

\* What a backend keeps of its streams and devices is what they are: the ids
\* of its device collection callbacks, the slots of its streams, the state it
\* told, the one pending reinitialisation, the end of its drain.
THEOREM RecordsStayTrue == Spec => []RecordsAgree
<1>1. ASSUME Inv PROVE RecordsAgree
  <2>1. /\ backend = "pulse" => Pulse!IdsStayGood
        /\ backend = "jack" => Jack!SlotsAgree
        /\ backend = "aaudio" => AAudio!ToldIsTrue
        /\ backend = "audiounit" => AudioUnit!OneReinit
        /\ backend = "sun" => Sun!EndIsTold
    BY <1>1, CubebAssumption, PulseSafe, JackSafe, AAudioSafe, SunSafe DEF Inv, AudioUnit!IInv
  <2>2. QED
    BY <2>1 DEF RecordsAgree
<1>2. QED
  BY <1>1, Invariance, PTL

\* After OpenSL has told an error, or WASAPI's destroy has returned, no data
\* callback begins.
THEOREM NothingComesAfter == Spec => NothingFollows
<1>1. ASSUME Inv, Next
      PROVE  /\ backend = "opensl" => OpenSL!AfterError
             /\ backend = "wasapi" => Wasapi!AfterDestroy
  <2>1. backend = "opensl" => OpenSL!Next
    BY <1>1 DEF Next, PulseNext, JackNext, AAudioNext, OpenSLNext, OssNext, WasapiNext,
                WinmmNext, AudioUnitNext, SndioNext, SunNext
  <2>2. backend = "wasapi" => Wasapi!Next
    BY <1>1 DEF Next, PulseNext, JackNext, AAudioNext, OpenSLNext, OssNext, WasapiNext,
                WinmmNext, AudioUnitNext, SndioNext, SunNext
  <2>3. QED
    BY <1>1, <2>1, <2>2, CubebAssumption, OpenSLErrorIsLast, WasapiAfterDestroy DEF Inv
<1>2. Inv /\ [Next]_vars =>
        [ /\ backend = "opensl" => OpenSL!AfterError
          /\ backend = "wasapi" => Wasapi!AfterDestroy ]_vars
  BY <1>1
<1>3. QED
  BY <1>2, Invariance, PTL DEF Spec, NothingFollows
=============================================================================
