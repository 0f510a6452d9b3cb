--------------------------- MODULE BackendProofs ---------------------------
(***************************************************************************)
(* The backends of the library, each for itself and for every value of the *)
(* constants: sun, sndio, OSS, WinMM, OpenSL, WASAPI, JACK and PulseAudio. *)
(*                                                                         *)
(* The modules of the backends state an inductive invariant IInv each, and *)
(* say there why it is needed.  Here, backend by backend: IInv holds at    *)
(* first (XInit), every step of the application, of the backend's thread   *)
(* and of the device keeps it (XStep), so does a step of nobody (XStutter), *)
(* and it implies what is promised of the backend (XSafe).  CubebProofs    *)
(* puts the backends together.                                             *)
(*                                                                         *)
(* Many handlers change a field or two of a record.  What the invariant    *)
(* says of a record is then given as an operator of its fields (XGoesOn),  *)
(* and a lemma says that it lasts when a record keeps the others, so that  *)
(* the proof of a step only has to say which fields change.                *)
(***************************************************************************)
EXTENDS Cubeb, TLAPS

----------------------------------------------------------------------------
(* The Sun backend *)

\* The stream starts as the invariant says.
LEMMA SunInit ==
  ASSUME CubebAssumption, Sun!Init PROVE Sun!IInv
  <1>1. Frames \in Nat \ {0}
    BY DEF CubebAssumption, Sun!SunAssumption
  <1>2. PICK k \in Kinds : stm = [kind |-> k, running |-> FALSE, created |-> FALSE]
    BY DEF Sun!Init
  <1>3. /\ thread = [pc |-> "none", write |-> 0, read |-> 0, drain |-> FALSE, state |-> "started"]
        /\ v1 = [called |-> FALSE, given |-> 0, written |-> 0, recorded |-> 0]
        /\ app = "none" /\ fault = FALSE
    BY DEF Sun!Init, Sun!Thread, Sun!NoFrames
  <1>4. Sun!TypeOK
    <2>1. stm \in Sun!Streams BY <1>2 DEF Sun!Streams
    <2>2. thread \in Sun!Threads BY <1>1, <1>3 DEF Sun!Threads
    <2>3. v1 \in Sun!Counts BY <1>1, <1>3 DEF Sun!Counts
    <2> QED BY <1>3, <2>1, <2>2, <2>3 DEF Sun!TypeOK
  <1> QED
    BY <1>1, <1>2, <1>3, <1>4 DEF Sun!IInv, Sun!ThreadFitsApp, Sun!BlockAdds, Sun!InStep,
       Sun!EndIsTold, Sun!ShortIsLast, Sun!FaultsAreKnown, Sun!Plays, Sun!Records

\* A thread that is created anew has moved nothing.
LEMMA SunStart ==
  ASSUME CubebAssumption, Sun!IInv, Sun!Start PROVE Sun!IInv'
  <1> USE DEF Sun!Plays, Sun!Records
  <1>1. Frames \in Nat \ {0} /\ Sun!TypeOK /\ ~fault /\ UNCHANGED fault
    BY DEF CubebAssumption, Sun!SunAssumption, Sun!IInv, Sun!Start
  <1>2. PICK ok \in BOOLEAN :
          /\ stm' = [stm EXCEPT !.running = TRUE, !.created = ok]
          /\ thread' = IF ok THEN Sun!Thread("top") ELSE Sun!Thread("none")
          /\ app' = IF ok THEN "running" ELSE "idle"
    BY DEF Sun!Start
  <1>3. thread' = [pc |-> IF ok THEN "top" ELSE "none", write |-> 0, read |-> 0,
                   drain |-> FALSE, state |-> "started"]
    BY <1>2 DEF Sun!Thread
  <1>4. v1' = [called |-> FALSE, given |-> 0, written |-> 0, recorded |-> 0]
    BY DEF Sun!Start, Sun!NoFrames
  <1>5. Sun!TypeOK'
    <2>1. stm' \in Sun!Streams BY <1>1, <1>2 DEF Sun!TypeOK, Sun!Streams
    <2>2. thread' \in Sun!Threads BY <1>1, <1>3 DEF Sun!Threads
    <2>3. v1' \in Sun!Counts BY <1>1, <1>4 DEF Sun!Counts
    <2> QED BY <1>1, <1>2, <2>1, <2>2, <2>3 DEF Sun!TypeOK
  <1> QED
    BY <1>1, <1>2, <1>3, <1>4, <1>5 DEF Sun!IInv, Sun!TypeOK, Sun!Streams, Sun!Threads, Sun!Counts, Sun!ThreadFitsApp,
       Sun!BlockAdds, Sun!InStep, Sun!EndIsTold, Sun!ShortIsLast, Sun!FaultsAreKnown

\* The callback's frames, and the block to be read, are what is to be moved.
LEMMA SunReturns ==
  ASSUME CubebAssumption, Sun!IInv, Sun!Returns PROVE Sun!IInv'
  <1> USE DEF Sun!Plays, Sun!Records
  <1>1. /\ Frames \in Nat \ {0} /\ Sun!TypeOK
        /\ thread.pc = "call" /\ ~fault /\ UNCHANGED <<stm, app, fault>>
    BY DEF CubebAssumption, Sun!SunAssumption, Sun!IInv, Sun!Returns
  <1>2. CASE thread' = [thread EXCEPT !.pc = "tell", !.state = "error"] /\ UNCHANGED v1
    <2>1. Sun!TypeOK'
      BY <1>1, <1>2 DEF Sun!TypeOK, Sun!Streams, Sun!Threads, Sun!Counts
    <2> QED
      BY <1>1, <1>2, <2>1 DEF Sun!IInv, Sun!TypeOK, Sun!Streams, Sun!Threads, Sun!Counts, Sun!ThreadFitsApp, Sun!BlockAdds,
         Sun!InStep, Sun!EndIsTold, Sun!ShortIsLast, Sun!FaultsAreKnown
  <1>3. ASSUME NEW n \in 0..Frames,
               thread' = [thread EXCEPT !.pc = "move", !.write = Sun!ToWrite(n),
                                        !.read = Sun!ToRead, !.drain = n < Frames],
               v1' = [Sun!NoFrames EXCEPT !.called = TRUE, !.given = n]
        PROVE  Sun!IInv'
    <2>1. /\ Sun!ToWrite(n) \in 0..Frames /\ Sun!ToRead \in 0..Frames
          /\ (n < Frames) \in BOOLEAN
      BY <1>1 DEF Sun!ToWrite, Sun!ToRead
    <2>2. v1' = [called |-> TRUE, given |-> n, written |-> 0, recorded |-> 0]
      BY <1>3 DEF Sun!NoFrames
    <2>3. Sun!TypeOK'
      <3>1. thread' \in Sun!Threads BY <1>1, <1>3, <2>1 DEF Sun!TypeOK, Sun!Threads
      <3>2. v1' \in Sun!Counts BY <1>1, <2>2 DEF Sun!Counts
      <3> QED BY <1>1, <3>1, <3>2 DEF Sun!TypeOK
    <2>4. thread'.pc = "move" /\ thread'.write = Sun!ToWrite(n) /\ thread'.read = Sun!ToRead
      BY <1>1, <1>3 DEF Sun!TypeOK, Sun!Threads
    <2> QED
      BY <1>1, <2>2, <2>3, <2>4 DEF Sun!IInv, Sun!ThreadFitsApp, Sun!BlockAdds,
         Sun!InStep, Sun!EndIsTold, Sun!ShortIsLast, Sun!FaultsAreKnown, Sun!ToWrite, Sun!ToRead
  <1> QED
    BY <1>2, <1>3 DEF Sun!Returns

\* What is moved was left, so that both still make the block.
LEMMA SunMove ==
  ASSUME CubebAssumption, Sun!IInv, Sun!Move PROVE Sun!IInv'
  <1> USE DEF Sun!Plays, Sun!Records
  <1>1. /\ Frames \in Nat \ {0} /\ Sun!TypeOK
        /\ thread.pc = "move" /\ ~fault /\ UNCHANGED <<stm, app, fault>>
    BY DEF CubebAssumption, Sun!SunAssumption, Sun!IInv, Sun!Move
  <1>2. CASE thread' = [thread EXCEPT !.pc = "tell", !.state = "error"] /\ UNCHANGED v1
    <2>1. Sun!TypeOK'
      BY <1>1, <1>2 DEF Sun!TypeOK, Sun!Streams, Sun!Threads, Sun!Counts
    <2> QED
      BY <1>1, <1>2, <2>1 DEF Sun!IInv, Sun!TypeOK, Sun!Streams, Sun!Threads, Sun!Counts, Sun!ThreadFitsApp, Sun!BlockAdds,
         Sun!InStep, Sun!EndIsTold, Sun!ShortIsLast, Sun!FaultsAreKnown
  <1>3. ASSUME NEW w \in 0..thread.write, NEW r \in 0..thread.read,
               thread' = [thread EXCEPT !.write = @ - w, !.read = @ - r],
               v1' = [v1 EXCEPT !.written = @ + w, !.recorded = @ + r]
        PROVE  Sun!IInv'
    <2>1. /\ thread.write \in 0..Frames /\ thread.read \in 0..Frames
          /\ v1.given \in 0..Frames /\ v1.written \in 0..Frames /\ v1.recorded \in 0..Frames
      BY <1>1 DEF Sun!TypeOK, Sun!Streams, Sun!Threads, Sun!Counts
    <2>2. thread.write - w \in 0..Frames /\ thread.read - r \in 0..Frames
      BY <1>1, <2>1
    <2>3. v1.written + w \in 0..Frames /\ v1.recorded + r \in 0..Frames
      BY <1>1, <2>1 DEF Sun!IInv, Sun!BlockAdds
    <2>4. Sun!TypeOK'
      <3>1. thread' \in Sun!Threads
        BY <1>1, <1>3, <2>2 DEF Sun!TypeOK, Sun!Streams, Sun!Threads, Sun!Counts
      <3>2. v1' \in Sun!Counts
        BY <1>1, <1>3, <2>3 DEF Sun!TypeOK, Sun!Streams, Sun!Threads, Sun!Counts
      <3> QED
        BY <1>1, <3>1, <3>2 DEF Sun!TypeOK, Sun!Streams, Sun!Threads, Sun!Counts
    <2> QED
      BY <1>1, <1>3, <2>4 DEF Sun!IInv, Sun!TypeOK, Sun!Streams, Sun!Threads, Sun!Counts, Sun!ThreadFitsApp, Sun!BlockAdds,
         Sun!InStep, Sun!EndIsTold, Sun!ShortIsLast, Sun!FaultsAreKnown
  <1> QED
    BY <1>2, <1>3 DEF Sun!Move

\* When nothing is left the counts agree.
LEMMA SunMoved ==
  ASSUME CubebAssumption, Sun!IInv, Sun!Moved PROVE Sun!IInv'
  <1>1. /\ Frames \in Nat \ {0} /\ Sun!TypeOK /\ UNCHANGED <<stm, v1, app, fault>>
        /\ thread.pc = "move" /\ thread.write = 0 /\ thread.read = 0
        /\ v1.written \in Nat /\ v1.given \in Nat /\ v1.recorded \in Nat
    BY DEF CubebAssumption, Sun!SunAssumption, Sun!IInv, Sun!Moved, Sun!TypeOK, Sun!Counts
  <1>2. /\ v1.called
        /\ Sun!Plays => v1.written = v1.given
        /\ Sun!Records => v1.recorded = Frames
    BY <1>1 DEF Sun!IInv, Sun!BlockAdds
  <1>3. PICK pc \in {"tell", "top"}, state \in {"started", "stopped", "drained", "error"} :
          /\ thread' = [thread EXCEPT !.pc = pc, !.state = state]
          /\ pc = "tell" => state = "drained"
          /\ pc = "top" => ~thread.drain
    <2>1. CASE thread.drain BY <2>1 DEF Sun!Moved
    <2>2. CASE ~thread.drain
      <3>1. thread' = [thread EXCEPT !.pc = "top", !.state = thread.state]
        BY <1>1, <2>2 DEF Sun!Moved, Sun!TypeOK, Sun!Threads
      <3>2. thread.state \in {"started", "stopped", "drained", "error"}
        BY <1>1 DEF Sun!TypeOK, Sun!Threads
      <3> QED BY <2>2, <3>1, <3>2
    <2> QED BY <2>1, <2>2
  <1>4. Sun!TypeOK' /\ thread'.pc = pc /\ thread'.state = state /\ thread'.drain = thread.drain
    BY <1>1, <1>3 DEF Sun!TypeOK, Sun!Threads
  <1> QED
    BY <1>1, <1>2, <1>3, <1>4 DEF Sun!IInv, Sun!ThreadFitsApp, Sun!BlockAdds, Sun!InStep,
       Sun!EndIsTold, Sun!ShortIsLast, Sun!FaultsAreKnown, Sun!Plays, Sun!Records

\* Every step of the user and of the thread preserves the invariant.
LEMMA SunStep ==
  ASSUME CubebAssumption, Sun!IInv, Sun!Next PROVE Sun!IInv'
  <1> USE DEF Sun!Plays, Sun!Records, Sun!IInv, Sun!TypeOK, Sun!Streams, Sun!Threads, Sun!Counts, Sun!ThreadFitsApp, Sun!BlockAdds,
              Sun!InStep, Sun!EndIsTold, Sun!ShortIsLast, Sun!FaultsAreKnown
  <1>1. CASE Sun!StreamInit BY <1>1 DEF Sun!StreamInit
  <1>2. CASE Sun!Start BY <1>2, SunStart
  <1>3. CASE Sun!Stop BY <1>3 DEF Sun!Stop, Sun!Cleared
  <1>4. CASE Sun!StopReturns BY <1>4 DEF Sun!StopReturns, Sun!Joined
  <1>5. CASE Sun!Destroy BY <1>5 DEF Sun!Destroy
  <1>6. CASE Sun!Top BY <1>6 DEF Sun!Top
  <1>7. CASE Sun!Returns BY <1>7, SunReturns
  <1>8. CASE Sun!Move BY <1>8, SunMove
  <1>9. CASE Sun!Moved BY <1>9, SunMoved
  <1>10. CASE Sun!Tell BY <1>10 DEF Sun!Tell
  <1> QED
    BY <1>1, <1>2, <1>3, <1>4, <1>5, <1>6, <1>7, <1>8, <1>9, <1>10
       DEF Sun!Next, Sun!AppNext, Sun!ThreadNext

\* It is about the variables of the backend alone.
LEMMA SunStutter ==
  ASSUME Sun!IInv, UNCHANGED Sun!vars PROVE Sun!IInv'
  BY DEF Sun!vars, Sun!IInv, Sun!TypeOK, Sun!Streams, Sun!Threads, Sun!Counts, Sun!ThreadFitsApp, Sun!BlockAdds, Sun!InStep,
     Sun!EndIsTold, Sun!ShortIsLast, Sun!FaultsAreKnown, Sun!Plays, Sun!Records

\* What the invariant says of the properties of the library.
LEMMA SunSafe ==
  ASSUME Sun!IInv
  PROVE  Sun!TypeOK /\ Sun!StopQuiesces /\ Sun!FaultsAreKnown /\ Sun!InStep /\ Sun!ShortIsLast
         /\ Sun!EndIsTold
  BY DEF Sun!IInv, Sun!ThreadFitsApp, Sun!StopQuiesces

----------------------------------------------------------------------------
(* The sndio backend *)

\* The stream starts as the invariant says.
LEMMA SndioInit ==
  ASSUME CubebAssumption, Sndio!Init PROVE Sndio!IInv
  <1>1. Blocks \in Nat \ {0} /\ MaxFrames \in Nat
    BY DEF CubebAssumption, Sndio!SndioAssumption
  <1>2. PICK k \in Kinds : stm = [kind |-> k, active |-> FALSE, swpos |-> 0, hwpos |-> 0]
    BY DEF Sndio!Init
  <1>3. /\ thread = [pc |-> "none", played |-> TRUE, recorded |-> TRUE, eof |-> FALSE,
                     prime |-> 0, state |-> "none"]
        /\ v1 = [played |-> 0, recorded |-> 0, calls |-> 0]
        /\ app = "none"
    BY DEF Sndio!Init
  <1>4. Sndio!TypeOK
    <2>1. stm \in Sndio!Streams BY <1>1, <1>2 DEF Sndio!Streams
    <2>2. thread \in Sndio!Threads BY <1>1, <1>3 DEF Sndio!Threads
    <2>3. v1 \in Sndio!Devices BY <1>1, <1>3 DEF Sndio!Devices
    <2> QED BY <1>3, <2>1, <2>2, <2>3 DEF Sndio!TypeOK
  <1> QED
    BY <1>3, <1>4 DEF Sndio!IInv, Sndio!ThreadFitsApp, Sndio!CountsAdd, Sndio!ShortIsLast

\* The thread begins with a device that has moved nothing, and an output stream
\* with as many blocks to prime as the device holds.
LEMMA SndioThreadStart ==
  ASSUME CubebAssumption, Sndio!IInv, Sndio!ThreadStart PROVE Sndio!IInv'
  <1>1. /\ Blocks \in Nat \ {0} /\ MaxFrames \in Nat /\ Sndio!TypeOK
        /\ thread.pc = "start" /\ UNCHANGED <<stm, app>>
        /\ v1' = [played |-> 0, recorded |-> 0, calls |-> 0]
    BY DEF CubebAssumption, Sndio!SndioAssumption, Sndio!IInv, Sndio!ThreadStart
  <1>2. v1' \in Sndio!Devices
    BY <1>1 DEF Sndio!Devices
  <1>3. stm.swpos \in Nat
    BY <1>1 DEF Sndio!TypeOK, Sndio!Streams
  <1>4. CASE thread' = [thread EXCEPT !.pc = "top", !.played = TRUE, !.recorded = Sndio!Plays,
                                      !.eof = FALSE, !.prime = Sndio!Primed,
                                      !.state = "started"]
    <2>1. Sndio!Plays \in BOOLEAN /\ Sndio!Primed \in 0..Blocks
      BY <1>1 DEF Sndio!Plays, Sndio!Primed
    <2>2. thread' \in Sndio!Threads
      BY <1>1, <1>4, <2>1 DEF Sndio!TypeOK, Sndio!Threads
    <2>3. /\ thread'.pc = "top" /\ thread'.played /\ thread'.recorded = Sndio!Plays
          /\ thread'.prime = Sndio!Primed /\ thread'.state = "started"
      BY <1>1, <1>4, <2>1 DEF Sndio!TypeOK, Sndio!Threads
    <2>4. Sndio!TypeOK' /\ Sndio!ThreadFitsApp' /\ Sndio!ShortIsLast'
      BY <1>1, <1>2, <2>2, <2>3 DEF Sndio!IInv, Sndio!TypeOK, Sndio!ThreadFitsApp,
         Sndio!ShortIsLast
    <2>5. Sndio!Plays' = Sndio!Plays /\ Sndio!Records' = Sndio!Records
          /\ (Sndio!Plays \/ Sndio!Records)
      BY <1>1 DEF Sndio!Plays, Sndio!Records
    <2>6. Sndio!CountsAdd'
      BY <1>1, <1>3, <2>3, <2>5 DEF Sndio!CountsAdd, Sndio!Primed
    <2> QED BY <2>4, <2>6 DEF Sndio!IInv
  <1>5. ASSUME NEW told \in {"none", "started"},
               thread' = [thread EXCEPT !.pc = "gone", !.state = told]
        PROVE  Sndio!IInv'
    <2>1. thread' \in Sndio!Threads /\ thread'.pc = "gone" /\ thread'.state = told
      BY <1>1, <1>5 DEF Sndio!TypeOK, Sndio!Threads
    <2> QED
      BY <1>1, <1>2, <1>5, <2>1 DEF Sndio!IInv, Sndio!TypeOK, Sndio!ThreadFitsApp,
         Sndio!CountsAdd, Sndio!ShortIsLast
  <1> QED
    BY <1>4, <1>5 DEF Sndio!ThreadStart

\* The head of the loop asks for a block only when the last ones are done.
LEMMA SndioTop ==
  ASSUME CubebAssumption, Sndio!IInv, Sndio!Top PROVE Sndio!IInv'
  <1>1. /\ Sndio!TypeOK /\ thread.pc = "top" /\ UNCHANGED <<stm, v1, app>>
    BY DEF Sndio!IInv, Sndio!Top
  <1>2. PICK pc \in {"end", "call", "poll"},
             state \in {"none", "started", "stopped", "drained", "error"} :
          /\ thread' = [thread EXCEPT !.pc = pc, !.state = state]
          /\ pc = "call" => Sndio!Done /\ ~thread.eof
          /\ pc = "end" /\ state = "drained" => Sndio!Done
    <2>1. \/ thread' = [thread EXCEPT !.pc = "end", !.state = "stopped"]
          \/ Sndio!Done /\ thread' = [thread EXCEPT !.pc = "end", !.state = "drained"]
          \/ /\ thread' = [thread EXCEPT !.pc = IF Sndio!Done THEN "call" ELSE "poll"]
             /\ ~(Sndio!Done /\ thread.eof)
      BY DEF Sndio!Top, Sndio!Ends
    <2>2. thread.state \in {"none", "started", "stopped", "drained", "error"}
      BY <1>1 DEF Sndio!TypeOK, Sndio!Threads
    <2>3. [thread EXCEPT !.pc = IF Sndio!Done THEN "call" ELSE "poll"]
          = [thread EXCEPT !.pc = IF Sndio!Done THEN "call" ELSE "poll", !.state = thread.state]
      BY <1>1 DEF Sndio!TypeOK, Sndio!Threads
    <2> QED BY <2>1, <2>2, <2>3
  <1>3. /\ thread' \in Sndio!Threads /\ thread'.pc = pc /\ thread'.played = thread.played
        /\ thread'.recorded = thread.recorded /\ thread'.prime = thread.prime
        /\ thread'.eof = thread.eof /\ thread'.state = state
    BY <1>1, <1>2 DEF Sndio!TypeOK, Sndio!Threads
  <1>4. v1.calls \in Int /\ (Sndio!Plays /\ thread.played => v1.played = v1.calls)
    BY <1>1 DEF Sndio!IInv, Sndio!CountsAdd, Sndio!TypeOK, Sndio!Devices
  <1>5. Sndio!ShortIsLast'
    BY <1>1, <1>2, <1>3, <1>4 DEF Sndio!ShortIsLast, Sndio!Done, Sndio!Plays
  <1> QED
    BY <1>1, <1>2, <1>3, <1>5 DEF Sndio!IInv, Sndio!TypeOK, Sndio!ThreadFitsApp, Sndio!CountsAdd,
       Sndio!Done, Sndio!Plays, Sndio!Records

\* A callback counts one block, one less to prime.
LEMMA SndioReturns ==
  ASSUME CubebAssumption, Sndio!IInv, Sndio!Returns PROVE Sndio!IInv'
  <1>1. /\ Blocks \in Nat \ {0} /\ MaxFrames \in Nat /\ Sndio!TypeOK
        /\ thread.pc = "call" /\ UNCHANGED app
    BY DEF CubebAssumption, Sndio!SndioAssumption, Sndio!IInv, Sndio!Returns
  <1>2. ASSUME UNCHANGED <<stm, v1>>, NEW state \in {"error", "drained"}, Sndio!Ends(state)
        PROVE  Sndio!IInv'
    <2>1. thread' \in Sndio!Threads /\ thread'.pc = "end"
      BY <1>1, <1>2 DEF Sndio!TypeOK, Sndio!Threads, Sndio!Ends
    <2>2. v1.calls \in Int /\ (Sndio!Plays => v1.played = v1.calls)
      BY <1>1 DEF Sndio!IInv, Sndio!CountsAdd, Sndio!Done, Sndio!TypeOK, Sndio!Devices
    <2> QED
      BY <1>1, <1>2, <2>1, <2>2 DEF Sndio!IInv, Sndio!TypeOK, Sndio!ThreadFitsApp,
         Sndio!CountsAdd, Sndio!ShortIsLast, Sndio!Plays
  <1>3. ASSUME stm.swpos < MaxFrames,
               stm' = [stm EXCEPT !.swpos = @ + 1],
               v1' = [v1 EXCEPT !.calls = @ + 1],
               NEW short \in BOOLEAN,
               thread' = [thread EXCEPT !.pc = "poll", !.eof = short,
                            !.prime = IF thread.prime > 0 THEN thread.prime - 1 ELSE 0,
                            !.played = ~Sndio!Plays, !.recorded = ~Sndio!Records]
        PROVE  Sndio!IInv'
    <2>1. /\ stm.swpos \in 0..MaxFrames /\ stm.hwpos \in 0..MaxFrames + 1
          /\ v1.calls \in 0..MaxFrames + 1
          /\ v1.played \in 0..MaxFrames + 1 /\ v1.recorded \in 0..MaxFrames + 1
          /\ thread.prime \in 0..Blocks
      BY <1>1 DEF Sndio!TypeOK, Sndio!Streams, Sndio!Threads, Sndio!Devices
    <2>2. v1.calls <= stm.swpos
      BY <1>1 DEF Sndio!IInv, Sndio!CountsAdd
    <2>3. stm' \in Sndio!Streams /\ stm'.swpos = stm.swpos + 1 /\ stm'.kind = stm.kind
      BY <1>1, <1>3, <2>1 DEF Sndio!TypeOK, Sndio!Streams
    <2>4. /\ v1' \in Sndio!Devices /\ v1'.calls = v1.calls + 1
          /\ v1'.played = v1.played /\ v1'.recorded = v1.recorded
      BY <1>1, <1>3, <2>1, <2>2 DEF Sndio!TypeOK, Sndio!Devices
    <2>5. /\ (IF thread.prime > 0 THEN thread.prime - 1 ELSE 0) \in 0..Blocks
          /\ (~Sndio!Plays) \in BOOLEAN /\ (~Sndio!Records) \in BOOLEAN
      BY <1>1, <2>1
    <2>6. /\ thread' \in Sndio!Threads /\ thread'.pc = "poll"
          /\ (thread'.played <=> ~Sndio!Plays) /\ (thread'.recorded <=> ~Sndio!Records)
          /\ thread'.prime = IF thread.prime > 0 THEN thread.prime - 1 ELSE 0
      BY <1>1, <1>3, <2>5, ZenonT(60) DEF Sndio!TypeOK, Sndio!Threads
    <2>7. Sndio!TypeOK' /\ Sndio!ThreadFitsApp' /\ Sndio!ShortIsLast'
      BY <1>1, <2>3, <2>4, <2>6 DEF Sndio!IInv, Sndio!TypeOK, Sndio!ThreadFitsApp,
         Sndio!ShortIsLast
    <2>8. Sndio!CountsAdd'
      <3>1. Sndio!Plays' = Sndio!Plays /\ Sndio!Records' = Sndio!Records
            /\ (Sndio!Plays \/ Sndio!Records)
        BY <2>3 DEF Sndio!Plays, Sndio!Records
      <3>2. CASE Sndio!Plays /\ Sndio!Records
        <4>a. ~thread'.played /\ ~thread'.recorded
          BY <2>6, <3>2
        <4>b. thread.played /\ thread.recorded
          BY <1>1 DEF Sndio!IInv, Sndio!CountsAdd, Sndio!Done
        <4>1. v1.played = v1.calls
          BY <1>1, <2>1, <3>2, <4>b DEF Sndio!IInv, Sndio!CountsAdd
        <4>2. IF v1.calls < Blocks THEN thread.prime = Blocks - v1.calls /\ v1.recorded = 0
              ELSE thread.prime = 0 /\ v1.recorded = v1.calls - Blocks + 1
          BY <1>1, <3>2, <4>b DEF Sndio!IInv, Sndio!CountsAdd
        <4>3. IF v1'.calls < Blocks THEN thread'.prime = Blocks - v1'.calls /\ v1'.recorded = 0
              ELSE thread'.prime = 0 /\ v1'.recorded = v1'.calls - Blocks
          BY <1>1, <2>1, <2>4, <2>6, <4>2
        <4> QED
          BY <1>1, <2>1, <2>2, <2>3, <2>4, <2>6, <3>1, <3>2, <4>a, <4>1, <4>3 DEF Sndio!CountsAdd
      <3>3. CASE Sndio!Plays /\ ~Sndio!Records
        BY <1>1, <2>1, <2>2, <2>3, <2>4, <2>6, <3>1, <3>3
           DEF Sndio!IInv, Sndio!CountsAdd, Sndio!Done
      <3>4. CASE ~Sndio!Plays /\ Sndio!Records
        BY <1>1, <2>1, <2>2, <2>3, <2>4, <2>6, <3>1, <3>4, SMTT(40)
           DEF Sndio!IInv, Sndio!CountsAdd, Sndio!Done
      <3> QED BY <3>1, <3>2, <3>3, <3>4
    <2> QED BY <2>7, <2>8 DEF Sndio!IInv
  <1> QED
    BY <1>2, <1>3 DEF Sndio!Returns

\* The device takes the block that is to be played, and gives the one that is to
\* be recorded.
LEMMA SndioPoll ==
  ASSUME CubebAssumption, Sndio!IInv, Sndio!Poll PROVE Sndio!IInv'
  <1>1. /\ Blocks \in Nat \ {0} /\ MaxFrames \in Nat /\ Sndio!TypeOK
        /\ thread.pc = "poll" /\ UNCHANGED app
    BY DEF CubebAssumption, Sndio!SndioAssumption, Sndio!IInv, Sndio!Poll
  <1>2. ASSUME UNCHANGED <<stm, v1>>, Sndio!Ends("error")
        PROVE  Sndio!IInv'
    <2>1. thread' \in Sndio!Threads /\ thread'.pc = "end" /\ thread'.state = "error"
      BY <1>1, <1>2 DEF Sndio!TypeOK, Sndio!Threads, Sndio!Ends
    <2> QED
      BY <1>1, <1>2, <2>1 DEF Sndio!IInv, Sndio!TypeOK, Sndio!ThreadFitsApp, Sndio!CountsAdd,
         Sndio!ShortIsLast
  <1>3. ASSUME NEW out \in BOOLEAN, NEW in \in BOOLEAN,
               out => Sndio!Plays /\ ~thread.played,
               in => Sndio!Records /\ ~thread.recorded /\ thread.prime = 0,
               thread' = [thread EXCEPT !.pc = "top", !.played = @ \/ out,
                                        !.recorded = @ \/ in \/ (Sndio!Records /\ thread.prime > 0)],
               v1' = [v1 EXCEPT !.played = @ + (IF out THEN 1 ELSE 0),
                                !.recorded = @ + (IF in THEN 1 ELSE 0)],
               UNCHANGED stm
        PROVE  Sndio!IInv'
    <2>1. /\ stm.swpos \in 0..MaxFrames /\ v1.calls \in 0..MaxFrames + 1
          /\ v1.played \in 0..MaxFrames + 1 /\ v1.recorded \in 0..MaxFrames + 1
          /\ thread.prime \in 0..Blocks
          /\ thread.played \in BOOLEAN /\ thread.recorded \in BOOLEAN
      BY <1>1 DEF Sndio!TypeOK, Sndio!Streams, Sndio!Threads, Sndio!Devices
    <2>2. /\ v1.played + (IF out THEN 1 ELSE 0) \in 0..MaxFrames + 1
          /\ v1.recorded + (IF in THEN 1 ELSE 0) \in 0..MaxFrames + 1
      BY <1>1, <1>3, <2>1 DEF Sndio!IInv, Sndio!CountsAdd
    <2>3. /\ v1' \in Sndio!Devices /\ v1'.calls = v1.calls
          /\ v1'.played = v1.played + (IF out THEN 1 ELSE 0)
          /\ v1'.recorded = v1.recorded + (IF in THEN 1 ELSE 0)
      BY <1>1, <1>3, <2>2 DEF Sndio!TypeOK, Sndio!Devices
    <2>4. /\ thread' \in Sndio!Threads /\ thread'.pc = "top" /\ thread'.prime = thread.prime
          /\ thread'.played <=> (thread.played \/ out)
          /\ thread'.recorded <=> (thread.recorded \/ in \/ (Sndio!Records /\ thread.prime > 0))
      BY <1>1, <1>3, <2>1 DEF Sndio!TypeOK, Sndio!Threads
    <2>5. Sndio!TypeOK' /\ Sndio!ThreadFitsApp' /\ Sndio!ShortIsLast'
      BY <1>1, <1>3, <2>3, <2>4 DEF Sndio!IInv, Sndio!TypeOK, Sndio!ThreadFitsApp,
         Sndio!ShortIsLast
    <2>6. Sndio!CountsAdd'
      <3>1. Sndio!Plays' = Sndio!Plays /\ Sndio!Records' = Sndio!Records
            /\ (Sndio!Plays \/ Sndio!Records)
        BY <1>3 DEF Sndio!Plays, Sndio!Records
      <3>2. CASE Sndio!Plays /\ Sndio!Records
        <4>1. /\ v1'.calls <= stm'.swpos
              /\ v1'.played = v1'.calls - (IF thread'.played THEN 0 ELSE 1)
          BY <1>1, <1>3, <2>1, <2>3, <2>4, <3>2 DEF Sndio!IInv, Sndio!CountsAdd
        <4>2. IF v1'.calls < Blocks THEN thread'.prime = Blocks - v1'.calls /\ v1'.recorded = 0
              ELSE /\ thread'.prime = 0
                   /\ v1'.recorded = v1'.calls - Blocks + (IF thread'.recorded THEN 1 ELSE 0)
          <5>1. CASE v1.calls < Blocks
            BY <1>1, <1>3, <2>1, <2>3, <2>4, <3>2, <5>1 DEF Sndio!IInv, Sndio!CountsAdd
          <5>2. CASE ~(v1.calls < Blocks)
            <6>1. /\ thread.prime = 0
                  /\ v1.recorded = v1.calls - Blocks + (IF thread.recorded THEN 1 ELSE 0)
              BY <1>1, <3>2, <5>2 DEF Sndio!IInv, Sndio!CountsAdd
            <6>2. thread'.recorded <=> (thread.recorded \/ in)
              BY <2>4, <6>1
            <6> QED BY <1>1, <1>3, <2>1, <2>3, <2>4, <5>2, <6>1, <6>2
          <5> QED BY <5>1, <5>2
        <4> QED
          BY <1>1, <2>4, <3>1, <3>2, <4>1, <4>2 DEF Sndio!CountsAdd
      <3>3. CASE Sndio!Plays /\ ~Sndio!Records
        BY <1>1, <1>3, <2>1, <2>3, <2>4, <3>1, <3>3 DEF Sndio!IInv, Sndio!CountsAdd, Sndio!Done
      <3>4. CASE ~Sndio!Plays /\ Sndio!Records
        BY <1>1, <1>3, <2>1, <2>3, <2>4, <3>1, <3>4 DEF Sndio!IInv, Sndio!CountsAdd, Sndio!Done
      <3> QED BY <3>1, <3>2, <3>3, <3>4
    <2> QED BY <2>5, <2>6 DEF Sndio!IInv
  <1> QED
    BY <1>2, <1>3 DEF Sndio!Poll

\* The place that was heard moves on, not beyond what was written.
LEMMA SndioMoved ==
  ASSUME CubebAssumption, Sndio!IInv, Sndio!Moved PROVE Sndio!IInv'
  <1>1. /\ MaxFrames \in Nat /\ Sndio!TypeOK /\ thread.pc = "poll"
        /\ UNCHANGED <<thread, v1, app>> /\ stm' = [stm EXCEPT !.hwpos = @ + 1]
    BY DEF CubebAssumption, Sndio!SndioAssumption, Sndio!IInv, Sndio!Moved
  <1>2. stm.swpos \in 0..MaxFrames /\ stm.hwpos \in 0..MaxFrames + 1
    BY <1>1 DEF Sndio!TypeOK, Sndio!Streams
  <1>3. stm.hwpos + 1 \in 0..MaxFrames + 1
    BY <1>1, <1>2 DEF Sndio!Moved
  <1>4. stm' \in Sndio!Streams /\ stm'.kind = stm.kind /\ stm'.swpos = stm.swpos
    BY <1>1, <1>3 DEF Sndio!TypeOK, Sndio!Streams
  <1> QED
    BY <1>1, <1>4 DEF Sndio!IInv, Sndio!TypeOK, Sndio!ThreadFitsApp, Sndio!CountsAdd,
       Sndio!ShortIsLast, Sndio!Done, Sndio!Plays, Sndio!Records

\* What the thread ends with is what it tells.
LEMMA SndioEnd ==
  ASSUME CubebAssumption, Sndio!IInv, Sndio!End PROVE Sndio!IInv'
  <1>1. /\ MaxFrames \in Nat /\ Sndio!TypeOK /\ thread.pc = "end" /\ UNCHANGED <<v1, app>>
        /\ stm' = [stm EXCEPT !.hwpos = stm.swpos] /\ thread' = [thread EXCEPT !.pc = "gone"]
    BY DEF CubebAssumption, Sndio!SndioAssumption, Sndio!IInv, Sndio!End
  <1>2. stm.swpos \in 0..MaxFrames
    BY <1>1 DEF Sndio!TypeOK, Sndio!Streams
  <1>3. stm' \in Sndio!Streams /\ stm'.swpos = stm.swpos /\ stm'.kind = stm.kind
    BY <1>1, <1>2 DEF Sndio!TypeOK, Sndio!Streams
  <1>4. thread' \in Sndio!Threads /\ thread'.pc = "gone" /\ thread'.state = thread.state
    BY <1>1 DEF Sndio!TypeOK, Sndio!Threads
  <1> QED
    BY <1>1, <1>3, <1>4 DEF Sndio!IInv, Sndio!TypeOK, Sndio!ThreadFitsApp, Sndio!CountsAdd,
       Sndio!ShortIsLast, Sndio!Plays

\* Every step of the user, of the thread and of the device preserves the invariant.
LEMMA SndioStep ==
  ASSUME CubebAssumption, Sndio!IInv, Sndio!Next PROVE Sndio!IInv'
  <1> USE DEF Sndio!IInv, Sndio!TypeOK, Sndio!Streams, Sndio!Threads, Sndio!ThreadFitsApp,
              Sndio!CountsAdd, Sndio!ShortIsLast, Sndio!Done, Sndio!Plays, Sndio!Records
  <1>1. CASE Sndio!StreamInit BY <1>1 DEF Sndio!StreamInit
  <1>2. CASE Sndio!Start BY <1>2, ZenonT(60) DEF Sndio!Start
  <1>3. CASE Sndio!Stop BY <1>3, ZenonT(60) DEF Sndio!Stop, Sndio!Clears
  <1>4. CASE Sndio!StopReturns BY <1>4 DEF Sndio!StopReturns, Sndio!Joined
  <1>5. CASE Sndio!Destroy BY <1>5 DEF Sndio!Destroy
  <1> QED
    BY <1>1, <1>2, <1>3, <1>4, <1>5, SndioThreadStart, SndioTop, SndioReturns, SndioPoll,
       SndioMoved, SndioEnd DEF Sndio!Next, Sndio!AppNext, Sndio!ThreadNext

\* It is about the variables of the backend alone.
LEMMA SndioStutter ==
  ASSUME Sndio!IInv, UNCHANGED Sndio!vars PROVE Sndio!IInv'
  BY DEF Sndio!vars, Sndio!IInv, Sndio!TypeOK, Sndio!ThreadFitsApp, Sndio!CountsAdd,
     Sndio!ShortIsLast, Sndio!Done, Sndio!Plays, Sndio!Records

\* What the invariant says of the properties of the library.
LEMMA SndioSafe ==
  ASSUME CubebAssumption, Sndio!IInv
  PROVE  Sndio!TypeOK /\ Sndio!StopQuiesces /\ Sndio!InStep /\ Sndio!ShortIsLast
  BY DEF CubebAssumption, Sndio!SndioAssumption, Sndio!IInv, Sndio!TypeOK, Sndio!Devices,
     Sndio!ThreadFitsApp, Sndio!CountsAdd, Sndio!StopQuiesces, Sndio!InStep, Sndio!Done

----------------------------------------------------------------------------
(* The OSS backend *)

\* The stream starts as the invariant says.
LEMMA OssInit ==
  ASSUME CubebAssumption, Oss!Init PROVE Oss!IInv
  <1>1. PICK k \in Kinds :
          stm = [kind |-> k, thread_created |-> FALSE, running |-> FALSE, destroying |-> FALSE,
                 doorbell |-> FALSE, state |-> "stopped", told |-> "stopped"]
    BY DEF Oss!Init
  <1>2. thread = [pc |-> "none", new |-> "stopped"] /\ v1 = 0 /\ app = "none" /\ fault = "none"
    BY DEF Oss!Init
  <1>3. Oss!TypeOK
    BY <1>1, <1>2 DEF Oss!TypeOK, Oss!Streams, Oss!Threads, Oss!Cb
  <1> QED
    BY <1>1, <1>2, <1>3 DEF Oss!IInv, Oss!ThreadFitsApp, Oss!LoopIsStarted, Oss!FramesCounted,
       Oss!FramesFit, Oss!FaultsAreKnown, Oss!FreedIsGone

\* A stream that is started does not run, and its thread is not in the loop.
LEMMA OssStart ==
  ASSUME CubebAssumption, Oss!IInv, Oss!Start PROVE Oss!IInv'
  <1>1. /\ Oss!TypeOK /\ fault = "none" /\ app \in {"idle", "running"}
        /\ app = "running" => ~stm.running
        /\ stm' = [stm EXCEPT !.told = "started"] /\ app' = "start"
        /\ UNCHANGED <<thread, v1, fault>>
    BY DEF Oss!IInv, Oss!Start
  <1>2. /\ stm' \in Oss!Streams /\ stm'.kind = stm.kind
        /\ stm'.thread_created = stm.thread_created /\ stm'.running = stm.running
        /\ stm'.destroying = stm.destroying /\ stm'.doorbell = stm.doorbell
        /\ stm'.state = stm.state
    BY <1>1 DEF Oss!TypeOK, Oss!Streams, Oss!Cb
  <1>3. ~stm.running /\ ~stm.destroying
    BY <1>1 DEF Oss!IInv, Oss!ThreadFitsApp
  <1>4. stm.state # "started" /\ ~stm.doorbell
    BY <1>1, <1>3 DEF Oss!IInv, Oss!ThreadFitsApp, Oss!LoopIsStarted
  <1>5. thread.pc \in {"none", "tell", "signal", "bell"}
    BY <1>1, <1>3, <1>4 DEF Oss!IInv, Oss!TypeOK, Oss!Threads, Oss!ThreadFitsApp,
       Oss!LoopIsStarted
  <1> QED
    BY <1>1, <1>2, <1>3, <1>4, <1>5 DEF Oss!IInv, Oss!TypeOK, Oss!ThreadFitsApp,
       Oss!LoopIsStarted, Oss!FramesCounted, Oss!FramesFit, Oss!FaultsAreKnown, Oss!FreedIsGone, Oss!PlayOn,
       Oss!RecordOn

\* The assertion of oss_stream_start holds, and the thread is created or its
\* doorbell rung.
LEMMA OssStartThread ==
  ASSUME CubebAssumption, Oss!IInv, Oss!StartThread PROVE Oss!IInv'
  <1>1. /\ Oss!TypeOK /\ fault = "none" /\ app = "start" /\ app' = "running"
        /\ UNCHANGED v1
    BY DEF Oss!IInv, Oss!StartThread
  <1>2. /\ ~stm.running /\ stm.state # "started" /\ ~stm.doorbell /\ ~stm.destroying
        /\ thread.pc \in {"none", "tell", "signal", "bell"}
        /\ stm.thread_created <=> thread.pc # "none"
    BY <1>1 DEF Oss!IInv, Oss!ThreadFitsApp
  <1>3. fault' = "none"
    BY <1>2 DEF Oss!StartThread
  <1>4. CASE /\ stm.thread_created
             /\ stm' = [stm EXCEPT !.doorbell = TRUE, !.state = "started",
                                   !.thread_created = TRUE, !.running = TRUE]
             /\ UNCHANGED thread
    <2>1. /\ stm' \in Oss!Streams /\ stm'.thread_created /\ stm'.running
          /\ stm'.doorbell /\ stm'.state = "started" /\ ~stm'.destroying
      BY <1>1, <1>2, <1>4 DEF Oss!TypeOK, Oss!Streams, Oss!Cb
    <2> QED
      BY <1>1, <1>2, <1>3, <1>4, <2>1 DEF Oss!IInv, Oss!TypeOK, Oss!ThreadFitsApp,
         Oss!LoopIsStarted, Oss!FramesCounted, Oss!FramesFit, Oss!FaultsAreKnown, Oss!FreedIsGone
  <1>5. CASE /\ ~stm.thread_created
             /\ stm' = [stm EXCEPT !.state = "started", !.thread_created = TRUE,
                                   !.running = TRUE]
             /\ thread' = [pc |-> "top", new |-> "stopped"]
    <2>1. /\ stm' \in Oss!Streams /\ stm'.thread_created /\ stm'.running
          /\ ~stm'.doorbell /\ stm'.state = "started" /\ ~stm'.destroying
      BY <1>1, <1>2, <1>5 DEF Oss!TypeOK, Oss!Streams, Oss!Cb
    <2>2. thread' \in Oss!Threads
      BY <1>5 DEF Oss!Threads, Oss!Cb
    <2> QED
      BY <1>1, <1>2, <1>3, <1>5, <2>1, <2>2 DEF Oss!IInv, Oss!TypeOK, Oss!ThreadFitsApp,
         Oss!LoopIsStarted, Oss!FramesCounted, Oss!FramesFit, Oss!FaultsAreKnown, Oss!FreedIsGone
  <1>6. CASE ~stm.thread_created /\ stm' = [stm EXCEPT !.told = "error"] /\ UNCHANGED thread
    <2>1. /\ stm' \in Oss!Streams /\ ~stm'.thread_created /\ ~stm'.running
          /\ ~stm'.doorbell /\ stm'.state # "started" /\ ~stm'.destroying
      BY <1>1, <1>2, <1>6 DEF Oss!TypeOK, Oss!Streams, Oss!Cb
    <2> QED
      BY <1>1, <1>2, <1>3, <1>6, <2>1 DEF Oss!IInv, Oss!TypeOK, Oss!ThreadFitsApp,
         Oss!LoopIsStarted, Oss!FramesCounted, Oss!FramesFit, Oss!FaultsAreKnown, Oss!FreedIsGone
  <1>7. stm.doorbell = FALSE
    BY <1>1, <1>2 DEF Oss!TypeOK, Oss!Streams
  <1> QED
    BY <1>1, <1>4, <1>5, <1>6, <1>7 DEF Oss!StartThread, Oss!Goto, Oss!TypeOK, Oss!Streams

\* Frames that are there for every device fit into every buffer.
LEMMA OssWaitForSpace ==
  ASSUME CubebAssumption, Oss!IInv, Oss!WaitForSpace PROVE Oss!IInv'
  <1>1. /\ PlayFrames \in Nat \ {0} /\ RecordFrames \in Nat \ {0} /\ DeviceFrames \in Nat
        /\ Oss!TypeOK /\ thread.pc = "wait" /\ UNCHANGED <<stm, app, fault>>
    BY DEF CubebAssumption, Oss!OssAssumption, Oss!IInv, Oss!WaitForSpace
  <1>2. ASSUME NEW p \in 1..DeviceFrames, NEW r \in 1..DeviceFrames,
               v1' = Oss!Least(IF Oss!PlayOn THEN Oss!Limited(p, PlayFrames) ELSE DeviceFrames,
                               IF Oss!RecordOn THEN Oss!Limited(r, RecordFrames)
                                               ELSE DeviceFrames),
               thread' = [pc |-> "check", new |-> "stopped"]
        PROVE  Oss!IInv'
    <2>1. /\ v1' \in Nat
          /\ Oss!PlayOn => v1' <= PlayFrames
          /\ Oss!RecordOn => v1' <= RecordFrames
      BY <1>1, <1>2 DEF Oss!Least, Oss!Limited
    <2>2. Oss!TypeOK'
      BY <1>1, <1>2, <2>1 DEF Oss!TypeOK, Oss!Threads, Oss!Cb
    <2> QED
      BY <1>1, <1>2, <2>1, <2>2 DEF Oss!IInv, Oss!ThreadFitsApp, Oss!LoopIsStarted,
         Oss!FramesCounted, Oss!FramesFit, Oss!FaultsAreKnown, Oss!FreedIsGone, Oss!PlayOn, Oss!RecordOn
  <1>3. CASE thread' = [pc |-> "broken", new |-> "error"] /\ UNCHANGED v1
    <2>1. Oss!TypeOK'
      BY <1>1, <1>3 DEF Oss!TypeOK, Oss!Threads, Oss!Cb
    <2> QED
      BY <1>1, <1>3, <2>1 DEF Oss!IInv, Oss!ThreadFitsApp, Oss!LoopIsStarted,
         Oss!FramesCounted, Oss!FramesFit, Oss!FaultsAreKnown, Oss!FreedIsGone
  <1> QED
    BY <1>2, <1>3 DEF Oss!WaitForSpace, Oss!Goto, Oss!Breaks

\* A stop waits for the thread unless the loop has ended, or never began.
LEMMA OssStop ==
  ASSUME CubebAssumption, Oss!IInv, Oss!Stop PROVE Oss!IInv'
  <1>1. /\ Oss!TypeOK /\ fault = "none" /\ app = "running" /\ UNCHANGED <<thread, v1, fault>>
        /\ thread.pc # "done" /\ ~stm.destroying
        /\ stm.thread_created <=> thread.pc # "none"
    BY DEF Oss!IInv, Oss!Stop, Oss!ThreadFitsApp
  <1>2. CASE /\ Oss!Stopped /\ app' = "idle"
             /\ stm' = [stm EXCEPT !.state = "stopped", !.told = "stopped"]
    <2>1. ~stm.running /\ ~stm.doorbell /\ thread.pc \in {"none", "tell", "signal", "bell"}
      BY <1>1, <1>2 DEF Oss!IInv, Oss!TypeOK, Oss!Threads, Oss!ThreadFitsApp,
         Oss!LoopIsStarted, Oss!Stopped
    <2>2. /\ stm' \in Oss!Streams /\ stm'.thread_created = stm.thread_created /\ ~stm'.running
          /\ ~stm'.doorbell /\ stm'.state = "stopped" /\ ~stm'.destroying
      BY <1>1, <1>2, <2>1 DEF Oss!TypeOK, Oss!Streams, Oss!Cb
    <2> QED
      BY <1>1, <1>2, <2>1, <2>2 DEF Oss!IInv, Oss!TypeOK, Oss!ThreadFitsApp,
         Oss!LoopIsStarted, Oss!FramesCounted, Oss!FramesFit, Oss!FaultsAreKnown, Oss!FreedIsGone
  <1>3. CASE /\ ~Oss!Stopped /\ app' = "stopping"
             /\ stm' = [stm EXCEPT !.running = FALSE, !.doorbell = FALSE]
    <2>1. /\ stm' \in Oss!Streams /\ stm'.thread_created = stm.thread_created /\ ~stm'.running
          /\ ~stm'.doorbell /\ stm'.state = stm.state /\ ~stm'.destroying
          /\ stm'.kind = stm.kind
      BY <1>1, <1>3 DEF Oss!TypeOK, Oss!Streams, Oss!Cb
    <2> QED
      BY <1>1, <1>3, <2>1 DEF Oss!IInv, Oss!TypeOK, Oss!ThreadFitsApp, Oss!LoopIsStarted,
         Oss!FramesCounted, Oss!FramesFit, Oss!FaultsAreKnown, Oss!FreedIsGone, Oss!Stopped, Oss!PlayOn,
         Oss!RecordOn
  <1> QED
    BY <1>2, <1>3 DEF Oss!Stop

\* Every step of the user preserves the invariant.
LEMMA OssAppStep ==
  ASSUME CubebAssumption, Oss!IInv, Oss!AppNext PROVE Oss!IInv'
  <1> USE DEF Oss!IInv, Oss!TypeOK, Oss!Streams, Oss!Threads, Oss!Cb, Oss!ThreadFitsApp,
              Oss!LoopIsStarted, Oss!FramesCounted, Oss!FramesFit, Oss!FaultsAreKnown, Oss!FreedIsGone,
              Oss!PlayOn, Oss!RecordOn, Oss!Join, Oss!Goto
  <1>1. CASE Oss!StreamInit BY <1>1 DEF Oss!StreamInit
  <1>2. CASE Oss!Start BY <1>2, OssStart
  <1>3. CASE Oss!StartThread BY <1>3, OssStartThread
  <1>4. CASE Oss!Stop BY <1>4, OssStop
  <1>5. CASE Oss!StopEnds BY <1>5 DEF Oss!StopEnds
  <1>6. CASE Oss!Destroy BY <1>6 DEF Oss!Destroy, Oss!Ring
  <1>7. CASE Oss!Joined BY <1>7 DEF Oss!Joined
  <1> QED
    BY <1>1, <1>2, <1>3, <1>4, <1>5, <1>6, <1>7 DEF Oss!AppNext

\* Every step of the thread preserves the invariant.
LEMMA OssThreadStep ==
  ASSUME CubebAssumption, Oss!IInv, Oss!ThreadNext PROVE Oss!IInv'
  <1> USE DEF Oss!IInv, Oss!TypeOK, Oss!Streams, Oss!Threads, Oss!Cb, Oss!ThreadFitsApp,
              Oss!LoopIsStarted, Oss!FramesCounted, Oss!FramesFit, Oss!FaultsAreKnown, Oss!FreedIsGone,
              Oss!PlayOn, Oss!RecordOn, Oss!Goto, Oss!Breaks
  <1>1. CASE Oss!Top BY <1>1 DEF Oss!Top
  <1>2. CASE Oss!Trigger BY <1>2 DEF Oss!Trigger
  <1>3. CASE Oss!Check BY <1>3 DEF Oss!Check, Oss!Ended
  <1>4. CASE Oss!Call BY <1>4 DEF Oss!Call
  <1>5. CASE Oss!WaitForSpace BY <1>5, OssWaitForSpace
  <1>6. CASE Oss!Broken BY <1>6 DEF Oss!Broken
  <1>7. CASE Oss!Tell BY <1>7 DEF Oss!Tell
  <1>8. CASE Oss!Signal BY <1>8 DEF Oss!Signal, Oss!Woken
  <1>9. CASE Oss!Bell BY <1>9 DEF Oss!Bell
  <1>10. CASE Oss!Exit BY <1>10 DEF Oss!Exit
  <1> QED
    BY <1>1, <1>2, <1>3, <1>4, <1>5, <1>6, <1>7, <1>8, <1>9, <1>10 DEF Oss!ThreadNext

\* It is about the variables of the backend alone.
LEMMA OssStutter ==
  ASSUME Oss!IInv, UNCHANGED Oss!vars PROVE Oss!IInv'
  BY DEF Oss!vars, Oss!IInv, Oss!TypeOK, Oss!ThreadFitsApp, Oss!LoopIsStarted,
     Oss!FramesCounted, Oss!FramesFit, Oss!FaultsAreKnown, Oss!FreedIsGone, Oss!PlayOn, Oss!RecordOn

\* What the invariant says of the properties of the library.
LEMMA OssSafe ==
  ASSUME Oss!IInv
  PROVE  Oss!TypeOK /\ Oss!StopQuiesces /\ Oss!FaultsAreKnown /\ Oss!FramesFit
         /\ Oss!FreedIsGone
  BY DEF Oss!IInv, Oss!TypeOK, Oss!ThreadFitsApp, Oss!LoopIsStarted, Oss!StopQuiesces

----------------------------------------------------------------------------
(* The WinMM backend *)

\* The stream starts as the invariant says.
LEMMA WinmmInit ==
  ASSUME CubebAssumption, Winmm!Init PROVE Winmm!IInv
  <1>1. NBufs \in Nat \ {0}
    BY DEF CubebAssumption, Winmm!WinmmAssumption
  <1>2. /\ stm = [free |-> 0, draining |-> FALSE, shutdown |-> FALSE, event |-> FALSE,
                  lost |-> 0, freed |-> FALSE, halted |-> TRUE, late |-> 0, told |-> "none"]
        /\ v1 = [queued |-> 0, plays |-> FALSE, valid |-> TRUE]
        /\ v2 = [items |-> 0, event |-> FALSE, batch |-> 0]
        /\ thread = "wait" /\ app = [pc |-> "none", left |-> NBufs] /\ fault = "none"
    BY DEF Winmm!Init
  <1>3. Winmm!TypeOK
    <2>1. stm \in Winmm!Streams BY <1>1, <1>2 DEF Winmm!Streams
    <2>2. v1 \in Winmm!Devices BY <1>1, <1>2 DEF Winmm!Devices
    <2>3. v2 \in Winmm!Works BY <1>1, <1>2 DEF Winmm!Works
    <2>4. app \in Winmm!Places BY <1>1, <1>2 DEF Winmm!Places
    <2> QED BY <1>2, <2>1, <2>2, <2>3, <2>4 DEF Winmm!TypeOK
  <1> QED
    BY <1>1, <1>2, <1>3 DEF Winmm!IInv, Winmm!BuffersAdd, Winmm!LateAreFew,
       Winmm!HaltedIsPaused, Winmm!LastHasAll, Winmm!EndsApart, Winmm!FreedIsGone,
       Winmm!FaultsAreKnown

\* What the counts are, and their sum.
LEMMA WinmmCounts ==
  ASSUME CubebAssumption, Winmm!IInv
  PROVE  /\ NBufs \in Nat \ {0}
         /\ stm.free \in 0..NBufs /\ v1.queued \in 0..NBufs /\ v2.items \in 0..NBufs
         /\ v2.batch \in 0..NBufs /\ stm.lost \in 0..NBufs /\ app.left \in 0..NBufs
         /\ stm.late \in 0..NBufs
         /\ stm.free + v1.queued + v2.items + v2.batch + stm.lost + app.left
              + (IF thread = "call" THEN 1 ELSE 0) = NBufs
         /\ stm \in Winmm!Streams /\ v1 \in Winmm!Devices /\ v2 \in Winmm!Works
         /\ app \in Winmm!Places /\ Winmm!TypeOK
  BY DEF CubebAssumption, Winmm!WinmmAssumption, Winmm!IInv, Winmm!TypeOK, Winmm!Streams,
     Winmm!Devices, Winmm!Works, Winmm!Places, Winmm!BuffersAdd

\* A buffer that the callback filled is at the device, or lost.
LEMMA WinmmReturns ==
  ASSUME CubebAssumption, Winmm!IInv, Winmm!Returns,
         stm.free + v1.queued + v2.items + v2.batch + stm.lost + 1 <= NBufs
  PROVE  /\ stm' \in Winmm!Streams /\ v1' \in Winmm!Devices
         /\ stm'.free = stm.free /\ stm'.freed = stm.freed /\ stm'.halted = stm.halted
         /\ stm'.shutdown = stm.shutdown /\ stm'.late = stm.late
         /\ v1'.plays = v1.plays /\ v1'.valid = v1.valid
         /\ \/ fault' = fault /\ v1'.queued + stm'.lost = v1.queued + stm.lost + 1
            \/ fault' = "callback" /\ UNCHANGED <<stm, v1>>
  <1>1. ASSUME NEW short \in BOOLEAN,
               stm' = [stm EXCEPT !.draining = @ \/ short],
               v1' = [v1 EXCEPT !.queued = @ + 1], UNCHANGED fault
        PROVE  /\ stm' \in Winmm!Streams /\ v1' \in Winmm!Devices
               /\ stm'.free = stm.free /\ stm'.freed = stm.freed /\ stm'.halted = stm.halted
               /\ stm'.shutdown = stm.shutdown /\ stm'.late = stm.late
               /\ v1'.plays = v1.plays /\ v1'.valid = v1.valid
               /\ fault' = fault /\ v1'.queued + stm'.lost = v1.queued + stm.lost + 1
    <2>1. /\ stm' \in Winmm!Streams /\ stm'.free = stm.free /\ stm'.freed = stm.freed
          /\ stm'.halted = stm.halted /\ stm'.shutdown = stm.shutdown
          /\ stm'.late = stm.late /\ stm'.lost = stm.lost
      BY <1>1, WinmmCounts DEF Winmm!Streams
    <2>2. v1.queued + 1 \in 0..NBufs
      BY WinmmCounts
    <2>3. /\ v1' \in Winmm!Devices /\ v1'.queued = v1.queued + 1
          /\ v1'.plays = v1.plays /\ v1'.valid = v1.valid
      BY <1>1, <2>2, WinmmCounts DEF Winmm!Devices
    <2> QED BY <1>1, <2>1, <2>3, WinmmCounts
  <1>2. ASSUME NEW short \in BOOLEAN,
               stm' = [stm EXCEPT !.draining = @ \/ short, !.lost = @ + 1, !.told = "error"],
               UNCHANGED <<v1, fault>>
        PROVE  /\ stm' \in Winmm!Streams /\ v1' \in Winmm!Devices
               /\ stm'.free = stm.free /\ stm'.freed = stm.freed /\ stm'.halted = stm.halted
               /\ stm'.shutdown = stm.shutdown /\ stm'.late = stm.late
               /\ v1'.plays = v1.plays /\ v1'.valid = v1.valid
               /\ fault' = fault /\ v1'.queued + stm'.lost = v1.queued + stm.lost + 1
    <2>1. stm.lost + 1 \in 0..NBufs
      BY WinmmCounts
    <2>2. /\ stm' \in Winmm!Streams /\ stm'.free = stm.free /\ stm'.freed = stm.freed
          /\ stm'.halted = stm.halted /\ stm'.shutdown = stm.shutdown
          /\ stm'.late = stm.late /\ stm'.lost = stm.lost + 1
      BY <1>2, <2>1, WinmmCounts DEF Winmm!Streams
    <2> QED BY <1>2, <2>2, WinmmCounts
  <1>3. CASE fault' = "callback" /\ UNCHANGED <<stm, v1>>
    BY <1>3, WinmmCounts
  <1> QED
    BY <1>1, <1>2, <1>3 DEF Winmm!Returns, Winmm!Queue

\* What the invariant says of a stream that is not open for long: no history.
LEMMA WinmmFresh ==
  ASSUME CubebAssumption, Winmm!IInv, Winmm!Open PROVE Winmm!IInv'
  <1>1. /\ fault = "none" /\ app.pc = "none" /\ UNCHANGED <<v2, thread, fault>>
        /\ v1.queued = 0 /\ v2.items = 0 /\ v2.batch = 0 /\ thread # "call"
    BY DEF Winmm!Open, Winmm!Ok, Winmm!IInv, Winmm!EndsApart
  <1>2. ~stm.freed
    BY <1>1 DEF Winmm!IInv, Winmm!FreedIsGone
  <1>3. CASE app' = [app EXCEPT !.pc = "prepare"] /\ UNCHANGED <<stm, v1>>
    <2>1. app' \in Winmm!Places /\ app'.pc = "prepare" /\ app'.left = app.left
      BY <1>3, WinmmCounts DEF Winmm!Places
    <2> QED
      BY <1>1, <1>2, <1>3, <2>1, WinmmCounts DEF Winmm!IInv, Winmm!TypeOK, Winmm!BuffersAdd,
         Winmm!LateAreFew, Winmm!HaltedIsPaused, Winmm!LastHasAll, Winmm!EndsApart,
         Winmm!FreedIsGone, Winmm!FaultsAreKnown
  <1>4. CASE /\ stm' = [stm EXCEPT !.freed = TRUE] /\ app' = [app EXCEPT !.pc = "done"]
             /\ UNCHANGED v1
    <2>1. /\ app' \in Winmm!Places /\ app'.pc = "done" /\ app'.left = app.left
          /\ stm' \in Winmm!Streams /\ stm'.free = stm.free /\ stm'.lost = stm.lost
          /\ stm'.late = stm.late /\ stm'.halted = stm.halted /\ stm'.shutdown = stm.shutdown
          /\ stm'.freed
      BY <1>4, WinmmCounts DEF Winmm!Places, Winmm!Streams
    <2> QED
      BY <1>1, <1>2, <1>4, <2>1, WinmmCounts DEF Winmm!IInv, Winmm!TypeOK, Winmm!BuffersAdd,
         Winmm!LateAreFew, Winmm!HaltedIsPaused, Winmm!LastHasAll, Winmm!EndsApart,
         Winmm!FreedIsGone, Winmm!FaultsAreKnown
  <1>5. ASSUME NEW valid \in BOOLEAN,
               stm' = [stm EXCEPT !.shutdown = TRUE], app' = [app EXCEPT !.pc = "wait"],
               v1' = [v1 EXCEPT !.plays = TRUE, !.valid = valid]
        PROVE  Winmm!IInv'
    <2>1. /\ app' \in Winmm!Places /\ app'.pc = "wait" /\ app'.left = app.left
          /\ stm' \in Winmm!Streams /\ stm'.free = stm.free /\ stm'.lost = stm.lost
          /\ stm'.late = stm.late /\ stm'.halted = stm.halted /\ stm'.shutdown
          /\ stm'.freed = stm.freed
          /\ v1' \in Winmm!Devices /\ v1'.queued = v1.queued
      BY <1>5, WinmmCounts DEF Winmm!Places, Winmm!Streams, Winmm!Devices
    <2> QED
      BY <1>1, <1>2, <1>5, <2>1, WinmmCounts DEF Winmm!IInv, Winmm!TypeOK, Winmm!BuffersAdd,
         Winmm!LateAreFew, Winmm!HaltedIsPaused, Winmm!LastHasAll, Winmm!EndsApart,
         Winmm!FreedIsGone, Winmm!FaultsAreKnown
  <1> QED
    BY <1>3, <1>4, <1>5 DEF Winmm!Open

\* A buffer that is prepared is one less to be prepared.
LEMMA WinmmPrepare ==
  ASSUME CubebAssumption, Winmm!IInv, Winmm!Prepare PROVE Winmm!IInv'
  <1>1. /\ app.pc = "prepare" /\ app.left > 0 /\ UNCHANGED <<v2, thread>> /\ fault = "none"
        /\ ~stm.freed
    BY DEF Winmm!Prepare, Winmm!Ok, Winmm!IInv, Winmm!FreedIsGone
  <1>2. \/ fault' = "none" /\ app' \in Winmm!Places /\ app'.left = app.left - 1
             /\ app'.pc \in {"prepare", "idle"}
        \/ fault' # "none" /\ app' = app
    <2>1. CASE fault' = "none" /\ app.left = 1
      <3>1. app' = [pc |-> "idle", left |-> 0]
        BY <2>1 DEF Winmm!Prepare
      <3> QED BY <2>1, <3>1, WinmmCounts DEF Winmm!Places
    <2>2. CASE fault' = "none" /\ app.left # 1
      <3>1. app' = [app EXCEPT !.left = @ - 1]
        BY <2>2 DEF Winmm!Prepare
      <3>2. app.left - 1 \in 0..NBufs
        BY <1>1, WinmmCounts
      <3> QED BY <1>1, <2>2, <3>1, <3>2, WinmmCounts DEF Winmm!Places
    <2>3. CASE fault' # "none"
      BY <2>3 DEF Winmm!Prepare
    <2> QED BY <2>1, <2>2, <2>3
  <1>3. stm.free + v1.queued + v2.items + v2.batch + stm.lost
          + (IF thread = "call" THEN 1 ELSE 0) + 1 <= NBufs
    BY <1>1, WinmmCounts
  <1>4. CASE /\ stm' = [stm EXCEPT !.free = @ + 1, !.event = TRUE]
             /\ UNCHANGED <<v1, fault>>
    <2>1. stm.free + 1 \in 0..NBufs
      BY <1>3, WinmmCounts
    <2>2. /\ stm' \in Winmm!Streams /\ stm'.freed = stm.freed /\ stm'.free = stm.free + 1
          /\ stm'.lost = stm.lost /\ stm'.late = stm.late /\ stm'.halted = stm.halted
          /\ stm'.shutdown = stm.shutdown
      BY <1>4, <2>1, WinmmCounts DEF Winmm!Streams
    <2>3. Winmm!TypeOK' /\ Winmm!BuffersAdd' /\ Winmm!LastHasAll'
      BY <1>1, <1>2, <1>3, <1>4, <2>2, WinmmCounts
         DEF Winmm!TypeOK, Winmm!BuffersAdd, Winmm!LastHasAll, Winmm!IInv
    <2> QED
      BY <1>1, <1>2, <1>4, <2>2, <2>3 DEF Winmm!IInv, Winmm!LateAreFew, Winmm!HaltedIsPaused,
         Winmm!EndsApart, Winmm!FreedIsGone, Winmm!FaultsAreKnown
  <1>5. CASE Winmm!Returns
    <2>1. stm.free + v1.queued + v2.items + v2.batch + stm.lost + 1 <= NBufs
      BY <1>3, WinmmCounts
    <2>2. /\ stm' \in Winmm!Streams /\ v1' \in Winmm!Devices
          /\ stm'.free = stm.free /\ stm'.freed = stm.freed /\ stm'.halted = stm.halted
          /\ stm'.shutdown = stm.shutdown /\ stm'.late = stm.late
          /\ v1'.plays = v1.plays /\ v1'.valid = v1.valid
          /\ \/ fault' = fault /\ v1'.queued + stm'.lost = v1.queued + stm.lost + 1
             \/ fault' = "callback" /\ UNCHANGED <<stm, v1>>
      BY <1>5, <2>1, WinmmReturns
    <2>3. stm'.lost \in 0..NBufs /\ v1'.queued \in 0..NBufs
      BY <2>2 DEF Winmm!Streams, Winmm!Devices
    <2>4. Winmm!TypeOK'
      BY <1>1, <1>2, <2>2, WinmmCounts DEF Winmm!TypeOK
    <2>5. Winmm!BuffersAdd' /\ Winmm!LastHasAll'
      BY <1>1, <1>2, <1>3, <2>2, <2>3, WinmmCounts
         DEF Winmm!BuffersAdd, Winmm!LastHasAll, Winmm!IInv
    <2> QED
      BY <1>1, <1>2, <2>2, <2>4, <2>5 DEF Winmm!IInv, Winmm!LateAreFew, Winmm!HaltedIsPaused,
         Winmm!EndsApart, Winmm!FreedIsGone, Winmm!FaultsAreKnown
  <1> QED BY <1>4, <1>5 DEF Winmm!Prepare

\* Starting and stopping move no buffer.
LEMMA WinmmStartStop ==
  ASSUME CubebAssumption, Winmm!IInv, Winmm!Start \/ Winmm!Stop PROVE Winmm!IInv'
  <1>1. /\ app.pc = "idle" /\ fault = "none" /\ UNCHANGED <<v2, thread, app, fault>>
    BY DEF Winmm!Start, Winmm!Stop, Winmm!Ok
  <1>2. ~stm.freed
    BY <1>1 DEF Winmm!IInv, Winmm!FreedIsGone
  <1>3. CASE Winmm!Start
    <2>1. /\ v1' = [v1 EXCEPT !.plays = TRUE]
          /\ stm' = [stm EXCEPT !.told = "started", !.halted = FALSE, !.late = 0]
      BY <1>3 DEF Winmm!Start
    <2>2. /\ stm' \in Winmm!Streams /\ stm'.free = stm.free /\ stm'.lost = stm.lost
          /\ stm'.late = 0 /\ ~stm'.halted /\ stm'.shutdown = stm.shutdown
          /\ stm'.freed = stm.freed
      <3>1. 0 \in 0..NBufs
        BY WinmmCounts
      <3> QED BY <2>1, <3>1, WinmmCounts DEF Winmm!Streams
    <2>3. v1' \in Winmm!Devices /\ v1'.queued = v1.queued
      BY <2>1, WinmmCounts DEF Winmm!Devices
    <2> QED
      BY <1>1, <1>2, <2>2, <2>3, WinmmCounts DEF Winmm!IInv, Winmm!TypeOK, Winmm!BuffersAdd,
         Winmm!LateAreFew, Winmm!HaltedIsPaused, Winmm!LastHasAll, Winmm!EndsApart,
         Winmm!FreedIsGone, Winmm!FaultsAreKnown
  <1>4. CASE Winmm!Stop
    <2>1. /\ v1' = [v1 EXCEPT !.plays = FALSE]
          /\ stm' = [stm EXCEPT !.told = "stopped", !.halted = TRUE]
      BY <1>4 DEF Winmm!Stop, Winmm!Paused
    <2>2. /\ stm' \in Winmm!Streams /\ stm'.free = stm.free /\ stm'.lost = stm.lost
          /\ stm'.late = stm.late /\ stm'.halted /\ stm'.shutdown = stm.shutdown
          /\ stm'.freed = stm.freed
          /\ v1' \in Winmm!Devices /\ v1'.queued = v1.queued /\ ~v1'.plays
      BY <2>1, WinmmCounts DEF Winmm!Streams, Winmm!Devices
    <2>3. Winmm!LateAreFew'
      BY <1>1, <2>2, WinmmCounts DEF Winmm!IInv, Winmm!LateAreFew, Winmm!HaltedIsPaused
    <2> QED
      BY <1>1, <1>2, <2>2, <2>3, WinmmCounts DEF Winmm!IInv, Winmm!TypeOK, Winmm!BuffersAdd,
         Winmm!HaltedIsPaused, Winmm!LastHasAll, Winmm!EndsApart,
         Winmm!FreedIsGone, Winmm!FaultsAreKnown
  <1> QED BY <1>3, <1>4

\* The buffers of the device come back at once, or some of them do.
LEMMA WinmmDestroy ==
  ASSUME CubebAssumption, Winmm!IInv, Winmm!Destroy PROVE Winmm!IInv'
  <1>0. PICK valid \in BOOLEAN, back \in 0..NBufs :
          /\ IF valid THEN back = v1.queued ELSE back <= v1.queued
          /\ v1' = [queued |-> v1.queued - back, plays |-> TRUE, valid |-> valid]
          /\ v2' = [v2 EXCEPT !.items = @ + back, !.event = @ \/ back > 0]
    BY Zenon DEF Winmm!Destroy
  <1>1. /\ back <= v1.queued
        /\ v1' = [queued |-> v1.queued - back, plays |-> TRUE, valid |-> valid]
        /\ v2' = [v2 EXCEPT !.items = @ + back, !.event = @ \/ back > 0]
    BY <1>0, WinmmCounts
  <1>2. /\ stm' = [stm EXCEPT !.shutdown = TRUE] /\ app' = [app EXCEPT !.pc = "wait"]
        /\ UNCHANGED <<thread, fault>> /\ app.pc \in {"idle", "prepare"} /\ fault = "none"
    BY DEF Winmm!Destroy, Winmm!Ok
  <1>3. /\ v2.items + back \in 0..NBufs /\ (v2.event \/ back > 0) \in BOOLEAN
        /\ v1.queued - back \in 0..NBufs
    BY <1>1, WinmmCounts
  <1>4. v2' \in Winmm!Works /\ v2'.items = v2.items + back /\ v2'.batch = v2.batch
    BY <1>1, <1>3, WinmmCounts DEF Winmm!Works
  <1>5. /\ stm' \in Winmm!Streams /\ stm'.free = stm.free /\ stm'.lost = stm.lost
        /\ stm'.freed = stm.freed /\ stm'.shutdown /\ stm'.late = stm.late
        /\ stm'.halted = stm.halted
    BY <1>2, WinmmCounts DEF Winmm!Streams
  <1>6. /\ v1' \in Winmm!Devices /\ v1'.queued = v1.queued - back
        /\ app' \in Winmm!Places /\ app'.pc = "wait" /\ app'.left = app.left
    BY <1>1, <1>2, <1>3, WinmmCounts DEF Winmm!Devices, Winmm!Places
  <1>7. Winmm!TypeOK'
    BY <1>2, <1>4, <1>5, <1>6, WinmmCounts DEF Winmm!TypeOK
  <1>8. Winmm!BuffersAdd'
    BY <1>1, <1>2, <1>4, <1>5, <1>6, WinmmCounts DEF Winmm!BuffersAdd
  <1>9. ~stm.freed
    BY <1>2 DEF Winmm!IInv, Winmm!FreedIsGone
  <1> QED
    BY <1>2, <1>4, <1>5, <1>6, <1>7, <1>8, <1>9, WinmmCounts DEF Winmm!IInv, Winmm!LateAreFew,
       Winmm!HaltedIsPaused, Winmm!LastHasAll, Winmm!EndsApart, Winmm!FreedIsGone,
       Winmm!FaultsAreKnown

\* It is freed when every buffer is free, so that none is elsewhere, or when the
\* device is gone.
LEMMA WinmmFree ==
  ASSUME CubebAssumption, Winmm!IInv, Winmm!Free PROVE Winmm!IInv'
  <1>0. /\ v1.valid => NBufs - stm.free = 0
        /\ stm' = [stm EXCEPT !.freed = TRUE]
        /\ app' = [app EXCEPT !.pc = "done"] /\ UNCHANGED <<v1, v2, thread, fault>>
        /\ fault = "none"
    BY Zenon DEF Winmm!Free, Winmm!Enqueued, Winmm!Ok
  <1>1. /\ v1.valid => stm.free = NBufs
        /\ stm' = [stm EXCEPT !.freed = TRUE]
        /\ app' = [app EXCEPT !.pc = "done"] /\ UNCHANGED <<v1, v2, thread, fault>>
        /\ fault = "none"
    BY <1>0, WinmmCounts
  <1>2. v1.valid => /\ v1.queued = 0 /\ v2.items = 0 /\ v2.batch = 0 /\ thread # "call"
    BY <1>1, WinmmCounts
  <1>3. /\ stm' \in Winmm!Streams /\ stm'.free = stm.free /\ stm'.lost = stm.lost
        /\ stm'.late = stm.late /\ stm'.halted = stm.halted /\ stm'.shutdown = stm.shutdown
        /\ app' \in Winmm!Places /\ app'.pc = "done" /\ app'.left = app.left
    BY <1>1, WinmmCounts DEF Winmm!Streams, Winmm!Places
  <1> QED
    BY <1>1, <1>2, <1>3, WinmmCounts DEF Winmm!IInv, Winmm!TypeOK, Winmm!BuffersAdd,
       Winmm!LateAreFew, Winmm!HaltedIsPaused, Winmm!LastHasAll, Winmm!EndsApart,
       Winmm!FreedIsGone, Winmm!FaultsAreKnown

\* Waiting for a buffer changes the event alone.
LEMMA WinmmWaitForBuffer ==
  ASSUME CubebAssumption, Winmm!IInv, Winmm!WaitForBuffer PROVE Winmm!IInv'
  <1>1. /\ stm' = [stm EXCEPT !.event = FALSE] /\ UNCHANGED <<v1, v2, thread, app, fault>>
    BY DEF Winmm!WaitForBuffer
  <1>2. /\ stm' \in Winmm!Streams /\ stm'.free = stm.free /\ stm'.lost = stm.lost
        /\ stm'.late = stm.late /\ stm'.halted = stm.halted /\ stm'.shutdown = stm.shutdown
        /\ stm'.freed = stm.freed
    BY <1>1, WinmmCounts DEF Winmm!Streams
  <1> QED
    BY <1>1, <1>2, WinmmCounts DEF Winmm!IInv, Winmm!TypeOK, Winmm!BuffersAdd,
       Winmm!LateAreFew, Winmm!HaltedIsPaused, Winmm!LastHasAll, Winmm!EndsApart,
       Winmm!FreedIsGone, Winmm!FaultsAreKnown

\* Every step of the user preserves the invariant.
LEMMA WinmmAppStep ==
  ASSUME CubebAssumption, Winmm!IInv, Winmm!AppNext PROVE Winmm!IInv'
  BY WinmmFresh, WinmmPrepare, WinmmStartStop, WinmmDestroy, WinmmWaitForBuffer, WinmmFree
     DEF Winmm!AppNext

\* A buffer that is done goes to the list: the device plays, and so is not halted.
LEMMA WinmmBufferDone ==
  ASSUME CubebAssumption, Winmm!IInv, Winmm!BufferDone PROVE Winmm!IInv'
  <1>1. /\ v1.queued > 0 /\ v1.valid /\ v1.plays /\ v1' = [v1 EXCEPT !.queued = @ - 1]
        /\ v2' = [v2 EXCEPT !.items = @ + 1, !.event = TRUE]
        /\ UNCHANGED <<stm, thread, app, fault>> /\ fault = "none"
    BY DEF Winmm!BufferDone, Winmm!Ok
  <1>2. v1.queued - 1 \in 0..NBufs /\ v2.items + 1 \in 0..NBufs
    BY <1>1, WinmmCounts
  <1>3. /\ v1' \in Winmm!Devices /\ v1'.queued = v1.queued - 1 /\ v1'.plays
        /\ v2' \in Winmm!Works /\ v2'.items = v2.items + 1 /\ v2'.batch = v2.batch
    BY <1>1, <1>2, WinmmCounts DEF Winmm!Devices, Winmm!Works
  <1>4. Winmm!TypeOK' /\ Winmm!BuffersAdd'
    BY <1>1, <1>3, WinmmCounts DEF Winmm!TypeOK, Winmm!BuffersAdd
  <1>5. ~stm.freed /\ (stm.halted => stm.shutdown) /\ app.pc # "none"
    BY <1>1, WinmmCounts DEF Winmm!IInv, Winmm!FreedIsGone, Winmm!HaltedIsPaused,
       Winmm!EndsApart
  <1> QED
    BY <1>1, <1>4, <1>5, WinmmCounts DEF Winmm!IInv, Winmm!LateAreFew, Winmm!HaltedIsPaused,
       Winmm!LastHasAll, Winmm!EndsApart, Winmm!FreedIsGone, Winmm!FaultsAreKnown

\* The list becomes the batch.
LEMMA WinmmFlush ==
  ASSUME CubebAssumption, Winmm!IInv, Winmm!Flush PROVE Winmm!IInv'
  <1>1. /\ v2' = [items |-> 0, event |-> FALSE, batch |-> v2.items] /\ v2.batch = 0
        /\ thread = "wait" /\ thread' = "batch" /\ UNCHANGED <<stm, v1, app, fault>>
        /\ fault = "none"
    BY DEF Winmm!Flush, Winmm!Ok, Winmm!IInv, Winmm!LastHasAll
  <1>2. v2' \in Winmm!Works
    BY <1>1, WinmmCounts DEF Winmm!Works
  <1>3. Winmm!TypeOK'
    BY <1>1, <1>2, WinmmCounts DEF Winmm!TypeOK
  <1>4. Winmm!BuffersAdd'
    BY <1>1, WinmmCounts DEF Winmm!BuffersAdd
  <1> QED
    BY <1>1, <1>3, <1>4, WinmmCounts DEF Winmm!IInv, Winmm!LateAreFew, Winmm!HaltedIsPaused,
       Winmm!LastHasAll, Winmm!EndsApart, Winmm!FreedIsGone, Winmm!FaultsAreKnown

\* A buffer of the batch is free again, the last one perhaps, or goes to the user.
LEMMA WinmmRefill ==
  ASSUME CubebAssumption, Winmm!IInv, Winmm!Refill PROVE Winmm!IInv'
  <1>1. thread = "batch" /\ UNCHANGED <<v1, app>> /\ fault = "none"
    BY DEF Winmm!Refill, Winmm!UsesFreed, Winmm!Ok
  <1>2. CASE v2.batch = 0
    <2>1. thread' = "wait" /\ UNCHANGED <<stm, v2, fault>>
      BY <1>2, WinmmCounts DEF Winmm!Refill
    <2> QED
      BY <1>1, <1>2, <2>1, WinmmCounts DEF Winmm!IInv, Winmm!TypeOK, Winmm!BuffersAdd,
         Winmm!LateAreFew, Winmm!HaltedIsPaused, Winmm!LastHasAll, Winmm!EndsApart,
         Winmm!FreedIsGone, Winmm!FaultsAreKnown
  <1>3. CASE v2.batch > 0 /\ Winmm!UsesFreed
    <2>1. ~v1.valid
      BY <1>3, WinmmCounts DEF Winmm!UsesFreed, Winmm!IInv, Winmm!FreedIsGone
    <2> QED
      BY <1>1, <1>3, <2>1, WinmmCounts DEF Winmm!UsesFreed, Winmm!IInv, Winmm!TypeOK,
         Winmm!BuffersAdd, Winmm!LateAreFew, Winmm!HaltedIsPaused, Winmm!LastHasAll,
         Winmm!EndsApart, Winmm!FreedIsGone, Winmm!FaultsAreKnown
  <1>4. CASE /\ v2.batch > 0 /\ ~stm.freed
             /\ v2' = [v2 EXCEPT !.batch = @ - 1] /\ UNCHANGED fault
             /\ \/ /\ stm' = [stm EXCEPT !.free = @ + 1]
                   /\ thread' \in {"last", "signal"}
                   /\ thread' = "last" => stm'.free = NBufs
                \/ /\ stm' = [stm EXCEPT !.late = IF stm.halted THEN @ + 1 ELSE @]
                   /\ ~stm.shutdown /\ thread' = "call"
    <2>1. v2.batch - 1 \in 0..NBufs
      BY <1>4, WinmmCounts
    <2>2. v2' \in Winmm!Works /\ v2'.items = v2.items /\ v2'.batch = v2.batch - 1
      BY <1>4, <2>1, WinmmCounts DEF Winmm!Works
    <2>3. app.pc # "none"
      BY <1>4, WinmmCounts DEF Winmm!IInv, Winmm!EndsApart
    <2>4. CASE /\ stm' = [stm EXCEPT !.free = @ + 1]
               /\ thread' \in {"last", "signal"}
               /\ thread' = "last" => stm'.free = NBufs
      <3>1. stm.free + 1 \in 0..NBufs
        BY <1>1, <1>4, WinmmCounts, SMTT(40)
      <3>2. /\ stm' \in Winmm!Streams /\ stm'.free = stm.free + 1 /\ stm'.lost = stm.lost
            /\ stm'.late = stm.late /\ stm'.halted = stm.halted
            /\ stm'.shutdown = stm.shutdown /\ ~stm'.freed
        BY <1>4, <2>4, <3>1, WinmmCounts DEF Winmm!Streams
      <3>3. Winmm!TypeOK' /\ Winmm!BuffersAdd'
        BY <1>1, <1>4, <2>2, <2>4, <3>2, WinmmCounts DEF Winmm!TypeOK, Winmm!BuffersAdd
      <3>4. Winmm!LateAreFew'
        BY <2>2, <3>2, WinmmCounts DEF Winmm!IInv, Winmm!LateAreFew
      <3> QED
        BY <1>1, <1>4, <2>3, <2>4, <3>2, <3>3, <3>4 DEF Winmm!IInv, Winmm!HaltedIsPaused,
           Winmm!LastHasAll, Winmm!EndsApart, Winmm!FreedIsGone, Winmm!FaultsAreKnown
    <2>5. CASE /\ stm' = [stm EXCEPT !.late = IF stm.halted THEN @ + 1 ELSE @]
               /\ ~stm.shutdown /\ thread' = "call"
      <3>1. /\ ~stm.halted => stm.late = 0
            /\ stm.halted => stm.late + v2.items + v2.batch <= NBufs
        BY <2>5 DEF Winmm!IInv, Winmm!HaltedIsPaused, Winmm!LateAreFew
      <3>2. (IF stm.halted THEN stm.late + 1 ELSE stm.late) \in 0..NBufs
        BY <1>4, <3>1, WinmmCounts
      <3>3. /\ stm' \in Winmm!Streams /\ stm'.free = stm.free /\ stm'.lost = stm.lost
            /\ stm'.late = (IF stm.halted THEN stm.late + 1 ELSE stm.late)
            /\ stm'.halted = stm.halted /\ stm'.shutdown = stm.shutdown /\ ~stm'.freed
        BY <1>4, <2>5, <3>2, WinmmCounts DEF Winmm!Streams
      <3>4. Winmm!TypeOK' /\ Winmm!BuffersAdd'
        BY <1>1, <1>4, <2>2, <2>5, <3>3, WinmmCounts DEF Winmm!TypeOK, Winmm!BuffersAdd
      <3>5. Winmm!LateAreFew' /\ (~stm'.halted => stm'.late = 0)
        BY <2>2, <3>1, <3>3, WinmmCounts DEF Winmm!LateAreFew
      <3> QED
        BY <1>1, <1>4, <2>3, <2>5, <3>3, <3>4, <3>5 DEF Winmm!IInv, Winmm!HaltedIsPaused,
           Winmm!LastHasAll, Winmm!EndsApart, Winmm!FreedIsGone, Winmm!FaultsAreKnown
    <2> QED BY <1>4, <2>4, <2>5
  <1>5. CASE v2.batch > 0 /\ stm.free >= NBufs
    BY <1>1, <1>5, WinmmCounts, SMTT(40)
  <1>6. CASE /\ v2.batch > 0 /\ ~stm.freed
             /\ v2' = [v2 EXCEPT !.batch = @ - 1] /\ UNCHANGED fault
             /\ IF stm.draining \/ stm.shutdown
                THEN /\ stm' = [stm EXCEPT !.free = @ + 1]
                     /\ thread' = IF stm.draining /\ stm'.free = NBufs THEN "last" ELSE "signal"
                ELSE /\ stm' = [stm EXCEPT !.late = IF stm.halted THEN @ + 1 ELSE @]
                     /\ thread' = "call"
    BY <1>4, <1>6, Zenon
  <1> QED BY <1>2, <1>3, <1>5, <1>6, Zenon DEF Winmm!Refill, Winmm!AllBack

\* The buffer of the callback is at the device again.
LEMMA WinmmCallReturns ==
  ASSUME CubebAssumption, Winmm!IInv, Winmm!CallReturns PROVE Winmm!IInv'
  <1>1. thread = "call" /\ UNCHANGED <<v2, app>> /\ fault = "none"
    BY DEF Winmm!CallReturns, Winmm!UsesFreed, Winmm!Ok
  <1>2. CASE Winmm!UsesFreed
    <2>1. ~v1.valid
      BY <1>1, <1>2 DEF Winmm!UsesFreed, Winmm!IInv, Winmm!FreedIsGone
    <2> QED
      BY <1>1, <1>2, <2>1, WinmmCounts DEF Winmm!UsesFreed, Winmm!IInv, Winmm!TypeOK,
         Winmm!BuffersAdd, Winmm!LateAreFew, Winmm!HaltedIsPaused, Winmm!LastHasAll,
         Winmm!EndsApart, Winmm!FreedIsGone, Winmm!FaultsAreKnown
  <1>3. CASE /\ ~stm.freed /\ Winmm!Returns
             /\ thread' = IF fault' = "none" THEN "batch" ELSE thread
    <2>1. stm.free + v1.queued + v2.items + v2.batch + stm.lost + 1 <= NBufs
      BY <1>1, WinmmCounts
    <2>2. /\ stm' \in Winmm!Streams /\ v1' \in Winmm!Devices
          /\ stm'.free = stm.free /\ stm'.freed = stm.freed /\ stm'.halted = stm.halted
          /\ stm'.shutdown = stm.shutdown /\ stm'.late = stm.late
          /\ v1'.plays = v1.plays /\ v1'.valid = v1.valid
          /\ \/ fault' = fault /\ v1'.queued + stm'.lost = v1.queued + stm.lost + 1
             \/ fault' = "callback" /\ UNCHANGED <<stm, v1>>
      BY <1>3, <2>1, WinmmReturns
    <2>3. stm'.lost \in 0..NBufs /\ v1'.queued \in 0..NBufs
      BY <2>2 DEF Winmm!Streams, Winmm!Devices
    <2>4. (fault' = "none" /\ thread' = "batch") \/ (fault' = "callback" /\ thread' = "call")
      BY <1>1, <1>3, <2>2
    <2>7. Winmm!TypeOK'
      BY <1>1, <2>2, <2>4, WinmmCounts DEF Winmm!TypeOK
    <2>5. Winmm!BuffersAdd'
      BY <1>1, <2>2, <2>3, <2>4, WinmmCounts DEF Winmm!BuffersAdd
    <2>6. app.pc # "none"
      BY <1>1 DEF Winmm!IInv, Winmm!EndsApart
    <2> QED
      BY <1>1, <1>3, <2>2, <2>4, <2>5, <2>6, <2>7 DEF Winmm!IInv, Winmm!LateAreFew,
         Winmm!HaltedIsPaused, Winmm!LastHasAll, Winmm!EndsApart, Winmm!FreedIsGone,
         Winmm!FaultsAreKnown
  <1> QED BY <1>1, <1>2, <1>3 DEF Winmm!CallReturns

\* What is told and signalled at the end moves no buffer; it may be of a stream
\* that is freed.
LEMMA WinmmTells ==
  ASSUME CubebAssumption, Winmm!IInv, Winmm!TellDrained \/ Winmm!Signal PROVE Winmm!IInv'
  <1>1. /\ thread \in {"last", "signal"} /\ UNCHANGED <<v1, v2, app>> /\ fault = "none"
    BY DEF Winmm!TellDrained, Winmm!Signal, Winmm!UsesFreed, Winmm!Ok
  <1>2. CASE Winmm!UsesFreed
    BY <1>1, <1>2, WinmmCounts DEF Winmm!UsesFreed, Winmm!IInv, Winmm!TypeOK,
       Winmm!BuffersAdd, Winmm!LateAreFew, Winmm!HaltedIsPaused, Winmm!LastHasAll,
       Winmm!EndsApart, Winmm!FreedIsGone, Winmm!FaultsAreKnown
  <1>3. CASE /\ ~stm.freed /\ UNCHANGED fault /\ thread' \in {"signal", "batch"}
             /\ \/ stm' = [stm EXCEPT !.told = "drained"]
                \/ stm' = [stm EXCEPT !.event = TRUE]
    <2>1. /\ stm' \in Winmm!Streams /\ stm'.free = stm.free /\ stm'.lost = stm.lost
          /\ stm'.late = stm.late /\ stm'.halted = stm.halted
          /\ stm'.shutdown = stm.shutdown /\ ~stm'.freed
      BY <1>3, WinmmCounts DEF Winmm!Streams
    <2>2. Winmm!TypeOK' /\ Winmm!BuffersAdd'
      BY <1>1, <1>3, <2>1, WinmmCounts DEF Winmm!TypeOK, Winmm!BuffersAdd
    <2> QED
      BY <1>1, <1>3, <2>1, <2>2 DEF Winmm!IInv, Winmm!LateAreFew, Winmm!HaltedIsPaused,
         Winmm!LastHasAll, Winmm!EndsApart, Winmm!FreedIsGone, Winmm!FaultsAreKnown
  <1> QED
    BY <1>1, <1>2, <1>3 DEF Winmm!TellDrained, Winmm!Signal, Winmm!Signalled

\* Every step of the thread preserves the invariant.
LEMMA WinmmThreadStep ==
  ASSUME CubebAssumption, Winmm!IInv, Winmm!ThreadNext PROVE Winmm!IInv'
  BY WinmmFlush, WinmmRefill, WinmmCallReturns, WinmmTells DEF Winmm!ThreadNext

\* It is about the variables of the backend alone.
LEMMA WinmmStutter ==
  ASSUME Winmm!IInv, UNCHANGED Winmm!vars PROVE Winmm!IInv'
  BY DEF Winmm!vars, Winmm!IInv, Winmm!TypeOK, Winmm!BuffersAdd, Winmm!LateAreFew,
     Winmm!HaltedIsPaused, Winmm!LastHasAll, Winmm!EndsApart, Winmm!FreedIsGone,
     Winmm!FaultsAreKnown

\* What the invariant says of the properties of the library.
LEMMA WinmmSafe ==
  ASSUME CubebAssumption, Winmm!IInv
  PROVE  /\ Winmm!TypeOK /\ Winmm!LateAreFew /\ Winmm!FaultsAreKnown /\ Winmm!FreedIsGone
         /\ Winmm!DrainedIsLast /\ Winmm!BuffersAdd
  <1>1. Winmm!DrainedIsLast
    BY WinmmCounts DEF Winmm!DrainedIsLast, Winmm!IInv, Winmm!LastHasAll
  <1> QED BY <1>1 DEF Winmm!IInv
----------------------------------------------------------------------------
(* The OpenSL backend *)

\* The stream starts as the invariant says.
LEMMA OpenSLInit ==
  ASSUME CubebAssumption, OpenSL!Init PROVE OpenSL!IInv
  <1>1. Capacity \in Nat \ {0}
    BY DEF CubebAssumption, OpenSL!OpenSLAssumption
  <1>2. PICK k \in Kinds :
          stm = [kind |-> k, shutdown |-> TRUE, draining |-> FALSE, written |-> FALSE,
                 told |-> "none"]
    BY DEF OpenSL!Init
  <1>3. /\ v1 = [play |-> FALSE, record |-> FALSE, marker |-> FALSE, open |-> FALSE]
        /\ thread = [pc |-> "idle", buffer |-> -1] /\ v2 = "idle"
        /\ v3 = [filling |-> -1, queue |-> <<>>, skipped |-> FALSE]
        /\ app = "none" /\ fault = "none"
    BY DEF OpenSL!Init, OpenSL!NoBuffer
  <1>4. OpenSL!TypeOK
    BY <1>1, <1>2, <1>3 DEF OpenSL!TypeOK, OpenSL!Streams, OpenSL!Objects, OpenSL!Players,
       OpenSL!Inputs, OpenSL!Buffers, OpenSL!NoBuffer
  <1> QED
    BY <1>2, <1>3, <1>4 DEF OpenSL!IInv, OpenSL!KindFits, OpenSL!RunsWhenStarted,
       OpenSL!InputInOrder, OpenSL!FaultsAreKnown, OpenSL!NoBuffer

\* What the invariant says of the types.
LEMMA OpenSLTypes ==
  ASSUME CubebAssumption, OpenSL!IInv
  PROVE  /\ Capacity \in Nat \ {0} /\ OpenSL!TypeOK
         /\ stm \in OpenSL!Streams /\ v1 \in OpenSL!Objects
         /\ thread \in OpenSL!Players /\ v3 \in OpenSL!Inputs
         /\ v3.queue \in Seq(OpenSL!Buffers) /\ Len(v3.queue) \in 0..Capacity
         /\ v3.filling \in OpenSL!Buffers \cup {OpenSL!NoBuffer}
  <1>1. Capacity \in Nat \ {0} /\ OpenSL!TypeOK
    BY DEF CubebAssumption, OpenSL!OpenSLAssumption, OpenSL!IInv
  <1>2. /\ stm \in OpenSL!Streams /\ v1 \in OpenSL!Objects
        /\ thread \in OpenSL!Players /\ v3 \in OpenSL!Inputs /\ Len(v3.queue) <= Capacity
    BY <1>1 DEF OpenSL!TypeOK
  <1>3. /\ v3.queue \in Seq(OpenSL!Buffers)
        /\ v3.filling \in OpenSL!Buffers \cup {OpenSL!NoBuffer}
    BY <1>2 DEF OpenSL!Inputs
  <1> QED BY <1>1, <1>2, <1>3

\* A step that leaves the buffers alone leaves their order alone.
LEMMA OpenSLOrderStays ==
  ASSUME OpenSL!IInv, UNCHANGED v3, thread'.buffer \in {thread.buffer, OpenSL!NoBuffer}
  PROVE  OpenSL!InputInOrder'
  BY DEF OpenSL!IInv, OpenSL!InputInOrder, OpenSL!Behind, OpenSL!NoBuffer

\* Opened, a stream that records begins with the first buffer.
LEMMA OpenSLStreamInit ==
  ASSUME CubebAssumption, OpenSL!IInv, OpenSL!StreamInit PROVE OpenSL!IInv'
  <1>1. /\ app = "none" /\ fault = "none" /\ UNCHANGED <<stm, thread, v2>>
        /\ v3.queue = <<>> /\ thread.buffer = OpenSL!NoBuffer /\ v2 = "idle"
    BY DEF OpenSL!StreamInit, OpenSL!IInv, OpenSL!KindFits
  <1>2. CASE /\ v1' = [v1 EXCEPT !.open = TRUE]
             /\ v3' = [v3 EXCEPT !.filling = IF OpenSL!HasInput THEN 0 ELSE OpenSL!NoBuffer]
             /\ app' = "idle" /\ UNCHANGED fault
    <2>1. v1' \in OpenSL!Objects /\ v1'.play = v1.play /\ v1'.record = v1.record
      BY <1>2, OpenSLTypes DEF OpenSL!Objects
    <2>2. 0 \in OpenSL!Buffers
      BY OpenSLTypes DEF OpenSL!Buffers
    <2>3. /\ v3' \in OpenSL!Inputs /\ v3'.queue = <<>>
          /\ OpenSL!HasInput => v3'.filling \in OpenSL!Buffers
      BY <1>1, <1>2, <2>2, OpenSLTypes DEF OpenSL!Inputs
    <2>4. OpenSL!TypeOK'
      BY <1>1, <1>2, <2>1, <2>3, OpenSLTypes DEF OpenSL!TypeOK
    <2> QED
      BY <1>1, <1>2, <2>1, <2>3, <2>4 DEF OpenSL!IInv, OpenSL!KindFits, OpenSL!RunsWhenStarted,
         OpenSL!InputInOrder, OpenSL!FaultsAreKnown, OpenSL!HasInput, OpenSL!HasOutput
  <1>3. CASE /\ UNCHANGED <<v1, v3>> /\ app' \in {"none", "done"}
             /\ fault' \in {"none", "no recorder"} /\ (app' = "done" => fault' = "none")
    BY <1>1, <1>3, OpenSLOrderStays, OpenSLTypes DEF OpenSL!IInv, OpenSL!TypeOK,
       OpenSL!KindFits, OpenSL!RunsWhenStarted, OpenSL!FaultsAreKnown, OpenSL!HasInput,
       OpenSL!HasOutput
  <1> QED
    BY <1>1, <1>2, <1>3 DEF OpenSL!StreamInit

\* The user frees the buffers of a stream that does not run.
LEMMA OpenSLFreeBuffers ==
  ASSUME CubebAssumption, OpenSL!IInv, OpenSL!FreeBuffers PROVE OpenSL!IInv'
  <1>1. /\ app = "player gone" /\ app' = "buffers gone" /\ fault = "none"
        /\ UNCHANGED <<stm, v1, thread, v2, v3, fault>>
    BY DEF OpenSL!FreeBuffers
  <1>2. OpenSL!TypeOK'
    BY <1>1, OpenSLTypes DEF OpenSL!TypeOK
  <1>3. OpenSL!InputInOrder'
    BY <1>1, OpenSLOrderStays
  <1>4. OpenSL!KindFits'
    BY <1>1 DEF OpenSL!IInv, OpenSL!KindFits, OpenSL!HasInput
  <1>5. OpenSL!RunsWhenStarted' /\ OpenSL!FaultsAreKnown'
    BY <1>1 DEF OpenSL!IInv, OpenSL!RunsWhenStarted, OpenSL!FaultsAreKnown, OpenSL!HasOutput
  <1> QED BY <1>2, <1>3, <1>4, <1>5 DEF OpenSL!IInv

\* The other steps of the user leave the callbacks alone, and start or stop the
\* objects, or neither.
LEMMA OpenSLAppStep ==
  ASSUME CubebAssumption, OpenSL!IInv, OpenSL!AppNext PROVE OpenSL!IInv'
  <1> USE OpenSLTypes, OpenSLOrderStays
  <1> USE DEF OpenSL!IInv, OpenSL!TypeOK, OpenSL!Streams, OpenSL!Objects, OpenSL!KindFits,
              OpenSL!RunsWhenStarted, OpenSL!FaultsAreKnown, OpenSL!HasInput, OpenSL!HasOutput
  <1>2. CASE OpenSL!Start BY <1>2, ZenonT(60) DEF OpenSL!Start, OpenSL!StartFlags
  <1>3. CASE OpenSL!StartObjects BY <1>3, ZenonT(60) DEF OpenSL!StartObjects
  <1>4. CASE OpenSL!Stop BY <1>4, ZenonT(60) DEF OpenSL!Stop
  <1>5. CASE OpenSL!StopObjects BY <1>5, ZenonT(60) DEF OpenSL!StopObjects, OpenSL!Paused
  <1>6. CASE OpenSL!DestroyPlayer BY <1>6, ZenonT(60) DEF OpenSL!DestroyPlayer
  <1>7. CASE OpenSL!FreeBuffers BY <1>7, OpenSLFreeBuffers
  <1>8. CASE OpenSL!DestroyRecorder BY <1>8 DEF OpenSL!DestroyRecorder
  <1> QED
    BY OpenSLStreamInit, <1>2, <1>3, <1>4, <1>5, <1>6, <1>7, <1>8 DEF OpenSL!AppNext

\* The player takes the oldest recorded buffer, the one after those it read.
LEMMA OpenSLPlayerCallback ==
  ASSUME CubebAssumption, OpenSL!IInv, OpenSL!PlayerCallback PROVE OpenSL!IInv'
  <1>1. /\ fault = "none" /\ v1.play /\ thread.pc = "idle" /\ UNCHANGED <<stm, v1, v2, app, fault>>
    BY DEF OpenSL!PlayerCallback
  <1>0. ~stm.shutdown /\ ~stm.draining
    BY DEF OpenSL!PlayerCallback, OpenSL!Silent
  <1>2. /\ ~stm.shutdown /\ ~stm.draining
        /\ stm.told # "error" /\ app \in {"start", "running", "refused"}
    BY <1>0 DEF OpenSL!IInv, OpenSL!RunsWhenStarted
  <1>3. CASE /\ stm.kind = "duplex" /\ v3.queue # <<>>
             /\ thread' = [pc |-> "calling", buffer |-> Head(v3.queue)]
             /\ v3' = [v3 EXCEPT !.queue = Tail(@)]
    <2>1. /\ Head(v3.queue) \in OpenSL!Buffers /\ Tail(v3.queue) \in Seq(OpenSL!Buffers)
          /\ Head(v3.queue) = v3.queue[1]
          /\ Len(v3.queue) \in 1..Capacity /\ Len(Tail(v3.queue)) = Len(v3.queue) - 1
          /\ \A i \in 1..Len(Tail(v3.queue)) :
               Tail(v3.queue)[i] = v3.queue[i + 1] /\ i + 1 \in 1..Len(v3.queue)
      BY <1>3, OpenSLTypes
    <2>2. /\ v3' \in OpenSL!Inputs /\ v3'.queue = Tail(v3.queue) /\ v3'.filling = v3.filling
          /\ v3'.skipped = v3.skipped
      BY <1>3, <2>1, OpenSLTypes DEF OpenSL!Inputs
    <2>3. thread' \in OpenSL!Players
      BY <1>3, <2>1 DEF OpenSL!Players
    <2>4. OpenSL!TypeOK'
      <3>1. Len(v3'.queue) <= Capacity BY <2>1, <2>2, OpenSLTypes
      <3> QED BY <1>1, <2>2, <2>3, <3>1, OpenSLTypes DEF OpenSL!TypeOK
    <2>5. OpenSL!InputInOrder'
      <3> DEFINE Dist(b) == IF b < v3.filling THEN v3.filling - b
                                              ELSE v3.filling - b + Capacity
      <3>1. ASSUME ~v3.skipped
            PROVE  \A i \in 1..Len(v3.queue) :
                     v3.filling # OpenSL!NoBuffer /\ Dist(v3.queue[i]) = Len(v3.queue) - i + 1
        BY <3>1 DEF OpenSL!IInv, OpenSL!InputInOrder, OpenSL!Behind
      <3> HIDE DEF Dist
      <3>2. ASSUME ~v3.skipped
            PROVE  \A i \in 1..Len(Tail(v3.queue)) :
                     /\ v3.filling # OpenSL!NoBuffer
                     /\ Dist(Tail(v3.queue)[i]) = Len(Tail(v3.queue)) - i + 1
        BY <2>1, <3>1, <3>2
      <3>3. ASSUME ~v3.skipped
            PROVE  /\ v3.filling # OpenSL!NoBuffer
                   /\ Dist(Head(v3.queue)) = Len(Tail(v3.queue)) + 1
        BY <2>1, <3>1, <3>3
      <3>4. thread'.buffer = Head(v3.queue)
        BY <1>3
      <3> QED BY <2>2, <3>2, <3>3, <3>4 DEF OpenSL!InputInOrder, OpenSL!Behind, Dist
    <2> QED
      BY <1>1, <1>2, <1>3, <2>2, <2>4, <2>5 DEF OpenSL!IInv, OpenSL!KindFits,
         OpenSL!RunsWhenStarted, OpenSL!FaultsAreKnown, OpenSL!HasInput, OpenSL!HasOutput
  <1>4. CASE thread' = [pc |-> "calling", buffer |-> OpenSL!NoBuffer] /\ UNCHANGED v3
    <2>1. thread' \in OpenSL!Players
      BY <1>4 DEF OpenSL!Players
    <2> QED
      BY <1>1, <1>2, <1>4, <2>1, OpenSLTypes, OpenSLOrderStays DEF OpenSL!IInv, OpenSL!TypeOK,
         OpenSL!KindFits, OpenSL!RunsWhenStarted, OpenSL!FaultsAreKnown, OpenSL!HasInput,
         OpenSL!HasOutput
  <1> QED
    BY <1>3, <1>4 DEF OpenSL!PlayerCallback

\* What a later step of the player's callback changes.
LEMMA OpenSLPlayerGoesOn ==
  ASSUME CubebAssumption, OpenSL!IInv, UNCHANGED <<v2, v3, app>>,
         stm' \in OpenSL!Streams, v1' \in OpenSL!Objects, thread' \in OpenSL!Players,
         fault = "none", fault' \in {"none", "stop"},
         stm'.kind = stm.kind, stm'.shutdown = stm.shutdown \/ stm'.shutdown,
         thread'.buffer = thread.buffer \/ thread'.buffer = OpenSL!NoBuffer,
         v1'.play => v1.play, v1'.record => v1.record,
         stm'.told = "error" =>
           /\ stm'.shutdown
           /\ app \notin {"refused", "stop"} => ~v1'.play /\ ~v1'.record
           /\ OpenSL!HasOutput => thread'.pc = "idle" /\ ~stm'.draining,
         OpenSL!HasOutput /\ thread'.pc \in {"calling", "short"} => ~stm'.draining,
         thread'.pc # "idle" => app \notin {"none", "player gone", "buffers gone", "done"},
         fault' = "stop" => ~stm.shutdown
  PROVE  OpenSL!IInv'
  <1>1. OpenSL!TypeOK'
    BY OpenSLTypes DEF OpenSL!TypeOK
  <1>2. OpenSL!InputInOrder'
    BY OpenSLOrderStays
  <1>3. OpenSL!KindFits'
    BY DEF OpenSL!IInv, OpenSL!KindFits, OpenSL!HasInput
  <1>4. stm.shutdown => stm'.shutdown
    OBVIOUS
  <1>5. OpenSL!RunsWhenStarted' /\ OpenSL!FaultsAreKnown'
    BY <1>4, OpenSLTypes DEF OpenSL!IInv, OpenSL!TypeOK, OpenSL!RunsWhenStarted,
       OpenSL!FaultsAreKnown, OpenSL!HasOutput
  <1> QED BY <1>1, <1>2, <1>3, <1>5 DEF OpenSL!IInv

\* The player's callback goes on.
LEMMA OpenSLPlayerStep ==
  ASSUME CubebAssumption, OpenSL!IInv, OpenSL!PlayerNext PROVE OpenSL!IInv'
  <1> USE OpenSLTypes, OpenSLPlayerGoesOn
  <1> USE DEF OpenSL!Streams, OpenSL!Objects, OpenSL!Players, OpenSL!PlayerIdle, OpenSL!Paused
  <1>1. /\ stm.told = "error" =>
             /\ stm.shutdown
             /\ app \notin {"refused", "stop"} => ~v1.play /\ ~v1.record
             /\ OpenSL!HasOutput => thread.pc = "idle" /\ ~stm.draining
        /\ OpenSL!HasOutput /\ thread.pc \in {"calling", "short"} => ~stm.draining
        /\ v1.play \/ thread.pc # "idle" => app \notin {"none", "player gone", "buffers gone", "done"}
    BY DEF OpenSL!IInv, OpenSL!RunsWhenStarted
  <1>2. OpenSL!NoBuffer \in OpenSL!Buffers \cup {OpenSL!NoBuffer}
    OBVIOUS
  <1>3. CASE OpenSL!PlayerReturns
    <2>1. /\ thread.pc = "calling" /\ fault = "none" /\ UNCHANGED <<v2, v3, app, fault>>
          /\ OpenSL!HasOutput => stm.told # "error"
      BY <1>1, <1>3 DEF OpenSL!PlayerReturns
    <2>2. CASE thread' = [pc |-> "idle", buffer |-> OpenSL!NoBuffer]
               /\ stm' = [stm EXCEPT !.written = TRUE] /\ UNCHANGED v1
      BY <1>1, <1>2, <2>1, <2>2
    <2>3. CASE thread' = [pc |-> "idle", buffer |-> OpenSL!NoBuffer]
               /\ stm' = [stm EXCEPT !.shutdown = TRUE, !.told = "error"]
               /\ v1' = [v1 EXCEPT !.play = FALSE, !.record = FALSE]
      BY <1>1, <1>2, <2>1, <2>3
    <2>4. CASE /\ thread' = [pc |-> "short", buffer |-> OpenSL!NoBuffer]
               /\ stm' \in {stm, [stm EXCEPT !.written = TRUE]} /\ UNCHANGED v1
      BY <1>1, <1>2, <2>1, <2>4 DEF OpenSL!HasOutput
    <2> QED
      BY <1>3, <2>2, <2>3, <2>4 DEF OpenSL!PlayerReturns, OpenSL!ErrorEnds
  <1>4. CASE OpenSL!PlayerDrains
    BY <1>1, <1>2, <1>4 DEF OpenSL!PlayerDrains
  <1>5. CASE OpenSL!PlayerMarker
    BY <1>1, <1>2, <1>5 DEF OpenSL!PlayerMarker
  <1>6. CASE OpenSL!PlayerStops
    BY <1>1, <1>2, <1>6 DEF OpenSL!PlayerStops, OpenSL!Silent
  <1> QED
    BY <1>3, <1>4, <1>5, <1>6, OpenSLPlayerCallback DEF OpenSL!PlayerNext

\* What a step of the recorder's callback changes, but for the next buffer.
LEMMA OpenSLRecorderGoesOn ==
  ASSUME CubebAssumption, OpenSL!IInv, UNCHANGED <<thread, v3, app>>,
         stm' \in OpenSL!Streams, v1' \in OpenSL!Objects, stm'.kind = stm.kind,
         fault = "none", fault' \in {"none", "stop"},
         v2' \in {"idle", "refuse", "enqueue", "calling", "failed", "short", "told"},
         v2' # "idle" => OpenSL!HasInput /\ app \notin {"none", "done"},
         v2' \in {"calling", "short", "told"} => stm.kind = "input",
         stm'.shutdown = stm.shutdown \/ stm'.shutdown,
         v1'.play => v1.play, v1'.record => v1.record,
         stm'.told = "error" =>
           /\ stm'.shutdown
           /\ app \notin {"refused", "stop"} => ~v1'.play /\ ~v1'.record
           /\ OpenSL!HasOutput => thread.pc = "idle" /\ ~stm'.draining,
         OpenSL!HasOutput /\ thread.pc \in {"calling", "short"} => ~stm'.draining,
         fault' = "stop" => ~stm.shutdown
  PROVE  OpenSL!IInv'
  <1>1. OpenSL!TypeOK'
    BY OpenSLTypes DEF OpenSL!TypeOK
  <1>2. OpenSL!InputInOrder'
    BY OpenSLOrderStays
  <1>3. OpenSL!KindFits'
    BY DEF OpenSL!IInv, OpenSL!KindFits, OpenSL!HasInput
  <1>4. stm.shutdown => stm'.shutdown
    OBVIOUS
  <1>5. OpenSL!RunsWhenStarted' /\ OpenSL!FaultsAreKnown'
    BY <1>4, OpenSLTypes DEF OpenSL!IInv, OpenSL!TypeOK, OpenSL!RunsWhenStarted,
       OpenSL!FaultsAreKnown, OpenSL!HasOutput
  <1> QED BY <1>1, <1>2, <1>3, <1>5 DEF OpenSL!IInv

\* The next buffer on the way round.
LEMMA OpenSLNextBuffer ==
  ASSUME CubebAssumption, NEW i \in OpenSL!Buffers
  PROVE  /\ OpenSL!NextBuffer(i) \in OpenSL!Buffers
         /\ OpenSL!NextBuffer(i) = IF i + 1 = Capacity THEN 0 ELSE i + 1
  BY DEF CubebAssumption, OpenSL!OpenSLAssumption, OpenSL!Buffers, OpenSL!NextBuffer

\* The recorder goes on to the next buffer, and a full one is queued behind the
\* others, all of which are one buffer further behind then.
LEMMA OpenSLEnqueue ==
  ASSUME CubebAssumption, OpenSL!IInv, OpenSL!Enqueue PROVE OpenSL!IInv'
  <1>1. /\ fault = "none" /\ v2 \in {"refuse", "enqueue"} /\ UNCHANGED <<stm, v1, thread, app>>
        /\ app \notin {"none", "done"} /\ stm.kind \in {"input", "duplex"}
        /\ v3.filling \in OpenSL!Buffers
        /\ stm.kind # "duplex" => v3.queue = <<>> /\ thread.buffer = OpenSL!NoBuffer
    BY OpenSLTypes DEF OpenSL!Enqueue, OpenSL!IInv, OpenSL!KindFits, OpenSL!HasInput,
       OpenSL!Streams, CubebAssumption, OpenSL!OpenSLAssumption
  <1>2. CASE app = "buffers gone" /\ fault' = "freed" /\ UNCHANGED <<v3, v2>>
    <2>1. OpenSL!TypeOK'
      BY <1>1, <1>2, OpenSLTypes DEF OpenSL!TypeOK, OpenSL!IInv
    <2>2. OpenSL!InputInOrder'
      BY <1>1, <1>2, OpenSLOrderStays
    <2>3. OpenSL!KindFits'
      BY <1>1, <1>2 DEF OpenSL!IInv, OpenSL!KindFits, OpenSL!HasInput
    <2>4. OpenSL!RunsWhenStarted' /\ OpenSL!FaultsAreKnown'
      BY <1>1, <1>2 DEF OpenSL!IInv, OpenSL!RunsWhenStarted, OpenSL!FaultsAreKnown,
         OpenSL!HasOutput
    <2> QED BY <2>1, <2>2, <2>3, <2>4 DEF OpenSL!IInv
  <1>3. CASE app # "buffers gone"
    <2> DEFINE queued == v2 = "enqueue" /\ Len(v3.queue) < Capacity
               next == OpenSL!NextBuffer(v3.filling)
               q == IF queued /\ stm.kind = "duplex" THEN Append(v3.queue, v3.filling)
                                                      ELSE v3.queue
    <2>1. /\ v3' = [filling |-> next, queue |-> q, skipped |-> v3.skipped \/ ~queued]
          /\ v2' = IF v2 = "enqueue" /\ stm.kind = "input" THEN "calling" ELSE "idle"
          /\ fault' = "none"
      BY <1>1, <1>3 DEF OpenSL!Enqueue
    <2>2. next \in OpenSL!Buffers /\ next = IF v3.filling + 1 = Capacity THEN 0 ELSE v3.filling + 1
      BY <1>1, OpenSLNextBuffer
    <2>3. q \in Seq(OpenSL!Buffers) /\ Len(q) <= Capacity
      BY <1>1, OpenSLTypes
    <2>4. v3.skipped \in BOOLEAN
      BY OpenSLTypes DEF OpenSL!Inputs
    <2> HIDE DEF next, q
    <2>5. v3' \in OpenSL!Inputs
      BY <2>1, <2>2, <2>3, <2>4 DEF OpenSL!Inputs
    <2>6. OpenSL!TypeOK'
      BY <1>1, <2>1, <2>3, <2>5, OpenSLTypes DEF OpenSL!TypeOK
    <2>7. OpenSL!KindFits'
      BY <1>1, <2>1, <2>2 DEF OpenSL!KindFits, OpenSL!HasInput, q
    <2>8. OpenSL!RunsWhenStarted' /\ OpenSL!FaultsAreKnown'
      BY <1>1, <2>1 DEF OpenSL!IInv, OpenSL!RunsWhenStarted, OpenSL!FaultsAreKnown,
         OpenSL!HasOutput
    <2>9. ASSUME ~v3.skipped, queued PROVE OpenSL!InputInOrder'
      <3> DEFINE Dist(f, b) == IF b < f THEN f - b ELSE f - b + Capacity
      <3>1. /\ \A i \in 1..Len(v3.queue) :
                 Dist(v3.filling, v3.queue[i]) = Len(v3.queue) - i + 1
            /\ thread.buffer # OpenSL!NoBuffer =>
                 Dist(v3.filling, thread.buffer) = Len(v3.queue) + 1
        BY <2>9 DEF OpenSL!IInv, OpenSL!InputInOrder, OpenSL!Behind
      <3>2. ASSUME NEW b \in OpenSL!Buffers, Dist(v3.filling, b) < Capacity
            PROVE  Dist(next, b) = Dist(v3.filling, b) + 1
        <4>1. /\ Capacity \in Nat \ {0} /\ b \in 0..Capacity - 1 /\ v3.filling \in 0..Capacity - 1
          BY <1>1, OpenSLTypes DEF OpenSL!Buffers
        <4>2. b # v3.filling
          BY <3>2, <4>1
        <4>3. CASE v3.filling + 1 = Capacity
          BY <2>2, <4>1, <4>2, <4>3
        <4>4. CASE v3.filling + 1 # Capacity
          BY <2>2, <4>1, <4>2, <4>4
        <4> QED BY <4>3, <4>4
      <3>3. Dist(next, v3.filling) = 1
        BY <1>1, <2>2, OpenSLTypes DEF OpenSL!Buffers
      <3>4. next # OpenSL!NoBuffer
        BY <2>2, OpenSLTypes DEF OpenSL!Buffers, OpenSL!NoBuffer
      <3> HIDE DEF Dist
      <3>5. \A i \in 1..Len(q) : Dist(next, q[i]) = Len(q) - i + 1
        <4>1. CASE stm.kind = "duplex"
          <5>1. /\ q = Append(v3.queue, v3.filling) /\ Len(q) = Len(v3.queue) + 1
                /\ \A i \in 1..Len(v3.queue) : q[i] = v3.queue[i] /\ q[i] \in OpenSL!Buffers
                /\ q[Len(q)] = v3.filling
            BY <1>1, <2>9, <4>1, OpenSLTypes DEF q
          <5>2. ASSUME NEW i \in 1..Len(v3.queue) PROVE Dist(next, q[i]) = Len(q) - i + 1
            BY <2>9, <3>1, <3>2, <5>1, OpenSLTypes
          <5>3. Dist(next, q[Len(q)]) = Len(q) - Len(q) + 1
            BY <3>3, <5>1, OpenSLTypes
          <5> QED BY <5>1, <5>2, <5>3, OpenSLTypes
        <4>2. CASE stm.kind # "duplex"
          BY <1>1, <4>2 DEF q
        <4> QED BY <4>1, <4>2
      <3>6. ASSUME thread.buffer # OpenSL!NoBuffer, Len(q) < Capacity
            PROVE  Dist(next, thread.buffer) = Len(q) + 1
        <4>1. stm.kind = "duplex" /\ Len(q) = Len(v3.queue) + 1
          BY <1>1, <2>9, <3>6, OpenSLTypes DEF q
        <4>2. thread.buffer \in OpenSL!Buffers
          BY <3>6, OpenSLTypes DEF OpenSL!Players
        <4> QED BY <3>1, <3>2, <3>6, <4>1, <4>2, OpenSLTypes
      <3> QED
        BY <1>1, <2>1, <3>4, <3>5, <3>6 DEF OpenSL!InputInOrder, OpenSL!Behind, Dist
    <2>10. ASSUME v3.skipped \/ ~queued PROVE OpenSL!InputInOrder'
      <3>1. v3'.skipped
        BY <2>1, <2>10
      <3> QED BY <3>1 DEF OpenSL!InputInOrder
    <2> HIDE DEF queued
    <2>11. OpenSL!InputInOrder'
      BY <2>9, <2>10
    <2> QED BY <2>6, <2>7, <2>8, <2>11 DEF OpenSL!IInv
  <1> QED
    BY <1>2, <1>3 DEF OpenSL!Enqueue

\* The recorder's callback goes on.
LEMMA OpenSLRecorderStep ==
  ASSUME CubebAssumption, OpenSL!IInv, OpenSL!RecorderNext PROVE OpenSL!IInv'
  <1> USE OpenSLTypes, OpenSLRecorderGoesOn
  <1> USE DEF OpenSL!Streams, OpenSL!Objects, OpenSL!Paused
  <1>1. /\ stm.told = "error" =>
             /\ stm.shutdown
             /\ app \notin {"refused", "stop"} => ~v1.play /\ ~v1.record
             /\ OpenSL!HasOutput => thread.pc = "idle" /\ ~stm.draining
        /\ OpenSL!HasOutput /\ thread.pc \in {"calling", "short"} => ~stm.draining
    BY DEF OpenSL!IInv, OpenSL!RunsWhenStarted
  <1>2. /\ v1.record \/ v2 # "idle" => OpenSL!HasInput /\ app \notin {"none", "done"}
        /\ v2 \in {"calling", "short", "told"} => stm.kind = "input"
    BY DEF OpenSL!IInv, OpenSL!KindFits, OpenSL!RunsWhenStarted
  <1>3. CASE OpenSL!RecorderCallback
    BY <1>1, <1>2, <1>3 DEF OpenSL!RecorderCallback
  <1>4. CASE OpenSL!RecorderReturns
    BY <1>1, <1>2, <1>4 DEF OpenSL!RecorderReturns, OpenSL!ErrorEnds, OpenSL!HasOutput
  <1>5. CASE OpenSL!RecorderDrains
    BY <1>1, <1>2, <1>5 DEF OpenSL!RecorderDrains, OpenSL!HasOutput
  <1>6. CASE OpenSL!RecorderMarker
    BY <1>1, <1>2, <1>6 DEF OpenSL!RecorderMarker
  <1>7. CASE OpenSL!RecorderStops
    BY <1>1, <1>2, <1>7 DEF OpenSL!RecorderStops, OpenSL!Silent
  <1> QED
    BY <1>3, <1>4, <1>5, <1>6, <1>7, OpenSLEnqueue DEF OpenSL!RecorderNext

\* Every step preserves the invariant.
LEMMA OpenSLStep ==
  ASSUME CubebAssumption, OpenSL!IInv, OpenSL!Next PROVE OpenSL!IInv'
  BY OpenSLAppStep, OpenSLPlayerStep, OpenSLRecorderStep DEF OpenSL!Next

\* It is about the variables of the backend alone.
LEMMA OpenSLStutter ==
  ASSUME OpenSL!IInv, UNCHANGED OpenSL!vars PROVE OpenSL!IInv'
  <1>1. OpenSL!InputInOrder'
    BY OpenSLOrderStays DEF OpenSL!vars
  <1> QED
    BY <1>1, ZenonT(60) DEF OpenSL!vars, OpenSL!IInv, OpenSL!TypeOK, OpenSL!KindFits,
       OpenSL!RunsWhenStarted, OpenSL!FaultsAreKnown, OpenSL!HasInput, OpenSL!HasOutput

\* What the invariant says of the properties of the library.
LEMMA OpenSLSafe ==
  ASSUME CubebAssumption, OpenSL!IInv
  PROVE  OpenSL!TypeOK /\ OpenSL!StopQuiesces /\ OpenSL!FaultsAreKnown /\ OpenSL!BuffersApart
         /\ OpenSL!FreedIsGone
  <1>1. OpenSL!BuffersApart
    <2>1. /\ v3.queue \in Seq(OpenSL!Buffers) /\ Len(v3.queue) \in Nat /\ Capacity \in Nat
          /\ \A i \in 1..Len(v3.queue) : v3.queue[i] \in OpenSL!Buffers
          /\ thread.buffer \in OpenSL!Buffers \cup {OpenSL!NoBuffer}
      BY OpenSLTypes DEF OpenSL!Players
    <2>2. ASSUME ~v3.skipped, Len(v3.queue) < Capacity, NEW i \in 1..Len(v3.queue)
          PROVE  v3.queue[i] # v3.filling
      BY <2>1, <2>2, OpenSLTypes DEF OpenSL!IInv, OpenSL!InputInOrder, OpenSL!Behind,
         OpenSL!Buffers
    <2>3. ASSUME ~v3.skipped, Len(v3.queue) < Capacity - 1, v3.filling # OpenSL!NoBuffer
          PROVE  thread.buffer # v3.filling
      BY <2>1, <2>3, OpenSLTypes DEF OpenSL!IInv, OpenSL!InputInOrder, OpenSL!Behind,
         OpenSL!Buffers
    <2> QED BY <2>2, <2>3 DEF OpenSL!BuffersApart
  <1> QED
    BY <1>1, OpenSLTypes DEF OpenSL!IInv, OpenSL!RunsWhenStarted, OpenSL!StopQuiesces,
       OpenSL!FreedIsGone, OpenSL!KindFits, OpenSL!TypeOK

\* Of a stream that plays and was told an error nothing tells something else.
LEMMA OpenSLErrorIsLast ==
  ASSUME CubebAssumption, OpenSL!IInv, OpenSL!Next PROVE OpenSL!AfterError
  <1> SUFFICES ASSUME OpenSL!HasOutput, stm.told = "error", app' = app
               PROVE  stm'.told = "error"
    BY DEF OpenSL!AfterError
  <1>1. stm.shutdown /\ ~stm.draining /\ thread.pc = "idle" /\ stm \in OpenSL!Streams
        /\ (v2 \in {"calling", "short", "told"} => stm.kind = "input")
    BY OpenSLTypes DEF OpenSL!IInv, OpenSL!RunsWhenStarted, OpenSL!KindFits
  <1> USE DEF OpenSL!Streams
  <1>2. CASE OpenSL!AppNext
    BY <1>1, <1>2 DEF OpenSL!AppNext, OpenSL!StreamInit, OpenSL!Start, OpenSL!StartObjects,
       OpenSL!Stop, OpenSL!StopObjects, OpenSL!DestroyPlayer, OpenSL!FreeBuffers,
       OpenSL!DestroyRecorder, OpenSL!StartFlags
  <1>3. CASE OpenSL!PlayerNext
    BY <1>1, <1>3 DEF OpenSL!PlayerNext, OpenSL!PlayerCallback, OpenSL!PlayerReturns,
       OpenSL!PlayerDrains, OpenSL!PlayerMarker, OpenSL!PlayerStops, OpenSL!Silent
  <1>4. CASE OpenSL!RecorderNext
    BY <1>1, <1>4 DEF OpenSL!RecorderNext, OpenSL!RecorderCallback, OpenSL!Enqueue,
       OpenSL!RecorderReturns, OpenSL!RecorderDrains, OpenSL!RecorderMarker,
       OpenSL!RecorderStops, OpenSL!HasOutput
  <1> QED BY <1>2, <1>3, <1>4 DEF OpenSL!Next

----------------------------------------------------------------------------
(* The WASAPI backend *)

\* The stream starts as the invariant says.
LEMMA WasapiInit ==
  ASSUME CubebAssumption, Wasapi!Init PROVE Wasapi!IInv
  <1> DEFINE kinds == Kinds \cup (IF "input" \in Kinds THEN {"loopback"} ELSE {})
  <1>1. TimeoutLimit \in Nat \ {0}
    BY DEF CubebAssumption, Wasapi!WasapiAssumption
  <1>2. PICK k \in kinds, p \in SUBSET {"o", "i"} :
          stm = [kind |-> k, pinned |-> p, ready |-> FALSE, draining |-> FALSE,
                 bailout |-> FALSE, freed |-> FALSE, told |-> "none"]
    BY DEF Wasapi!Init
  <1>3. /\ v1 = Wasapi!Clients({}, {})
        /\ v2 = [e \in Wasapi!Handlers |-> FALSE]
        /\ thread = [pc |-> "none", count |-> 0, failed |-> FALSE]
        /\ app = "none" /\ fault = "none"
    BY DEF Wasapi!Init
  <1>4. stm \in Wasapi!Streams
    BY <1>2 DEF Wasapi!Streams
  <1>5. thread \in Wasapi!Threads
    BY <1>1, <1>3 DEF Wasapi!Threads
  <1>6. v1 \in [{"o", "i"} -> {"none", "stopped", "running"}] /\ v2 \in [Wasapi!Handlers -> BOOLEAN]
    BY <1>3 DEF Wasapi!Clients
  <1>7. Wasapi!TypeOK
    BY <1>3, <1>4, <1>5, <1>6 DEF Wasapi!TypeOK
  <1> QED
    BY <1>1, <1>2, <1>3, <1>7 DEF Wasapi!IInv, Wasapi!ThreadFitsApp, Wasapi!SilentAfterLoop,
       Wasapi!LoopFits, Wasapi!FreedIsGone, Wasapi!FaultsAreKnown, Wasapi!NoCallbackAfterShort,
       Wasapi!Present, Wasapi!Clients

\* What the invariant says of the types.
LEMMA WasapiTypes ==
  ASSUME CubebAssumption, Wasapi!IInv
  PROVE  /\ TimeoutLimit \in Nat \ {0} /\ Wasapi!TypeOK
         /\ stm \in Wasapi!Streams /\ thread \in Wasapi!Threads
         /\ v1 \in [{"o", "i"} -> {"none", "stopped", "running"}]
         /\ v2 \in [Wasapi!Handlers -> BOOLEAN] /\ thread.count \in 0..TimeoutLimit
  BY DEF CubebAssumption, Wasapi!WasapiAssumption, Wasapi!IInv, Wasapi!TypeOK, Wasapi!Threads

\* Which clients there are.
LEMMA WasapiHas ==
  ASSUME Wasapi!IInv
  PROVE  /\ Wasapi!Own \subseteq {"o", "i"} /\ Wasapi!Own # {}
         /\ stm.ready /\ ~stm.freed => \A d \in Wasapi!Own : v1[d] # "none"
         /\ stm.freed \/ app = "none" => \A d \in {"o", "i"} : v1[d] = "none"
         /\ Wasapi!Present = {} /\ ~stm.freed => ~stm.ready
  <1>1. Wasapi!Own \subseteq {"o", "i"} /\ Wasapi!Own # {}
    BY DEF Wasapi!Own
  <1> QED
    BY <1>1 DEF Wasapi!IInv, Wasapi!LoopFits, Wasapi!FreedIsGone, Wasapi!Present

\* What the user is told is no other member of the stream.
LEMMA WasapiTell ==
  ASSUME CubebAssumption, Wasapi!IInv,
         NEW state \in {"none", "started", "stopped", "drained", "error"}
  PROVE  LET t == Wasapi!Tell(stm, state) IN
           /\ t \in Wasapi!Streams /\ t.kind = stm.kind /\ t.bailout = stm.bailout
           /\ t.freed = stm.freed /\ t.draining = stm.draining
           /\ t.ready = stm.ready
  BY WasapiTypes DEF Wasapi!Tell, Wasapi!Streams

\* Every direction has a client, or none.
LEMMA WasapiClients ==
  ASSUME NEW run, NEW stop
  PROVE  /\ Wasapi!Clients(run, stop) \in [{"o", "i"} -> {"none", "stopped", "running"}]
         /\ run = {} => \A d \in {"o", "i"} : Wasapi!Clients(run, stop)[d] # "running"
         /\ \A d \in {"o", "i"} : Wasapi!Clients(run, stop)[d] = "none" <=> d \notin run \cup stop
  BY DEF Wasapi!Clients

\* An event that is set or reset.
LEMMA WasapiSet ==
  ASSUME CubebAssumption, Wasapi!IInv, NEW e \in Wasapi!Handlers, NEW b \in BOOLEAN
  PROVE  [v2 EXCEPT ![e] = b] \in [Wasapi!Handlers -> BOOLEAN]
  BY WasapiTypes

\* What a step of the user has to keep: the thread is not disturbed.
LEMMA WasapiAppGoesOn ==
  ASSUME CubebAssumption, Wasapi!IInv, UNCHANGED thread,
         app \in {"none", "idle", "starting", "running", "stop", "joining", "stopped", "destroying"},
         app' \in {"idle", "starting", "running", "stop", "joining", "stopped", "destroying",
                   "done"},
         stm' \in Wasapi!Streams, v2' \in [Wasapi!Handlers -> BOOLEAN],
         v1' \in [{"o", "i"} -> {"none", "stopped", "running"}],
         stm'.kind = stm.kind, stm'.draining = stm.draining,
         fault = "none", fault' = "none",
         app' = "idle" => thread.pc \in {"none", "done"},
         app' = "stopped" => thread.pc = "done",
         app' \in {"starting", "running", "stop", "joining", "destroying"} => thread.pc # "none",
         app' = "done" => stm'.bailout \/ thread.pc \in {"none", "done"},
         stm'.bailout => app' = "done",
         stm'.freed => app' = "done" /\ thread.pc \in {"none", "done"},
         app' # "idle" =>
           \/ app # "idle" /\ \A d \in {"o", "i"} : v1'[d] = "running" => v1[d] = "running"
           \/ \A d \in {"o", "i"} : v1'[d] # "running",
         \/ ~stm'.ready \/ stm'.freed
         \/ stm'.ready = stm.ready /\ stm'.freed = stm.freed
              /\ \A d \in {"o", "i"} : v1'[d] = "none" => v1[d] = "none"
         \/ \A d \in Wasapi!Own : v1'[d] # "none",
         stm'.freed => \A d \in {"o", "i"} : v1'[d] = "none"
  PROVE  Wasapi!IInv'
  <1>1. Wasapi!TypeOK'
    BY WasapiTypes DEF Wasapi!TypeOK
  <1>2. ~stm.bailout /\ thread.pc # "free"
    BY DEF Wasapi!IInv, Wasapi!ThreadFitsApp
  <1>3. Wasapi!ThreadFitsApp'
    BY <1>2 DEF Wasapi!ThreadFitsApp
  <1>4. Wasapi!SilentAfterLoop'
    BY DEF Wasapi!IInv, Wasapi!SilentAfterLoop
  <1>5. Wasapi!Own' = Wasapi!Own
    BY DEF Wasapi!Own
  <1>6. stm'.ready /\ ~stm'.freed => \A d \in Wasapi!Own : v1'[d] # "none"
    BY WasapiHas
  <1>7. Wasapi!LoopFits' /\ Wasapi!NoCallbackAfterShort'
    BY <1>5, <1>6, WasapiHas DEF Wasapi!IInv, Wasapi!LoopFits, Wasapi!NoCallbackAfterShort,
       Wasapi!Present
  <1>8. Wasapi!FreedIsGone' /\ Wasapi!FaultsAreKnown'
    BY DEF Wasapi!FreedIsGone, Wasapi!FaultsAreKnown, Wasapi!Present
  <1> QED BY <1>1, <1>3, <1>4, <1>7, <1>8 DEF Wasapi!IInv

\* Every step of the user preserves the invariant.
LEMMA WasapiAppStep ==
  ASSUME CubebAssumption, Wasapi!IInv, Wasapi!AppNext PROVE Wasapi!IInv'
  <1> USE WasapiTypes, WasapiHas, WasapiAppGoesOn
  <1>1. /\ app \in {"none", "idle"} => thread.pc \in {"none", "done"}
        /\ app = "stopped" => thread.pc = "done"
        /\ app \in {"starting", "running", "stop", "joining", "destroying"} => thread.pc # "none"
        /\ stm.bailout => app = "done"
        /\ stm.freed => app = "done"
    BY DEF Wasapi!IInv, Wasapi!ThreadFitsApp, Wasapi!FreedIsGone
  <1>2. CASE Wasapi!StreamInit
    <2>1. fault = "none" /\ app = "none" /\ UNCHANGED <<v2, thread, fault>>
      BY <1>2 DEF Wasapi!StreamInit
    <2>2. CASE /\ stm' = [stm EXCEPT !.ready = TRUE] /\ v1' = Wasapi!Clients({}, Wasapi!Own)
               /\ app' = "idle"
      <3>1. /\ stm' \in Wasapi!Streams /\ stm'.kind = stm.kind /\ stm'.draining = stm.draining
            /\ stm'.bailout = stm.bailout /\ stm'.freed = stm.freed
        BY <2>2 DEF Wasapi!Streams
      <3>2. /\ v1' \in [{"o", "i"} -> {"none", "stopped", "running"}]
            /\ \A d \in Wasapi!Own : v1'[d] # "none"
            /\ \A d \in {"o", "i"} : v1'[d] # "running"
        BY <2>2, WasapiClients
      <3> QED BY <1>1, <2>1, <2>2, <3>1, <3>2
    <2>3. CASE stm' = [stm EXCEPT !.freed = TRUE] /\ UNCHANGED v1 /\ app' = "done"
      <3>1. /\ stm' \in Wasapi!Streams /\ stm'.kind = stm.kind /\ stm'.draining = stm.draining
            /\ stm'.bailout = stm.bailout
        BY <2>3 DEF Wasapi!Streams
      <3> QED BY <1>1, <2>1, <2>3, <3>1
    <2> QED BY <1>2, <2>2, <2>3 DEF Wasapi!StreamInit
  <1>3. CASE Wasapi!Start
    <2>1. fault = "none" /\ app \in {"idle", "stopped"}
      BY <1>3 DEF Wasapi!Start
    <2>2. ~stm.freed /\ ~stm.bailout
      BY <1>1, <2>1
    <2>3. CASE Wasapi!Present = {} /\ fault' = "setup" /\ UNCHANGED <<stm, v1, v2, thread, app>>
      <3>1. ~stm.ready
        BY <2>2, <2>3
      <3>2. Wasapi!TypeOK'
        BY <2>3 DEF Wasapi!TypeOK
      <3>3. Wasapi!FaultsAreKnown'
        BY <2>3, <3>1 DEF Wasapi!FaultsAreKnown
      <3>4. Wasapi!LoopFits'
        BY <2>1, <2>3 DEF Wasapi!IInv, Wasapi!LoopFits, Wasapi!FaultsAreKnown,
           Wasapi!Own, Wasapi!Present
      <3> QED
        BY <2>1, <2>3, <3>2, <3>3, <3>4 DEF Wasapi!IInv, Wasapi!ThreadFitsApp,
           Wasapi!SilentAfterLoop, Wasapi!FreedIsGone, Wasapi!NoCallbackAfterShort, Wasapi!Present
    <2>4. CASE /\ Wasapi!Present # {} /\ Wasapi!StartSides
               /\ thread' = [pc |-> "head", count |-> 0, failed |-> FALSE]
               /\ app' = "starting" /\ UNCHANGED fault
      <3>1. /\ v2' \in {v2, [v2 EXCEPT !["reconfigure"] = FALSE]}
            /\ stm' \in {stm, [stm EXCEPT !.ready = TRUE]}
        BY <2>4 DEF Wasapi!StartSides
      <3>2. v2' \in [Wasapi!Handlers -> BOOLEAN]
        BY <3>1, WasapiSet DEF Wasapi!Handlers
      <3>3. /\ stm' \in Wasapi!Streams /\ stm'.kind = stm.kind /\ stm'.draining = stm.draining
            /\ stm'.bailout = stm.bailout /\ stm'.freed = stm.freed
        BY <3>1 DEF Wasapi!Streams
      <3>4. /\ v1' \in [{"o", "i"} -> {"none", "stopped", "running"}]
            /\ stm'.ready => \A d \in Wasapi!Own : v1'[d] # "none"
        <4>1. CASE v1' = Wasapi!Clients(Wasapi!Present, {}) /\ UNCHANGED stm
          BY <2>2, <4>1, WasapiClients DEF Wasapi!Present
        <4>2. CASE \E run : v1' = Wasapi!Clients(run, Wasapi!Own)
          BY <4>2, WasapiClients
        <4>3. CASE v1' = Wasapi!Clients(Wasapi!Own, {})
          BY <4>3, WasapiClients
        <4> QED BY <2>4, <4>1, <4>2, <4>3 DEF Wasapi!StartSides
      <3>5. thread' \in Wasapi!Threads
        BY <2>4 DEF Wasapi!Threads
      <3>6. Wasapi!TypeOK'
        BY <2>1, <2>4, <3>2, <3>3, <3>4, <3>5 DEF Wasapi!TypeOK
      <3>7. Wasapi!Own' = Wasapi!Own
        BY <3>3 DEF Wasapi!Own
      <3>8. Wasapi!LoopFits'
        BY <2>1, <2>4, <3>3, <3>4, <3>7 DEF Wasapi!IInv, Wasapi!LoopFits, Wasapi!Present
      <3> QED
        BY <1>1, <2>1, <2>2, <2>4, <3>3, <3>6, <3>8 DEF Wasapi!IInv, Wasapi!ThreadFitsApp,
           Wasapi!SilentAfterLoop, Wasapi!FreedIsGone, Wasapi!FaultsAreKnown,
           Wasapi!NoCallbackAfterShort
    <2> QED BY <1>3, <2>3, <2>4 DEF Wasapi!Start
  <1>4. CASE Wasapi!StartFails
    <2>1. /\ fault = "none" /\ app \in {"idle", "stopped"} /\ app' = "idle"
          /\ UNCHANGED <<v2, thread, fault>>
      BY <1>4 DEF Wasapi!StartFails
    <2>2. thread.pc \in {"none", "done"} /\ ~stm.freed
      BY <1>1, <2>1
    <2>3. CASE \E run \in SUBSET Wasapi!Present :
                 v1' = Wasapi!Clients(run, Wasapi!Present) /\ UNCHANGED stm
      <3>1. /\ v1' \in [{"o", "i"} -> {"none", "stopped", "running"}]
            /\ \A d \in {"o", "i"} : v1'[d] = "none" => v1[d] = "none"
        BY <2>3, WasapiClients DEF Wasapi!Present
      <3> QED BY <1>1, <2>1, <2>2, <2>3, <3>1
    <2>4. CASE \E run \in SUBSET Wasapi!Own :
                 v1' = Wasapi!Clients(run, Wasapi!Own) /\ stm' = [stm EXCEPT !.ready = TRUE]
      <3>1. /\ v1' \in [{"o", "i"} -> {"none", "stopped", "running"}]
            /\ \A d \in Wasapi!Own : v1'[d] # "none"
        BY <2>4, WasapiClients
      <3>2. /\ stm' \in Wasapi!Streams /\ stm'.kind = stm.kind /\ stm'.draining = stm.draining
            /\ stm'.bailout = stm.bailout /\ stm'.freed = stm.freed
        BY <2>4 DEF Wasapi!Streams
      <3> QED BY <1>1, <2>1, <2>2, <3>1, <3>2
    <2>5. CASE Wasapi!SetupFails
      <3>1. v1' \in [{"o", "i"} -> {"none", "stopped", "running"}]
        BY <2>5, WasapiClients DEF Wasapi!SetupFails
      <3>2. /\ stm' \in Wasapi!Streams /\ stm'.kind = stm.kind /\ stm'.draining = stm.draining
            /\ stm'.bailout = stm.bailout /\ stm'.freed = stm.freed /\ ~stm'.ready
        BY <2>5 DEF Wasapi!Streams, Wasapi!SetupFails
      <3> QED BY <1>1, <2>1, <2>2, <3>1, <3>2
    <2> QED BY <1>4, <2>3, <2>4, <2>5 DEF Wasapi!StartFails
  <1>5. CASE Wasapi!TellStarted
    BY <1>1, <1>5, WasapiTell DEF Wasapi!TellStarted
  <1>6. CASE Wasapi!Stop
    <2>1. /\ app = "running" /\ UNCHANGED <<v2, thread, fault>> /\ app' \in {"running", "stop"}
          /\ fault = "none"
      BY <1>6 DEF Wasapi!Stop
    <2>2. stm' \in {stm, Wasapi!Tell(stm, "stopped")}
      BY <1>6 DEF Wasapi!Stop
    <2>3. /\ v1' \in [{"o", "i"} -> {"none", "stopped", "running"}]
          /\ \A d \in {"o", "i"} : v1'[d] = "running" => v1[d] = "running"
          /\ \A d \in {"o", "i"} : v1'[d] = "none" => v1[d] = "none"
      BY <1>6 DEF Wasapi!Stop
    <2> QED BY <1>1, <2>1, <2>2, <2>3, WasapiTell
  <1>7. CASE Wasapi!SetShutdown
    <2>1. stm.bailout = FALSE
      BY <1>1, <1>7 DEF Wasapi!SetShutdown, Wasapi!Streams
    <2>2. fault = "none" /\ fault' = "none"
      BY <1>7, <2>1 DEF Wasapi!SetShutdown
    <2> QED
      BY <1>1, <1>7, <2>1, <2>2, WasapiSet DEF Wasapi!SetShutdown, Wasapi!Set, Wasapi!Handlers
  <1>8. CASE Wasapi!Join
    BY <1>1, <1>8, WasapiSet DEF Wasapi!Join, Wasapi!Handlers
  <1>9. CASE Wasapi!JoinTimesOut
    <2>1. /\ fault = "none" /\ app = "joining" /\ app' = "running"
          /\ UNCHANGED <<v1, v2, thread, fault>>
          /\ stm' = [Wasapi!Tell(stm, "error") EXCEPT !.bailout = FALSE]
      BY <1>9 DEF Wasapi!JoinTimesOut, Wasapi!BailsOut
    <2>2. /\ stm' \in Wasapi!Streams /\ stm'.kind = stm.kind /\ stm'.draining = stm.draining
          /\ ~stm'.bailout /\ stm'.freed = stm.freed /\ stm'.ready = stm.ready
      BY <2>1, WasapiTell DEF Wasapi!Streams
    <2> QED BY <1>1, <2>1, <2>2
  <1>10. CASE Wasapi!Destroy
    <2>1. fault = "none" /\ UNCHANGED <<thread, fault>>
      BY <1>10 DEF Wasapi!Destroy
    <2>2. CASE /\ app \in {"idle", "stopped"} /\ stm' = [stm EXCEPT !.freed = TRUE]
               /\ app' = "done" /\ v1' = Wasapi!Clients({}, {}) /\ UNCHANGED v2
      <3>1. /\ stm' \in Wasapi!Streams /\ stm'.kind = stm.kind /\ stm'.draining = stm.draining
            /\ stm'.bailout = stm.bailout
        BY <2>2 DEF Wasapi!Streams
      <3>2. /\ v1' \in [{"o", "i"} -> {"none", "stopped", "running"}]
            /\ \A d \in {"o", "i"} : v1'[d] = "none"
        BY <2>2, WasapiClients
      <3>3. thread.pc \in {"none", "done"}
        BY <1>1, <2>2
      <3> QED BY <1>1, <2>1, <2>2, <3>1, <3>2, <3>3
    <2>3. CASE app = "running" /\ Wasapi!Set("shutdown") /\ app' = "destroying" /\ UNCHANGED <<stm, v1>>
      <3>1. v2' \in [Wasapi!Handlers -> BOOLEAN]
        BY <2>3, WasapiSet DEF Wasapi!Set, Wasapi!Handlers
      <3> QED BY <1>1, <2>1, <2>3, <3>1
    <2> QED BY <1>10, <2>2, <2>3 DEF Wasapi!Destroy
  <1>11. CASE Wasapi!DestroyJoins
    <2>1. /\ fault = "none" /\ app = "destroying" /\ thread.pc = "done" /\ stm' = [stm EXCEPT !.freed = TRUE]
          /\ app' = "done" /\ v1' = Wasapi!Clients({}, {}) /\ UNCHANGED <<v2, thread, fault>>
      BY <1>11 DEF Wasapi!DestroyJoins
    <2>2. /\ stm' \in Wasapi!Streams /\ stm'.kind = stm.kind /\ stm'.draining = stm.draining
          /\ stm'.bailout = stm.bailout
      BY <2>1 DEF Wasapi!Streams
    <2>3. /\ v1' \in [{"o", "i"} -> {"none", "stopped", "running"}]
          /\ \A d \in {"o", "i"} : v1'[d] = "none"
      BY <2>1, WasapiClients
    <2> QED BY <1>1, <2>1, <2>2, <2>3
  <1>12. CASE Wasapi!DestroyTimesOut
    BY <1>1, <1>12 DEF Wasapi!DestroyTimesOut, Wasapi!BailsOut, Wasapi!Streams
  <1> QED
    BY <1>2, <1>3, <1>4, <1>5, <1>6, <1>7, <1>8, <1>9, <1>10, <1>11, <1>12
       DEF Wasapi!AppNext

\* Windows only sets events.
LEMMA WasapiSignal ==
  ASSUME CubebAssumption, Wasapi!IInv, Wasapi!Signal PROVE Wasapi!IInv'
  <1>1. UNCHANGED <<stm, v1, thread, app, fault>> /\ v2' \in [Wasapi!Handlers -> BOOLEAN]
    BY WasapiSet DEF Wasapi!Signal, Wasapi!Set, Wasapi!Handlers
  <1>2. Wasapi!TypeOK'
    BY <1>1, WasapiTypes DEF Wasapi!TypeOK
  <1> QED
    BY <1>1, <1>2 DEF Wasapi!IInv, Wasapi!ThreadFitsApp, Wasapi!SilentAfterLoop,
       Wasapi!LoopFits, Wasapi!FreedIsGone, Wasapi!FaultsAreKnown, Wasapi!NoCallbackAfterShort,
       Wasapi!Own, Wasapi!Present

\* What a step of the thread has to keep.
LEMMA WasapiThreadGoesOn ==
  ASSUME CubebAssumption, Wasapi!IInv, UNCHANGED app,
         thread.pc \notin {"none", "done"},
         stm' \in Wasapi!Streams, thread' \in Wasapi!Threads, fault' \in {"none", "draining", "setup"},
         v1' \in [{"o", "i"} -> {"none", "stopped", "running"}],
         v2' \in [Wasapi!Handlers -> BOOLEAN],
         stm'.kind = stm.kind, stm'.bailout = stm.bailout, stm'.freed = stm.freed,
         stm'.draining => stm.kind # "loopback",
         fault' = "draining" => stm.kind = "input" /\ stm'.draining,
         fault' = "setup" => ~stm'.ready,
         \/ ~stm'.ready
         \/ stm'.ready = stm.ready /\ \A d \in {"o", "i"} : v1'[d] = "none" => v1[d] = "none"
         \/ \A d \in Wasapi!Own : v1'[d] # "none",
         thread'.pc # "none", thread'.pc = "free" => stm.bailout,
         thread'.pc \in {"tail", "tell", "done"} => \A d \in {"o", "i"} : v1'[d] # "running",
         thread'.pc \notin {"timeout", "end", "tail", "tell", "free", "done"} =>
           thread'.count < TimeoutLimit,
         thread'.pc = "read" => stm.kind = "input",
         thread'.pc = "ask" => ~stm'.draining \/ fault' = "draining",
         thread'.pc = "call" => ~stm'.draining
  PROVE  Wasapi!IInv'
  <1>1. Wasapi!TypeOK'
    BY WasapiTypes DEF Wasapi!TypeOK
  <1>2. ~stm.freed /\ app \notin {"none", "idle", "stopped"}
    BY DEF Wasapi!IInv, Wasapi!FreedIsGone, Wasapi!ThreadFitsApp
  <1>3. Wasapi!ThreadFitsApp'
    BY <1>2 DEF Wasapi!IInv, Wasapi!ThreadFitsApp
  <1>6. Wasapi!Own' = Wasapi!Own /\ app # "none"
    BY <1>2 DEF Wasapi!Own
  <1>7. stm'.ready => \A d \in Wasapi!Own : v1'[d] # "none"
    BY <1>2, WasapiHas
  <1>4. Wasapi!SilentAfterLoop' /\ Wasapi!LoopFits' /\ Wasapi!NoCallbackAfterShort'
    BY <1>6, <1>7, WasapiHas DEF Wasapi!SilentAfterLoop, Wasapi!LoopFits,
       Wasapi!NoCallbackAfterShort, Wasapi!Present
  <1>5. Wasapi!FreedIsGone' /\ Wasapi!FaultsAreKnown'
    BY <1>2 DEF Wasapi!FreedIsGone, Wasapi!FaultsAreKnown
  <1> QED BY <1>1, <1>3, <1>4, <1>5 DEF Wasapi!IInv

\* Where the thread goes.
LEMMA WasapiGoto ==
  ASSUME CubebAssumption, Wasapi!IInv,
         NEW pc \in {"shutdown", "reconfigure", "refill", "input", "none", "head", "wait",
                     "timeout", "restart", "read", "ask", "call", "end", "tail", "tell", "free",
                     "done"},
         Wasapi!Goto(pc) \/ Wasapi!Fail(pc)
  PROVE  thread' \in Wasapi!Threads /\ thread'.pc = pc /\ thread'.count = thread.count
  BY WasapiTypes DEF Wasapi!Goto, Wasapi!Fail, Wasapi!Threads, Wasapi!Handlers

\* What becomes of a stream that lost a device.
LEMMA WasapiLost ==
  ASSUME CubebAssumption, Wasapi!IInv, NEW side \in {"o", "i"},
         NEW kept \in {"head", "ask", "read"}, NEW told \in {"head", "ask", "read", "end"},
         Wasapi!Lost(side, kept, told)
  PROVE  /\ stm' \in Wasapi!Streams /\ stm'.kind = stm.kind /\ stm'.bailout = stm.bailout
         /\ stm'.freed = stm.freed /\ stm'.draining = stm.draining /\ stm'.ready = stm.ready
         /\ v2' \in [Wasapi!Handlers -> BOOLEAN]
         /\ thread' \in Wasapi!Threads /\ thread'.pc \in {kept, told}
         /\ thread'.count = thread.count
  <1>1. CASE stm' = Wasapi!Tell(stm, "error") /\ Wasapi!Goto(told) /\ UNCHANGED v2
    BY <1>1, WasapiTypes, WasapiTell, WasapiGoto
  <1>2. CASE Wasapi!Set("reconfigure") /\ Wasapi!Goto(kept) /\ UNCHANGED stm
    <2>1. v2' \in [Wasapi!Handlers -> BOOLEAN]
      BY <1>2, WasapiSet DEF Wasapi!Set, Wasapi!Handlers
    <2> QED BY <1>2, <2>1, WasapiTypes, WasapiGoto
  <1> QED BY <1>1, <1>2, Zenon DEF Wasapi!Lost

\* Every step of the thread preserves the invariant.
LEMMA WasapiThreadStep ==
  ASSUME CubebAssumption, Wasapi!IInv, Wasapi!ThreadNext PROVE Wasapi!IInv'
  <1> USE WasapiTypes, WasapiThreadGoesOn, WasapiGoto, WasapiClients
  <1>1. /\ thread.pc \notin {"timeout", "end", "tail", "tell", "free", "done"} =>
             thread.count < TimeoutLimit
        /\ thread.pc = "read" => stm.kind = "input"
        /\ stm.draining => stm.kind # "loopback"
        /\ fault = "none" /\ (thread.pc = "ask" => ~stm.draining)
        /\ thread.pc = "call" => ~stm.draining
        /\ thread.pc = "free" => stm.bailout
    <2>1. fault = "none"
      BY DEF Wasapi!ThreadNext, Wasapi!At, Wasapi!BailOut, Wasapi!Free, Wasapi!Head, Wasapi!Wait,
         Wasapi!OnTimeout, Wasapi!OnShutdown, Wasapi!OnReconfigure, Wasapi!Restart,
         Wasapi!Missing, Wasapi!OnRefill, Wasapi!OnInput, Wasapi!Read, Wasapi!CallBack,
         Wasapi!Returns, Wasapi!End, Wasapi!Tail, Wasapi!TellFailed
    <2> QED
      BY <2>1 DEF Wasapi!IInv, Wasapi!LoopFits, Wasapi!NoCallbackAfterShort,
         Wasapi!ThreadFitsApp, Wasapi!TypeOK
  <1>2. CASE Wasapi!BailOut
    BY <1>1, <1>2 DEF Wasapi!BailOut, Wasapi!Handlers
  <1>4. CASE Wasapi!Head
    BY <1>1, <1>4 DEF Wasapi!Head, Wasapi!At
  <1>6. CASE Wasapi!OnTimeout
    BY <1>1, <1>6 DEF Wasapi!OnTimeout, Wasapi!At
  <1>7. CASE Wasapi!OnShutdown
    BY <1>1, <1>7, WasapiTell DEF Wasapi!OnShutdown, Wasapi!At
  <1>3. CASE Wasapi!Free
    <2>1. /\ thread.pc = "free" /\ stm' = [stm EXCEPT !.freed = TRUE] /\ v1' = Wasapi!Clients({}, {})
          /\ Wasapi!Goto("done") /\ UNCHANGED <<v2, app, fault>>
      BY <1>3 DEF Wasapi!Free, Wasapi!At
    <2>2. /\ stm' \in Wasapi!Streams /\ stm'.kind = stm.kind /\ stm'.draining = stm.draining
          /\ stm'.bailout = stm.bailout
      BY <2>1 DEF Wasapi!Streams
    <2>3. /\ v1' \in [{"o", "i"} -> {"none", "stopped", "running"}]
          /\ \A d \in {"o", "i"} : v1'[d] = "none"
      BY <2>1
    <2>4. thread' \in Wasapi!Threads /\ thread'.pc = "done"
      BY <2>1
    <2>5. app = "done"
      BY <1>1, <2>1 DEF Wasapi!IInv, Wasapi!ThreadFitsApp
    <2>6. Wasapi!TypeOK' /\ stm'.freed
      BY <2>1, <2>2, <2>3, <2>4 DEF Wasapi!TypeOK, Wasapi!Streams
    <2> QED
      BY <1>1, <2>1, <2>2, <2>3, <2>4, <2>5, <2>6 DEF Wasapi!Present, Wasapi!IInv, Wasapi!ThreadFitsApp,
         Wasapi!SilentAfterLoop, Wasapi!LoopFits, Wasapi!FreedIsGone, Wasapi!FaultsAreKnown,
         Wasapi!NoCallbackAfterShort
  <1>5. CASE Wasapi!Wait
    <2>1. thread.pc = "wait" /\ UNCHANGED <<stm, v1, app, fault>>
      BY <1>5 DEF Wasapi!Wait, Wasapi!At
    <2>2. thread.count < TimeoutLimit /\ thread.count + 1 \in 0..TimeoutLimit
      BY <1>1, <2>1
    <2>3. CASE thread' = [thread EXCEPT !.pc = "timeout", !.count = @ + 1] /\ UNCHANGED v2
      <3>1. thread' \in Wasapi!Threads /\ thread'.pc = "timeout"
        BY <2>2, <2>3 DEF Wasapi!Threads
      <3> QED BY <1>1, <2>1, <2>3, <3>1
    <2>4. CASE \E e \in Wasapi!Handlers : /\ thread' = [thread EXCEPT !.pc = e, !.count = 0]
                                        /\ v2' = [v2 EXCEPT ![e] = FALSE]
      <3>1. PICK e \in Wasapi!Handlers : /\ thread' = [thread EXCEPT !.pc = e, !.count = 0]
                                         /\ v2' = [v2 EXCEPT ![e] = FALSE]
        BY <2>4
      <3>2. thread' \in Wasapi!Threads /\ thread'.pc = e /\ thread'.count = 0
        <4>1. TimeoutLimit \in Nat /\ 0 \in 0..TimeoutLimit
          OBVIOUS
        <4> QED BY <3>1, <4>1 DEF Wasapi!Threads
      <3>3. v2' \in [Wasapi!Handlers -> BOOLEAN]
        BY <3>1, WasapiSet
      <3>4. e \in {"shutdown", "reconfigure", "refill", "input"}
        BY DEF Wasapi!Handlers
      <3> QED BY <1>1, <2>1, <3>2, <3>3, <3>4
    <2>5. Wasapi!First \in Wasapi!Handlers \cup {"timeout"}
      BY DEF Wasapi!First, Wasapi!Handlers
    <2> QED BY <1>5, <2>3, <2>4, <2>5 DEF Wasapi!Wait
  <1>8. CASE Wasapi!OnReconfigure
    <2>1. thread.pc = "reconfigure" /\ UNCHANGED <<v2, app, fault>>
      BY <1>8 DEF Wasapi!OnReconfigure, Wasapi!At
    <2>2. CASE /\ v1' = Wasapi!Clients({}, Wasapi!Own) /\ Wasapi!Goto("restart")
               /\ stm' = [stm EXCEPT !.ready = TRUE]
      <3>1. /\ v1' \in [{"o", "i"} -> {"none", "stopped", "running"}]
            /\ \A d \in Wasapi!Own : v1'[d] # "none"
        BY <2>2, WasapiHas
      <3>2. /\ stm' \in Wasapi!Streams /\ stm'.kind = stm.kind /\ stm'.draining = stm.draining
            /\ stm'.bailout = stm.bailout /\ stm'.freed = stm.freed
        BY <2>2 DEF Wasapi!Streams
      <3>3. thread' \in Wasapi!Threads /\ thread'.pc = "restart" /\ thread'.count = thread.count
        BY <2>2
      <3> QED BY <1>1, <2>1, <3>1, <3>2, <3>3
    <2>3. CASE Wasapi!SetupFails /\ Wasapi!Fail("end")
      <3>1. v1' \in [{"o", "i"} -> {"none", "stopped", "running"}]
        BY <2>3 DEF Wasapi!SetupFails
      <3>2. /\ stm' \in Wasapi!Streams /\ stm'.kind = stm.kind /\ stm'.draining = stm.draining
            /\ stm'.bailout = stm.bailout /\ stm'.freed = stm.freed /\ ~stm'.ready
        BY <2>3 DEF Wasapi!Streams, Wasapi!SetupFails
      <3>3. thread' \in Wasapi!Threads /\ thread'.pc = "end" /\ thread'.count = thread.count
        BY <2>3
      <3> QED BY <1>1, <2>1, <3>1, <3>2, <3>3
    <2> QED BY <1>8, <2>2, <2>3 DEF Wasapi!OnReconfigure
  <1>18. CASE Wasapi!Missing
    <2>1. /\ thread.pc \in {"refill", "input", "read"} /\ ~stm.ready /\ fault' = "setup"
          /\ UNCHANGED <<stm, v1, v2, thread, app>>
      BY <1>18 DEF Wasapi!Missing, Wasapi!At
    <2> QED BY <1>1, <2>1
  <1>9. CASE Wasapi!Restart
    <2>1. thread.pc = "restart" /\ UNCHANGED <<stm, v2, app, fault>>
      BY <1>9 DEF Wasapi!Restart, Wasapi!At
    <2>2. \E pc \in {"head", "end"} : Wasapi!Goto(pc) \/ Wasapi!Fail(pc)
      BY <1>9 DEF Wasapi!Restart
    <2>3. thread' \in Wasapi!Threads /\ thread'.pc \in {"head", "end"}
          /\ thread'.count = thread.count
      BY <2>2
    <2>4. /\ v1' \in [{"o", "i"} -> {"none", "stopped", "running"}]
          /\ \A d \in Wasapi!Own : v1'[d] # "none"
      <3>1. CASE v1' = Wasapi!Clients(Wasapi!Own, {})
        BY <3>1, WasapiHas
      <3>2. CASE \E run \in SUBSET Wasapi!Own : v1' = Wasapi!Clients(run, Wasapi!Own)
        BY <3>2, WasapiHas
      <3> QED BY <1>9, <3>1, <3>2, Zenon DEF Wasapi!Restart
    <2> QED BY <1>1, <2>1, <2>3, <2>4
  <1>10. CASE Wasapi!OnRefill
    <2>1. thread.pc = "refill" /\ UNCHANGED <<v1, app, fault>>
      BY <1>10 DEF Wasapi!OnRefill, Wasapi!At
    <2>2. CASE Wasapi!Lost("o", "head", "end")
      BY <1>1, <2>1, <2>2, WasapiLost
    <2>3. CASE \/ Wasapi!Goto("end") /\ UNCHANGED <<stm, v2>>
               \/ \E pc \in {"head", "ask"} : ~stm.draining /\ Wasapi!Goto(pc) /\ UNCHANGED <<stm, v2>>
               \/ Wasapi!Goto("head") /\ UNCHANGED <<stm, v2>>
      BY <1>1, <2>1, <2>3
    <2>4. CASE stm' = Wasapi!Tell(stm, "drained") /\ Wasapi!Goto("end") /\ UNCHANGED v2
      BY <1>1, <2>1, <2>4, WasapiTell
    <2>5. CASE stm.kind = "loopback" /\ Wasapi!Lost("i", "ask", "ask")
      BY <1>1, <2>1, <2>5, WasapiLost
    <2> QED
      BY <1>10, <2>2, <2>3, <2>4, <2>5, Zenon DEF Wasapi!OnRefill, Wasapi!Drains
  <1>11. CASE Wasapi!OnInput
    <2>1. thread.pc = "input" /\ UNCHANGED <<v1, app, fault>>
      BY <1>11 DEF Wasapi!OnInput, Wasapi!At
    <2>2. /\ Wasapi!AfterInput \in {"head", "read"}
          /\ Wasapi!AfterInput = "read" => stm.kind = "input"
      BY DEF Wasapi!AfterInput, Wasapi!HasOutput, Wasapi!Own, Wasapi!Streams
    <2>3. CASE Wasapi!Goto(Wasapi!AfterInput) /\ UNCHANGED <<stm, v2>>
      BY <1>1, <2>1, <2>2, <2>3
    <2>4. CASE Wasapi!Lost("i", Wasapi!AfterInput, Wasapi!AfterInput)
      <3>1. /\ stm' \in Wasapi!Streams /\ stm'.kind = stm.kind /\ stm'.bailout = stm.bailout
            /\ stm'.freed = stm.freed /\ stm'.draining = stm.draining /\ stm'.ready = stm.ready
            /\ v2' \in [Wasapi!Handlers -> BOOLEAN]
            /\ thread' \in Wasapi!Threads /\ thread'.pc = Wasapi!AfterInput
            /\ thread'.count = thread.count
        BY <2>2, <2>4, WasapiLost
      <3> QED BY <1>1, <2>1, <2>2, <3>1
    <2> QED BY <1>11, <2>3, <2>4, Zenon DEF Wasapi!OnInput
  <1>12. CASE Wasapi!Read
    <2>1. thread.pc = "read" /\ fault = "none" /\ UNCHANGED <<v1, app>>
      BY <1>12 DEF Wasapi!Read, Wasapi!At
    <2>2. CASE Wasapi!Lost("i", "head", "end") /\ UNCHANGED fault
      BY <1>1, <2>1, <2>2, WasapiLost
    <2>3. CASE \E pc \in {"end", "head"} : Wasapi!Goto(pc) /\ UNCHANGED <<stm, v2, fault>>
      BY <1>1, <2>1, <2>3
    <2>4. CASE /\ Wasapi!Goto("ask") /\ UNCHANGED <<stm, v2>>
               /\ fault' = IF stm.draining THEN "draining" ELSE "none"
      <3>1. stm.draining \in BOOLEAN
        BY DEF Wasapi!Streams
      <3>2. thread' \in Wasapi!Threads /\ thread'.pc = "ask" /\ thread'.count = thread.count
        BY <2>4
      <3> QED BY <1>1, <2>1, <2>4, <3>1, <3>2
    <2> QED BY <1>12, <2>2, <2>3, <2>4 DEF Wasapi!Read
  <1>13. CASE Wasapi!CallBack
    BY <1>1, <1>13 DEF Wasapi!CallBack, Wasapi!Ask, Wasapi!At
  <1>14. CASE Wasapi!Returns
    BY <1>1, <1>14, WasapiTell, ZenonT(60) DEF Wasapi!Returns, Wasapi!At, Wasapi!Streams
  <1>15. CASE Wasapi!End
    BY <1>1, <1>15 DEF Wasapi!End, Wasapi!At, Wasapi!Silenced
  <1>16. CASE Wasapi!Tail
    BY <1>1, <1>16 DEF Wasapi!Tail, Wasapi!At, Wasapi!IInv, Wasapi!SilentAfterLoop, Wasapi!ThreadFitsApp
  <1>17. CASE Wasapi!TellFailed
    <2>1. /\ thread.pc = "tell" /\ UNCHANGED <<v1, v2, app, fault>>
          /\ stm' = stm \/ stm' = Wasapi!Tell(stm, "error")
          /\ thread' = [pc |-> "done", count |-> 0, failed |-> FALSE]
      BY <1>17 DEF Wasapi!TellFailed, Wasapi!At
    <2>2. thread' \in Wasapi!Threads /\ thread'.pc = "done"
      BY <2>1 DEF Wasapi!Threads
    <2>3. \A d \in {"o", "i"} : v1[d] # "running"
      BY <2>1 DEF Wasapi!IInv, Wasapi!SilentAfterLoop, Wasapi!ThreadFitsApp
    <2> QED
      BY <1>1, <2>1, <2>2, <2>3, WasapiTell
  <1> QED
    BY <1>2, <1>3, <1>4, <1>5, <1>6, <1>7, <1>8, <1>9, <1>10, <1>11, <1>12, <1>13, <1>14, <1>15,
       <1>16, <1>17, <1>18 DEF Wasapi!ThreadNext

\* Every step preserves the invariant.
LEMMA WasapiStep ==
  ASSUME CubebAssumption, Wasapi!IInv, Wasapi!Next PROVE Wasapi!IInv'
  BY WasapiAppStep, WasapiSignal, WasapiThreadStep DEF Wasapi!Next

\* So does a step that changes nothing of the stream.
LEMMA WasapiStutter ==
  ASSUME Wasapi!IInv, UNCHANGED <<stm, v1, v2, thread, app, fault>> PROVE Wasapi!IInv'
  BY DEF Wasapi!IInv, Wasapi!TypeOK, Wasapi!ThreadFitsApp, Wasapi!SilentAfterLoop,
     Wasapi!LoopFits, Wasapi!FreedIsGone, Wasapi!FaultsAreKnown, Wasapi!NoCallbackAfterShort,
     Wasapi!Own, Wasapi!Present

\* What the invariant says of the properties.
LEMMA WasapiSafe ==
  ASSUME Wasapi!IInv
  PROVE  /\ Wasapi!TypeOK /\ Wasapi!StopQuiesces /\ Wasapi!FaultsAreKnown
         /\ Wasapi!FreedIsGone /\ Wasapi!NoCallbackAfterShort
  BY DEF Wasapi!IInv, Wasapi!ThreadFitsApp, Wasapi!SilentAfterLoop, Wasapi!StopQuiesces

\* A callback begins at "ask", which a stream that was given up never passes.
LEMMA WasapiAfterDestroy ==
  ASSUME CubebAssumption, Wasapi!IInv, Wasapi!Next PROVE Wasapi!AfterDestroy
  <1> SUFFICES ASSUME thread'.pc = "call", thread.pc # "call" PROVE app # "done"
    BY DEF Wasapi!AfterDestroy
  <1> USE WasapiTypes
  <1>1. app = "done" => stm.bailout \/ thread.pc \in {"none", "done"}
    BY DEF Wasapi!IInv, Wasapi!ThreadFitsApp
  <1>2. CASE Wasapi!AppNext
    <2>1. thread' = thread \/ thread'.pc = "head"
      <3>1. CASE Wasapi!Start
        BY <3>1 DEF Wasapi!Start
      <3>2. CASE Wasapi!StreamInit \/ Wasapi!StartFails \/ Wasapi!TellStarted
        BY <3>2 DEF Wasapi!StreamInit, Wasapi!StartFails, Wasapi!TellStarted
      <3>3. CASE Wasapi!Stop \/ Wasapi!SetShutdown \/ Wasapi!Join \/ Wasapi!JoinTimesOut
        BY <3>3 DEF Wasapi!Stop, Wasapi!SetShutdown, Wasapi!Join, Wasapi!JoinTimesOut
      <3>4. CASE Wasapi!Destroy \/ Wasapi!DestroyJoins \/ Wasapi!DestroyTimesOut
        BY <3>4 DEF Wasapi!Destroy, Wasapi!DestroyJoins, Wasapi!DestroyTimesOut
      <3> QED BY <1>2, <3>1, <3>2, <3>3, <3>4 DEF Wasapi!AppNext
    <2> QED BY <2>1
  <1>3. CASE Wasapi!Signal
    BY <1>3 DEF Wasapi!Signal
  <1>4. CASE Wasapi!ThreadNext
    <2>1. CASE Wasapi!CallBack
      BY <1>1, <2>1, WasapiGoto DEF Wasapi!CallBack, Wasapi!Ask, Wasapi!At
    <2>2. CASE Wasapi!BailOut \/ Wasapi!Free \/ Wasapi!Head \/ Wasapi!OnTimeout
               \/ Wasapi!OnShutdown \/ Wasapi!OnReconfigure \/ Wasapi!Restart \/ Wasapi!Missing
      BY <2>2, WasapiGoto DEF Wasapi!BailOut, Wasapi!Free, Wasapi!Head, Wasapi!OnTimeout,
         Wasapi!OnShutdown, Wasapi!OnReconfigure, Wasapi!Restart, Wasapi!Missing
    <2>3. CASE Wasapi!OnRefill \/ Wasapi!OnInput \/ Wasapi!Read \/ Wasapi!Returns
      BY <2>3, WasapiGoto DEF Wasapi!OnRefill, Wasapi!OnInput, Wasapi!Read, Wasapi!Returns,
         Wasapi!Lost, Wasapi!AfterInput, Wasapi!Drains
    <2>4. CASE Wasapi!End \/ Wasapi!Tail \/ Wasapi!TellFailed
      BY <2>4, WasapiGoto DEF Wasapi!End, Wasapi!Tail, Wasapi!TellFailed
    <2>5. CASE Wasapi!Wait
      BY <2>5 DEF Wasapi!Wait, Wasapi!First, Wasapi!Threads
    <2> QED BY <1>4, <2>1, <2>2, <2>3, <2>4, <2>5 DEF Wasapi!ThreadNext
  <1> QED BY <1>2, <1>3, <1>4 DEF Wasapi!Next

----------------------------------------------------------------------------
(* The JACK backend *)

\* The table starts as the invariant says.
LEMMA JackInit ==
  ASSUME CubebAssumption, Jack!Init PROVE Jack!IInv
  <1>1. MAX_STREAMS \in Nat \ {0} /\ MaxOpens \in Nat
    BY DEF CubebAssumption, Jack!JackAssumption
  <1>2. /\ stm = [j \in Jack!Slots |->
                   [in_use |-> FALSE, ports_ready |-> FALSE, pause |-> FALSE, mutex |-> "free",
                    ports |-> FALSE, resampler |-> FALSE, started |-> FALSE, ended |-> FALSE,
                    late |-> 0]]
        /\ thread = [pc |-> "scan", at |-> 1]
        /\ app = [u \in Users |-> [pc |-> "none", at |-> 0]]
        /\ v1 = 0 /\ fault = "nothing"
    BY DEF Jack!Init, Jack!NoSlot
  <1>3. Jack!TypeOK
    <2>1. stm \in [Jack!Slots -> Jack!Streams]
      BY <1>2 DEF Jack!Streams
    <2>2. thread \in Jack!Places
      BY <1>1, <1>2 DEF Jack!Places, Jack!Slots
    <2>3. app \in [Users -> Jack!Holders]
      BY <1>2 DEF Jack!Holders, Jack!NoSlot
    <2> QED
      BY <1>1, <1>2, <2>1, <2>2, <2>3 DEF Jack!TypeOK
  <1> QED
    BY <1>1, <1>2, <1>3 DEF Jack!IInv, Jack!SlotsAgree, Jack!SlotFits, Jack!AtMostOneLate,
       Jack!LateFits, Jack!CallHasMutex, Jack!FaultsAreKnown, Jack!NoSlot

\* What the invariant says of the types.
LEMMA JackTypes ==
  ASSUME CubebAssumption, Jack!IInv
  PROVE  /\ MAX_STREAMS \in Nat \ {0} /\ MaxOpens \in Nat /\ v1 \in 0..MaxOpens
         /\ stm \in [Jack!Slots -> Jack!Streams] /\ thread \in Jack!Places
         /\ app \in [Users -> Jack!Holders]
         /\ fault \in {"nothing", "ports", "resampler"}
  BY DEF CubebAssumption, Jack!JackAssumption, Jack!IInv, Jack!TypeOK

\* What a step of a user has to keep: it changes its own slot, or takes one
\* that is nobody's.
JackKeeps(u, j, r, h) ==
  /\ app[u].at = j \/ (\A w \in Users : app[w].at # j)
  /\ h.at \in {j, Jack!NoSlot} /\ (h.at = Jack!NoSlot <=> h.pc = "none")
  /\ h.at = j => r.in_use /\ app[u].at \in {j, Jack!NoSlot}
  /\ h.at = Jack!NoSlot => app[u].at = j /\ ~r.ports /\ ~r.resampler
  /\ h.pc \in {"open", "ready", "destroy", "unported"} => r.mutex = "user"
  /\ h.pc \in {"opening", "open"} => ~r.ports /\ ~r.resampler
  /\ h.pc \in {"ready", "stopped", "live", "undo", "destroy"} => r.ports /\ r.resampler
  /\ h.pc = "unported" => ~r.ports
  /\ h.pc \in {"open", "ready"} => r.late = 0 /\ ~r.started
  /\ h.pc = "stopped" => r.pause
  /\ h.pc = "live" => r.started \/ r.pause
  /\ h.pc \in {"open", "undo"} => ~r.ports_ready
  /\ r.late = 0 \/ r.late = stm[j].late
  /\ r.started => r.late = 0
  /\ r.late = 1 => (stm[j].pause => r.pause) /\ (r.ports_ready => stm[j].ports_ready)
  /\ \/ stm[j].mutex # "process"
     \/ r.mutex = stm[j].mutex /\ r.resampler = stm[j].resampler

\* A step that keeps this preserves the invariant.
LEMMA JackUserGoesOn ==
  ASSUME CubebAssumption, Jack!IInv, NEW u \in Users, NEW j \in Jack!Slots,
         NEW r \in Jack!Streams, NEW h \in Jack!Holders,
         stm' = [stm EXCEPT ![j] = r], app' = [app EXCEPT ![u] = h],
         UNCHANGED <<thread, fault>>, fault = "nothing", v1' \in 0..MaxOpens,
         JackKeeps(u, j, r, h)
  PROVE  Jack!IInv'
  <1> USE JackTypes DEF JackKeeps
  <1>1. /\ stm'[j] = r /\ \A i \in Jack!Slots : i # j => stm'[i] = stm[i]
        /\ app'[u] = h /\ \A w \in Users : w # u => app'[w] = app[w]
    OBVIOUS
  <1>2. j # Jack!NoSlot
    BY DEF Jack!Slots, Jack!NoSlot
  <1>3. Jack!TypeOK'
    <2>1. stm' \in [Jack!Slots -> Jack!Streams] /\ app' \in [Users -> Jack!Holders]
      OBVIOUS
    <2> QED BY <2>1 DEF Jack!TypeOK
  <1>4. /\ \A w \in Users : w # u => app[w].at # j
        /\ \A w \in Users : app[w].at \in Jack!Slots \cup {Jack!NoSlot}
    BY <1>2 DEF Jack!IInv, Jack!SlotsAgree, Jack!Holders
  <1>5. Jack!SlotsAgree'
    <2>1. \A w, x \in Users : w # x /\ app'[w].at # Jack!NoSlot => app'[w].at # app'[x].at
      BY <1>1, <1>2, <1>4 DEF Jack!IInv, Jack!SlotsAgree
    <2>2. \A w \in Users : app'[w].at # Jack!NoSlot => stm'[app'[w].at].in_use
      BY <1>1, <1>2, <1>4 DEF Jack!IInv, Jack!SlotsAgree
    <2>3. \A i \in Jack!Slots : (\A w \in Users : app'[w].at # i) /\ stm'[i].in_use => ~stm'[i].ports
      <3>1. SUFFICES ASSUME NEW i \in Jack!Slots, \A w \in Users : app'[w].at # i, stm'[i].in_use
                     PROVE  ~stm'[i].ports
        OBVIOUS
      <3>2. CASE i = j
        BY <1>1, <3>1, <3>2
      <3>3. CASE i # j
        <4>1. \A w \in Users : app[w].at # i
          BY <1>1, <1>2, <1>4, <3>1, <3>3 DEF Jack!NoSlot, Jack!Slots
        <4> QED BY <1>1, <3>1, <3>3, <4>1 DEF Jack!IInv, Jack!SlotsAgree
      <3> QED BY <3>2, <3>3
    <2> QED BY <2>1, <2>2, <2>3 DEF Jack!SlotsAgree, Jack!NoSlot
  <1>6. Jack!SlotFits'
    <2>1. ASSUME NEW w \in Users
          PROVE  /\ app'[w].at = Jack!NoSlot <=> app'[w].pc = "none"
                 /\ app'[w].pc \in {"open", "ready", "destroy", "unported"} =>
                      stm'[app'[w].at].mutex = "user"
                 /\ app'[w].pc \in {"opening", "open"} =>
                      ~stm'[app'[w].at].ports /\ ~stm'[app'[w].at].resampler
                 /\ app'[w].pc \in {"ready", "stopped", "live", "undo", "destroy"} =>
                      stm'[app'[w].at].ports /\ stm'[app'[w].at].resampler
                 /\ app'[w].pc = "unported" => ~stm'[app'[w].at].ports
                 /\ app'[w].pc \in {"open", "ready"} =>
                      stm'[app'[w].at].late = 0 /\ ~stm'[app'[w].at].started
                 /\ app'[w].pc = "stopped" => stm'[app'[w].at].pause
                 /\ app'[w].pc = "live" => stm'[app'[w].at].started \/ stm'[app'[w].at].pause
                 /\ app'[w].pc \in {"open", "undo"} => ~stm'[app'[w].at].ports_ready
      <3>1. CASE w = u
        BY <1>1, <1>2, <3>1
      <3>2. CASE w # u
        <4>1. app'[w] = app[w] /\ (app[w].at \in Jack!Slots => stm'[app[w].at] = stm[app[w].at])
          BY <1>1, <1>4, <3>2
        <4>2. app[w].pc # "none" => app[w].at \in Jack!Slots
          BY <1>4 DEF Jack!IInv, Jack!SlotFits
        <4> QED BY <4>1, <4>2 DEF Jack!IInv, Jack!SlotFits
      <3> QED BY <3>1, <3>2
    <2>2. ASSUME NEW i \in Jack!Slots, \A w \in Users : app'[w].at # i
          PROVE  ~stm'[i].ports /\ ~stm'[i].resampler
      <3>2. CASE i = j
        BY <1>1, <2>2, <3>2
      <3>3. CASE i # j
        <4>1. \A w \in Users : app[w].at # i
          BY <1>1, <1>2, <1>4, <2>2, <3>3 DEF Jack!NoSlot, Jack!Slots
        <4> QED BY <1>1, <2>2, <3>3, <4>1 DEF Jack!IInv, Jack!SlotFits
      <3> QED BY <3>2, <3>3
    <2> QED BY <2>1, <2>2 DEF Jack!SlotFits, Jack!NoSlot
  <1>7. Jack!AtMostOneLate' /\ Jack!LateFits'
    BY <1>1 DEF Jack!IInv, Jack!AtMostOneLate, Jack!LateFits, Jack!Streams
  <1>8. Jack!CallHasMutex'
    BY <1>1 DEF Jack!IInv, Jack!CallHasMutex, Jack!Places
  <1>9. Jack!FaultsAreKnown'
    BY DEF Jack!FaultsAreKnown
  <1> QED BY <1>3, <1>5, <1>6, <1>7, <1>8, <1>9 DEF Jack!IInv

\* A user that goes to another place of its slot.
LEMMA JackGoes ==
  ASSUME CubebAssumption, Jack!IInv, NEW u \in Users, app[u].pc # "none",
         NEW pc \in {"opening", "open", "ready", "live", "stopped", "undo", "destroy",
                  "unported"},
         Jack!Goes(u, pc)
  PROVE  /\ app[u].at \in Jack!Slots /\ stm[app[u].at] \in Jack!Streams
         /\ stm[app[u].at].in_use /\ app[u].at # Jack!NoSlot
         /\ \E h \in Jack!Holders : /\ app' = [app EXCEPT ![u] = h]
                                    /\ h.pc = pc /\ h.at = app[u].at
  <1> USE JackTypes
  <1>1. app[u] \in Jack!Holders /\ app[u].at # Jack!NoSlot
    BY DEF Jack!IInv, Jack!SlotFits
  <1>2. app[u].at \in Jack!Slots /\ stm[app[u].at].in_use
    BY <1>1 DEF Jack!Holders, Jack!IInv, Jack!SlotsAgree
  <1>3. [app[u] EXCEPT !.pc = pc] \in Jack!Holders
    BY <1>1 DEF Jack!Holders
  <1>4. app' = [app EXCEPT ![u] = [app[u] EXCEPT !.pc = pc]]
    BY DEF Jack!Goes
  <1> QED BY <1>1, <1>2, <1>3, <1>4 DEF Jack!Holders

\* A user that has given its slot back.
LEMMA JackLeaves ==
  ASSUME CubebAssumption, Jack!IInv, NEW u \in Users, app[u].pc # "none"
  PROVE  /\ app[u].at \in Jack!Slots /\ stm[app[u].at] \in Jack!Streams
         /\ app[u].at # Jack!NoSlot
         /\ [pc |-> "none", at |-> Jack!NoSlot] \in Jack!Holders
  BY JackTypes DEF Jack!IInv, Jack!SlotFits, Jack!Holders

\* Every step of a user preserves the invariant.
LEMMA JackUserStep ==
  ASSUME CubebAssumption, Jack!IInv, NEW u \in Users,
         \/ Jack!Alloc(u) \/ Jack!Open(u) \/ Jack!OpenFails(u) \/ Jack!OpenPorts(u)
         \/ Jack!OpenEnds(u) \/ Jack!Start(u) \/ Jack!Stop(u) \/ Jack!Destroy(u)
         \/ Jack!Unregister(u) \/ Jack!DestroyEnds(u)
  PROVE  Jack!IInv'
  <1> DEFINE j == app[u].at
  <1> USE JackTypes
  <1>0. /\ app[u].pc \in {"open", "ready", "destroy", "unported"} => stm[j].mutex = "user"
        /\ app[u].pc \in {"ready", "stopped", "live", "undo", "destroy"} =>
             stm[j].ports /\ stm[j].resampler
        /\ app[u].pc = "unported" => ~stm[j].ports
        /\ app[u].pc \in {"opening", "open"} => ~stm[j].ports /\ ~stm[j].resampler
        /\ app[u].pc \in {"open", "ready"} => stm[j].late = 0 /\ ~stm[j].started
        /\ app[u].pc = "stopped" => stm[j].pause
        /\ app[u].pc = "live" => stm[j].started \/ stm[j].pause
        /\ app[u].pc \in {"open", "undo"} => ~stm[j].ports_ready
    BY DEF Jack!IInv, Jack!SlotFits
  <1>1. ASSUME j \in Jack!Slots PROVE stm[j].started => stm[j].late = 0
    BY <1>1 DEF Jack!IInv, Jack!LateFits
  <1>2. CASE Jack!Alloc(u)
    <2>1. /\ app[u].pc = "none" /\ v1' = v1 + 1 /\ v1 < MaxOpens /\ UNCHANGED <<thread, fault>>
          /\ fault = "nothing"
      BY <1>2 DEF Jack!Alloc
    <2>2. PICK i \in Jack!FreeSlots : /\ stm' = [stm EXCEPT ![i].in_use = TRUE]
                                      /\ app' = [app EXCEPT ![u] = [pc |-> "opening", at |-> i]]
      BY <1>2 DEF Jack!Alloc
    <2>3. i \in Jack!Slots /\ ~stm[i].in_use
      BY DEF Jack!FreeSlots
    <2>4. i # Jack!NoSlot
      BY <2>3 DEF Jack!Slots, Jack!NoSlot
    <2>5. \A w \in Users : app[w].at # i
      BY <2>3, <2>4 DEF Jack!IInv, Jack!SlotsAgree
    <2>6. ~stm[i].ports /\ ~stm[i].resampler
      BY <2>3, <2>5 DEF Jack!IInv, Jack!SlotFits
    <2> DEFINE r == [stm[i] EXCEPT !.in_use = TRUE]
               h == [pc |-> "opening", at |-> i]
    <2>7. /\ r \in Jack!Streams /\ r.in_use /\ r.ports = stm[i].ports /\ r.late = stm[i].late
          /\ r.resampler = stm[i].resampler /\ r.started = stm[i].started
          /\ r.pause = stm[i].pause /\ r.mutex = stm[i].mutex
          /\ r.ports_ready = stm[i].ports_ready
      BY <2>3 DEF Jack!Streams
    <2>8. h \in Jack!Holders /\ h.pc = "opening" /\ h.at = i
      BY <2>3 DEF Jack!Holders
    <2>9. v1' \in 0..MaxOpens
      BY <2>1
    <2>10. stm[i].started => stm[i].late = 0
      BY <2>3 DEF Jack!IInv, Jack!LateFits
    <2>11. app[u].at = Jack!NoSlot
      BY <2>1 DEF Jack!IInv, Jack!SlotFits
    <2>12. stm' = [stm EXCEPT ![i] = r] /\ app' = [app EXCEPT ![u] = h]
      BY <2>2
    <2> HIDE DEF r, h
    <2>20. JackKeeps(u, i, r, h)
      BY <2>1, <2>3, <2>4, <2>5, <2>6, <2>7, <2>8, <2>9, <2>10, <2>11, <2>12 DEF JackKeeps
    <2> QED BY <2>1, <2>3, <2>4, <2>5, <2>6, <2>7, <2>8, <2>9, <2>10, <2>11, <2>12, <2>20, JackUserGoesOn
  <1>3. CASE Jack!Open(u)
    <2>1. /\ fault = "nothing" /\ app[u].pc = "opening" /\ stm[j].mutex = "free" /\ Jack!Goes(u, "open")
          /\ UNCHANGED <<thread, v1, fault>>
      BY <1>3 DEF Jack!Open
    <2>2. PICK h \in Jack!Holders : app' = [app EXCEPT ![u] = h] /\ h.pc = "open" /\ h.at = j
      BY <2>1, JackGoes
    <2>3. j \in Jack!Slots /\ stm[j] \in Jack!Streams /\ stm[j].in_use /\ j # Jack!NoSlot
      BY <2>1, JackGoes
    <2> DEFINE r == [stm[j] EXCEPT !.mutex = "user", !.ports_ready = FALSE, !.started = FALSE,
                                   !.ended = FALSE, !.late = 0]
    <2>4. /\ r \in Jack!Streams /\ r.in_use /\ r.ports = stm[j].ports /\ r.late = 0
          /\ r.resampler = stm[j].resampler /\ ~r.started /\ r.mutex = "user" /\ ~r.ports_ready
      <3>1. 0 \in 0..2
        OBVIOUS
      <3> HIDE DEF j
      <3> QED BY <2>3, <3>1 DEF Jack!Streams
    <2>5. stm' = [stm EXCEPT ![j] = r]
      BY <1>3 DEF Jack!Open
    <2> HIDE DEF r
    <2>20. JackKeeps(u, j, r, h)
      BY <1>0, <2>1, <2>2, <2>3, <2>4, <2>5 DEF JackKeeps
    <2> QED BY <2>1, <2>2, <2>3, <2>4, <2>5, <2>20, JackUserGoesOn
  <1>4. CASE Jack!OpenFails(u)
    <2>1. fault = "nothing" /\ app[u].pc = "open" /\ UNCHANGED <<thread, v1, fault>>
      BY <1>4 DEF Jack!OpenFails
    <2>2. /\ j \in Jack!Slots /\ stm[j] \in Jack!Streams /\ j # Jack!NoSlot
          /\ [pc |-> "none", at |-> Jack!NoSlot] \in Jack!Holders
      BY <2>1, JackLeaves
    <2>3. CASE /\ \/ stm' = [stm EXCEPT ![j].mutex = "free"]
                  \/ stm' = [stm EXCEPT ![j].mutex = "free", ![j].in_use = FALSE]
               /\ app' = [app EXCEPT ![u] = [pc |-> "none", at |-> Jack!NoSlot]]
      <3> DEFINE h == [pc |-> "none", at |-> Jack!NoSlot]
      <3>1. \E b \in BOOLEAN : stm' = [stm EXCEPT ![j] = [stm[j] EXCEPT !.mutex = "free", !.in_use = b]]
        <4>1. CASE stm' = [stm EXCEPT ![j].mutex = "free"]
          <5>1. [stm[j] EXCEPT !.mutex = "free"] = [stm[j] EXCEPT !.mutex = "free", !.in_use = stm[j].in_use]
            BY <2>2 DEF Jack!Streams
          <5>2. stm[j].in_use \in BOOLEAN
            BY <2>2 DEF Jack!Streams
          <5>3. stm' = [stm EXCEPT ![j] = [stm[j] EXCEPT !.mutex = "free"]]
            BY <4>1
          <5> QED BY <5>1, <5>2, <5>3
        <4>2. CASE stm' = [stm EXCEPT ![j].mutex = "free", ![j].in_use = FALSE]
          <5>1. stm' = [stm EXCEPT ![j] = [stm[j] EXCEPT !.mutex = "free", !.in_use = FALSE]]
            BY <2>2, <4>2
          <5> QED BY <5>1
        <4> QED BY <2>3, <4>1, <4>2
      <3>2. PICK r \in Jack!Streams :
               /\ stm' = [stm EXCEPT ![j] = r]
               /\ r.ports = stm[j].ports /\ r.resampler = stm[j].resampler
               /\ r.late = stm[j].late /\ r.started = stm[j].started /\ r.pause = stm[j].pause
               /\ r.ports_ready = stm[j].ports_ready
        <4>1. PICK b \in BOOLEAN :
                stm' = [stm EXCEPT ![j] = [stm[j] EXCEPT !.mutex = "free", !.in_use = b]]
          BY <3>1
        <4> DEFINE r == [stm[j] EXCEPT !.mutex = "free", !.in_use = b]
        <4>2. /\ r \in Jack!Streams /\ r.ports = stm[j].ports /\ r.resampler = stm[j].resampler
              /\ r.late = stm[j].late /\ r.started = stm[j].started /\ r.pause = stm[j].pause
              /\ r.ports_ready = stm[j].ports_ready
          BY <2>2 DEF Jack!Streams
        <4> QED BY <4>1, <4>2
      <3>3. h \in Jack!Holders /\ h.pc = "none" /\ h.at = Jack!NoSlot /\ app' = [app EXCEPT ![u] = h]
        BY <2>2, <2>3
      <3> HIDE DEF h
      <3>20. JackKeeps(u, j, r, h)
        BY <1>0, <2>1, <2>2, <3>2, <3>3 DEF JackKeeps
      <3> QED BY <2>1, <2>2, <3>2, <3>3, <3>20, JackUserGoesOn
    <2>4. CASE /\ stm' = [stm EXCEPT ![j].mutex = "free", ![j].ports = TRUE, ![j].resampler = TRUE]
               /\ Jack!Goes(u, "undo")
      <3>1. PICK h \in Jack!Holders : app' = [app EXCEPT ![u] = h] /\ h.pc = "undo" /\ h.at = j
        BY <2>1, <2>4, JackGoes
      <3>2. stm[j].in_use
        BY <2>1, <2>4, JackGoes
      <3> DEFINE r == [stm[j] EXCEPT !.mutex = "free", !.ports = TRUE, !.resampler = TRUE]
      <3>3. /\ r \in Jack!Streams /\ r.in_use = stm[j].in_use /\ r.late = stm[j].late
            /\ r.ports /\ r.resampler
            /\ r.started = stm[j].started /\ r.ports_ready = stm[j].ports_ready
        BY <2>2 DEF Jack!Streams
      <3>4. stm' = [stm EXCEPT ![j] = r]
        BY <2>4
      <3> HIDE DEF r
      <3>5. stm[j].mutex = "user" /\ stm[j].late = 0 /\ ~stm[j].started /\ ~stm[j].ports_ready
        BY <1>0, <2>1
      <3>20. JackKeeps(u, j, r, h)
        BY <2>1, <2>2, <3>1, <3>2, <3>3, <3>4, <3>5 DEF JackKeeps
      <3> QED BY <2>1, <2>2, <3>1, <3>2, <3>3, <3>4, <3>20, JackUserGoesOn
    <2> QED BY <1>4, <2>3, <2>4 DEF Jack!OpenFails
  <1>5. CASE Jack!OpenPorts(u)
    <2>1. fault = "nothing" /\ app[u].pc = "open" /\ Jack!Goes(u, "ready") /\ UNCHANGED <<thread, v1, fault>>
      BY <1>5 DEF Jack!OpenPorts
    <2>2. PICK h \in Jack!Holders : app' = [app EXCEPT ![u] = h] /\ h.pc = "ready" /\ h.at = j
      BY <2>1, JackGoes
    <2>3. j \in Jack!Slots /\ stm[j] \in Jack!Streams /\ stm[j].in_use /\ j # Jack!NoSlot
      BY <2>1, JackGoes
    <2> DEFINE r == [stm[j] EXCEPT !.ports = TRUE, !.resampler = TRUE, !.ports_ready = TRUE]
    <2>4. /\ r \in Jack!Streams /\ r.in_use /\ r.late = stm[j].late
          /\ r.started = stm[j].started /\ r.mutex = stm[j].mutex
          /\ r.ports /\ r.resampler
      BY <2>3 DEF Jack!Streams
    <2>5. stm' = [stm EXCEPT ![j] = r]
      BY <1>5 DEF Jack!OpenPorts
    <2> HIDE DEF r
    <2>6. stm[j].mutex = "user" /\ stm[j].late = 0 /\ ~stm[j].started
      BY <1>0, <2>1
    <2>20. JackKeeps(u, j, r, h)
      BY <2>1, <2>2, <2>3, <2>4, <2>5, <2>6 DEF JackKeeps
    <2> QED BY <2>1, <2>2, <2>3, <2>4, <2>5, <2>20, JackUserGoesOn
  <1>6. CASE Jack!OpenEnds(u)
    <2>1. fault = "nothing" /\ app[u].pc = "ready" /\ Jack!Goes(u, "stopped") /\ UNCHANGED <<thread, v1, fault>>
      BY <1>6 DEF Jack!OpenEnds
    <2>2. PICK h \in Jack!Holders : app' = [app EXCEPT ![u] = h] /\ h.pc = "stopped" /\ h.at = j
      BY <2>1, JackGoes
    <2>3. j \in Jack!Slots /\ stm[j] \in Jack!Streams /\ stm[j].in_use /\ j # Jack!NoSlot
      BY <2>1, JackGoes
    <2> DEFINE r == [stm[j] EXCEPT !.mutex = "free", !.pause = TRUE]
    <2>4. /\ r \in Jack!Streams /\ r.in_use /\ r.late = stm[j].late /\ r.pause
          /\ r.ports = stm[j].ports /\ r.resampler = stm[j].resampler
          /\ r.started = stm[j].started /\ r.ports_ready = stm[j].ports_ready
      BY <2>3 DEF Jack!Streams
    <2>5. stm' = [stm EXCEPT ![j] = r]
      BY <1>6 DEF Jack!OpenEnds, Jack!Opened
    <2> HIDE DEF r
    <2>20. JackKeeps(u, j, r, h)
      BY <1>0, <2>1, <2>2, <2>3, <2>4, <2>5 DEF JackKeeps
    <2> QED BY <2>1, <2>2, <2>3, <2>4, <2>5, <2>20, JackUserGoesOn
  <1>7. CASE Jack!Start(u)
    <2>1. fault = "nothing" /\ app[u].pc = "stopped" /\ Jack!Goes(u, "live") /\ UNCHANGED <<thread, v1, fault>>
      BY <1>7 DEF Jack!Start
    <2>2. PICK h \in Jack!Holders : app' = [app EXCEPT ![u] = h] /\ h.pc = "live" /\ h.at = j
      BY <2>1, JackGoes
    <2>3. j \in Jack!Slots /\ stm[j] \in Jack!Streams /\ stm[j].in_use /\ j # Jack!NoSlot
      BY <2>1, JackGoes
    <2> DEFINE r == [stm[j] EXCEPT !.pause = FALSE, !.started = TRUE, !.ended = FALSE, !.late = 0]
    <2>4. /\ r \in Jack!Streams /\ r.in_use /\ r.late = 0 /\ r.started
          /\ r.ports = stm[j].ports
          /\ r.mutex = stm[j].mutex /\ r.resampler = stm[j].resampler
      <3>1. 0 \in 0..2
        OBVIOUS
      <3> HIDE DEF j
      <3> QED BY <2>3, <3>1 DEF Jack!Streams
    <2>5. stm' = [stm EXCEPT ![j] = r]
      BY <1>7 DEF Jack!Start
    <2> HIDE DEF r
    <2>20. JackKeeps(u, j, r, h)
      BY <1>0, <2>1, <2>2, <2>3, <2>4, <2>5 DEF JackKeeps
    <2> QED BY <2>1, <2>2, <2>3, <2>4, <2>5, <2>20, JackUserGoesOn
  <1>8. CASE Jack!Stop(u)
    <2>1. fault = "nothing" /\ app[u].pc = "live" /\ Jack!Goes(u, "stopped") /\ UNCHANGED <<thread, v1, fault>>
      BY <1>8 DEF Jack!Stop
    <2>2. PICK h \in Jack!Holders : app' = [app EXCEPT ![u] = h] /\ h.pc = "stopped" /\ h.at = j
      BY <2>1, JackGoes
    <2>3. j \in Jack!Slots /\ stm[j] \in Jack!Streams /\ stm[j].in_use /\ j # Jack!NoSlot
      BY <2>1, JackGoes
    <2> DEFINE r == [stm[j] EXCEPT !.pause = TRUE, !.started = FALSE]
    <2>4. /\ r \in Jack!Streams /\ r.in_use /\ r.late = stm[j].late /\ r.pause /\ ~r.started
          /\ r.ports = stm[j].ports
          /\ r.mutex = stm[j].mutex /\ r.resampler = stm[j].resampler
          /\ r.ports_ready = stm[j].ports_ready
      BY <2>3 DEF Jack!Streams
    <2>5. stm' = [stm EXCEPT ![j] = r]
      BY <1>8 DEF Jack!Stop
    <2> HIDE DEF r
    <2>20. JackKeeps(u, j, r, h)
      BY <1>0, <2>1, <2>2, <2>3, <2>4, <2>5 DEF JackKeeps
    <2> QED BY <2>1, <2>2, <2>3, <2>4, <2>5, <2>20, JackUserGoesOn
  <1>9. CASE Jack!Destroy(u)
    <2>1. /\ fault = "nothing" /\ app[u].pc \in {"stopped", "undo"} /\ stm[j].mutex = "free" /\ Jack!Goes(u, "destroy")
          /\ UNCHANGED <<thread, v1, fault>>
      BY <1>9 DEF Jack!Destroy
    <2>2. PICK h \in Jack!Holders : app' = [app EXCEPT ![u] = h] /\ h.pc = "destroy" /\ h.at = j
      BY <2>1, JackGoes
    <2>3. j \in Jack!Slots /\ stm[j] \in Jack!Streams /\ stm[j].in_use /\ j # Jack!NoSlot
      BY <2>1, JackGoes
    <2> DEFINE r == [stm[j] EXCEPT !.mutex = "user", !.ports_ready = FALSE]
    <2>4. /\ r \in Jack!Streams /\ r.in_use /\ r.late = stm[j].late /\ r.mutex = "user"
          /\ r.ports = stm[j].ports /\ r.resampler = stm[j].resampler
          /\ r.started = stm[j].started /\ ~r.ports_ready /\ r.pause = stm[j].pause
      BY <2>3 DEF Jack!Streams
    <2>5. stm' = [stm EXCEPT ![j] = r]
      BY <1>9 DEF Jack!Destroy
    <2> HIDE DEF r
    <2>20. JackKeeps(u, j, r, h)
      BY <1>0, <1>1, <2>1, <2>2, <2>3, <2>4, <2>5 DEF JackKeeps
    <2> QED BY <2>1, <2>2, <2>3, <2>4, <2>5, <2>20, JackUserGoesOn
  <1>11. CASE Jack!Unregister(u)
    <2>1. /\ fault = "nothing" /\ app[u].pc = "destroy" /\ Jack!Goes(u, "unported")
          /\ UNCHANGED <<thread, v1, fault>>
      BY <1>11 DEF Jack!Unregister
    <2>2. PICK h \in Jack!Holders : app' = [app EXCEPT ![u] = h] /\ h.pc = "unported" /\ h.at = j
      BY <2>1, JackGoes
    <2>3. j \in Jack!Slots /\ stm[j] \in Jack!Streams /\ stm[j].in_use /\ j # Jack!NoSlot
      BY <2>1, JackGoes
    <2> DEFINE r == [stm[j] EXCEPT !.ports = FALSE]
    <2>4. /\ r \in Jack!Streams /\ r.in_use /\ r.late = stm[j].late /\ ~r.ports
          /\ r.started = stm[j].started /\ r.ports_ready = stm[j].ports_ready
          /\ r.pause = stm[j].pause /\ r.mutex = stm[j].mutex
      BY <2>3 DEF Jack!Streams
    <2>5. stm' = [stm EXCEPT ![j] = r]
      BY <1>11 DEF Jack!Unregister
    <2>6. stm[j].mutex = "user"
      BY <1>0, <2>1
    <2> HIDE DEF r
    <2>20. JackKeeps(u, j, r, h)
      BY <1>1, <2>1, <2>2, <2>3, <2>4, <2>5, <2>6 DEF JackKeeps
    <2> QED BY <2>1, <2>2, <2>3, <2>4, <2>5, <2>20, JackUserGoesOn
  <1>10. CASE Jack!DestroyEnds(u)
    <2>1. /\ fault = "nothing" /\ app[u].pc = "unported" /\ UNCHANGED <<thread, v1, fault>>
          /\ app' = [app EXCEPT ![u] = [pc |-> "none", at |-> Jack!NoSlot]]
      BY <1>10 DEF Jack!DestroyEnds
    <2>2. /\ j \in Jack!Slots /\ stm[j] \in Jack!Streams /\ j # Jack!NoSlot
          /\ [pc |-> "none", at |-> Jack!NoSlot] \in Jack!Holders
      BY <2>1, JackLeaves
    <2> DEFINE r == [stm[j] EXCEPT !.mutex = "free", !.resampler = FALSE, !.in_use = FALSE]
               h == [pc |-> "none", at |-> Jack!NoSlot]
    <2>3. /\ r \in Jack!Streams /\ r.late = stm[j].late /\ r.started = stm[j].started
          /\ r.ports = stm[j].ports /\ ~r.resampler /\ r.pause = stm[j].pause
          /\ r.ports_ready = stm[j].ports_ready
      BY <2>2 DEF Jack!Streams
    <2>4. stm' = [stm EXCEPT ![j] = r] /\ app' = [app EXCEPT ![u] = h]
      BY <1>10, <2>1 DEF Jack!DestroyEnds, Jack!Destroyed
    <2>5. h \in Jack!Holders /\ h.pc = "none" /\ h.at = Jack!NoSlot
      BY <2>2
    <2> HIDE DEF r, h
    <2>20. JackKeeps(u, j, r, h)
      BY <1>0, <1>1, <2>1, <2>2, <2>3, <2>4, <2>5 DEF JackKeeps
    <2> QED BY <2>1, <2>2, <2>3, <2>4, <2>5, <2>20, JackUserGoesOn
  <1> QED
    BY <1>2, <1>3, <1>4, <1>5, <1>6, <1>7, <1>8, <1>9, <1>10, <1>11

\* What a step of the process thread that only looks has to keep.
LEMMA JackLooks ==
  ASSUME CubebAssumption, Jack!IInv, UNCHANGED <<stm, app, v1>>,
         thread' \in Jack!Places, fault' \in {"nothing", "ports", "resampler"},
         thread'.pc # "call",
         \/ fault' = "nothing"
         \/ \A w \in Users : app[w].at = thread'.at =>
              app[w].pc = "opening" \/ (app[w].pc \in {"open", "unported"} /\ fault' = "ports"),
         stm[thread'.at].late = 1 =>
           /\ thread'.pc # "lock"
           /\ \/ stm[thread'.at].pause
              \/ ~stm[thread'.at].ports_ready /\ thread'.pc \notin {"buffers", "pause"}
  PROVE  Jack!IInv'
  <1>1. Jack!TypeOK'
    BY JackTypes DEF Jack!TypeOK
  <1>2. Jack!SlotsAgree' /\ Jack!SlotFits' /\ Jack!AtMostOneLate'
    BY DEF Jack!IInv, Jack!SlotsAgree, Jack!SlotFits, Jack!AtMostOneLate
  <1>3. Jack!LateFits'
    BY DEF Jack!IInv, Jack!LateFits, Jack!Places
  <1>4. Jack!CallHasMutex'
    BY DEF Jack!CallHasMutex
  <1>5. Jack!FaultsAreKnown'
    BY DEF Jack!FaultsAreKnown
  <1> QED BY <1>1, <1>2, <1>3, <1>4, <1>5 DEF Jack!IInv

\* The next slot is one of the table.
LEMMA JackMoves ==
  ASSUME CubebAssumption, Jack!IInv, Jack!Moves
  PROVE  thread' \in Jack!Places /\ thread'.pc = "scan" /\ thread'.at \in Jack!Slots
  <1>1. thread.at \in Jack!Slots /\ MAX_STREAMS \in Nat \ {0}
    BY JackTypes DEF Jack!Places
  <1>2. Jack!NextSlot(thread.at) \in Jack!Slots
    BY <1>1 DEF Jack!NextSlot, Jack!Slots
  <1> QED BY <1>2 DEF Jack!Moves, Jack!Places

\* Every step of the process thread preserves the invariant.
LEMMA JackProcessStep ==
  ASSUME CubebAssumption, Jack!IInv, Jack!Process PROVE Jack!IInv'
  <1> DEFINE j == thread.at
  <1> USE JackTypes
  <1>1. /\ j \in Jack!Slots /\ stm[j] \in Jack!Streams
        /\ stm[j].late \in 0..1 /\ (stm[j].started => stm[j].late = 0)
        /\ stm[j].late = 1 =>
             /\ thread.pc # "lock"
             /\ stm[j].pause \/ (~stm[j].ports_ready /\ thread.pc \notin {"buffers", "pause"})
    <2>1. j \in Jack!Slots
      BY DEF Jack!Places
    <2>2. stm[j].late \in 0..1
      BY <2>1 DEF Jack!IInv, Jack!AtMostOneLate, Jack!Streams
    <2> QED BY <2>1, <2>2 DEF Jack!IInv, Jack!LateFits
  <1>0. fault = "nothing" /\ \A w \in Users : app[w].at = j => app[w].pc # "none"
    <2>1. fault = "nothing"
      BY DEF Jack!Process, Jack!Scan, Jack!Buffers, Jack!Pause, Jack!TryLock, Jack!Return
    <2>2. j # Jack!NoSlot
      BY DEF Jack!Places, Jack!Slots, Jack!NoSlot
    <2> QED BY <2>1, <2>2 DEF Jack!IInv, Jack!SlotFits
  <1>2. ASSUME Jack!Moves, UNCHANGED <<stm, app, v1, fault>> PROVE Jack!IInv'
    <2>1. thread' \in Jack!Places /\ thread'.pc = "scan" /\ thread'.at \in Jack!Slots
      BY <1>2, JackMoves
    <2>2. stm[thread'.at].late = 1 => stm[thread'.at].pause \/ ~stm[thread'.at].ports_ready
      BY <2>1 DEF Jack!IInv, Jack!LateFits
    <2> QED BY <1>0, <1>2, <2>1, <2>2, JackLooks
  <1>3. CASE Jack!Scan
    <2>1. CASE stm[j].in_use /\ stm[j].ports_ready
      <3>1. thread' = [thread EXCEPT !.pc = "buffers"] /\ UNCHANGED <<stm, app, v1, fault>>
        BY <1>3, <2>1 DEF Jack!Scan
      <3>2. thread' \in Jack!Places /\ thread'.pc = "buffers" /\ thread'.at = j
        BY <3>1 DEF Jack!Places
      <3> QED BY <1>0, <1>1, <2>1, <3>1, <3>2, JackLooks
    <2>2. CASE ~(stm[j].in_use /\ stm[j].ports_ready)
      BY <1>2, <1>3, <2>2 DEF Jack!Scan
    <2> QED BY <2>1, <2>2
  <1>4. CASE Jack!Buffers
    <2>1. thread.pc = "buffers" /\ thread \in Jack!Places /\ UNCHANGED <<stm, app, v1>>
      BY <1>4 DEF Jack!Buffers
    <2>2. CASE thread' = [thread EXCEPT !.pc = "pause"] /\ UNCHANGED fault
      <3>1. thread' \in Jack!Places /\ thread'.pc = "pause" /\ thread'.at = j
        BY <2>2 DEF Jack!Places
      <3> QED BY <1>0, <1>1, <2>1, <2>2, <3>1, JackLooks
    <2>3. CASE ~stm[j].ports /\ fault' = "ports" /\ UNCHANGED thread
      <3>1. \A w \in Users : app[w].at = j => app[w].pc \in {"opening", "open", "unported"}
        BY <1>0, <2>3 DEF Jack!IInv, Jack!SlotFits, Jack!Holders
      <3> QED BY <1>0, <1>1, <2>1, <2>3, <3>1, JackLooks
    <2> QED BY <1>4, <2>2, <2>3 DEF Jack!Buffers
  <1>5. CASE Jack!Pause
    <2>1. thread.pc = "pause" /\ UNCHANGED <<stm, app, v1, fault>>
      BY <1>5 DEF Jack!Pause
    <2>2. CASE stm[j].pause
      BY <1>2, <1>5, <2>1, <2>2 DEF Jack!Pause
    <2>3. CASE ~stm[j].pause
      <3>1. thread' = [thread EXCEPT !.pc = "lock"]
        BY <1>5, <2>3 DEF Jack!Pause
      <3>2. thread' \in Jack!Places /\ thread'.pc = "lock" /\ thread'.at = j
        BY <3>1 DEF Jack!Places
      <3> QED BY <1>0, <1>1, <2>1, <2>3, <3>2, JackLooks
    <2> QED BY <2>2, <2>3
  <1>6. CASE Jack!TryLock
    <2>1. thread.pc = "lock" /\ UNCHANGED <<app, v1>> /\ stm[j].late = 0
      BY <1>1, <1>6 DEF Jack!TryLock
    <2>2. CASE Jack!Taken(stm[j])
      BY <1>2, <1>6, <2>1, <2>2 DEF Jack!TryLock
    <2>3. CASE ~Jack!Taken(stm[j]) /\ ~stm[j].resampler
      <3>1. fault' = "resampler" /\ UNCHANGED <<stm, thread>>
        BY <1>6, <2>3 DEF Jack!TryLock
      <3>2. stm[j].mutex = "free"
        BY <1>1, <2>3 DEF Jack!Taken
      <3>3. \A w \in Users : app[w].at = j => app[w].pc = "opening"
        <4>1. \A w \in Users :
                /\ app[w].pc \in {"open", "ready", "destroy", "unported"} =>
                     stm[app[w].at].mutex = "user"
                /\ app[w].pc \in {"ready", "stopped", "live", "undo", "destroy"} =>
                     stm[app[w].at].resampler
          BY DEF Jack!IInv, Jack!SlotFits
        <4>2. \A w \in Users : app[w].pc \in {"none", "opening", "open", "ready", "live",
                                               "stopped", "undo", "destroy", "unported"}
          BY DEF Jack!Holders
        <4>3. SUFFICES ASSUME NEW w \in Users, app[w].at = j PROVE app[w].pc = "opening"
          OBVIOUS
        <4>4. app[w].pc \notin {"none", "open", "ready", "destroy", "unported"}
          BY <1>0, <3>2, <4>1, <4>3
        <4>5. app[w].pc \notin {"ready", "stopped", "live", "undo", "destroy"}
          BY <2>3, <4>1, <4>3
        <4> QED BY <4>2, <4>4, <4>5
      <3>4. thread' \in Jack!Places /\ thread'.at = j /\ thread'.pc = "lock"
        BY <2>1, <3>1
      <3>5. \A w \in Users : app[w].at = thread'.at =>
              app[w].pc = "opening" \/ (app[w].pc \in {"open", "unported"} /\ fault' = "ports")
        BY <3>3, <3>4
      <3>6. stm[thread'.at].late = 0 /\ thread'.pc # "call"
        BY ONLY <2>1, <3>4
      <3>7. UNCHANGED <<stm, app, v1>> /\ fault' \in {"nothing", "ports", "resampler"}
        BY ONLY <2>1, <3>1
      <3>8. ~(stm[thread'.at].late = 1)
        BY ONLY <3>6
      <3> HIDE DEF j
      <3> QED BY <3>4, <3>5, <3>6, <3>7, <3>8, JackLooks
    <2>4. CASE ~Jack!Taken(stm[j]) /\ stm[j].resampler
      <3>1. /\ stm' = [stm EXCEPT ![j].mutex = "process", ![j].late = Jack!Late(stm[j])]
            /\ thread' = [thread EXCEPT !.pc = "call"] /\ UNCHANGED fault
        BY <1>6, <2>4 DEF Jack!TryLock
      <3> DEFINE r == [stm[j] EXCEPT !.mutex = "process", !.late = Jack!Late(stm[j])]
      <3>2. Jack!Late(stm[j]) \in 0..1 /\ (stm[j].started => Jack!Late(stm[j]) = 0)
        BY <2>1 DEF Jack!Late
      <3>3. /\ r \in Jack!Streams /\ r.late = Jack!Late(stm[j]) /\ r.mutex = "process"
            /\ r.in_use = stm[j].in_use /\ r.ports = stm[j].ports
            /\ r.resampler = stm[j].resampler /\ r.started = stm[j].started
            /\ r.pause = stm[j].pause /\ r.ports_ready = stm[j].ports_ready
        <4>1. Jack!Late(stm[j]) \in 0..2
          BY <3>2
        <4> HIDE DEF j
        <4> QED BY <1>1, <4>1 DEF Jack!Streams
      <3>4. /\ thread' \in Jack!Places /\ thread'.pc = "call" /\ thread'.at = j
        BY <3>1 DEF Jack!Places
      <3>5. stm' = [stm EXCEPT ![j] = r]
        BY <3>1
      <3> HIDE DEF r
      <3>6. stm'[j] = r /\ \A i \in Jack!Slots : i # j => stm'[i] = stm[i]
        BY <1>1, <3>5
      <3>7. Jack!TypeOK'
        BY <1>1, <2>1, <3>1, <3>3, <3>4, <3>5 DEF Jack!TypeOK
      <3>8. stm[j].mutex = "free"
        BY <1>1, <2>4 DEF Jack!Taken
      <3>9. \A w \in Users : app[w].at = j => app[w].pc \in {"stopped", "live", "undo"}
        BY <1>1, <2>4, <3>8 DEF Jack!IInv, Jack!SlotFits, Jack!Holders, Jack!NoSlot, Jack!Slots
      <3>10. \E w \in Users : app[w].at = j
        BY <1>1, <2>4 DEF Jack!IInv, Jack!SlotFits
      <3>11. r.late = 1 => stm[j].pause \/ ~stm[j].ports_ready
        BY <3>2, <3>3, <3>9, <3>10 DEF Jack!IInv, Jack!SlotFits
      <3>12. Jack!SlotsAgree'
        <4>1. \A i \in Jack!Slots : stm'[i].in_use = stm[i].in_use /\ stm'[i].ports = stm[i].ports
          BY <3>3, <3>6
        <4>2. \A w \in Users : app[w].at # Jack!NoSlot => app[w].at \in Jack!Slots
          BY DEF Jack!Holders
        <4> QED BY <2>1, <4>1, <4>2 DEF Jack!IInv, Jack!SlotsAgree
      <3>13. Jack!SlotFits'
        <4>1. \A i \in Jack!Slots :
                /\ stm'[i].ports = stm[i].ports /\ stm'[i].resampler = stm[i].resampler
                /\ stm'[i].started = stm[i].started /\ stm'[i].pause = stm[i].pause
                /\ stm'[i].ports_ready = stm[i].ports_ready
          BY <3>3, <3>6
        <4>2. \A w \in Users : app[w].pc \in {"open", "ready", "destroy", "unported"} =>
                app[w].at # j /\ stm'[app[w].at] = stm[app[w].at]
          <5>1. \A w \in Users : app[w].pc # "none" => app[w].at \in Jack!Slots
            BY DEF Jack!Holders, Jack!IInv, Jack!SlotFits
          <5> QED BY <3>6, <3>9, <5>1
        <4>3. \A w \in Users : app[w].pc # "none" => app[w].at \in Jack!Slots
          BY DEF Jack!Holders, Jack!IInv, Jack!SlotFits
        <4> QED BY <2>1, <4>1, <4>2, <4>3 DEF Jack!IInv, Jack!SlotFits, Jack!NoSlot
      <3>14. Jack!AtMostOneLate' /\ Jack!LateFits'
        BY <2>1, <3>2, <3>3, <3>4, <3>6, <3>11 DEF Jack!IInv, Jack!AtMostOneLate, Jack!LateFits
      <3>15. Jack!CallHasMutex'
        BY <2>4, <3>3, <3>4, <3>6 DEF Jack!CallHasMutex
      <3>16. Jack!FaultsAreKnown'
        BY <1>0, <3>1 DEF Jack!FaultsAreKnown
      <3> QED BY <3>7, <3>12, <3>13, <3>14, <3>15, <3>16 DEF Jack!IInv
    <2> QED BY <2>2, <2>3, <2>4
  <1>7. ASSUME NEW result \in {"full", "short", "error"}, Jack!Return(result) PROVE Jack!IInv'
    <2>1. /\ thread.pc = "call" /\ UNCHANGED <<app, v1, fault>> /\ Jack!Moves
          /\ stm' = [stm EXCEPT ![j] = [Jack!After(stm[j], result) EXCEPT !.mutex = "free"]]
      BY <1>7 DEF Jack!Return
    <2>2. thread' \in Jack!Places /\ thread'.pc = "scan" /\ thread'.at \in Jack!Slots
      BY <2>1, JackMoves
    <2> DEFINE r == [Jack!After(stm[j], result) EXCEPT !.mutex = "free"]
    <2>3. /\ r \in Jack!Streams /\ r.late = stm[j].late /\ r.mutex = "free"
          /\ r.in_use = stm[j].in_use /\ r.ports = stm[j].ports
          /\ r.resampler = stm[j].resampler /\ (stm[j].pause => r.pause)
          /\ r.started => stm[j].started
          /\ stm[j].started => r.started \/ r.pause
          /\ r.ports_ready = stm[j].ports_ready
      BY <1>1 DEF Jack!Streams, Jack!After
    <2>4. stm' = [stm EXCEPT ![j] = r]
      BY <2>1
    <2> HIDE DEF r
    <2>5. stm'[j] = r /\ \A i \in Jack!Slots : i # j => stm'[i] = stm[i]
      BY <1>1, <2>4
    <2>6. Jack!TypeOK'
      BY <1>1, <2>1, <2>2, <2>3, <2>4 DEF Jack!TypeOK
    <2>7. stm[j].mutex = "process"
      BY <2>1 DEF Jack!IInv, Jack!CallHasMutex
    <2>8. \A w \in Users : app[w].pc # "none" => app[w].at \in Jack!Slots
      BY DEF Jack!Holders, Jack!IInv, Jack!SlotFits
    <2>9. Jack!SlotsAgree'
      <3>1. \A i \in Jack!Slots : stm'[i].in_use = stm[i].in_use /\ stm'[i].ports = stm[i].ports
        BY <2>3, <2>5
      <3>2. \A w \in Users : app[w].at # Jack!NoSlot => app[w].at \in Jack!Slots
        BY DEF Jack!Holders
      <3> QED BY <2>1, <3>1, <3>2 DEF Jack!IInv, Jack!SlotsAgree
    <2>10. Jack!SlotFits'
      <3>1. \A i \in Jack!Slots :
              /\ stm'[i].ports = stm[i].ports /\ stm'[i].resampler = stm[i].resampler
              /\ stm[i].pause => stm'[i].pause
              /\ stm'[i].started => stm[i].started
              /\ stm[i].started => stm'[i].started \/ stm'[i].pause
              /\ stm'[i].ports_ready = stm[i].ports_ready /\ stm'[i].late = stm[i].late
        BY <2>3, <2>5
      <3>2. \A w \in Users : app[w].pc \in {"open", "ready", "destroy", "unported"} =>
              app[w].at # j /\ stm'[app[w].at] = stm[app[w].at]
        BY <2>5, <2>7, <2>8 DEF Jack!IInv, Jack!SlotFits
      <3> QED BY <2>1, <2>8, <3>1, <3>2 DEF Jack!IInv, Jack!SlotFits, Jack!NoSlot
    <2>11. Jack!AtMostOneLate' /\ Jack!LateFits'
      BY <2>2, <2>3, <2>5 DEF Jack!IInv, Jack!AtMostOneLate, Jack!LateFits
    <2>12. Jack!CallHasMutex'
      BY <2>2 DEF Jack!CallHasMutex
    <2>13. Jack!FaultsAreKnown'
      BY <1>0, <2>1 DEF Jack!FaultsAreKnown
    <2> QED BY <2>6, <2>9, <2>10, <2>11, <2>12, <2>13 DEF Jack!IInv
  <1> QED
    BY <1>3, <1>4, <1>5, <1>6, <1>7 DEF Jack!Process

\* Every step preserves the invariant.
LEMMA JackStep ==
  ASSUME CubebAssumption, Jack!IInv, Jack!Next PROVE Jack!IInv'
  BY JackUserStep, JackProcessStep DEF Jack!Next

\* So does a step that changes nothing of the table.
LEMMA JackStutter ==
  ASSUME Jack!IInv, UNCHANGED <<stm, thread, app, v1, fault>> PROVE Jack!IInv'
  BY DEF Jack!IInv, Jack!TypeOK, Jack!SlotsAgree, Jack!SlotFits, Jack!AtMostOneLate,
     Jack!LateFits, Jack!CallHasMutex, Jack!FaultsAreKnown

\* What the invariant says of the properties.
LEMMA JackSafe ==
  ASSUME CubebAssumption, Jack!IInv
  PROVE  /\ Jack!TypeOK /\ Jack!AtMostOneLate /\ Jack!CallIsAlone /\ Jack!SlotsAgree
         /\ Jack!FaultsAreKnown
  <1>1. Jack!CallIsAlone
    BY JackTypes DEF Jack!IInv, Jack!CallHasMutex, Jack!SlotFits, Jack!CallIsAlone
  <1> QED BY <1>1 DEF Jack!IInv

----------------------------------------------------------------------------
(* The PulseAudio backend *)

\* The context and its stream start as the invariant says.
LEMMA PulseInitially ==
  ASSUME CubebAssumption, Pulse!Init PROVE Pulse!IInv
  <1>1. MaxStarts \in Nat /\ MaxConnects \in Nat
    BY DEF CubebAssumption, Pulse!PulseAssumption
  <1>2. PICK k \in Kinds :
          stm = [kind |-> k, life |-> "free", good |-> {}, bad |-> {}, corked |-> TRUE,
                 shutdown |-> FALSE, state |-> "unset", timer |-> FALSE,
                 calling |-> "no", short |-> FALSE, early |-> FALSE, starts |-> 0]
    BY DEF Pulse!Init
  <1>3. /\ v1 = [conn |-> "none", error |-> FALSE, connects |-> 0, mask |-> {},
                 callbacks |-> {}, ids |-> {}, listed |-> {}]
        /\ v2 = "idle" /\ app = "none" /\ v3 = 0 /\ fault = "none"
    BY DEF Pulse!Init
  <1>4. stm \in Pulse!Streams
    BY <1>1, <1>2 DEF Pulse!Streams
  <1>5. v1 \in Pulse!Contexts
    BY <1>1, <1>3 DEF Pulse!Contexts
  <1>6. Pulse!TypeOK
    BY <1>1, <1>3, <1>4, <1>5 DEF Pulse!TypeOK
  <1>7. Pulse!StreamFits /\ Pulse!FlagsFit
    BY <1>2, <1>3 DEF Pulse!StreamFits, Pulse!FlagsFit, Pulse!Stopping
  <1>8. Pulse!DeferredCounted
    BY <1>2, <1>3 DEF Pulse!DeferredCounted, Pulse!Starting
  <1>9. Pulse!ContextFits /\ Pulse!IdsStayGood /\ Pulse!FaultsAreKnown
    BY <1>3 DEF Pulse!ContextFits, Pulse!IdsStayGood, Pulse!FaultsAreKnown
  <1> QED BY <1>6, <1>7, <1>8, <1>9 DEF Pulse!IInv

\* What the invariant says of the types.
LEMMA PulseTypes ==
  ASSUME CubebAssumption, Pulse!IInv
  PROVE  /\ MaxStarts \in Nat /\ MaxConnects \in Nat
         /\ Pulse!TypeOK /\ v1 \in Pulse!Contexts /\ stm \in Pulse!Streams
         /\ v3 \in Nat /\ v3 \in 0..MaxStarts
         /\ stm.starts \in 0..MaxStarts /\ v1.connects \in 0..MaxConnects
  <1>1. MaxStarts \in Nat /\ MaxConnects \in Nat
    BY DEF CubebAssumption, Pulse!PulseAssumption
  <1>2. Pulse!TypeOK
    BY DEF Pulse!IInv
  <1>3. v1 \in Pulse!Contexts /\ stm \in Pulse!Streams /\ v3 \in 0..MaxStarts
    BY <1>2 DEF Pulse!TypeOK
  <1>4. stm.starts \in 0..MaxStarts
    BY <1>3 DEF Pulse!Streams
  <1>5. v1.connects \in 0..MaxConnects
    BY <1>3 DEF Pulse!Contexts
  <1> QED BY <1>1, <1>2, <1>3, <1>4, <1>5

\* A counter that stays, starts over or is counted down keeps its bounds.
LEMMA CountedDown ==
  ASSUME NEW m \in Nat, NEW d \in 0..m, NEW e, NEW n \in 0..m, NEW b \in {0, 1}, d + b <= n,
         e = d \/ e = 0 \/ (d > 0 /\ e = d - 1)
  PROVE  e \in 0..m /\ e + b <= n
  <1>1. CASE e = d
    BY <1>1
  <1>2. CASE e = 0
    BY <1>2
  <1>3. CASE d > 0 /\ e = d - 1
    BY <1>3
  <1> QED BY <1>1, <1>2, <1>3

\* What a step of the stream has to keep.
LEMMA PulseStreamMoves ==
  ASSUME CubebAssumption, Pulse!IInv, UNCHANGED <<v1, v2>>, fault' = "none",
         stm' \in Pulse!Streams, v3' \in Nat,
         app' \in {"none", "init", "idle", "done"} \cup Pulse!Starting \cup Pulse!Stopping,
         Pulse!StreamFits', Pulse!FlagsFit', Pulse!DeferredCounted',
         app = "none" => app' = "none"
  PROVE  Pulse!IInv'
  <1>1. stm'.starts \in 0..MaxStarts /\ MaxStarts \in Nat
    BY PulseTypes DEF Pulse!Streams
  <1>2. v3' \in 0..MaxStarts
    BY <1>1 DEF Pulse!DeferredCounted
  <1>3. Pulse!TypeOK'
    BY <1>2, PulseTypes DEF Pulse!TypeOK
  <1>4. Pulse!ContextFits' /\ Pulse!IdsStayGood' /\ Pulse!FaultsAreKnown'
    BY DEF Pulse!IInv, Pulse!ContextFits, Pulse!IdsStayGood, Pulse!FaultsAreKnown, Pulse!Mask
  <1> QED BY <1>3, <1>4 DEF Pulse!IInv

\* What the flags say before a step.
LEMMA PulseBefore ==
  ASSUME CubebAssumption, Pulse!IInv
  PROVE  /\ app \in {"none", "init"} =>
              stm.calling = "no" /\ stm.corked /\ ~stm.short /\ ~stm.timer /\ v3 = 0
         /\ app \in Pulse!Stopping => stm.calling = "no" /\ stm.shutdown
         /\ app = "done" <=> stm.life = "freed"
         /\ app = "done" => stm.calling = "no" /\ ~stm.timer
         /\ app \in {"none", "done"} => stm.good = {}
         /\ app \notin {"none", "done"} /\ stm.kind # "input" =>
              "output" \in stm.good \/ "output" \in stm.bad
         /\ v3 > 0 => stm.kind = "output"
         /\ app \in {"free", "done"} => v3 = 0 \/ "output" \in stm.bad
         /\ stm.short => stm.shutdown
         /\ stm.calling # "no" => ~stm.shutdown
         /\ stm.timer => stm.kind # "input"
         /\ stm.timer => stm.shutdown \/ stm.early
         /\ v3 + (IF app \in Pulse!Starting THEN 1 ELSE 0) <= stm.starts
         /\ app \in {"none", "init", "idle", "done"} \cup Pulse!Starting \cup Pulse!Stopping
  BY DEF Pulse!IInv, Pulse!StreamFits, Pulse!FlagsFit, Pulse!HasOutput, Pulse!DeferredCounted,
     Pulse!TypeOK

\* A step of the user that leaves the stream as it is.
LEMMA PulseAppMoves ==
  ASSUME CubebAssumption, Pulse!IInv, UNCHANGED <<v1, v2, v3, stm>>, fault' = "none",
         \/ app \in Pulse!Starting /\ app' \in Pulse!Starting
         \/ app \in Pulse!Stopping \ {"free"} /\ app' \in Pulse!Stopping
              /\ (app' = "free" => stm.good = {} \/ v3 = 0)
  PROVE  Pulse!IInv'
  <1>2. v3 > 0 /\ stm.good = {} /\ app \notin {"none", "done"} => "output" \in stm.bad
    BY PulseBefore
  <1>3. v3 \in Nat
    BY PulseTypes
  <1>4. app \notin {"none", "init", "done", "free"} /\ app' \notin {"none", "init", "done"}
    BY DEF Pulse!Starting, Pulse!Stopping
  <1>5. app' \in Pulse!Stopping => app \in Pulse!Stopping
    BY DEF Pulse!Starting, Pulse!Stopping
  <1>6. app' = "free" => stm.good = {} \/ v3 = 0
    BY DEF Pulse!Starting
  <1>7. Pulse!StreamFits'
    BY <1>2, <1>3, <1>4, <1>5, <1>6, PulseBefore DEF Pulse!StreamFits, Pulse!HasOutput
  <1>8. app' \in Pulse!Starting <=> app \in Pulse!Starting
    BY DEF Pulse!Starting, Pulse!Stopping
  <1>9. Pulse!FlagsFit' /\ Pulse!DeferredCounted'
    BY <1>8, PulseBefore DEF Pulse!FlagsFit, Pulse!DeferredCounted, Pulse!HasOutput
  <1>1. Pulse!StreamFits' /\ Pulse!FlagsFit' /\ Pulse!DeferredCounted'
    BY <1>7, <1>9
  <1> QED BY <1>1, PulseTypes, PulseStreamMoves DEF Pulse!Starting, Pulse!Stopping

\* Every step of the user preserves the invariant.
LEMMA PulseAppStep ==
  ASSUME CubebAssumption, Pulse!IInv, Pulse!AppNext PROVE Pulse!IInv'
  <1> USE PulseTypes, PulseBefore DEF Pulse!Unlocked
  <1>1. CASE Pulse!StreamInit
    <2>1. /\ fault = "none" /\ app = "none" /\ v2 # "destroyed" /\ v1.connects > 0
          /\ UNCHANGED <<v2, v3, fault>>
      BY <1>1 DEF Pulse!StreamInit
    <2>2. PICK c \in IF v1.error /\ v1.connects < MaxConnects THEN Pulse!Connect(v1) ELSE {v1} :
            /\ v1' = c
            /\ IF c.conn = "ready" /\ ~c.error
               THEN stm' = [stm EXCEPT !.life = "init", !.good = Pulse!Own] /\ app' = "init"
               ELSE UNCHANGED <<stm, app>>
      BY <1>1 DEF Pulse!StreamInit
    <2>3. /\ c \in Pulse!Contexts /\ c.ids = v1.ids /\ c.listed = v1.listed
          /\ c.connects >= v1.connects /\ c.callbacks = v1.callbacks
          /\ c = v1 \/ (c.mask = {} /\ (c.conn = "ready" \/ (c.conn = "none" /\ c.error)))
      <3>1. CASE v1.error /\ v1.connects < MaxConnects
        <4>1. v1.connects + 1 \in 0..MaxConnects /\ v1.error = TRUE
          BY <3>1 DEF Pulse!Contexts
        <4>2. \/ c = [v1 EXCEPT !.conn = "ready", !.error = FALSE, !.mask = {},
                                !.connects = v1.connects + 1]
              \/ c = [v1 EXCEPT !.conn = "none", !.mask = {}, !.connects = v1.connects + 1]
          BY <2>2, <3>1 DEF Pulse!Connect
        <4>3. v1.connects + 1 >= v1.connects
          BY <4>1
        <4>4. CASE c = [v1 EXCEPT !.conn = "ready", !.error = FALSE, !.mask = {},
                                  !.connects = v1.connects + 1]
          BY <4>1, <4>3, <4>4 DEF Pulse!Contexts
        <4>5. CASE c = [v1 EXCEPT !.conn = "none", !.mask = {}, !.connects = v1.connects + 1]
          BY <4>1, <4>3, <4>5 DEF Pulse!Contexts
        <4> QED BY <4>2, <4>4, <4>5
      <3>2. CASE c = v1
        BY <3>2
      <3> QED BY <2>2, <3>1, <3>2
    <2>0. /\ Pulse!Own \in SUBSET {"output", "input"}
          /\ stm.kind # "input" => "output" \in Pulse!Own
      BY DEF Pulse!Own, Pulse!HasOutput
    <2>4. /\ stm' \in Pulse!Streams /\ stm'.calling = "no" /\ stm'.corked /\ ~stm'.short
          /\ ~stm'.timer /\ stm'.starts = stm.starts /\ stm'.life # "freed"
          /\ stm'.kind = stm.kind /\ stm'.early = stm.early /\ stm'.bad = stm.bad
          /\ \/ app' = "none" /\ stm'.good = {}
             \/ app' = "init" /\ stm'.good = Pulse!Own
      <3>1. Pulse!Own \in SUBSET {"output", "input"}
        BY <2>0
      <3>2. CASE c.conn = "ready" /\ ~c.error
        <4>1. stm' = [stm EXCEPT !.life = "init", !.good = Pulse!Own] /\ app' = "init"
          BY <2>2, <3>2
        <4> QED BY <2>1, <3>1, <4>1 DEF Pulse!Streams
      <3>3. CASE ~(c.conn = "ready" /\ ~c.error)
        <4>1. UNCHANGED <<stm, app>>
          BY <2>2, <3>3
        <4> QED BY <2>1, <4>1
      <3> QED BY <3>2, <3>3
    <2>5. Pulse!TypeOK'
      BY <2>1, <2>2, <2>3, <2>4 DEF Pulse!TypeOK
    <2>6. Pulse!StreamFits' /\ Pulse!FlagsFit' /\ Pulse!DeferredCounted'
      BY <2>0, <2>1, <2>4 DEF Pulse!StreamFits, Pulse!FlagsFit, Pulse!DeferredCounted,
         Pulse!Starting, Pulse!Stopping, Pulse!HasOutput
    <2>7. Pulse!ContextFits' /\ Pulse!IdsStayGood'
      BY <2>1, <2>2, <2>3 DEF Pulse!IInv, Pulse!ContextFits, Pulse!IdsStayGood, Pulse!Mask
    <2> QED BY <2>1, <2>5, <2>6, <2>7 DEF Pulse!IInv, Pulse!FaultsAreKnown
  <1>2. CASE Pulse!StreamReady
    <2>1. /\ fault = "none" /\ app = "init" /\ app' = "idle" /\ UNCHANGED <<v1, v2, v3, fault>>
          /\ stm' = [stm EXCEPT !.life = "live"]
      BY <1>2 DEF Pulse!StreamReady
    <2>2. /\ stm' \in Pulse!Streams /\ stm'.life = "live" /\ stm'.kind = stm.kind
          /\ stm'.good = stm.good /\ stm'.bad = stm.bad /\ stm'.early = stm.early
          /\ stm'.calling = stm.calling /\ stm'.short = stm.short
          /\ stm'.timer = stm.timer /\ stm'.starts = stm.starts /\ stm'.shutdown = stm.shutdown
      BY <2>1 DEF Pulse!Streams
    <2>3. Pulse!StreamFits' /\ Pulse!FlagsFit' /\ Pulse!DeferredCounted'
      BY <2>1, <2>2 DEF Pulse!StreamFits, Pulse!FlagsFit, Pulse!DeferredCounted, Pulse!HasOutput,
         Pulse!Starting, Pulse!Stopping
    <2> QED BY <2>1, <2>2, <2>3, PulseStreamMoves
  <1>3. CASE Pulse!StreamFailed
    <2>1. /\ fault = "none" /\ app = "init" /\ app' = "done" /\ UNCHANGED <<v1, v2, v3, fault>>
          /\ stm' = [stm EXCEPT !.life = "freed", !.good = {}]
      BY <1>3 DEF Pulse!StreamFailed
    <2>2. /\ stm' \in Pulse!Streams /\ stm'.life = "freed" /\ stm'.kind = stm.kind
          /\ stm'.good = {} /\ stm'.bad = stm.bad /\ stm'.early = stm.early
          /\ stm'.calling = stm.calling /\ stm'.short = stm.short
          /\ stm'.timer = stm.timer /\ stm'.starts = stm.starts /\ stm'.shutdown = stm.shutdown
      BY <2>1 DEF Pulse!Streams
    <2>3. Pulse!StreamFits' /\ Pulse!FlagsFit' /\ Pulse!DeferredCounted'
      BY <2>1, <2>2 DEF Pulse!StreamFits, Pulse!FlagsFit, Pulse!DeferredCounted, Pulse!HasOutput,
         Pulse!Starting, Pulse!Stopping
    <2> QED BY <2>1, <2>2, <2>3, PulseStreamMoves
  <1>4. CASE Pulse!StartClear
    <2>1. /\ fault = "none" /\ app \in {"idle", "quiet"} /\ app' = "uncork"
          /\ stm.starts < MaxStarts /\ UNCHANGED <<v1, v2, v3, fault>>
          /\ stm' = [stm EXCEPT !.shutdown = FALSE, !.short = FALSE, !.early = stm.timer,
                                !.starts = stm.starts + 1]
      BY <1>4 DEF Pulse!StartClear
    <2>2. stm.starts + 1 \in 0..MaxStarts
      BY <2>1
    <2>3. /\ stm' \in Pulse!Streams /\ stm'.life = stm.life /\ stm'.kind = stm.kind
          /\ stm'.good = stm.good /\ stm'.bad = stm.bad /\ stm'.early = stm.timer
          /\ stm'.calling = stm.calling /\ ~stm'.short
          /\ stm'.timer = stm.timer /\ stm'.starts = stm.starts + 1 /\ ~stm'.shutdown
      BY <2>1, <2>2 DEF Pulse!Streams
    <2>4. app' \in Pulse!Starting /\ app' \notin Pulse!Stopping /\ app \notin Pulse!Starting
      BY <2>1 DEF Pulse!Starting, Pulse!Stopping
    <2>5. Pulse!StreamFits'
      BY <2>1, <2>3, <2>4 DEF Pulse!StreamFits, Pulse!HasOutput
    <2>6. Pulse!FlagsFit'
      BY <2>1, <2>3 DEF Pulse!FlagsFit, Pulse!HasOutput
    <2>7. v3' + 1 <= stm'.starts
      BY <2>1, <2>3, <2>4
    <2>8. Pulse!DeferredCounted'
      BY <2>4, <2>7 DEF Pulse!DeferredCounted
    <2> QED BY <2>1, <2>3, <2>4, <2>5, <2>6, <2>8, PulseStreamMoves
  <1>5. CASE Pulse!StopBegin
    <2>1. /\ fault = "none" /\ app = "idle" /\ app' \in {"waiting", "cork"} /\ stm.calling = "no"
          /\ UNCHANGED <<v1, v2, v3, fault>> /\ stm' = [stm EXCEPT !.shutdown = TRUE]
      BY <1>5 DEF Pulse!StopBegin
    <2>2. /\ stm' \in Pulse!Streams /\ stm'.life = stm.life /\ stm'.kind = stm.kind
          /\ stm'.good = stm.good /\ stm'.bad = stm.bad /\ stm'.early = stm.early
          /\ stm'.calling = stm.calling /\ stm'.short = stm.short
          /\ stm'.timer = stm.timer /\ stm'.starts = stm.starts /\ stm'.shutdown
      BY <2>1 DEF Pulse!Streams
    <2>3. Pulse!StreamFits' /\ Pulse!FlagsFit' /\ Pulse!DeferredCounted'
      BY <2>1, <2>2 DEF Pulse!StreamFits, Pulse!FlagsFit, Pulse!DeferredCounted, Pulse!HasOutput,
         Pulse!Starting, Pulse!Stopping
    <2> QED BY <2>1, <2>2, <2>3, PulseStreamMoves DEF Pulse!Stopping
  <1>6. CASE Pulse!StopWaited
    BY <1>6, PulseAppMoves DEF Pulse!StopWaited, Pulse!Stopping
  <1>7. CASE Pulse!Defer
    <2>1. /\ fault = "none" /\ app = "defer" /\ app' = "idle"
          /\ v3' = v3 \/ (v3' = v3 + 1 /\ stm.kind = "output")
          /\ UNCHANGED <<v1, v2, stm, fault>>
      BY <1>7 DEF Pulse!Defer
    <2>2. Pulse!StreamFits' /\ Pulse!FlagsFit' /\ Pulse!DeferredCounted'
      BY <2>1 DEF Pulse!StreamFits, Pulse!FlagsFit, Pulse!DeferredCounted, Pulse!HasOutput,
         Pulse!Starting, Pulse!Stopping
    <2> QED BY <2>1, <2>2, PulseStreamMoves
  <1>8. CASE Pulse!Destroy
    BY <1>8, PulseAppMoves DEF Pulse!Destroy, Pulse!Stopping
  <1>9. CASE Pulse!Free
    <2>1. /\ fault = "none" /\ app = "free" /\ app' = "done" /\ UNCHANGED <<v1, v2, v3, fault>>
          /\ stm' = [stm EXCEPT !.life = "freed", !.good = {},
                                !.timer = IF stm.kind # "input" THEN FALSE ELSE stm.timer]
      BY <1>9 DEF Pulse!Free, Pulse!HasOutput
    <2>2. ~stm.timer \/ stm.kind # "input"
      OBVIOUS
    <2>3. /\ stm' \in Pulse!Streams /\ stm'.life = "freed" /\ stm'.kind = stm.kind
          /\ stm'.good = {} /\ stm'.bad = stm.bad /\ stm'.early = stm.early
          /\ stm'.calling = stm.calling /\ stm'.short = stm.short
          /\ ~stm'.timer /\ stm'.starts = stm.starts /\ stm'.shutdown = stm.shutdown
      BY <2>1, <2>2 DEF Pulse!Streams
    <2>4. Pulse!StreamFits' /\ Pulse!FlagsFit' /\ Pulse!DeferredCounted'
      BY <2>1, <2>3 DEF Pulse!StreamFits, Pulse!FlagsFit, Pulse!DeferredCounted, Pulse!HasOutput,
         Pulse!Starting, Pulse!Stopping
    <2> QED BY <2>1, <2>3, <2>4, PulseStreamMoves
  <1>10. CASE Pulse!Cork("uncork", "uncorking", "started")
    BY <1>10, PulseAppMoves DEF Pulse!Cork, Pulse!Starting
  <1>11. CASE Pulse!Cork("cork", "corking", "stopped")
    BY <1>11, PulseAppMoves DEF Pulse!Cork, Pulse!Stopping
  <1>12. CASE Pulse!Cork("recork", "recorking", "free")
    BY <1>12, PulseAppMoves DEF Pulse!Cork, Pulse!Stopping
  <1>13. ASSUME NEW from \in {"started", "stopped"}, NEW state \in {"started", "stopped"},
                NEW next \in {"defer", "quiet"}, Pulse!Told(from, state, next),
                \/ from = "started" /\ next = "defer"
                \/ from = "stopped" /\ next = "quiet"
         PROVE  Pulse!IInv'
    <2>1. /\ fault = "none" /\ app = from /\ app' = next /\ UNCHANGED <<v1, v2, v3, fault>>
          /\ stm' = [stm EXCEPT !.state = state]
      BY <1>13 DEF Pulse!Told
    <2>2. /\ stm' \in Pulse!Streams /\ stm'.life = stm.life /\ stm'.kind = stm.kind
          /\ stm'.good = stm.good /\ stm'.bad = stm.bad /\ stm'.early = stm.early
          /\ stm'.calling = stm.calling /\ stm'.short = stm.short
          /\ stm'.timer = stm.timer /\ stm'.starts = stm.starts /\ stm'.shutdown = stm.shutdown
      BY <2>1 DEF Pulse!Streams
    <2>3. Pulse!StreamFits' /\ Pulse!FlagsFit' /\ Pulse!DeferredCounted'
      BY <1>13, <2>1, <2>2 DEF Pulse!StreamFits, Pulse!FlagsFit, Pulse!DeferredCounted,
         Pulse!HasOutput, Pulse!Starting, Pulse!Stopping
    <2> QED BY <2>1, <2>2, <2>3, PulseStreamMoves DEF Pulse!Starting, Pulse!Stopping
  <1> QED
    BY <1>1, <1>2, <1>3, <1>4, <1>5, <1>6, <1>7, <1>8, <1>9, <1>10, <1>11, <1>12, <1>13
       DEF Pulse!AppNext

\* What a step of the context has to keep.
LEMMA PulseHostMoves ==
  ASSUME CubebAssumption, Pulse!IInv, UNCHANGED <<stm, app>>, v3' = v3 \/ v3' = 0,
         v1' \in Pulse!Contexts, v2' \in {"idle", "subscribe", "destroyed"},
         fault' \in {"none", "callback", "context"},
         Pulse!ContextFits', Pulse!IdsStayGood', Pulse!FaultsAreKnown'
  PROVE  Pulse!IInv'
  <1>0. MaxStarts \in Nat /\ v3 \in 0..MaxStarts /\ stm.starts \in 0..MaxStarts
    BY PulseTypes
  <1> DEFINE b == IF app \in Pulse!Starting THEN 1 ELSE 0
  <1>5. b \in {0, 1} /\ v3 + b <= stm.starts
    BY PulseBefore
  <1> HIDE DEF b
  <1>1. v3' \in 0..MaxStarts /\ v3' + b <= stm.starts
    BY <1>0, <1>5, CountedDown
  <1>2. Pulse!TypeOK'
    BY <1>1, PulseTypes DEF Pulse!TypeOK
  <1>3. Pulse!StreamFits'
    <2>1. CASE v3' = v3
      BY <2>1, PulseBefore DEF Pulse!StreamFits, Pulse!HasOutput
    <2>2. CASE v3' = 0
      <3>1. ~(v3' > 0)
        BY <2>2
      <3>2. v3 > 0 \/ v3 = 0
        BY <1>0
      <3> QED BY <2>2, <3>1, <3>2, PulseBefore DEF Pulse!StreamFits, Pulse!HasOutput
    <2> QED BY <2>1, <2>2
  <1>4. Pulse!FlagsFit'
    BY PulseBefore DEF Pulse!FlagsFit, Pulse!HasOutput
  <1>7. Pulse!DeferredCounted'
    BY <1>1 DEF Pulse!DeferredCounted, b
  <1> QED BY <1>2, <1>3, <1>4, <1>7 DEF Pulse!IInv

\* Every step of the thread that owns the context preserves the invariant.
LEMMA PulseHostStep ==
  ASSUME CubebAssumption, Pulse!IInv, Pulse!HostNext PROVE Pulse!IInv'
  <1> USE PulseTypes DEF Pulse!Unlocked
  <1>0. /\ v1.connects = 0 => v1.callbacks = {} /\ v2 = "idle" /\ app = "none"
        /\ v1.conn # "ready" => v1.mask = {}
        /\ v2 # "subscribe" => v1.mask \subseteq Pulse!Mask(v1.callbacks)
        /\ v2 = "destroyed" => v1.conn = "none"
        /\ v1.conn = "none" /\ v2 # "destroyed" /\ v1.connects > 0 => v1.error
        /\ v1.listed \subseteq v1.ids
    BY DEF Pulse!IInv, Pulse!ContextFits, Pulse!IdsStayGood
  <1>1. CASE Pulse!PulseInit
    <2>1. /\ fault = "none" /\ v2 = "idle" /\ v1.connects = 0 /\ MaxConnects > 0
          /\ UNCHANGED <<v2, stm, app, v3, fault>>
      BY <1>1 DEF Pulse!PulseInit
    <2>2. PICK c \in Pulse!Connect(v1) : c.conn = "ready" /\ v1' = [c EXCEPT !.mask = Pulse!Mask({})]
      BY <1>1 DEF Pulse!PulseInit
    <2>3. 1 \in 0..MaxConnects
      BY <2>1
    <2>4. c = [v1 EXCEPT !.conn = "ready", !.error = FALSE, !.mask = {}, !.connects = 1]
      <3>1. 0 + 1 = 1
        OBVIOUS
      <3>2. c = [v1 EXCEPT !.conn = "ready", !.error = FALSE, !.mask = {},
                           !.connects = v1.connects + 1]
            \/ c = [v1 EXCEPT !.conn = "none", !.mask = {}, !.connects = v1.connects + 1]
        BY <2>2 DEF Pulse!Connect
      <3>3. [v1 EXCEPT !.conn = "none", !.mask = {}, !.connects = v1.connects + 1].conn = "none"
        BY DEF Pulse!Contexts
      <3> QED BY <2>1, <2>2, <3>1, <3>2, <3>3
    <2>5. /\ v1' \in Pulse!Contexts /\ v1'.conn = "ready" /\ v1'.mask = Pulse!Mask({})
          /\ v1'.connects = 1 /\ v1'.callbacks = v1.callbacks /\ v1'.ids = v1.ids
          /\ v1'.listed = v1.listed /\ ~v1'.error
      BY <2>2, <2>3, <2>4 DEF Pulse!Contexts, Pulse!Mask, Pulse!Facilities
    <2>6. Pulse!TypeOK'
      BY <2>1, <2>5 DEF Pulse!TypeOK
    <2>7. app = "none"
      BY <1>0, <2>1
    <2>8. Pulse!StreamFits' /\ Pulse!FlagsFit' /\ Pulse!DeferredCounted'
      BY <2>1, <2>7, PulseBefore DEF Pulse!StreamFits, Pulse!FlagsFit, Pulse!DeferredCounted,
         Pulse!HasOutput, Pulse!Starting, Pulse!Stopping
    <2>9. Pulse!ContextFits' /\ Pulse!IdsStayGood' /\ Pulse!FaultsAreKnown'
      BY <1>0, <2>1, <2>5 DEF Pulse!ContextFits, Pulse!IdsStayGood, Pulse!FaultsAreKnown
    <2> QED BY <2>6, <2>8, <2>9 DEF Pulse!IInv
  <1>2. CASE Pulse!PulseDestroy
    <2>1. /\ fault = "none" /\ v1.connects > 0 /\ v1.callbacks = {} /\ v2' = "destroyed" /\ v3' = 0
          /\ UNCHANGED <<stm, app, fault>>
          /\ v1' = [v1 EXCEPT !.conn = "none", !.mask = {}, !.ids = {}, !.listed = {}]
      BY <1>2 DEF Pulse!PulseDestroy
    <2>2. /\ v1' \in Pulse!Contexts /\ v1'.conn = "none" /\ v1'.mask = {} /\ v1'.error = v1.error
          /\ v1'.connects = v1.connects /\ v1'.callbacks = v1.callbacks /\ v1'.listed = {}
      BY <2>1 DEF Pulse!Contexts
    <2>3. Pulse!ContextFits' /\ Pulse!IdsStayGood' /\ Pulse!FaultsAreKnown'
      BY <1>0, <2>1, <2>2 DEF Pulse!ContextFits, Pulse!IdsStayGood, Pulse!FaultsAreKnown
    <2> QED BY <2>1, <2>2, <2>3, PulseHostMoves
  <1>3. CASE Pulse!Subscribe
    <2>1. /\ fault = "none" /\ v2 = "subscribe" /\ v2' = "idle" /\ UNCHANGED <<stm, app, v3>>
      BY <1>3 DEF Pulse!Subscribe
    <2>2. v1.connects > 0
      BY <1>0, <2>1 DEF Pulse!Contexts
    <2>3. CASE v1.conn = "none"
      <3>1. fault' = "context" /\ UNCHANGED v1
        BY <1>3, <2>3 DEF Pulse!Subscribe
      <3>2. Pulse!ContextFits' /\ Pulse!IdsStayGood' /\ Pulse!FaultsAreKnown'
        BY <1>0, <2>1, <2>2, <2>3, <3>1 DEF Pulse!ContextFits, Pulse!IdsStayGood, Pulse!FaultsAreKnown
      <3> QED BY <2>1, <3>1, <3>2, PulseHostMoves
    <2>4. CASE v1.conn = "ready"
      <3>1. UNCHANGED fault /\ v1' = [v1 EXCEPT !.mask = Pulse!Mask(v1.callbacks)]
        BY <1>3, <2>4 DEF Pulse!Subscribe
      <3>2. /\ v1' \in Pulse!Contexts /\ v1'.conn = v1.conn /\ v1'.mask = Pulse!Mask(v1.callbacks)
            /\ v1'.connects = v1.connects /\ v1'.callbacks = v1.callbacks /\ v1'.error = v1.error
            /\ v1'.ids = v1.ids /\ v1'.listed = v1.listed
        BY <3>1 DEF Pulse!Contexts, Pulse!Mask, Pulse!Facilities
      <3>3. Pulse!ContextFits' /\ Pulse!IdsStayGood' /\ Pulse!FaultsAreKnown'
        BY <1>0, <2>1, <2>2, <2>4, <3>1, <3>2
           DEF Pulse!ContextFits, Pulse!IdsStayGood, Pulse!FaultsAreKnown
      <3> QED BY <2>1, <3>1, <3>2, <3>3, PulseHostMoves
    <2>5. CASE v1.conn = "bad"
      <3>1. UNCHANGED <<v1, fault>>
        BY <1>3, <2>5 DEF Pulse!Subscribe
      <3>2. Pulse!ContextFits' /\ Pulse!IdsStayGood' /\ Pulse!FaultsAreKnown'
        BY <1>0, <2>1, <2>2, <2>5, <3>1 DEF Pulse!ContextFits, Pulse!IdsStayGood, Pulse!FaultsAreKnown
      <3> QED BY <2>1, <3>1, <3>2, PulseHostMoves
    <2> QED BY <2>3, <2>4, <2>5 DEF Pulse!Contexts
  <1>4. ASSUME NEW f \in SUBSET {"sink", "source"}, NEW on \in BOOLEAN, Pulse!Register(f, on)
        PROVE  Pulse!IInv'
    <2>1. /\ fault = "none" /\ v2 = "idle" /\ v1.connects > 0 /\ v2' = "subscribe"
          /\ UNCHANGED <<stm, app, v3, fault>>
          /\ v1' = [v1 EXCEPT !.callbacks = IF on THEN v1.callbacks \cup f ELSE v1.callbacks \ f]
      BY <1>4 DEF Pulse!Register
    <2>2. (IF on THEN v1.callbacks \cup f ELSE v1.callbacks \ f) \in SUBSET {"sink", "source"}
      BY DEF Pulse!Contexts
    <2>3. /\ v1' \in Pulse!Contexts /\ v1'.conn = v1.conn /\ v1'.mask = v1.mask
          /\ v1'.connects = v1.connects /\ v1'.error = v1.error
          /\ v1'.ids = v1.ids /\ v1'.listed = v1.listed
      BY <2>1, <2>2 DEF Pulse!Contexts
    <2>4. Pulse!ContextFits' /\ Pulse!IdsStayGood' /\ Pulse!FaultsAreKnown'
      BY <1>0, <2>1, <2>3 DEF Pulse!ContextFits, Pulse!IdsStayGood, Pulse!FaultsAreKnown
    <2> QED BY <2>1, <2>3, <2>4, PulseHostMoves
  <1>5. ASSUME NEW sinks \in SUBSET Sinks, NEW sources \in SUBSET Sources,
               Pulse!Enumerate(sinks, sources)
        PROVE  Pulse!IInv'
    <2> DEFINE seen == IF v1.conn = "ready" THEN sinks \cup sources ELSE {}
    <2>1. /\ fault = "none" /\ v2 = "idle" /\ v1.connects > 0 /\ UNCHANGED <<v2, stm, app, v3>>
          /\ fault' = IF v1.conn = "none" THEN "context" ELSE "none"
          /\ v1' = [v1 EXCEPT !.ids = v1.ids \cup seen, !.listed = v1.listed \cup seen]
      BY <1>5 DEF Pulse!Enumerate, Pulse!Interned
    <2>2. seen \in SUBSET (Sinks \cup Sources)
      OBVIOUS
    <2> HIDE DEF seen
    <2>3. /\ v1' \in Pulse!Contexts /\ v1'.conn = v1.conn /\ v1'.mask = v1.mask
          /\ v1'.connects = v1.connects /\ v1'.error = v1.error /\ v1'.callbacks = v1.callbacks
          /\ v1'.ids = v1.ids \cup seen /\ v1'.listed = v1.listed \cup seen
      BY <2>1, <2>2 DEF Pulse!Contexts
    <2>4. Pulse!ContextFits' /\ Pulse!IdsStayGood' /\ Pulse!FaultsAreKnown'
      BY <1>0, <2>1, <2>3 DEF Pulse!ContextFits, Pulse!IdsStayGood, Pulse!FaultsAreKnown
    <2> QED BY <2>1, <2>3, <2>4, PulseHostMoves
  <1> QED
    BY <1>1, <1>2, <1>3, <1>4, <1>5 DEF Pulse!HostNext

\* Every step of the main loop preserves the invariant.
LEMMA PulseLoopStep ==
  ASSUME CubebAssumption, Pulse!IInv, Pulse!LoopNext PROVE Pulse!IInv'
  <1> USE PulseTypes, PulseBefore DEF Pulse!Unlocked
  <1>0. /\ stm.good # {} => app \notin {"none", "done"}
        /\ app \notin {"none", "done"} /\ stm.kind # "input" /\ "output" \notin stm.good =>
             "output" \in stm.bad
    OBVIOUS
  <1>7. CASE Pulse!ReadCallback /\ Pulse!HasOutput /\ "output" \notin stm.good
    <2>1. fault' = "write" /\ UNCHANGED <<v1, v2, stm, app, v3>> /\ stm.good # {}
      BY <1>7 DEF Pulse!ReadCallback
    <2>2. "output" \in stm.bad
      BY <1>0, <1>7, <2>1 DEF Pulse!HasOutput
    <2>3. Pulse!TypeOK'
      BY <2>1 DEF Pulse!TypeOK
    <2>4. Pulse!StreamFits' /\ Pulse!FlagsFit' /\ Pulse!DeferredCounted'
      BY <2>1 DEF Pulse!IInv, Pulse!StreamFits, Pulse!FlagsFit, Pulse!DeferredCounted,
         Pulse!HasOutput
    <2>5. Pulse!ContextFits' /\ Pulse!IdsStayGood' /\ Pulse!FaultsAreKnown'
      BY <2>1, <2>2 DEF Pulse!IInv, Pulse!ContextFits, Pulse!IdsStayGood, Pulse!FaultsAreKnown,
         Pulse!Mask
    <2> QED BY <2>3, <2>4, <2>5 DEF Pulse!IInv
  <1>1. CASE \/ Pulse!WriteCallback
             \/ Pulse!ReadCallback /\ ~(Pulse!HasOutput /\ "output" \notin stm.good)
    <2>1. /\ fault = "none" /\ UNCHANGED <<v1, v2, app, v3, fault>> /\ stm.good # {}
          /\ ~stm.corked /\ ~stm.shutdown
          /\ \E c \in {"write", "read"} : stm' = [stm EXCEPT !.calling = c]
      BY <1>1 DEF Pulse!WriteCallback, Pulse!ReadCallback, Pulse!MayCall
    <2>2. /\ stm' \in Pulse!Streams /\ stm'.life = stm.life /\ stm'.kind = stm.kind
          /\ stm'.good = stm.good /\ stm'.bad = stm.bad /\ stm'.early = stm.early
          /\ stm'.calling # "no" /\ stm'.short = stm.short
          /\ stm'.timer = stm.timer /\ stm'.starts = stm.starts /\ stm'.shutdown = stm.shutdown
      BY <2>1 DEF Pulse!Streams
    <2>3. Pulse!StreamFits' /\ Pulse!FlagsFit' /\ Pulse!DeferredCounted'
      BY <1>0, <2>1, <2>2 DEF Pulse!StreamFits, Pulse!FlagsFit, Pulse!DeferredCounted,
         Pulse!HasOutput
    <2> QED BY <2>1, <2>2, <2>3, PulseStreamMoves
  <1>2. CASE Pulse!DeferCallback
    <2>1. /\ fault = "none" /\ UNCHANGED <<v1, v2, app>> /\ v3 > 0 /\ v3' = v3 - 1
          /\ stm.calling = "no"
          /\ fault' = IF stm.life = "freed" THEN "freed"
                      ELSE IF ~stm.shutdown /\ "output" \notin stm.good THEN "size" ELSE "none"
          /\ stm' = IF fault' = "none" /\ ~stm.shutdown THEN [stm EXCEPT !.calling = "defer"] ELSE stm
      BY <1>2 DEF Pulse!DeferCallback, Pulse!MayCall
    <2> DEFINE b == IF app \in Pulse!Starting THEN 1 ELSE 0
    <2>0. /\ MaxStarts \in Nat /\ v3 \in 0..MaxStarts /\ stm.starts \in 0..MaxStarts
          /\ b \in {0, 1} /\ v3 + b <= stm.starts
      BY PulseTypes, PulseBefore
    <2> HIDE DEF b
    <2>c. v3 > 0 /\ v3' = v3 - 1
      BY <2>1
    <2>a. v3 # 0
      BY <2>0, <2>c
    <2>2. app \notin {"none", "init"} /\ (app \in {"free", "done"} => "output" \in stm.bad)
      BY <2>a, PulseBefore, Zenon
    <2>b. v3' \in 0..MaxStarts /\ v3' + b <= stm.starts
      <3>1. v3' = v3 \/ v3' = 0 \/ (v3 > 0 /\ v3' = v3 - 1)
        BY <2>c
      <3> QED BY ONLY <2>0, <3>1, CountedDown
    <2>3. /\ v3' \in 0..MaxStarts
          /\ v3' + (IF app' \in Pulse!Starting THEN 1 ELSE 0) <= stm.starts
      BY <2>1, <2>b DEF b
    <2>4. CASE fault' = "none" /\ ~stm.shutdown
      <3>1. /\ stm' \in Pulse!Streams /\ stm'.life = stm.life /\ stm'.kind = stm.kind
            /\ stm'.good = stm.good /\ stm'.bad = stm.bad /\ stm'.early = stm.early
            /\ stm'.calling # "no" /\ stm'.short = stm.short
            /\ stm'.timer = stm.timer /\ stm'.starts = stm.starts /\ stm'.shutdown = stm.shutdown
        BY <2>1, <2>4 DEF Pulse!Streams
      <3>2. app # "done"
        BY <2>1, <2>4
      <3>3. Pulse!StreamFits'
        BY <2>1, <2>2, <2>3, <2>4, <3>1, <3>2 DEF Pulse!StreamFits, Pulse!HasOutput
      <3>4. Pulse!FlagsFit'
        BY <2>1, <2>4, <3>1 DEF Pulse!FlagsFit, Pulse!HasOutput
      <3>5. Pulse!DeferredCounted'
        BY <2>3, <3>1 DEF Pulse!DeferredCounted
      <3> QED BY <2>1, <2>2, <2>3, <2>4, <3>1, <3>3, <3>4, <3>5, PulseStreamMoves
    <2>5. CASE ~(fault' = "none" /\ ~stm.shutdown)
      <3>1. UNCHANGED stm
        BY <2>1, <2>5
      <3>2. Pulse!TypeOK'
        BY <2>1, <2>3, <3>1 DEF Pulse!TypeOK
      <3>7. Pulse!StreamFits' /\ Pulse!FlagsFit'
        BY <2>1, <2>2, <3>1 DEF Pulse!StreamFits, Pulse!FlagsFit, Pulse!HasOutput
      <3>8. Pulse!DeferredCounted'
        BY <2>3, <3>1 DEF Pulse!DeferredCounted
      <3>3. Pulse!StreamFits' /\ Pulse!FlagsFit' /\ Pulse!DeferredCounted'
        BY <3>7, <3>8
      <3>4. Pulse!ContextFits' /\ Pulse!IdsStayGood'
        BY <2>1 DEF Pulse!IInv, Pulse!ContextFits, Pulse!IdsStayGood, Pulse!Mask
      <3>5. fault' # "none" => "output" \in stm.bad
        <4>1. CASE app = "done"
          BY <2>2, <4>1
        <4>2. CASE app # "done"
          <5>1. stm.life # "freed" /\ app # "none" /\ stm.kind = "output"
            BY <2>1, <2>2, <4>2
          <5> QED BY <1>0, <2>1, <4>2, <5>1
        <4> QED BY <4>1, <4>2
      <3>6. Pulse!FaultsAreKnown'
        BY <2>1, <3>1, <3>5 DEF Pulse!FaultsAreKnown
      <3> QED BY <3>2, <3>3, <3>4, <3>6 DEF Pulse!IInv
    <2> QED BY <2>4, <2>5
  <1>3. CASE Pulse!CallReturns
    <2>1. fault = "none" /\ stm.calling # "no" /\ UNCHANGED <<v1, v2, app, v3>>
      BY <1>3 DEF Pulse!CallReturns
    <2>2. app \notin {"none", "init", "done"} /\ app \notin Pulse!Stopping
      BY <2>1
    <2>3. CASE stm' = [stm EXCEPT !.calling = "no"] /\ UNCHANGED fault
      <3>1. /\ stm' \in Pulse!Streams /\ stm'.life = stm.life /\ stm'.kind = stm.kind
            /\ stm'.good = stm.good /\ stm'.bad = stm.bad /\ stm'.early = stm.early
            /\ stm'.calling = "no" /\ stm'.short = stm.short
            /\ stm'.timer = stm.timer /\ stm'.starts = stm.starts /\ stm'.shutdown = stm.shutdown
        BY <2>3 DEF Pulse!Streams
      <3>2. Pulse!StreamFits' /\ Pulse!FlagsFit' /\ Pulse!DeferredCounted'
        BY <2>1, <2>2, <3>1 DEF Pulse!StreamFits, Pulse!FlagsFit, Pulse!DeferredCounted,
           Pulse!HasOutput
      <3> QED BY <2>1, <2>2, <2>3, <3>1, <3>2, PulseStreamMoves
    <2>4. CASE /\ stm' = [stm EXCEPT !.calling = "no", !.shutdown = TRUE, !.short = TRUE]
               /\ UNCHANGED fault
      <3>1. /\ stm' \in Pulse!Streams /\ stm'.life = stm.life /\ stm'.kind = stm.kind
            /\ stm'.good = stm.good /\ stm'.bad = stm.bad /\ stm'.early = stm.early
            /\ stm'.calling = "no"
            /\ stm'.timer = stm.timer /\ stm'.starts = stm.starts /\ stm'.shutdown
        BY <2>4 DEF Pulse!Streams
      <3>2. Pulse!StreamFits' /\ Pulse!FlagsFit' /\ Pulse!DeferredCounted'
        BY <2>1, <2>2, <3>1 DEF Pulse!StreamFits, Pulse!FlagsFit, Pulse!DeferredCounted,
           Pulse!HasOutput
      <3> QED BY <2>1, <2>2, <2>4, <3>1, <3>2, PulseStreamMoves
    <2>5. CASE /\ stm' = [stm EXCEPT !.calling = "no", !.shutdown = TRUE, !.short = TRUE,
                                     !.timer = Pulse!HasOutput]
               /\ fault' = IF Pulse!HasOutput /\ stm.timer THEN "timer" ELSE "none"
      <3>1. Pulse!HasOutput <=> stm.kind # "input"
        BY DEF Pulse!HasOutput
      <3>2. Pulse!HasOutput \in BOOLEAN
        BY DEF Pulse!HasOutput
      <3>3. /\ stm' \in Pulse!Streams /\ stm'.life = stm.life /\ stm'.kind = stm.kind
            /\ stm'.good = stm.good /\ stm'.bad = stm.bad /\ stm'.early = stm.early
            /\ stm'.calling = "no" /\ (stm'.timer <=> stm.kind # "input")
            /\ stm'.starts = stm.starts /\ stm'.shutdown
        BY <2>5, <3>1, <3>2 DEF Pulse!Streams
      <3>4. Pulse!StreamFits' /\ Pulse!FlagsFit' /\ Pulse!DeferredCounted'
        BY <2>1, <2>2, <3>3 DEF Pulse!StreamFits, Pulse!FlagsFit, Pulse!DeferredCounted,
           Pulse!HasOutput
      <3>5. CASE fault' = "none"
        BY <2>1, <2>2, <3>3, <3>4, <3>5, PulseStreamMoves
      <3>6. CASE fault' = "timer"
        <4>1. stm'.early
          BY <2>1, <2>5, <3>3, <3>6
        <4>2. Pulse!TypeOK'
          BY <2>1, <3>3, <3>6 DEF Pulse!TypeOK
        <4>3. Pulse!ContextFits' /\ Pulse!IdsStayGood' /\ Pulse!FaultsAreKnown'
          BY <2>1, <3>6, <4>1 DEF Pulse!IInv, Pulse!ContextFits, Pulse!IdsStayGood, Pulse!Mask,
             Pulse!FaultsAreKnown
        <4> QED BY <3>4, <4>2, <4>3 DEF Pulse!IInv
      <3> QED BY <2>5, <3>5, <3>6
    <2> QED BY <1>3, <2>3, <2>4, <2>5 DEF Pulse!CallReturns
  <1>4. CASE Pulse!DrainCallback
    <2>1. /\ fault = "none" /\ stm.timer /\ UNCHANGED <<v1, v2, app, v3>>
          /\ fault' = IF stm.life = "freed" THEN "freed" ELSE "none"
          /\ stm' = [stm EXCEPT !.timer = FALSE, !.state = "drained"]
      BY <1>4 DEF Pulse!DrainCallback, Pulse!Rung
    <2>2. fault' = "none"
      BY <2>1
    <2>3. /\ stm' \in Pulse!Streams /\ stm'.life = stm.life /\ stm'.kind = stm.kind
          /\ stm'.good = stm.good /\ stm'.bad = stm.bad /\ stm'.early = stm.early
          /\ stm'.calling = stm.calling /\ stm'.short = stm.short
          /\ ~stm'.timer /\ stm'.starts = stm.starts /\ stm'.shutdown = stm.shutdown
          /\ stm'.corked = stm.corked
      BY <2>1 DEF Pulse!Streams
    <2>4. Pulse!StreamFits' /\ Pulse!FlagsFit' /\ Pulse!DeferredCounted'
      BY <2>1, <2>3 DEF Pulse!StreamFits, Pulse!FlagsFit, Pulse!DeferredCounted, Pulse!HasOutput
    <2> QED BY <2>1, <2>2, <2>3, <2>4, PulseStreamMoves
  <1>5. ASSUME NEW wait \in Pulse!Starting \cup Pulse!Stopping,
               NEW next \in Pulse!Starting \cup Pulse!Stopping, NEW corked \in BOOLEAN,
               Pulse!Corked(wait, next, corked), wait # "free",
               wait \in Pulse!Starting <=> next \in Pulse!Starting
        PROVE  Pulse!IInv'
    <2>1. /\ fault = "none" /\ app = wait /\ app' = next /\ v3 = 0 /\ UNCHANGED <<v1, v2, v3, fault>>
          /\ stm' = stm \/ stm' = [stm EXCEPT !.corked = corked]
      BY <1>5 DEF Pulse!Corked
    <2>2. /\ stm' \in Pulse!Streams /\ stm'.life = stm.life /\ stm'.kind = stm.kind
          /\ stm'.good = stm.good /\ stm'.bad = stm.bad /\ stm'.early = stm.early
          /\ stm'.calling = stm.calling /\ stm'.short = stm.short
          /\ stm'.timer = stm.timer /\ stm'.starts = stm.starts /\ stm'.shutdown = stm.shutdown
      BY <2>1 DEF Pulse!Streams
    <2>3. Pulse!StreamFits' /\ Pulse!FlagsFit' /\ Pulse!DeferredCounted'
      BY <1>5, <2>1, <2>2 DEF Pulse!StreamFits, Pulse!FlagsFit, Pulse!DeferredCounted,
         Pulse!HasOutput, Pulse!Starting, Pulse!Stopping
    <2> QED BY <1>5, <2>1, <2>2, <2>3, PulseStreamMoves DEF Pulse!Starting, Pulse!Stopping
  <1>6. CASE \/ Pulse!Corked("uncorking", "started", FALSE)
             \/ Pulse!Corked("corking", "stopped", TRUE)
             \/ Pulse!Corked("recorking", "free", TRUE)
    BY <1>5, <1>6 DEF Pulse!Starting, Pulse!Stopping
  <1> QED
    BY <1>1, <1>2, <1>3, <1>4, <1>6, <1>7 DEF Pulse!LoopNext

\* Every step of the server preserves the invariant.
LEMMA PulseServerStep ==
  ASSUME CubebAssumption, Pulse!IInv, Pulse!ServerNext PROVE Pulse!IInv'
  <1> USE PulseTypes DEF Pulse!Unlocked
  <1>0. ASSUME NEW sides \in SUBSET stm.good
        PROVE  LET s == Pulse!Broken(stm, sides)
               IN /\ s \in Pulse!Streams /\ s.life = stm.life /\ s.kind = stm.kind
                  /\ s.good = stm.good \ sides /\ s.bad = stm.bad \cup sides
                  /\ s.calling = stm.calling /\ s.short = stm.short /\ s.corked = stm.corked
                  /\ s.timer = stm.timer /\ s.starts = stm.starts /\ s.early = stm.early
                  /\ s.shutdown = stm.shutdown
    <2>1. stm.good \ sides \in SUBSET {"output", "input"} /\ stm.bad \cup sides \in SUBSET {"output", "input"}
      BY DEF Pulse!Streams
    <2>2. CASE sides = {}
      BY <2>2 DEF Pulse!Broken
    <2>3. CASE sides # {}
      <3>1. Pulse!Broken(stm, sides) = [stm EXCEPT !.good = stm.good \ sides,
                                                   !.bad = stm.bad \cup sides, !.state = "error"]
        BY <2>3 DEF Pulse!Broken
      <3> QED BY <2>1, <3>1 DEF Pulse!Streams
    <2> QED BY <2>2, <2>3
  <1>3. ASSUME NEW sides \in SUBSET stm.good, stm' = Pulse!Broken(stm, sides),
               UNCHANGED <<v2, app, v3, fault>>
        PROVE  stm' \in Pulse!Streams /\ Pulse!StreamFits' /\ Pulse!FlagsFit' /\ Pulse!DeferredCounted'
    <2>1. /\ stm' \in Pulse!Streams /\ stm'.life = stm.life /\ stm'.kind = stm.kind
          /\ stm'.good = stm.good \ sides /\ stm'.bad = stm.bad \cup sides
          /\ stm'.calling = stm.calling /\ stm'.short = stm.short /\ stm'.corked = stm.corked
          /\ stm'.timer = stm.timer /\ stm'.starts = stm.starts /\ stm'.early = stm.early
          /\ stm'.shutdown = stm.shutdown
      BY <1>0, <1>3
    <2>2. Pulse!StreamFits'
      BY <1>3, <2>1, PulseBefore DEF Pulse!StreamFits, Pulse!HasOutput
    <2>3. Pulse!FlagsFit' /\ Pulse!DeferredCounted'
      BY <1>3, <2>1, PulseBefore DEF Pulse!FlagsFit, Pulse!DeferredCounted, Pulse!HasOutput
    <2> QED BY <2>1, <2>2, <2>3
  <1>1. CASE Pulse!ContextFails
    <2>1. /\ fault = "none" /\ v1.conn = "ready" /\ UNCHANGED <<v2, app, v3, fault>>
          /\ v1' = [v1 EXCEPT !.conn = "bad", !.error = TRUE, !.mask = {}]
          /\ stm' = Pulse!Broken(stm, stm.good)
      BY <1>1 DEF Pulse!ContextFails
    <2>2. /\ v1' \in Pulse!Contexts /\ v1'.conn = "bad" /\ v1'.error /\ v1'.mask = {}
          /\ v1'.connects = v1.connects /\ v1'.callbacks = v1.callbacks
          /\ v1'.ids = v1.ids /\ v1'.listed = v1.listed
      BY <2>1 DEF Pulse!Contexts
    <2>3. /\ stm' \in Pulse!Streams
          /\ Pulse!StreamFits' /\ Pulse!FlagsFit' /\ Pulse!DeferredCounted'
      BY <1>3, <2>1
    <2>4. Pulse!TypeOK'
      BY <2>1, <2>2, <2>3 DEF Pulse!TypeOK
    <2>6. Pulse!ContextFits' /\ Pulse!IdsStayGood' /\ Pulse!FaultsAreKnown'
      BY <2>1, <2>2 DEF Pulse!IInv, Pulse!ContextFits, Pulse!IdsStayGood, Pulse!FaultsAreKnown
    <2> QED BY <2>3, <2>4, <2>6 DEF Pulse!IInv
  <1>4. CASE Pulse!StreamFails
    <2>1. fault = "none" /\ UNCHANGED <<v1, v2, app, v3, fault>>
      BY <1>4 DEF Pulse!StreamFails
    <2>2. PICK side \in stm.good : stm' = Pulse!Broken(stm, {side})
      BY <1>4 DEF Pulse!StreamFails
    <2>3. /\ stm' \in Pulse!Streams
          /\ Pulse!StreamFits' /\ Pulse!FlagsFit' /\ Pulse!DeferredCounted'
      BY <1>3, <2>1, <2>2
    <2>4. Pulse!TypeOK'
      BY <2>1, <2>3 DEF Pulse!TypeOK
    <2>6. Pulse!ContextFits' /\ Pulse!IdsStayGood' /\ Pulse!FaultsAreKnown'
      BY <2>1 DEF Pulse!IInv, Pulse!ContextFits, Pulse!IdsStayGood, Pulse!FaultsAreKnown, Pulse!Mask
    <2> QED BY <2>3, <2>4, <2>6 DEF Pulse!IInv
  <1>2. ASSUME NEW f \in Pulse!Facilities, Pulse!CollectionChanged(f) PROVE Pulse!IInv'
    <2>1. /\ UNCHANGED <<v1, v2, stm, app, v3>> /\ fault' = "callback"
          /\ f \in v1.mask \cap {"sink", "source"} /\ f \notin v1.callbacks
      BY <1>2 DEF Pulse!CollectionChanged
    <2>2. v2 = "subscribe"
      BY <2>1 DEF Pulse!IInv, Pulse!ContextFits, Pulse!Mask
    <2>3. Pulse!ContextFits' /\ Pulse!IdsStayGood' /\ Pulse!FaultsAreKnown'
      BY <2>1, <2>2 DEF Pulse!IInv, Pulse!ContextFits, Pulse!IdsStayGood, Pulse!FaultsAreKnown
    <2> QED BY <2>1, <2>2, <2>3, PulseHostMoves
  <1> QED
    BY <1>1, <1>2, <1>4 DEF Pulse!ServerNext

\* Every step preserves the invariant.
LEMMA PulseStep ==
  ASSUME CubebAssumption, Pulse!IInv, Pulse!Next PROVE Pulse!IInv'
  BY PulseAppStep, PulseHostStep, PulseLoopStep, PulseServerStep DEF Pulse!Next

\* So does a step that changes nothing of the context and its stream.
LEMMA PulseStutter ==
  ASSUME Pulse!IInv, UNCHANGED <<stm, app, fault, v1, v2, v3>> PROVE Pulse!IInv'
  <1>1. Pulse!TypeOK'
    BY DEF Pulse!IInv, Pulse!TypeOK
  <1>2. Pulse!StreamFits'
    BY DEF Pulse!IInv, Pulse!StreamFits, Pulse!HasOutput
  <1>3. Pulse!FlagsFit' /\ Pulse!DeferredCounted'
    BY DEF Pulse!IInv, Pulse!FlagsFit, Pulse!HasOutput, Pulse!DeferredCounted
  <1>4. Pulse!ContextFits' /\ Pulse!IdsStayGood' /\ Pulse!FaultsAreKnown'
    BY DEF Pulse!IInv, Pulse!ContextFits, Pulse!Mask, Pulse!IdsStayGood, Pulse!FaultsAreKnown
  <1> QED BY <1>1, <1>2, <1>3, <1>4 DEF Pulse!IInv

\* What the invariant says of the properties.
LEMMA PulseSafe ==
  ASSUME CubebAssumption, Pulse!IInv
  PROVE  /\ Pulse!TypeOK /\ Pulse!StopQuiesces /\ Pulse!NoCallbackAfterShort /\ Pulse!IdsStayGood
         /\ Pulse!FaultsAreKnown /\ Pulse!FreedIsGone
  <1>1. Pulse!StopQuiesces /\ Pulse!NoCallbackAfterShort
    BY PulseBefore DEF Pulse!StopQuiesces, Pulse!NoCallbackAfterShort, Pulse!Stopping
  <1>2. Pulse!FreedIsGone
    BY PulseBefore, PulseTypes DEF Pulse!FreedIsGone
  <1> QED BY <1>1, <1>2 DEF Pulse!IInv
=============================================================================
