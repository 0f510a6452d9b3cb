---------------------------- MODULE JackBackend ----------------------------
(***************************************************************************)
(* The JACK backend of cubeb (extlibs/cubeb/src/cubeb_jack.cpp): a table   *)
(* of streams that cbjack_process walks in JACK's thread at every period,  *)
(* reading flags without a lock, while the application takes slots, opens, *)
(* starts, stops and destroys streams.  A stream's mutex is held by the    *)
(* application while it opens or destroys and only tried by the process    *)
(* thread, around the data callback.                                       *)
(*                                                                         *)
(* The actions of the process thread are its reads of the flags, the try   *)
(* of the mutex, and the callback.  Each user of the application has one   *)
(* stream at a time, stopped before it is destroyed (cubeb.h:560).         *)
(***************************************************************************)
EXTENDS Integers, FiniteSets

CONSTANTS
  Users,         \* of the application, one thread for each
  MAX_STREAMS,
  InputOnly,     \* the streams record and do not play
  MaxOpens       \* bound of the model: streams opened in one run

JackAssumption ==
  MAX_STREAMS \in Nat \ {0} /\ InputOnly \in BOOLEAN /\ MaxOpens \in Nat

VARIABLES
  slot,      \* the table: flags, mutex, ports and resampler of each stream
  proc,      \* where the process thread is and at which slot
  user,      \* where each user is and which slot it has
  opens,     \* counts for MaxOpens
  hurt       \* what the process thread used that was gone

vars == <<slot, proc, user, opens, hurt>>

Slots == 1..MAX_STREAMS
NoSlot == 0

Streams == [in_use : BOOLEAN, ports_ready : BOOLEAN, pause : BOOLEAN,
            mutex : {"free", "user", "process"}, ports : BOOLEAN, resampler : BOOLEAN,
            started : BOOLEAN, ended : BOOLEAN, late : 0..2]
Places == [pc : {"scan", "buffers", "pause", "lock", "call"}, at : Slots]
Holders == [pc : {"none", "opening", "open", "ready", "live", "stopped", "undo", "destroy",
                  "unported"},
            at : Slots \cup {NoSlot}]

TypeOK ==
  /\ slot \in [Slots -> Streams]
  /\ proc \in Places
  /\ user \in [Users -> Holders]
  /\ opens \in 0..MaxOpens
  /\ hurt \in {"nothing", "ports", "resampler"}

Init ==                              \* jack_init: the table comes from calloc
  /\ slot = [j \in Slots |-> [in_use |-> FALSE, ports_ready |-> FALSE, pause |-> FALSE,
                              mutex |-> "free", ports |-> FALSE, resampler |-> FALSE,
                              started |-> FALSE, ended |-> FALSE, late |-> 0]]
  /\ proc = [pc |-> "scan", at |-> 1]
  /\ user = [u \in Users |-> [pc |-> "none", at |-> NoSlot]]
  /\ opens = 0 /\ hurt = "nothing"

Goes(u, pc) == user' = [user EXCEPT ![u].pc = pc]
----------------------------------------------------------------------------
(* The application. *)

MutFreeSlots == Slots          \* mutant: every slot is taken for a free one
FreeSlots == {j \in Slots : ~slot[j].in_use}

\* context_alloc_stream, under the context's mutex: the first free slot.
Alloc(u) ==
  /\ hurt = "nothing" /\ user[u].pc = "none" /\ opens < MaxOpens
  /\ \E j \in FreeSlots :
       /\ \A k \in FreeSlots : j <= k
       /\ slot' = [slot EXCEPT ![j].in_use = TRUE]
       /\ user' = [user EXCEPT ![u] = [pc |-> "opening", at |-> j]]
  /\ opens' = opens + 1
  /\ UNCHANGED <<proc, hurt>>

\* cbjack_stream_init takes the stream's mutex and sets its fields.
Open(u) ==
  LET j == user[u].at
  IN /\ hurt = "nothing" /\ user[u].pc = "opening" /\ slot[j].mutex = "free"
     /\ slot' = [slot EXCEPT ![j].mutex = "user", ![j].ports_ready = FALSE,
                             ![j].started = FALSE, ![j].ended = FALSE, ![j].late = 0]
     /\ Goes(u, "open")
     /\ UNCHANGED <<proc, opens, hurt>>

\* Without a resampler the slot is given back; when ports cannot be connected
\* the stream is destroyed; without parameters the slot is forgotten.
OpenFails(u) ==
  LET j == user[u].at
  IN /\ hurt = "nothing" /\ user[u].pc = "open"
     /\ \/ /\ slot' = [slot EXCEPT ![j].mutex = "free"]
           /\ user' = [user EXCEPT ![u] = [pc |-> "none", at |-> NoSlot]]
        \/ /\ slot' = [slot EXCEPT ![j].mutex = "free", ![j].in_use = FALSE]
           /\ user' = [user EXCEPT ![u] = [pc |-> "none", at |-> NoSlot]]
        \/ /\ slot' = [slot EXCEPT ![j].mutex = "free", ![j].ports = TRUE,
                                   ![j].resampler = TRUE]
           /\ Goes(u, "undo")
     /\ UNCHANGED <<proc, opens, hurt>>

\* The ports are there, and the process thread may see so before pause is set.
OpenPorts(u) ==
  LET j == user[u].at
  IN /\ hurt = "nothing" /\ user[u].pc = "open"
     /\ slot' = [slot EXCEPT ![j].ports = TRUE, ![j].resampler = TRUE,
                             ![j].ports_ready = TRUE]
     /\ Goes(u, "ready")
     /\ UNCHANGED <<proc, opens, hurt>>

MutOpened(s) == [s EXCEPT !.mutex = "free"]     \* mutant: the stream is not paused
Opened(s) == [s EXCEPT !.mutex = "free", !.pause = TRUE]

OpenEnds(u) ==
  /\ hurt = "nothing" /\ user[u].pc = "ready"
  /\ slot' = [slot EXCEPT ![user[u].at] = Opened(@)]
  /\ Goes(u, "stopped")
  /\ UNCHANGED <<proc, opens, hurt>>

\* cbjack_stream_start and cbjack_stream_stop write pause and tell the state.
Start(u) ==
  /\ hurt = "nothing" /\ user[u].pc = "stopped"
  /\ slot' = [slot EXCEPT ![user[u].at].pause = FALSE, ![user[u].at].started = TRUE,
                          ![user[u].at].ended = FALSE, ![user[u].at].late = 0]
  /\ Goes(u, "live")
  /\ UNCHANGED <<proc, opens, hurt>>

Stop(u) ==
  /\ hurt = "nothing" /\ user[u].pc = "live"
  /\ slot' = [slot EXCEPT ![user[u].at].pause = TRUE, ![user[u].at].started = FALSE]
  /\ Goes(u, "stopped")
  /\ UNCHANGED <<proc, opens, hurt>>

\* cbjack_stream_destroy: waits for a running callback, hides the ports, ...
Destroy(u) ==
  LET j == user[u].at
  IN /\ hurt = "nothing" /\ user[u].pc \in {"stopped", "undo"} /\ slot[j].mutex = "free"
     /\ slot' = [slot EXCEPT ![j].mutex = "user", ![j].ports_ready = FALSE]
     /\ Goes(u, "destroy")
     /\ UNCHANGED <<proc, opens, hurt>>

Destroyed(s) ==
  [s EXCEPT !.mutex = "free", !.resampler = FALSE, !.in_use = FALSE]

\* ... unregisters them, ...
Unregister(u) ==
  /\ hurt = "nothing" /\ user[u].pc = "destroy"
  /\ slot' = [slot EXCEPT ![user[u].at].ports = FALSE]
  /\ Goes(u, "unported")
  /\ UNCHANGED <<proc, opens, hurt>>

\* ... and frees the resampler and the slot.
DestroyEnds(u) ==
  /\ hurt = "nothing" /\ user[u].pc = "unported"
  /\ slot' = [slot EXCEPT ![user[u].at] = Destroyed(@)]
  /\ user' = [user EXCEPT ![u] = [pc |-> "none", at |-> NoSlot]]
  /\ UNCHANGED <<proc, opens, hurt>>
----------------------------------------------------------------------------
(* cbjack_process. *)

NextSlot(j) == IF j = MAX_STREAMS THEN 1 ELSE j + 1
Moves == proc' = [pc |-> "scan", at |-> NextSlot(proc.at)]

\* Reads in_use and ports_ready.
Scan ==
  /\ hurt = "nothing" /\ proc.pc = "scan"
  /\ IF slot[proc.at].in_use /\ slot[proc.at].ports_ready
     THEN proc' = [proc EXCEPT !.pc = "buffers"]
     ELSE Moves
  /\ UNCHANGED <<slot, user, opens, hurt>>

\* jack_port_get_buffer of every port.
Buffers ==
  /\ hurt = "nothing" /\ proc.pc = "buffers"
  /\ IF slot[proc.at].ports
     THEN proc' = [proc EXCEPT !.pc = "pause"] /\ UNCHANGED hurt
     ELSE hurt' = "ports" /\ UNCHANGED proc
  /\ UNCHANGED <<slot, user, opens>>

\* Reads pause: a paused stream plays silence.
Pause ==
  /\ hurt = "nothing" /\ proc.pc = "pause"
  /\ IF slot[proc.at].pause THEN Moves ELSE proc' = [proc EXCEPT !.pc = "lock"]
  /\ UNCHANGED <<slot, user, opens, hurt>>

MutTaken(s) == FALSE                \* mutant: the mutex is not tried
Taken(s) == s.mutex # "free"

Late(s) == IF s.started \/ s.late = 2 THEN s.late ELSE s.late + 1

\* pthread_mutex_trylock: silence if somebody has it, else the data callback
\* through the resampler.
TryLock ==
  LET j == proc.at
  IN /\ hurt = "nothing" /\ proc.pc = "lock"
     /\ CASE Taken(slot[j]) -> Moves /\ UNCHANGED <<slot, hurt>>
          [] ~Taken(slot[j]) /\ slot[j].resampler ->
               /\ slot' = [slot EXCEPT ![j].mutex = "process", ![j].late = Late(slot[j])]
               /\ proc' = [proc EXCEPT !.pc = "call"]
               /\ UNCHANGED hurt
          [] ~Taken(slot[j]) /\ ~slot[j].resampler ->
               hurt' = "resampler" /\ UNCHANGED <<slot, proc>>
     /\ UNCHANGED <<user, opens>>

\* What cbjack_deinterleave_playback_refill does with the result: a drained
\* stream is paused at once, an error is told and nothing else.
After(s, result) ==
  IF result = "short" /\ ~InputOnly THEN [s EXCEPT !.pause = TRUE, !.started = FALSE]
  ELSE IF result = "error" THEN [s EXCEPT !.ended = TRUE]
  ELSE s

Return(result) ==
  LET j == proc.at
  IN /\ hurt = "nothing" /\ proc.pc = "call"
     /\ slot' = [slot EXCEPT ![j] = [After(@, result) EXCEPT !.mutex = "free"]]
     /\ Moves
     /\ UNCHANGED <<user, opens, hurt>>
----------------------------------------------------------------------------
Process == Scan \/ Buffers \/ Pause \/ TryLock \/ \E r \in {"full", "short", "error"} : Return(r)

Next ==
  \/ Process
  \/ \E u \in Users :
       \/ Alloc(u) \/ Open(u) \/ OpenFails(u) \/ OpenPorts(u) \/ OpenEnds(u)
       \/ Start(u) \/ Stop(u) \/ Destroy(u) \/ Unregister(u) \/ DestroyEnds(u)

Spec == Init /\ [][Next]_vars

\* JACK calls the process callback at every period, and destroy goes on.
Fairness ==
  /\ WF_vars(Process)
  /\ \A u \in Users : SF_vars(Destroy(u)) /\ WF_vars(Unregister(u)) /\ WF_vars(DestroyEnds(u))
----------------------------------------------------------------------------
(* Properties *)

\* The streams of the table are those of the users and those forgotten by an
\* open without parameters; no two users share one.
SlotsAgree ==
  /\ \A u, w \in Users : u # w /\ user[u].at # NoSlot => user[u].at # user[w].at
  /\ \A u \in Users : user[u].at # NoSlot => slot[user[u].at].in_use
  /\ \A j \in Slots : (\A u \in Users : user[u].at # j) /\ slot[j].in_use => ~slot[j].ports

\* While a data callback runs nobody opens or destroys its stream.
CallIsAlone ==
  proc.pc = "call" =>
    /\ slot[proc.at].mutex = "process" /\ slot[proc.at].resampler
    /\ \A u \in Users : user[u].at = proc.at => user[u].pc \notin {"open", "ready", "destroy", "unported"}

\* Stop does not wait: the data callback may still be called once, by a process
\* thread that had read pause before, and not twice.
AtMostOneLate == \A j \in Slots : slot[j].late <= 1

\* The process thread uses ports or a resampler that are gone only of a stream
\* whose destroy began after it had read ports_ready: the destroy is still going
\* on, or the slot was given back and nobody has it, or somebody who is still
\* opening it. It never happens to a stream that is there.
FaultsAreKnown ==
  hurt # "nothing" =>
    \A u \in Users : user[u].at = proc.at =>
      user[u].pc = "opening" \/ (user[u].pc \in {"open", "unported"} /\ hurt = "ports")

----------------------------------------------------------------------------
(* The inductive invariant that the proofs of CubebProofs rest on. *)

\* What a user has of the slot it is at; nobody's slot has neither ports nor a
\* resampler.
SlotFits ==
  /\ \A u \in Users :
       /\ user[u].at = NoSlot <=> user[u].pc = "none"
       /\ user[u].pc \in {"open", "ready", "destroy", "unported"} => slot[user[u].at].mutex = "user"
       /\ user[u].pc \in {"opening", "open"} =>
            ~slot[user[u].at].ports /\ ~slot[user[u].at].resampler
       /\ user[u].pc \in {"ready", "stopped", "live", "undo", "destroy"} =>
            slot[user[u].at].ports /\ slot[user[u].at].resampler
       /\ user[u].pc = "unported" => ~slot[user[u].at].ports
       /\ user[u].pc \in {"open", "ready"} =>
            slot[user[u].at].late = 0 /\ ~slot[user[u].at].started
       /\ user[u].pc = "stopped" => slot[user[u].at].pause
       /\ user[u].pc = "live" => slot[user[u].at].started \/ slot[user[u].at].pause
       /\ user[u].pc \in {"open", "undo"} => ~slot[user[u].at].ports_ready
  /\ \A j \in Slots : (\A u \in Users : user[u].at # j) => ~slot[j].ports /\ ~slot[j].resampler

\* After a late callback the process thread is not about to begin another.
LateFits ==
  \A j \in Slots :
    /\ slot[j].started => slot[j].late = 0
    /\ slot[j].late = 1 =>
         /\ ~(proc.at = j /\ proc.pc = "lock")
         /\ \/ slot[j].pause
            \/ ~slot[j].ports_ready /\ ~(proc.at = j /\ proc.pc \in {"buffers", "pause"})

\* The process thread has the mutex of the stream it calls.
CallHasMutex ==
  proc.pc = "call" => slot[proc.at].mutex = "process" /\ slot[proc.at].resampler

IInv == TypeOK /\ SlotsAgree /\ SlotFits /\ AtMostOneLate /\ LateFits /\ CallHasMutex /\ FaultsAreKnown
----------------------------------------------------------------------------
(* What does not hold, see README.md. *)

\* After an error the data callback stops (cubeb.h:421): not here.
NoCallbackAfterError == proc.pc = "call" => ~slot[proc.at].ended

\* A process thread uses only ports and a resampler that are there.
NothingHurt == hurt = "nothing"
=============================================================================
