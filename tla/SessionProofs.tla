--------------------------- MODULE SessionProofs ---------------------------
(***************************************************************************)
(* Theorems of Session for every set of keys and every number of           *)
(* keystrokes and signals.  The order of the calls in main() is what makes *)
(* the terminal safe, so the inductive invariant says what each position   *)
(* of the program counter already guarantees.                              *)
(***************************************************************************)
EXTENDS Session, TLAPS

BeforeRaw  == {"tcgetattr", "atexit", "tcsetattr"}
Protected  == {"mode", "exit", "exited"} \cup Loop   \* both handlers are installed

\* What set_conio_terminal_mode has secured at each of its steps.
TerminalInv ==
  /\ pc \in BeforeRaw => tty # "raw"
  /\ pc \in {"atexit", "tcsetattr"} => saved = tty
  /\ pc = "tcsetattr" => cleanup
  /\ tty = "raw" => cleanup /\ saved = "cooked"
  /\ pc = "exited" => tty # "raw"

\* What the two signal() calls have secured.
HandlerInv ==
  /\ pc \in {"sigint"} \cup Protected => handler["SIGTERM"] = "InterruptHandler"
  /\ pc \in Protected => handler["SIGINT"] = "InterruptHandler"
  /\ pc \in Setup => shown = "nothing"
  /\ cause \in Caught => pc = "killed" /\ shown = "nothing"

\* A byte typed in cooked mode is waiting only while the terminal is cooked.
FlushInv ==
  /\ pc \notin BeforeRaw /\ Alive => tty # "cooked"
  /\ tty # "cooked" => \A i \in 1..Len(input) : input[i].typedIn # "cooked"
  /\ quitFrom # "cooked"

\* The editor state is set before the loop that draws it.
ModeInv == pc \in Loop => editMode = "Phrase"

IInv == TypeOK /\ ModeInv /\ TerminalInv /\ HandlerInv /\ FlushInv
----------------------------------------------------------------------------
LEMMA InitInv == Init => IInv
<1> SUFFICES ASSUME Init PROVE IInv
  OBVIOUS
<1> USE DEF Init, Setup, Loop, Ended, TtyModes, Signals, Caught
<1>1. input \in Seq(InputBytes)
  OBVIOUS
<1>2. TypeOK
  <2>1. handler \in [Signals -> {"default", "InterruptHandler"}]
    OBVIOUS
  <2>2. keys \in 0..MaxKeys /\ sigs \in 0..MaxSignals
    BY BoundsAreNat
  <2>3. QED
    BY <1>1, <2>1, <2>2 DEF TypeOK
<1>3. TerminalInv
  BY DEF TerminalInv, BeforeRaw
<1>4. HandlerInv
  BY DEF HandlerInv, Protected
<1>5. FlushInv
  BY DEF FlushInv, BeforeRaw
<1>6. QED
  BY <1>2, <1>3, <1>4, <1>5 DEF IInv, ModeInv

\* Type correctness is inductive together with the value drawMenu() reads.
LEMMA TypeStep == TypeOK /\ ModeInv /\ [Next]_vars => TypeOK'
<1> SUFFICES ASSUME TypeOK, ModeInv, [Next]_vars PROVE TypeOK'
  OBVIOUS
<1> USE BoundsAreNat DEF TypeOK, Setup, Loop, Ended, TtyModes, Signals, Caught, env, At
<1>1. CASE SaveMode
  BY <1>1 DEF SaveMode
<1>2. CASE RegisterCleanup
  BY <1>2 DEF RegisterCleanup
<1>3. CASE SwitchToRaw
  BY <1>3 DEF SwitchToRaw
<1>4. CASE HandleSigterm
  BY <1>4 DEF HandleSigterm, InstallHandler
<1>5. CASE HandleSigint
  BY <1>5 DEF HandleSigint, InstallHandler
<1>6. CASE SelectPhraseMode
  BY <1>6 DEF SelectPhraseMode
<1>7. CASE TestLoop
  BY <1>7 DEF TestLoop
<1>8. CASE DrawMenu
  BY <1>8 DEF DrawMenu, ModeInv
<1>9. CASE Kbhit
  BY <1>9 DEF Kbhit
<1>10. CASE GetchByte
  <2>1. Head(input) \in InputBytes /\ input' \in Seq(InputBytes)
    BY <1>10 DEF GetchByte
  <2>2. quitFrom' \in TtyModes \cup {"nobody", "garbage"} /\ interrupted' \in BOOLEAN
    BY <1>10, <2>1 DEF GetchByte, InputBytes
  <2>3. QED
    BY <1>10, <2>1, <2>2 DEF GetchByte
<1>11. CASE GetchAtEof
  <2>1. quitFrom' \in TtyModes \cup {"nobody", "garbage"} /\ interrupted' \in BOOLEAN
    BY <1>11 DEF GetchAtEof
  <2>2. QED
    BY <1>11, <2>1 DEF GetchAtEof
<1>12. CASE Exit
  BY <1>12 DEF Exit
<1>13. ASSUME NEW s \in Signals, Killed(s) PROVE TypeOK'
  BY <1>13 DEF Killed, MayDeliver
<1>14. ASSUME NEW s \in Signals, InterruptHandler(s) PROVE TypeOK'
  BY <1>14 DEF InterruptHandler, MayDeliver
<1>15. ASSUME NEW s \in Signals, InterruptSelect(s) PROVE TypeOK'
  BY <1>15 DEF InterruptSelect, MayDeliver
<1>16. ASSUME NEW k \in Keys, Type(k) PROVE TypeOK'
  <2>1. [key |-> k, typedIn |-> tty] \in InputBytes
    BY <1>16 DEF InputBytes
  <2>2. input' \in Seq(InputBytes)
    BY <1>16, <2>1 DEF Type
  <2>3. QED
    BY <1>16, <2>2 DEF Type
<1>17. CASE TypeCtrlZ
  BY <1>17 DEF TypeCtrlZ, MayDeliver
<1>18. CASE Continue
  <2>1. stopped' \in BOOLEAN
    BY <1>18 DEF Continue
  <2>2. UNCHANGED <<pc, tty, saved, cleanup, handler, interrupted, editMode, shown, input,
                    eof, quitFrom, cause, asked, keys, sigs>>
    BY <1>18 DEF Continue
  <2>3. QED
    BY <2>1, <2>2
<1>19. CASE CloseInput
  BY <1>19 DEF CloseInput
<1>20. CASE UNCHANGED vars
  BY <1>20 DEF vars
<1>21. QED
  BY <1>1, <1>2, <1>3, <1>4, <1>5, <1>6, <1>7, <1>8, <1>9, <1>10, <1>11, <1>12,
     <1>13, <1>14, <1>15, <1>16, <1>17, <1>18, <1>19, <1>20
  DEF Next, Main, Environment

LEMMA ModeStep == ModeInv /\ [Next]_vars => ModeInv'
  BY DEF ModeInv, Loop, At, Alive, Ended, env, vars, Next, Main, Environment, SaveMode,
    RegisterCleanup, SwitchToRaw, HandleSigterm, HandleSigint, InstallHandler,
    SelectPhraseMode, TestLoop, DrawMenu, Kbhit, GetchByte, GetchAtEof, Exit, MayDeliver,
    Killed, InterruptHandler, InterruptSelect, Type, TypeCtrlZ, Continue, CloseInput

\* One case per action; an action that moves the program counter has to secure
\* what its next position promises.
LEMMA TerminalStep == IInv /\ [Next]_vars => TerminalInv'
<1> SUFFICES ASSUME IInv, [Next]_vars PROVE TerminalInv'
  OBVIOUS
<1> USE DEF IInv, TerminalInv, BeforeRaw, Loop, Alive, Ended, TtyModes, env, At
<1>1. CASE SaveMode
  BY <1>1 DEF SaveMode
<1>2. CASE RegisterCleanup
  BY <1>2 DEF RegisterCleanup
<1>3. CASE SwitchToRaw
  BY <1>3 DEF SwitchToRaw, TypeOK
<1>4. CASE HandleSigterm \/ HandleSigint
  BY <1>4 DEF HandleSigterm, HandleSigint, InstallHandler
<1>5. CASE SelectPhraseMode \/ TestLoop \/ DrawMenu \/ Kbhit
  BY <1>5 DEF SelectPhraseMode, TestLoop, DrawMenu, Kbhit
<1>6. CASE GetchByte \/ GetchAtEof
  BY <1>6 DEF GetchByte, GetchAtEof
<1>7. CASE Exit
  BY <1>7 DEF Exit, FlushInv, TypeOK   \* past the flush the terminal is raw or none
<1>8. ASSUME NEW s \in Signals, Killed(s) \/ InterruptHandler(s) \/ InterruptSelect(s)
      PROVE  TerminalInv'
  BY <1>8 DEF Killed, InterruptHandler, InterruptSelect, MayDeliver
<1>9. ASSUME NEW k \in Keys, Type(k) PROVE TerminalInv'
  BY <1>9 DEF Type
<1>10. CASE TypeCtrlZ \/ Continue \/ CloseInput
  BY <1>10 DEF TypeCtrlZ, Continue, CloseInput
<1>11. CASE UNCHANGED vars
  BY <1>11 DEF vars
<1>12. QED
  BY <1>1, <1>2, <1>3, <1>4, <1>5, <1>6, <1>7, <1>8, <1>9, <1>10, <1>11
  DEF Next, Main, Environment

LEMMA HandlerStep == IInv /\ [Next]_vars => HandlerInv'
<1> SUFFICES ASSUME IInv, [Next]_vars PROVE HandlerInv'
  OBVIOUS
<1> USE DEF IInv, HandlerInv, Protected, Setup, Loop, Alive, Ended, Caught, Signals, env, At
<1>1. CASE SaveMode \/ RegisterCleanup \/ SwitchToRaw
  BY <1>1 DEF SaveMode, RegisterCleanup, SwitchToRaw
<1>2. CASE HandleSigterm
  BY <1>2 DEF HandleSigterm, InstallHandler, TypeOK
<1>3. CASE HandleSigint
  BY <1>3 DEF HandleSigint, InstallHandler, TypeOK
<1>4. CASE SelectPhraseMode \/ TestLoop \/ DrawMenu \/ Kbhit
  BY <1>4 DEF SelectPhraseMode, TestLoop, DrawMenu, Kbhit
<1>5. CASE GetchByte \/ GetchAtEof
  BY <1>5 DEF GetchByte, GetchAtEof
<1>6. CASE Exit
  BY <1>6 DEF Exit
<1>7. ASSUME NEW s \in Signals, Killed(s) PROVE HandlerInv'
  \* A caught signal kills only before its handler is in, hence before the menu.
  <2>1. s \in Caught => pc \in Setup
    BY <1>7 DEF Killed, MayDeliver, TypeOK
  <2>2. QED
    BY <1>7, <2>1 DEF Killed, MayDeliver
<1>8. ASSUME NEW s \in Signals, InterruptHandler(s) \/ InterruptSelect(s) PROVE HandlerInv'
  BY <1>8 DEF InterruptHandler, InterruptSelect, MayDeliver
<1>9. ASSUME NEW k \in Keys, Type(k) PROVE HandlerInv'
  BY <1>9 DEF Type
<1>10. CASE TypeCtrlZ \/ Continue \/ CloseInput
  BY <1>10 DEF TypeCtrlZ, Continue, CloseInput
<1>11. CASE UNCHANGED vars
  BY <1>11 DEF vars
<1>12. QED
  BY <1>1, <1>2, <1>3, <1>4, <1>5, <1>6, <1>7, <1>8, <1>9, <1>10, <1>11
  DEF Next, Main, Environment

LEMMA FlushStep == IInv /\ [Next]_vars => FlushInv'
<1> SUFFICES ASSUME IInv, [Next]_vars PROVE FlushInv'
  OBVIOUS
<1> USE DEF IInv, FlushInv, BeforeRaw, Loop, Alive, Ended, env, At
<1>1. CASE SaveMode \/ RegisterCleanup
  BY <1>1 DEF SaveMode, RegisterCleanup
<1>2. CASE SwitchToRaw
  BY <1>2 DEF SwitchToRaw
<1>3. CASE HandleSigterm \/ HandleSigint
  BY <1>3 DEF HandleSigterm, HandleSigint, InstallHandler
<1>4. CASE SelectPhraseMode \/ TestLoop \/ DrawMenu \/ Kbhit
  BY <1>4 DEF SelectPhraseMode, TestLoop, DrawMenu, Kbhit
<1>5. CASE GetchByte
  <2>1. Head(input).typedIn # "cooked"
    BY <1>5 DEF GetchByte, TypeOK
  <2>2. \A i \in 1..Len(input') : input'[i].typedIn # "cooked"
    BY <1>5 DEF GetchByte, TypeOK
  <2>3. QED
    BY <1>5, <2>1, <2>2 DEF GetchByte
<1>6. CASE GetchAtEof
  BY <1>6 DEF GetchAtEof
<1>7. CASE Exit
  BY <1>7 DEF Exit
<1>8. ASSUME NEW s \in Signals, Killed(s) \/ InterruptHandler(s) \/ InterruptSelect(s)
      PROVE  FlushInv'
  BY <1>8 DEF Killed, InterruptHandler, InterruptSelect, MayDeliver
<1>9. ASSUME NEW k \in Keys, Type(k) PROVE FlushInv'
  BY <1>9 DEF Type, TypeOK
<1>10. CASE TypeCtrlZ \/ Continue \/ CloseInput
  BY <1>10 DEF TypeCtrlZ, Continue, CloseInput
<1>11. CASE UNCHANGED vars
  BY <1>11 DEF vars
<1>12. QED
  BY <1>1, <1>2, <1>3, <1>4, <1>5, <1>6, <1>7, <1>8, <1>9, <1>10, <1>11
  DEF Next, Main, Environment

\* The positions of the program counter guarantee what IInv says of them.
THEOREM Invariance == Spec => []IInv
<1>1. IInv /\ [Next]_vars => IInv'
  BY TypeStep, ModeStep, TerminalStep, HandlerStep, FlushStep DEF IInv
<1>2. QED
  BY InitInv, <1>1, PTL DEF Spec
----------------------------------------------------------------------------
\* Every variable keeps to its values, whatever keys and signals arrive.
THEOREM TypeCorrect == Spec => []TypeOK
<1>1. IInv => TypeOK
  BY DEF IInv
<1>2. QED
  BY Invariance, <1>1, PTL

\* The terminal is never raw without the saved settings and the registered
\* cleanup that undo it.
THEOREM RawRecoverable == Spec => []RawIsRecoverable
<1>1. IInv => RawIsRecoverable
  BY DEF IInv, TerminalInv, RawIsRecoverable
<1>2. QED
  BY Invariance, <1>1, PTL

\* A process that returns from main() leaves the terminal as it found it.
THEOREM ExitRestores == Spec => []ExitRestoresTerminal
<1>1. IInv => ExitRestoresTerminal
  BY DEF IInv, TerminalInv, ExitRestoresTerminal
<1>2. QED
  BY Invariance, <1>1, PTL

\* SIGINT and SIGTERM leave the terminal raw only before the first menu.
LEMMA KillEarly == IInv => KillLeavesRawEarly
  BY DEF IInv, HandlerInv, KillLeavesRawEarly

\* A session that is over leaves the terminal raw only if it was killed, and by
\* a signal it had no handler for; one that goes on can still give it back.
THEOREM RawOnlyIfKilled == Spec => []LeftRawOnlyByKill
<1>1. RawIsRecoverable /\ ExitRestoresTerminal /\ KillLeavesRawEarly => LeftRawOnlyByKill
  BY DEF LeftRawOnlyByKill
<1>2. QED
  BY RawRecoverable, ExitRestores, Invariance, KillEarly, <1>1, PTL

\* SIGINT and SIGTERM cannot kill the process once a menu has been drawn.
THEOREM LoopSurvives == Spec => []LoopSurvivesInterrupts
<1>1. IInv => LoopSurvivesInterrupts
  BY DEF IInv, HandlerInv, LoopSurvivesInterrupts
<1>2. QED
  BY Invariance, <1>1, PTL

\* What was typed at the shell before the flush never quits the program.
THEOREM TypeaheadDiscarded == Spec => []TypeaheadNeverQuits
<1>1. IInv => TypeaheadNeverQuits
  BY DEF IInv, FlushInv, TypeaheadNeverQuits
<1>2. QED
  BY Invariance, <1>1, PTL
=============================================================================
