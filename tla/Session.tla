------------------------------ MODULE Session ------------------------------
(***************************************************************************)
(* One run of the minseq process and the terminal it borrows: main() of    *)
(* main.cpp with set_conio_terminal_mode(), kbhit() and getch() of         *)
(* utils/linuxinput.h.  The main thread is a program counter that names    *)
(* the system call or statement it executes next; the terminal, the user's *)
(* keystrokes and the signals are the environment and may act between any  *)
(* two of its steps.  A signal handler runs to completion on top of        *)
(* whatever the main thread is doing, so it is one action.                 *)
(***************************************************************************)
EXTENDS Naturals, Sequences

CONSTANTS
  QuitKeys,    \* the bytes main() takes as "quit": 'q' and 'Q'
  OtherKeys,   \* bytes main() reads and ignores
  MaxKeys,     \* bound of the model: keystrokes per run
  MaxSignals   \* bound of the model: signals and stops per run

ASSUME KeysDisjoint == QuitKeys \cap OtherKeys = {}
ASSUME BoundsAreNat == MaxKeys \in Nat /\ MaxSignals \in Nat

Keys    == QuitKeys \cup OtherKeys
Caught  == {"SIGINT", "SIGTERM"}       \* main.cpp installs a handler for these
Signals == Caught \cup {"SIGHUP"}      \* SIGHUP stands for every fatal signal left alone

\* "cooked": the shell's settings.  "raw": what set_conio_terminal_mode asks
\* for.  "none": standard input is a pipe or a file, termios calls fail on it.
TtyModes == {"cooked", "raw", "none"}
Setup    == {"tcgetattr", "atexit", "tcsetattr", "sigterm", "sigint", "mode"}
Loop     == {"while", "draw", "kbhit", "getch"}
Ended    == {"exited", "killed"}
InputBytes == [key : Keys, typedIn : TtyModes]

VARIABLES
  pc,           \* what the main thread does next
  tty,          \* the terminal's current settings (they outlive the process)
  saved,        \* orig_termios; "none" is the zero-initialised global
  cleanup,      \* reset_terminal_mode is registered with atexit
  handler,      \* disposition of each signal
  interrupted,  \* interrupt_received
  editMode,     \* gEditorState.mEditScreenMode
  shown,        \* the menu entry drawn with a blue background, or "nothing"
  input,        \* bytes waiting on stdin, each with the mode it was typed in
  eof,          \* the writer of a piped stdin is gone
  stopped,      \* suspended by job control
  quitFrom,     \* history: the mode the accepted quit key was typed in
  cause,        \* history: the signal that terminated the process
  asked,        \* history: InterruptHandler has run
  keys, sigs    \* history: keystrokes and signals so far (for the bounds)

vars == <<pc, tty, saved, cleanup, handler, interrupted, editMode, shown, input,
          eof, stopped, quitFrom, cause, asked, keys, sigs>>
env  == <<eof, stopped, cause, asked, keys, sigs>>

Alive == pc \notin Ended

Init ==
  /\ pc = "tcgetattr"
  /\ tty \in {"cooked", "none"}
  /\ saved = "none"
  /\ cleanup = FALSE
  /\ handler = [s \in Signals |-> "default"]
  /\ interrupted = FALSE
  /\ editMode = "Song"              \* zero-initialised global
  /\ shown = "nothing"
  /\ input = <<>>
  /\ eof = FALSE
  /\ stopped = FALSE
  /\ quitFrom = "nobody"
  /\ cause = "nothing"
  /\ asked = FALSE
  /\ keys = 0
  /\ sigs = 0
----------------------------------------------------------------------------
(* set_conio_terminal_mode: save, register the cleanup, switch. *)

At(label) == pc = label /\ ~stopped

MutSaveMode ==                      \* mutant: forgets to register the cleanup
  /\ At("tcgetattr") /\ pc' = "tcsetattr"
  /\ saved' = tty
  /\ UNCHANGED <<tty, cleanup, handler, interrupted, editMode, shown, input, quitFrom, env>>

SaveMode ==
  /\ At("tcgetattr") /\ pc' = "atexit"
  /\ saved' = tty                   \* on "none" the call fails and saves nothing
  /\ UNCHANGED <<tty, cleanup, handler, interrupted, editMode, shown, input, quitFrom, env>>

RegisterCleanup ==
  /\ At("atexit") /\ pc' = "tcsetattr"
  /\ cleanup' = TRUE
  /\ UNCHANGED <<tty, saved, handler, interrupted, editMode, shown, input, quitFrom, env>>

MutSwitchToRaw ==                   \* mutant: TCSANOW instead of TCSAFLUSH
  /\ At("tcsetattr") /\ pc' = "sigterm"
  /\ tty' = IF tty = "none" THEN "none" ELSE "raw"
  /\ UNCHANGED <<saved, cleanup, handler, interrupted, editMode, shown, input, quitFrom, env>>

\* TCSAFLUSH discards what was typed before; the error of a stdin that is
\* not a terminal is ignored.
SwitchToRaw ==
  /\ At("tcsetattr") /\ pc' = "sigterm"
  /\ tty' = IF tty = "none" THEN "none" ELSE "raw"
  /\ input' = IF tty = "none" THEN input ELSE <<>>
  /\ UNCHANGED <<saved, cleanup, handler, interrupted, editMode, shown, quitFrom, env>>

(* main: the two signal() calls, then the editor state and the first clear. *)

InstallHandler(s, next) ==
  /\ pc' = next
  /\ handler' = [handler EXCEPT ![s] = "InterruptHandler"]
  /\ UNCHANGED <<tty, saved, cleanup, interrupted, editMode, shown, input, quitFrom, env>>

MutHandleSigint ==                  \* mutant: SIGTERM registered twice
  At("sigint") /\ InstallHandler("SIGTERM", "mode")

HandleSigterm == At("sigterm") /\ InstallHandler("SIGTERM", "sigint")
HandleSigint  == At("sigint")  /\ InstallHandler("SIGINT", "mode")

MutSelectPhraseMode ==              \* mutant: the editor state keeps its zero value
  /\ At("mode") /\ pc' = "while"
  /\ UNCHANGED <<tty, saved, cleanup, handler, interrupted, editMode, shown, input, quitFrom, env>>

SelectPhraseMode ==
  /\ At("mode") /\ pc' = "while"
  /\ editMode' = "Phrase"
  /\ UNCHANGED <<tty, saved, cleanup, handler, interrupted, shown, input, quitFrom, env>>
----------------------------------------------------------------------------
(* The main loop. *)

MutTestLoop ==                      \* mutant: the flag is read once, before the loop
  /\ At("while")
  /\ pc' = "draw"
  /\ UNCHANGED <<tty, saved, cleanup, handler, interrupted, editMode, shown, input, quitFrom, env>>

TestLoop ==
  /\ At("while")
  /\ pc' = IF interrupted THEN "exit" ELSE "draw"
  /\ UNCHANGED <<tty, saved, cleanup, handler, interrupted, editMode, shown, input, quitFrom, env>>

\* drawMenu: S, C and P, the one of the current mode on blue.
DrawMenu ==
  /\ At("draw") /\ pc' = "kbhit"
  /\ shown' = editMode
  /\ UNCHANGED <<tty, saved, cleanup, handler, interrupted, editMode, input, quitFrom, env>>

Readable == input # <<>> \/ eof

\* kbhit: select() with a zero timeout.
Kbhit ==
  /\ At("kbhit")
  /\ pc' = IF Readable THEN "getch" ELSE "while"
  /\ UNCHANGED <<tty, saved, cleanup, handler, interrupted, editMode, shown, input, quitFrom, env>>

\* getch: read() blocks until there is a byte (VMIN = 1).
GetchByte ==
  /\ At("getch") /\ input # <<>>
  /\ pc' = "while"
  /\ input' = Tail(input)
  /\ LET b == Head(input) IN
       IF b.key \in QuitKeys
       THEN interrupted' = TRUE /\ quitFrom' = b.typedIn
       ELSE UNCHANGED <<interrupted, quitFrom>>
  /\ UNCHANGED <<tty, saved, cleanup, handler, editMode, shown, env>>

\* At end of file read() returns 0 and getch returns its uninitialised local,
\* which may hold any byte.
GetchAtEof ==
  /\ At("getch") /\ input = <<>> /\ eof
  /\ pc' = "while"
  /\ \/ interrupted' = TRUE /\ quitFrom' = "garbage"
     \/ UNCHANGED <<interrupted, quitFrom>>
  /\ UNCHANGED <<tty, saved, cleanup, handler, editMode, shown, input, env>>

MutExit ==                          \* mutant: leaves through _exit
  /\ At("exit") /\ pc' = "exited"
  /\ UNCHANGED <<tty, saved, cleanup, handler, interrupted, editMode, shown, input, quitFrom, env>>

\* return 0: exit() runs reset_terminal_mode, which keeps pending input.
Exit ==
  /\ At("exit") /\ pc' = "exited"
  /\ tty' = IF cleanup /\ tty # "none" THEN saved ELSE tty
  /\ UNCHANGED <<saved, cleanup, handler, interrupted, editMode, shown, input, quitFrom, env>>

Main ==
  \/ SaveMode \/ RegisterCleanup \/ SwitchToRaw
  \/ HandleSigterm \/ HandleSigint \/ SelectPhraseMode
  \/ TestLoop \/ DrawMenu \/ Kbhit \/ GetchByte \/ GetchAtEof \/ Exit
----------------------------------------------------------------------------
(* Signals.  signal() installs the handler with SA_RESTART, so a blocked   *)
(* read() goes on waiting; select() is never restarted.                    *)

MayDeliver(s) == Alive /\ ~stopped /\ sigs < MaxSignals

\* The default action ends the process; nothing registered with atexit runs.
Killed(s) ==
  /\ MayDeliver(s) /\ handler[s] = "default"
  /\ pc' = "killed" /\ cause' = s /\ sigs' = sigs + 1
  /\ UNCHANGED <<tty, saved, cleanup, handler, interrupted, editMode, shown, input,
                 eof, stopped, quitFrom, asked, keys>>

MutInterruptHandler(s) ==           \* mutant: the handler forgets the flag
  /\ MayDeliver(s) /\ handler[s] = "InterruptHandler"
  /\ asked' = TRUE /\ sigs' = sigs + 1
  /\ UNCHANGED <<pc, tty, saved, cleanup, handler, interrupted, editMode, shown, input,
                 eof, stopped, quitFrom, cause, keys>>

InterruptHandler(s) ==
  /\ MayDeliver(s) /\ handler[s] = "InterruptHandler"
  /\ interrupted' = TRUE /\ asked' = TRUE /\ sigs' = sigs + 1
  /\ UNCHANGED <<pc, tty, saved, cleanup, handler, editMode, shown, input,
                 eof, stopped, quitFrom, cause, keys>>

\* A handled signal that finds the thread inside select() with nothing to read
\* makes select() return -1 (EINTR), which main() takes for a pressed key.
InterruptSelect(s) ==
  /\ MayDeliver(s) /\ handler[s] = "InterruptHandler"
  /\ pc = "kbhit" /\ ~Readable
  /\ pc' = "getch"
  /\ interrupted' = TRUE /\ asked' = TRUE /\ sigs' = sigs + 1
  /\ UNCHANGED <<tty, saved, cleanup, handler, editMode, shown, input,
                 eof, stopped, quitFrom, cause, keys>>

(* Keystrokes.  linuxinput.h leaves ISIG on (the flag is commented out), so  *)
(* ^C and ^Z never reach read(): they raise SIGINT and SIGTSTP.              *)

Type(k) ==
  /\ Alive /\ keys < MaxKeys /\ ~eof
  /\ input' = Append(input, [key |-> k, typedIn |-> tty])
  /\ keys' = keys + 1
  /\ UNCHANGED <<pc, tty, saved, cleanup, handler, interrupted, editMode, shown,
                 eof, stopped, quitFrom, cause, asked, sigs>>

TypeCtrlZ ==
  /\ MayDeliver("SIGTSTP") /\ tty # "none"
  /\ stopped' = TRUE /\ sigs' = sigs + 1
  /\ UNCHANGED <<pc, tty, saved, cleanup, handler, interrupted, editMode, shown, input,
                 eof, quitFrom, cause, asked, keys>>

Continue ==                         \* SIGCONT, from the shell's fg
  /\ stopped /\ stopped' = FALSE
  /\ UNCHANGED <<pc, tty, saved, cleanup, handler, interrupted, editMode, shown, input,
                 eof, quitFrom, cause, asked, keys, sigs>>

CloseInput ==
  /\ Alive /\ tty = "none" /\ ~eof
  /\ eof' = TRUE
  /\ UNCHANGED <<pc, tty, saved, cleanup, handler, interrupted, editMode, shown, input,
                 stopped, quitFrom, cause, asked, keys, sigs>>

Environment ==
  \/ \E s \in Signals : Killed(s) \/ InterruptHandler(s) \/ InterruptSelect(s)
  \/ \E k \in Keys : Type(k)
  \/ TypeCtrlZ \/ Continue \/ CloseInput

Next == Main \/ Environment

\* The kernel keeps scheduling a process that can run; the user owes nothing.
Fairness == WF_vars(Main)
Spec     == Init /\ [][Next]_vars
FairSpec == Spec /\ Fairness
----------------------------------------------------------------------------
(* Properties *)

\* Every variable keeps to the values the program can give it; the only menu
\* entry ever drawn as the current one is the phrase editor.
TypeOK ==
  /\ pc \in Setup \cup Loop \cup Ended \cup {"exit"}
  /\ tty \in TtyModes /\ saved \in TtyModes
  /\ cleanup \in BOOLEAN /\ asked \in BOOLEAN /\ interrupted \in BOOLEAN /\ eof \in BOOLEAN /\ stopped \in BOOLEAN
  /\ handler \in [Signals -> {"default", "InterruptHandler"}]
  /\ editMode \in {"Song", "Phrase"} /\ shown \in {"nothing", "Phrase"}
  /\ input \in Seq(InputBytes)
  /\ quitFrom \in TtyModes \cup {"nobody", "garbage"}
  /\ cause \in Signals \cup {"nothing"}
  /\ keys \in 0..MaxKeys /\ sigs \in 0..MaxSignals

\* As long as the process lives with the terminal raw, running or suspended by
\* ^Z, the shell's settings are saved and the cleanup that puts them back is
\* registered: no order of the steps of set_conio_terminal_mode leaves a window
\* without a way back.
RawIsRecoverable ==
  (Alive /\ tty = "raw") => (cleanup /\ saved = "cooked")

\* A process that returns from main() gives the terminal back in the mode it
\* found it in, whatever signals, stops and keys came before.
ExitRestoresTerminal ==
  pc = "exited" => tty # "raw"

\* SIGINT and SIGTERM leave a raw terminal behind only when they come before
\* the menu was drawn once, between the tcsetattr of linuxinput.h:43 and the two
\* signal() calls of main.cpp:50-51.
KillLeavesRawEarly ==
  (pc = "killed" /\ tty = "raw") => (cause \notin Caught \/ shown = "nothing")

\* A session that is over leaves the terminal raw in one way only: killed, by a
\* signal main() has no handler for, or by SIGINT or SIGTERM before its handlers
\* were in.  A session that goes on can still give it back.  No more than that
\* is promised: nothing handles SIGTSTP, so a process that ^Z suspends keeps the
\* terminal raw until it is continued and ends.
LeftRawOnlyByKill ==
  /\ RawIsRecoverable
  /\ ExitRestoresTerminal
  /\ KillLeavesRawEarly

\* Once the first menu is on the screen SIGINT and SIGTERM no longer kill the
\* process: they can only ask the loop to end.
LoopSurvivesInterrupts ==
  cause \in Caught => shown = "nothing"

\* A 'q' typed ahead at the shell, before the terminal is raw, never ends the
\* session: TCSAFLUSH throws it away.
TypeaheadNeverQuits ==
  quitFrom # "cooked"

\* A quit key waiting on a raw terminal ends the process, unless job control
\* suspends it first.
QuitKeyEndsSession ==
  (pc \in Loop /\ \E i \in DOMAIN input : input[i].key \in QuitKeys)
    ~> (~Alive \/ stopped)

\* A caught signal ends the process or leaves it blocked in read(), where the
\* next byte ends it; it is never lost by the loop.
InterruptEndsSessionOrBlocks ==
  asked ~> (~Alive \/ stopped \/ (pc = "getch" /\ ~Readable))

\* Whatever asks the session to end ends it, with that exception.
RequestsEndSession == QuitKeyEndsSession /\ InterruptEndsSessionOrBlocks

(* What the comments of the program say and a run refutes. *)

\* main.cpp:47-48: the handler is there to "cleanly exit when we receive a
\* CTRL-C": an interrupt received in the loop ends it.
InterruptEndsSession ==
  (interrupted /\ pc \in Loop) ~> (~Alive \/ stopped)
=============================================================================
