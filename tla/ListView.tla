------------------------------ MODULE ListView ------------------------------
(***************************************************************************)
(* The scrolling list of TextIO (utils/textio.h): a cursor that the key    *)
(* handlers move without looking at the list, a redraw mark, and           *)
(* doListSelection(), which clamps the cursor, chooses the window of rows  *)
(* around it and draws them.  The list belongs to the caller and changes   *)
(* between calls; only its length matters to the class.  The cursor is a   *)
(* C int and the length a size_t; the model takes both far from the ends   *)
(* of their ranges, except that size()-1 of an empty list is the largest   *)
(* size_t.                                                                 *)
(***************************************************************************)
EXTENDS Integers

CONSTANTS
  numberVisibleListElements,   \* rows of the window; 5 in the program
  MaxSize,                     \* bound of the model: longest list
  Overshoot                    \* bound of the model: cursor moves past an end between two draws

ASSUME VisibleAssumption == numberVisibleListElements \in Nat \ {0}
ASSUME BoundAssumption   == MaxSize \in Nat /\ Overshoot \in Nat

VARIABLES
  cursorPosInList,
  redrawNeeded,
  size,       \* length of the caller's list
  screen      \* what the last draw showed: rows start .. start+rows-1 of a list of
              \* length "of", the row "inverted" highlighted

listVars == <<cursorPosInList, redrawNeeded, size, screen>>

Screens == [start : Nat, rows : 0..numberVisibleListElements, of : 0..MaxSize, inverted : Nat]
Blank   == [start |-> 0, rows |-> 0, of |-> 0, inverted |-> 0]

ListInit ==
  /\ cursorPosInList = 0
  /\ redrawNeeded = TRUE
  /\ size \in 0..MaxSize
  /\ screen = Blank
----------------------------------------------------------------------------
MutMoveCursor(step) ==              \* mutant: the move forgets to ask for a redraw
  /\ cursorPosInList + step \in (-Overshoot)..(MaxSize + Overshoot)
  /\ cursorPosInList' = cursorPosInList + step
  /\ UNCHANGED <<redrawNeeded, size, screen>>

\* moveCursorUp (-1) and moveCursorDown (1).
MoveCursor(step) ==
  /\ cursorPosInList + step \in (-Overshoot)..(MaxSize + Overshoot)
  /\ cursorPosInList' = cursorPosInList + step
  /\ redrawNeeded' = TRUE
  /\ UNCHANGED <<size, screen>>

MarkRedraw ==
  /\ redrawNeeded' = TRUE
  /\ UNCHANGED <<cursorPosInList, size, screen>>

\* The caller adds or removes entries, and may or may not mark the redraw.
ChangeList ==
  /\ size' \in 0..MaxSize
  /\ redrawNeeded' = TRUE \/ UNCHANGED redrawNeeded
  /\ UNCHANGED <<cursorPosInList, screen>>

MutClamped(cur, n) ==               \* mutant: the upper bound is one too high
  IF cur < 0 THEN 0 ELSE IF cur > n THEN n ELSE cur

\* The two comparisons of doListSelection.  With n = 0 the second one compares
\* with the largest size_t and never holds.
Clamped(cur, n) ==
  IF cur < 0 THEN 0
  ELSE IF n > 0 /\ cur > n - 1 THEN n - 1 ELSE cur

RowsOf(n) == IF n < numberVisibleListElements THEN n ELSE numberVisibleListElements

MutWindowStartUnclipped(cur, n) ==  \* mutant: a window above the first entry is not pushed forward
  LET centred == cur - RowsOf(n) \div 2
  IN  IF centred + RowsOf(n) > n THEN n - RowsOf(n) ELSE centred

MutWindowStartPage(cur, n) ==       \* mutant: pulled back by a page instead of by the excess
  LET centred == cur - RowsOf(n) \div 2
      s       == IF centred + RowsOf(n) > n THEN centred - RowsOf(n) ELSE centred
  IN  IF s < 0 THEN 0 ELSE s

MutWindowStart(cur, n) ==           \* mutant: the window is not pulled back at the end of the list
  LET s == cur - RowsOf(n) \div 2
  IN  IF s < 0 THEN 0 ELSE s

\* Centred on the cursor, pulled back from the end of the list, then pushed
\* forward to its beginning.
WindowStart(cur, n) ==
  LET centred == cur - RowsOf(n) \div 2
      s       == IF centred + RowsOf(n) > n THEN n - RowsOf(n) ELSE centred
  IN  IF s < 0 THEN 0 ELSE s

DoListSelection ==
  /\ redrawNeeded
  /\ redrawNeeded' = FALSE
  /\ LET cur == Clamped(cursorPosInList, size) IN
       /\ cursorPosInList' = cur
       /\ screen' = [start |-> WindowStart(cur, size), rows |-> RowsOf(size),
                     of |-> size, inverted |-> cur]
  /\ UNCHANGED size

ListNext ==
  \/ \E step \in {-1, 1} : MoveCursor(step)
  \/ MarkRedraw
  \/ ChangeList
  \/ DoListSelection

ListSpec == ListInit /\ [][ListNext]_listVars
----------------------------------------------------------------------------
(* Properties *)

\* Every variable keeps to its values; a window never starts above the list.
ListTypeOK ==
  /\ cursorPosInList \in (-Overshoot)..(MaxSize + Overshoot)
  /\ redrawNeeded \in BOOLEAN
  /\ size \in 0..MaxSize
  /\ screen \in Screens

\* Every row doListSelection reads is an element of the list it was given:
\* the vector is never indexed outside its bounds.
RowsInBounds ==
  0 <= screen.start /\ screen.start + screen.rows <= screen.of

\* The selected entry is on the screen, whatever the cursor did since the last
\* draw and however the list shrank.
SelectionVisible ==
  screen.of > 0 => screen.inverted \in screen.start .. (screen.start + screen.rows - 1)

\* A cursor that differs from the highlighted row is always waiting for a redraw.
NoStaleHighlight ==
  screen # Blank /\ cursorPosInList # screen.inverted => redrawNeeded

\* What the last draw shows is right: rows of the list, the selection among them,
\* or else another draw is due.
DrawnRight == RowsInBounds /\ SelectionVisible /\ NoStaleHighlight

\* Scrolling is smooth: two draws of a list of the same length whose cursors
\* are one apart show windows at most one row apart.
ScrollsByOne ==
  (screen'.of = screen.of /\ screen # Blank
    /\ screen'.inverted - screen.inverted \in {-1, 0, 1})
  => screen'.start - screen.start \in {-1, 0, 1}
SmoothScroll == [][ScrollsByOne]_listVars
=============================================================================
