---------------------------- MODULE ConsoleHistory ----------------------------
(***************************************************************************)
(* The console with the interrupt handler's Ctrl+L beside it, and the      *)
(* history its properties need: what the call in progress should leave on  *)
(* a screen nobody else touches, and whether somebody did.                 *)
(***************************************************************************)
EXTENDS Console

VARIABLES
  expected,  \* position and cells an undisturbed call ends with
  calm       \* no Ctrl+L since the last call began

screenHistory == <<expected, calm>>
allScreenVars == <<consoleVars, screenHistory>>

-----------------------------------------------------------------------------
(* What one call does, on a tape: the screen is its cells in row order and *)
(* the cursor one position on it; running off the end drops the first row. *)
TapePosition(pos, c) ==
  CASE c = CLEAR -> 0
    [] c = NL    -> (pos \div VGA_W + 1) * VGA_W
    [] c = BS    -> IF pos = 0 THEN 0 ELSE pos - 1
    [] OTHER     -> pos + 1

TapeCells(pos, cells, c) ==
  CASE c = CLEAR -> [i \in Cells |-> Blank]
    [] c = NL    -> cells
    [] c = BS    -> [cells EXCEPT ![TapePosition(pos, c)] = Blank]
    [] OTHER     -> [cells EXCEPT ![pos] = c]

TapeWrite(pos, cells, c) ==
  LET end   == TapePosition(pos, c)
      drawn == TapeCells(pos, cells, c)
  IN  IF end < CellCount
      THEN [pos |-> end, cells |-> drawn]
      ELSE [pos   |-> end - VGA_W,
            cells |-> [i \in Cells |-> IF i + VGA_W \in Cells
                                       THEN drawn[i + VGA_W] ELSE Blank]]

-----------------------------------------------------------------------------
ScreenInit ==
  /\ ConsoleInit
  /\ expected = [pos |-> 0, cells |-> [i \in Cells |-> Blank]]
  /\ calm = TRUE

Call ==
  \E c \in Glyph \cup {NL, BS, CLEAR} :
    /\ WriteChar(c)
    /\ expected' = TapeWrite(CursorCell, vga, c)
    /\ calm' = TRUE

Work == WriterStep /\ UNCHANGED screenHistory

CtrlL ==
  /\ ClearScreen
  /\ calm' = FALSE
  /\ UNCHANGED <<writerVars, expected>>

ScreenNext == Call \/ Work \/ CtrlL

\* The kernel never blocks inside writeChar, so a call in progress goes on.
ScreenSpec == ScreenInit /\ [][ScreenNext]_allScreenVars /\ WF_allScreenVars(Work)

-----------------------------------------------------------------------------
Idle == wpc = "idle"

(* Whatever Ctrl+L interrupts, writeChar and clearScreen return with the   *)
(* cursor on the screen: a backspace that underflows cursorX or cursorY    *)
(* (io.c:197, 200) is repaired by the wrap test and by scroll.             *)
CursorHealed == Idle => cursorX < VGA_W /\ cursorY < VGA_H

(* A call that no Ctrl+L interrupts leaves exactly the screen and cursor   *)
(* of the tape, scrolling included.                                        *)
UndisturbedWrite ==
  Idle /\ calm => vga = expected.cells /\ CursorCell = expected.pos

(* After a call that no Ctrl+L interrupts the hardware cursor is where the *)
(* software cursor is, even if an earlier race left the CRTC's register    *)
(* selection or contents wrong (io.c:173-177).                             *)
HwCursorFollows ==
  Idle /\ calm => crtc.high * RADIX + crtc.low = CursorCell

(* Ctrl+L in the middle of a call clears the screen but for what the call  *)
(* still writes: at most one cell comes back, the character being put or   *)
(* the one scroll had loaded.                                              *)
OneGlyphSurvivesClear ==
  Idle /\ ~calm =>
    \A i, j \in Cells : vga[i] # Blank /\ vga[j] # Blank => i = j

(* What a call stores, it stores on the screen.  A Ctrl+L between the      *)
(* loads of cursorY and cursorX only lowers the offset, and a cursor that  *)
(* a backspace pushed off the screen is back on it before the next         *)
(* character.  Only a backspace that Ctrl+L interrupts behind its test     *)
(* stores elsewhere: in front of the screen, by a cell or by a row         *)
(* (io.c:196-204; "Erase the character at the new position").           *)
PutOnScreen ==
  wpc = "put" =>
    off \in Cells \/ (ch = BS /\ ~calm /\ off \in {WORD - 1, WORD - VGA_W})

(* Every call returns: scroll and the wrap end under any number of Ctrl+L. *)
CallReturns == ~Idle ~> Idle

=============================================================================
