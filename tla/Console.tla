------------------------------- MODULE Console -------------------------------
(***************************************************************************)
(* The VGA text console of src/src/io.c: writeChar, scroll, clearScreen and    *)
(* moveCursor over the globals cursorX and cursorY, the frame buffer at    *)
(* VGA_START and the index/data register pair of the CRT controller.       *)
(*                                                                         *)
(* The kernel's main thread calls writeChar with interrupts enabled, and   *)
(* the keyboard interrupt calls clearScreen (Ctrl+L).  The kernel is built *)
(* without optimisation (src/src/settings.mk), so each access of the main thread   *)
(* to a shared location is a step of its own and an increment is a load    *)
(* and a store; the interrupt handler runs with interrupts disabled and is *)
(* one step.                                                               *)
(***************************************************************************)
EXTENDS Integers

CONSTANTS
  VGA_W, VGA_H,  \* columns and rows of the screen
  WORD,          \* 2^w: unsigned arithmetic wraps here
  RADIX,         \* 2^8: what one byte-wide CRTC register holds
  Glyph          \* the printable characters

NL == "nl"        \* '\n'
BS == "bs"        \* '\b'
Blank == "blank"  \* the cell clearScreen and scroll write: ' '
CLEAR == "clear"  \* not a character: marks a call of clearScreen itself

CellCount == VGA_W * VGA_H
Cells     == 0 .. CellCount - 1
Words     == 0 .. WORD - 1

ASSUME ConsoleAssumption ==
  /\ VGA_W \in Nat \ {0} /\ VGA_H \in Nat \ {0}
  /\ RADIX \in Nat \ {0} /\ WORD \in Nat
  /\ CellCount + VGA_W < WORD
  /\ CellCount <= RADIX * RADIX
  /\ {NL, BS, Blank, CLEAR} \cap Glyph = {}

VARIABLES
  cursorX, cursorY,  \* the software cursor
  vga,               \* the frame buffer, one entry per character cell
  crtc,              \* the CRT controller: selected register, cursor high, low
  wpc,               \* the main thread's next access in writeChar, or "idle"
  ch,                \* writeChar's argument c
  reg,               \* the loaded half of a read-modify-write
  off,               \* local: offset of the cell, scroll's index, moveCursor's pos
  cell               \* the character scroll is copying

screenVars  == <<cursorX, cursorY, vga, crtc>>
writerVars  == <<wpc, ch, reg, off, cell>>
consoleVars == <<screenVars, writerVars>>

\* VGA_OFF: the cell under the cursor
CursorCell == cursorY * VGA_W + cursorX

ConsoleInit ==
  /\ cursorX = 0 /\ cursorY = 0
  /\ vga  = [i \in Cells |-> Blank]
  /\ crtc = [index |-> "low", high |-> 0, low |-> 0]
  /\ wpc = "idle" /\ ch = Blank /\ reg = 0 /\ off = 0 /\ cell = Blank

-----------------------------------------------------------------------------
\* Variant: one row too few is cleared.
ClearScreenShort ==
  /\ cursorX' = 0 /\ cursorY' = 0
  /\ vga'  = [i \in Cells |-> IF i < CellCount - VGA_W THEN Blank ELSE vga[i]]
  /\ crtc' = [index |-> "low", high |-> 0, low |-> 0]

(* clearScreen as the interrupt handler runs it: every cell blanked, the   *)
(* cursor home, and moveCursor(0, 0) programming both CRTC registers.      *)
ClearScreen ==
  /\ cursorX' = 0 /\ cursorY' = 0
  /\ vga'  = [i \in Cells |-> Blank]
  /\ crtc' = [index |-> "low", high |-> 0, low |-> 0]

-----------------------------------------------------------------------------
(* The main thread.  Step(from, to) is one access: control moves on.       *)
Step(from, to) == wpc = from /\ wpc' = to

WriteChar(c) ==
  /\ Step("idle", CASE c = NL    -> "newline"
                    [] c = BS    -> "testX"
                    [] c = CLEAR -> "blankAll"
                    [] OTHER     -> "offY")
  /\ ch' = c
  /\ UNCHANGED <<screenVars, reg, off, cell>>

\* '\n': cursorX = 0; cursorY++
NewLine ==
  /\ Step("newline", "loadIncY")
  /\ cursorX' = 0
  /\ UNCHANGED <<cursorY, vga, crtc, ch, reg, off, cell>>

\* '\b': if (cursorX > 0) ... else if (cursorY > 0) ...
BackspaceTestX ==
  /\ Step("testX", IF cursorX > 0 THEN "loadDecX" ELSE "testY")
  /\ UNCHANGED <<screenVars, ch, reg, off, cell>>

BackspaceTestY ==
  /\ Step("testY", IF cursorY > 0 THEN "loadDecY" ELSE "offY")
  /\ UNCHANGED <<screenVars, ch, reg, off, cell>>

\* The loads of cursorX++, cursorX--, cursorY++ and cursorY--
LoadX ==
  /\ \/ Step("loadIncX", "storeIncX")
     \/ Step("loadDecX", "storeDecX")
  /\ reg' = cursorX
  /\ UNCHANGED <<screenVars, ch, off, cell>>

LoadY ==
  /\ \/ Step("loadIncY", "storeIncY")
     \/ Step("loadDecY", "storeDecY")
  /\ reg' = cursorY
  /\ UNCHANGED <<screenVars, ch, off, cell>>

\* Variant: the cursor is signed and does not wrap.
StoreXSigned ==
  /\ \/ Step("storeIncX", "wrapTest") /\ cursorX' = reg + 1
     \/ Step("storeDecX", "offY")     /\ cursorX' = reg - 1
  /\ reg' = 0
  /\ UNCHANGED <<cursorY, vga, crtc, ch, off, cell>>

\* ... and their stores, modulo the word
StoreX ==
  /\ \/ Step("storeIncX", "wrapTest") /\ cursorX' = (reg + 1) % WORD
     \/ Step("storeDecX", "offY")     /\ cursorX' = (reg + WORD - 1) % WORD
  /\ reg' = 0
  /\ UNCHANGED <<cursorY, vga, crtc, ch, off, cell>>

StoreY ==
  /\ \/ Step("storeIncY", "scrollTest") /\ cursorY' = (reg + 1) % WORD
     \/ Step("storeDecY", "lastColumn") /\ cursorY' = (reg + WORD - 1) % WORD
  /\ reg' = 0
  /\ UNCHANGED <<cursorX, vga, crtc, ch, off, cell>>

\* '\b' over the start of a row: cursorX = VGA_W - 1
LastColumn ==
  /\ Step("lastColumn", "offY")
  /\ cursorX' = VGA_W - 1
  /\ UNCHANGED <<cursorY, vga, crtc, ch, reg, off, cell>>

\* int offset = VGA_OFF, the two globals read one after the other
OffsetY ==
  /\ Step("offY", "offX")
  /\ off' = (cursorY * VGA_W) % WORD
  /\ UNCHANGED <<screenVars, ch, reg, cell>>

OffsetX ==
  /\ Step("offX", "put")
  /\ off' = (off + cursorX) % WORD
  /\ UNCHANGED <<screenVars, ch, reg, cell>>

\* VGA_START[offset] = c, or ' ' for '\b'; a store past the screen hits no cell
Put ==
  /\ Step("put", IF ch = BS THEN "wrapTest" ELSE "loadIncX")
  /\ vga' = IF off \in Cells
            THEN [vga EXCEPT ![off] = IF ch = BS THEN Blank ELSE ch]
            ELSE vga
  /\ off' = 0
  /\ UNCHANGED <<cursorX, cursorY, crtc, ch, reg, cell>>

\* Variant: > for >=.
WrapTestLate ==
  /\ Step("wrapTest", IF cursorX > VGA_W THEN "newline" ELSE "scrollTest")
  /\ UNCHANGED <<screenVars, ch, reg, off, cell>>

\* if (cursorX >= VGA_W) { cursorX = 0; cursorY++; }
WrapTest ==
  /\ Step("wrapTest", IF cursorX >= VGA_W THEN "newline" ELSE "scrollTest")
  /\ UNCHANGED <<screenVars, ch, reg, off, cell>>

\* Variant: > for >=.
ScrollTestLate ==
  /\ Step("scrollTest", IF cursorY <= VGA_H THEN "posY"
                        ELSE IF VGA_H = 1 THEN "blankLast" ELSE "copyLoad")
  /\ off' = 0
  /\ UNCHANGED <<screenVars, ch, reg, cell>>

\* if (cursorY >= VGA_H) scroll()
ScrollTest ==
  /\ Step("scrollTest", IF cursorY < VGA_H THEN "posY"
                        ELSE IF VGA_H = 1 THEN "blankLast" ELSE "copyLoad")
  /\ off' = 0
  /\ UNCHANGED <<screenVars, ch, reg, cell>>

\* scroll: each cell takes the one a row below it, ...
ScrollLoad ==
  /\ Step("copyLoad", "copyStore")
  /\ cell' = vga[off + VGA_W]
  /\ UNCHANGED <<screenVars, ch, reg, off>>

\* Variant: the loop does not advance.
ScrollStoreStuck ==
  /\ Step("copyStore", IF off + 1 < CellCount - VGA_W
                       THEN "copyLoad" ELSE "blankLast")
  /\ vga' = [vga EXCEPT ![off] = cell]
  /\ cell' = Blank
  /\ UNCHANGED <<cursorX, cursorY, crtc, ch, reg, off>>

ScrollStore ==
  /\ Step("copyStore", IF off + 1 < CellCount - VGA_W
                       THEN "copyLoad" ELSE "blankLast")
  /\ vga' = [vga EXCEPT ![off] = cell]
  /\ off' = off + 1
  /\ cell' = Blank
  /\ UNCHANGED <<cursorX, cursorY, crtc, ch, reg>>

\* Variant: the last row keeps its old contents.
ScrollBlankSkipped ==
  /\ Step("blankLast", "pinY")
  /\ off' = 0
  /\ UNCHANGED <<cursorX, cursorY, vga, crtc, ch, reg, cell>>

\* ... the last row is blanked, ...
ScrollBlank ==
  /\ Step("blankLast", "pinY")
  /\ vga' = [i \in Cells |-> IF i >= CellCount - VGA_W THEN Blank ELSE vga[i]]
  /\ off' = 0
  /\ UNCHANGED <<cursorX, cursorY, crtc, ch, reg, cell>>

\* ... and cursorY = VGA_H - 1
ScrollPin ==
  /\ Step("pinY", "posY")
  /\ cursorY' = VGA_H - 1
  /\ UNCHANGED <<cursorX, vga, crtc, ch, reg, off, cell>>

\* clearScreen called by the main thread: the cells, then the cursor
ClearCells ==
  /\ Step("blankAll", "homeX")
  /\ vga' = [i \in Cells |-> Blank]
  /\ UNCHANGED <<cursorX, cursorY, crtc, ch, reg, off, cell>>

ClearHomeX ==
  /\ Step("homeX", "homeY")
  /\ cursorX' = 0
  /\ UNCHANGED <<cursorY, vga, crtc, ch, reg, off, cell>>

ClearHomeY ==
  /\ Step("homeY", "selectHigh")
  /\ cursorY' = 0
  /\ UNCHANGED <<cursorX, vga, crtc, ch, reg, off, cell>>

\* moveCursor(cursorX, cursorY): the arguments, ...
PosY ==
  /\ Step("posY", "posX")
  /\ off' = (cursorY * VGA_W) % WORD
  /\ UNCHANGED <<screenVars, ch, reg, cell>>

PosX ==
  /\ Step("posX", "selectHigh")
  /\ off' = (off + cursorX) % WORD
  /\ UNCHANGED <<screenVars, ch, reg, cell>>

\* Variant: the high register is selected twice.
SelectRegisterTwice ==
  /\ \/ Step("selectHigh", "dataHigh")
     \/ Step("selectLow", "dataLow")
  /\ crtc' = [crtc EXCEPT !.index = "high"]
  /\ UNCHANGED <<cursorX, cursorY, vga, ch, reg, off, cell>>

\* ... then index and data port, twice: what the data port writes is the
\* register selected at that moment
SelectRegister ==
  /\ \/ Step("selectHigh", "dataHigh") /\ crtc' = [crtc EXCEPT !.index = "high"]
     \/ Step("selectLow", "dataLow")   /\ crtc' = [crtc EXCEPT !.index = "low"]
  /\ UNCHANGED <<cursorX, cursorY, vga, ch, reg, off, cell>>

WriteRegister(byte) == crtc' = [crtc EXCEPT ![crtc.index] = byte]

DataHigh ==
  /\ Step("dataHigh", "selectLow")
  /\ WriteRegister((off \div RADIX) % RADIX)
  /\ UNCHANGED <<cursorX, cursorY, vga, ch, reg, off, cell>>

DataLow ==
  /\ Step("dataLow", "idle")
  /\ WriteRegister(off % RADIX)
  /\ off' = 0 /\ ch' = Blank
  /\ UNCHANGED <<cursorX, cursorY, vga, reg, cell>>

WriterStep ==
  \/ NewLine \/ BackspaceTestX \/ BackspaceTestY \/ LoadX \/ LoadY
  \/ StoreX \/ StoreY \/ LastColumn \/ OffsetY \/ OffsetX \/ Put
  \/ WrapTest \/ ScrollTest \/ ScrollLoad \/ ScrollStore \/ ScrollBlank
  \/ ScrollPin \/ ClearCells \/ ClearHomeX \/ ClearHomeY \/ PosY \/ PosX
  \/ SelectRegister \/ DataHigh \/ DataLow

-----------------------------------------------------------------------------
WriterLabels ==
  {"idle", "newline", "testX", "testY", "loadIncX", "storeIncX", "loadDecX",
   "storeDecX", "loadIncY", "storeIncY", "loadDecY", "storeDecY", "lastColumn",
   "offY", "offX", "put", "wrapTest", "scrollTest", "copyLoad", "copyStore",
   "blankLast", "pinY", "blankAll", "homeX", "homeY", "posY", "posX",
   "selectHigh", "dataHigh", "selectLow", "dataLow"}

(* Type invariant of the console's state. *)
ConsoleTypeOK ==
  /\ cursorX \in Words /\ cursorY \in Words /\ reg \in Words /\ off \in Words
  /\ vga \in [Cells -> Glyph \cup {Blank}]
  /\ crtc \in [index : {"high", "low"}, high : 0 .. RADIX - 1,
               low : 0 .. RADIX - 1]
  /\ wpc \in WriterLabels
  /\ ch \in Glyph \cup {NL, BS, Blank, CLEAR}
  /\ cell \in Glyph \cup {Blank}

=============================================================================
