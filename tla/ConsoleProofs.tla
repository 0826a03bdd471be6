----------------------------- MODULE ConsoleProofs -----------------------------
(***************************************************************************)
(* The console, for every screen size and word size: its state is well     *)
(* typed, scroll stays inside the frame buffer, and the cursor is back on  *)
(* the screen whenever a call returns, however often Ctrl+L interrupts.    *)
(* Then what a call does to the screen: where it stores, what the display  *)
(* controller shows as the cursor, what survives a Ctrl+L in its middle,   *)
(* when nobody interrupts it, that it is one step of the tape, and how     *)
(* many accesses it takes at most.                                         *)
(***************************************************************************)
EXTENDS ConsoleHistory, TLAPS

(* Arithmetic of the screen and of the word *)
LEMMA ScreenFacts ==
  /\ CellCount \in Nat /\ VGA_W \in Nat \ {0} /\ VGA_H \in Nat \ {0}
  /\ CellCount - VGA_W \in Nat
  /\ VGA_H # 1 => CellCount - VGA_W > 0
  /\ WORD \in Nat \ {0} /\ CellCount + VGA_W < WORD
  /\ RADIX \in Nat \ {0}
<1>1. VGA_W \in Nat \ {0} /\ VGA_H \in Nat \ {0}
  BY ConsoleAssumption
<1>2. CellCount = VGA_W * (VGA_H - 1) + VGA_W
  BY <1>1 DEF CellCount
<1>3. VGA_W * (VGA_H - 1) \in Nat
  BY <1>1
<1>4. VGA_H # 1 => VGA_W * (VGA_H - 1) > 0
  BY <1>1
<1> QED BY <1>1, <1>2, <1>3, <1>4, ConsoleAssumption

(* Unsigned arithmetic stays in the word. *)
LEMMA Wraps ==
  ASSUME NEW n \in Nat PROVE n % WORD \in Words
BY ScreenFacts DEF Words

(* A byte of the position and what is left of it above the byte. *)
LEMMA ByteOfWord ==
  ASSUME NEW n \in Nat
  PROVE  n % RADIX \in 0 .. RADIX - 1 /\ n \div RADIX \in Nat
BY ScreenFacts

-----------------------------------------------------------------------------
(* Where control is once the row and column tests are behind it *)
PastWrap == {"idle", "loadIncY", "storeIncY", "scrollTest", "copyLoad",
             "copyStore", "blankLast", "pinY", "blankAll", "homeX", "homeY",
             "posY", "posX", "selectHigh", "dataHigh", "selectLow", "dataLow"}

PastScroll == {"idle", "blankAll", "homeX", "homeY",
               "posY", "posX", "selectHigh", "dataHigh", "selectLow", "dataLow"}

(* The inductive invariant: the types, the bound of scroll's loop, which   *)
(* characters reach the store, and the cursor's column and row from the    *)
(* test that bounds them to the end of the call.                           *)
ConsoleInv ==
  /\ ConsoleTypeOK
  /\ wpc \in {"copyLoad", "copyStore"} => off < CellCount - VGA_W
  /\ wpc \in {"offY", "offX", "put"} => ch \in Glyph \cup {BS}
  /\ wpc \in {"testX", "testY", "loadDecX", "storeDecX", "loadDecY",
              "storeDecY", "lastColumn"} => ch = BS
  /\ wpc \in PastWrap   => cursorX < VGA_W
  /\ wpc \in PastScroll => cursorY < VGA_H

(* The console as it is linked satisfies the invariant (io.c:21-27). *)
LEMMA ConsoleInvInit == ConsoleInit => ConsoleInv
<1> SUFFICES ASSUME ConsoleInit PROVE ConsoleInv
  OBVIOUS
<1>1. 0 \in Words /\ 0 \in 0 .. RADIX - 1 /\ 0 < VGA_W /\ 0 < VGA_H
  BY ScreenFacts DEF Words
<1> QED BY <1>1 DEF ConsoleInit, ConsoleInv, ConsoleTypeOK, WriterLabels

(* The interrupt handler's clear *)
LEMMA ClearStep ==
  ASSUME ConsoleInv, ClearScreen, UNCHANGED writerVars
  PROVE  ConsoleInv'
<1>1. 0 \in Words /\ 0 \in 0 .. RADIX - 1 /\ 0 < VGA_W /\ 0 < VGA_H
  BY ScreenFacts DEF Words
<1> QED BY <1>1 DEF ClearScreen, writerVars, ConsoleInv, ConsoleTypeOK

(* The beginning of a call *)
LEMMA CallStep ==
  ASSUME ConsoleInv, NEW c \in Glyph \cup {NL, BS, CLEAR}, WriteChar(c)
  PROVE  ConsoleInv'
<1>1. /\ wpc = "idle" /\ ch' = c
      /\ wpc' = CASE c = NL    -> "newline"
                  [] c = BS    -> "testX"
                  [] c = CLEAR -> "blankAll"
                  [] OTHER     -> "offY"
      /\ UNCHANGED <<cursorX, cursorY, vga, crtc, reg, off, cell>>
  BY DEF WriteChar, Step, screenVars
<1>2. \/ c = NL /\ wpc' = "newline"
      \/ c = BS /\ wpc' = "testX"
      \/ c = CLEAR /\ wpc' = "blankAll"
      \/ c \in Glyph /\ wpc' = "offY"
  BY <1>1 DEF NL, BS, CLEAR
<1> QED BY <1>1, <1>2
        DEF ConsoleInv, ConsoleTypeOK, PastWrap, PastScroll, WriterLabels

(* The main thread's accesses, each on its own *)
LEMMA WorkStep ==
  ASSUME ConsoleInv, WriterStep PROVE ConsoleInv'
<1> USE ScreenFacts
    DEF ConsoleInv, ConsoleTypeOK, Step, screenVars, PastWrap, PastScroll,
        WriterLabels
<1>0. 0 \in Words /\ 0 \in 0 .. RADIX - 1
  BY DEF Words
<1>1. CASE NewLine
  BY <1>0, <1>1 DEF NewLine
<1>2. CASE BackspaceTestX \/ BackspaceTestY
  BY <1>2 DEF BackspaceTestX, BackspaceTestY
<1>3. CASE LoadX \/ LoadY
  BY <1>3 DEF LoadX, LoadY
<1>4. CASE StoreX \/ StoreY
  <2>1. reg + 1 \in Nat /\ reg + WORD - 1 \in Nat
    BY DEF Words
  <2>2. (reg + 1) % WORD \in Words /\ (reg + WORD - 1) % WORD \in Words
    BY <2>1, Wraps
  <2> QED BY <1>0, <1>4, <2>2 DEF StoreX, StoreY
<1>5. CASE LastColumn
  BY <1>5 DEF LastColumn, Words
<1>6. CASE OffsetY \/ OffsetX \/ PosY \/ PosX
  <2>1. cursorY * VGA_W \in Nat /\ off + cursorX \in Nat
    BY DEF Words
  <2>2. (cursorY * VGA_W) % WORD \in Words /\ (off + cursorX) % WORD \in Words
    BY <2>1, Wraps
  <2> QED BY <1>6, <2>2 DEF OffsetY, OffsetX, PosY, PosX
<1>7. CASE Put
  <2>1. vga' \in [Cells -> Glyph \cup {Blank}]
    BY <1>7 DEF Put
  <2> QED BY <1>0, <1>7, <2>1 DEF Put
<1>8. CASE WrapTest
  BY <1>8 DEF WrapTest, Words
<1>9. CASE ScrollTest
  BY <1>0, <1>9 DEF ScrollTest, Words
<1>10. CASE ScrollLoad
  <2>1. off + VGA_W \in Cells
    BY <1>10 DEF ScrollLoad, Cells, Words
  <2> QED BY <1>10, <2>1 DEF ScrollLoad
<1>11. CASE ScrollStore
  <2>1. off + 1 \in Words
    BY <1>11 DEF ScrollStore, Words
  <2>2. off + 1 < CellCount - VGA_W => off' < CellCount - VGA_W
    BY <1>11 DEF ScrollStore
  <2> QED BY <1>11, <2>1, <2>2 DEF ScrollStore
<1>12. CASE ScrollBlank
  BY <1>0, <1>12 DEF ScrollBlank
<1>13. CASE ScrollPin
  <2>1. VGA_H - 1 \in Words
    <3>1. VGA_H <= CellCount
      <4>1. VGA_W * VGA_H = (VGA_W - 1) * VGA_H + VGA_H
        BY ScreenFacts
      <4>2. (VGA_W - 1) * VGA_H \in Nat
        BY ScreenFacts
      <4> QED BY <4>1, <4>2 DEF CellCount
    <3> QED BY <3>1 DEF Words
  <2> QED BY <1>13, <2>1 DEF ScrollPin
<1>14. CASE ClearCells \/ ClearHomeX \/ ClearHomeY
  BY <1>0, <1>14 DEF ClearCells, ClearHomeX, ClearHomeY
<1>15. CASE SelectRegister
  BY <1>15 DEF SelectRegister
<1>16. CASE DataHigh \/ DataLow
  <2>1. off \in Nat
    BY DEF Words
  <2>2. off % RADIX \in 0 .. RADIX - 1 /\ (off \div RADIX) % RADIX \in 0 .. RADIX - 1
    BY <2>1, ByteOfWord
  <2>3. ASSUME NEW byte \in 0 .. RADIX - 1, WriteRegister(byte)
        PROVE  crtc' \in [index : {"high", "low"}, high : 0 .. RADIX - 1,
                          low : 0 .. RADIX - 1]
    BY <2>3 DEF WriteRegister
  <2> QED BY <1>0, <1>16, <2>2, <2>3 DEF DataHigh, DataLow
<1> QED BY <1>1, <1>2, <1>3, <1>4, <1>5, <1>6, <1>7, <1>8, <1>9, <1>10,
           <1>11, <1>12, <1>13, <1>14, <1>15, <1>16 DEF WriterStep

(* The console's inductive invariant holds for every screen. *)
THEOREM ConsoleInvariant == ScreenSpec => []ConsoleInv
<1>1. ConsoleInv /\ [ScreenNext]_allScreenVars => ConsoleInv'
  <2> SUFFICES ASSUME ConsoleInv, [ScreenNext]_allScreenVars PROVE ConsoleInv'
    OBVIOUS
  <2>1. CASE Call
    BY <2>1, CallStep DEF Call
  <2>2. CASE Work
    BY <2>2, WorkStep DEF Work
  <2>3. CASE CtrlL
    BY <2>3, ClearStep DEF CtrlL
  <2>4. CASE UNCHANGED allScreenVars
    BY <2>4 DEF allScreenVars, consoleVars, screenVars, writerVars, ConsoleInv,
               ConsoleTypeOK
  <2> QED BY <2>1, <2>2, <2>3, <2>4 DEF ScreenNext
<1>2. ScreenInit => ConsoleInv
  BY ConsoleInvInit DEF ScreenInit
<1> QED BY <1>1, <1>2, PTL DEF ScreenSpec

(* Every state of the console is well typed: no arithmetic of the cursor   *)
(* leaves the word and scroll reads and writes only cells of the screen.   *)
THEOREM ConsoleTypeCorrect == ScreenSpec => []ConsoleTypeOK
<1>1. ConsoleInv => ConsoleTypeOK
  BY DEF ConsoleInv
<1> QED BY <1>1, ConsoleInvariant, PTL

(* The cursor is on the screen whenever writeChar or clearScreen has       *)
(* returned, wherever Ctrl+L came.                                         *)
THEOREM CursorAlwaysHeals == ScreenSpec => []CursorHealed
<1>1. ConsoleInv => CursorHealed
  BY DEF ConsoleInv, CursorHealed, Idle, PastWrap, PastScroll
<1> QED BY <1>1, ConsoleInvariant, PTL

-----------------------------------------------------------------------------
(* The screen *)

(* A row on the screen ends on the screen, and its cells are cells. *)
LEMMA RowFacts ==
  ASSUME NEW y \in Nat, NEW x \in Nat, y < VGA_H, x < VGA_W
  PROVE  /\ y * VGA_W \in Nat /\ y * VGA_W + VGA_W <= CellCount
         /\ y * VGA_W + x \in Cells
         /\ (y * VGA_W) % WORD = y * VGA_W
         /\ (y * VGA_W + x) % WORD = y * VGA_W + x
<1> DEFINE k == VGA_H - 1 - y
<1>1. k \in Nat /\ VGA_H = y + 1 + k
  BY ScreenFacts
<1>2. CellCount = y * VGA_W + VGA_W + k * VGA_W
  BY <1>1, ScreenFacts DEF CellCount
<1>3. k * VGA_W \in Nat /\ y * VGA_W \in Nat
  BY <1>1, ScreenFacts
<1>4. y * VGA_W + VGA_W <= CellCount
  BY <1>2, <1>3, ScreenFacts
<1>5. y * VGA_W + x \in Nat /\ y * VGA_W + x < CellCount
  BY <1>3, <1>4, ScreenFacts
<1>6. \A n \in Nat : n < WORD => n % WORD = n
  BY ScreenFacts
<1> QED BY <1>3, <1>4, <1>5, <1>6, ScreenFacts DEF Cells

(* The row in front of the first wraps to the end of the word. *)
LEMMA RowBefore == ((WORD - 1) * VGA_W) % WORD = WORD - VGA_W
<1>1. VGA_W - 1 \in Nat /\ VGA_W \in Nat /\ WORD \in Nat \ {0} /\ VGA_W < WORD
  BY ScreenFacts
<1>2. (WORD - 1) * VGA_W = (VGA_W - 1) * WORD + (WORD - VGA_W)
  BY <1>1
<1>3. ASSUME NEW q \in Nat, NEW r \in 0 .. WORD - 1
      PROVE  (q * WORD + r) % WORD = r
  BY <1>1, <1>3
<1>4. VGA_W - 1 \in Nat /\ WORD - VGA_W \in 0 .. WORD - 1
  BY <1>1, ScreenFacts
<1>5. ((VGA_W - 1) * WORD + (WORD - VGA_W)) % WORD = WORD - VGA_W
  BY <1>3, <1>4
<1> QED BY <1>2, <1>5

-----------------------------------------------------------------------------
(* Where the cursor and the offset are on the way to the store.  A Ctrl+L  *)
(* behind a backspace's test makes what it decrements a zero: Under holds  *)
(* of such a cursor.                                                       *)
Aimed == cursorX < VGA_W /\ cursorY < VGA_H

Under ==
  /\ ch = BS /\ ~calm
  /\ \/ cursorX = WORD - 1 /\ cursorY = 0
     \/ cursorX = VGA_W - 1 /\ cursorY = WORD - 1

StoreInv ==
  /\ wpc \in {"testX", "testY", "loadDecX", "storeDecX", "loadDecY", "storeDecY"} => Aimed
  /\ wpc = "loadDecX"   => (cursorX = 0 => ~calm /\ cursorY = 0)
  /\ wpc = "storeDecX"  => reg < VGA_W /\ (reg = 0 => ~calm /\ cursorY = 0)
  /\ wpc \in {"testY", "loadDecY", "storeDecY", "lastColumn"} => cursorX = 0
  /\ wpc = "loadDecY"   => (cursorY = 0 => ~calm)
  /\ wpc = "storeDecY"  => reg < VGA_H /\ (reg = 0 => ~calm)
  /\ wpc = "lastColumn" => cursorY < VGA_H \/ (~calm /\ cursorY = WORD - 1)
  /\ wpc = "offY"       => Aimed \/ Under
  /\ wpc = "offX" =>
       \/ off + VGA_W <= CellCount /\ cursorX < VGA_W
       \/ ch = BS /\ ~calm /\ off = 0 /\ cursorX = WORD - 1
       \/ ch = BS /\ ~calm /\ off = WORD - VGA_W /\ cursorX \in {0, VGA_W - 1}
  /\ PutOnScreen

LEMMA StoreInvInit == ScreenInit => StoreInv
BY DEF ScreenInit, ConsoleInit, StoreInv, PutOnScreen

LEMMA StoreInvStep ==
  ASSUME ConsoleInv, StoreInv, [ScreenNext]_allScreenVars
  PROVE  StoreInv'
<1> USE ScreenFacts
    DEF StoreInv, Aimed, Under, PutOnScreen, Step, screenVars, writerVars,
        screenHistory, consoleVars
<1>0. /\ cursorX \in Nat /\ cursorY \in Nat /\ off \in Nat /\ reg \in Nat
      /\ off < WORD /\ cursorX < WORD /\ cursorY < WORD /\ reg < WORD
  BY DEF ConsoleInv, ConsoleTypeOK, Words
<1>1. CASE Call
  <2>1. PICK c \in Glyph \cup {NL, BS, CLEAR} : WriteChar(c)
    BY <1>1 DEF Call
  <2>2. Aimed
    BY <2>1 DEF WriteChar, ConsoleInv, PastWrap, PastScroll
  <2>3. UNCHANGED <<cursorX, cursorY>> /\ wpc' \in {"newline", "testX", "blankAll", "offY"}
    BY <2>1 DEF WriteChar
  <2> QED BY <2>2, <2>3
<1>2. CASE CtrlL
  BY <1>0, <1>2 DEF CtrlL, ClearScreen
<1>3. CASE UNCHANGED allScreenVars
  BY <1>3 DEF allScreenVars
<1>4. ASSUME Work PROVE StoreInv'
  <2> USE <1>4 DEF Work
  <2>1. CASE BackspaceTestX \/ BackspaceTestY
    BY <1>0, <2>1 DEF BackspaceTestX, BackspaceTestY
  <2>2. CASE LoadX \/ LoadY
    BY <1>0, <2>2 DEF LoadX, LoadY
  <2>3. CASE StoreX
    <3>1. CASE wpc = "storeDecX"
      <4>1. ch = BS
        BY <3>1 DEF ConsoleInv
      <4>2. cursorX' = (reg + WORD - 1) % WORD /\ wpc' = "offY"
            /\ UNCHANGED <<cursorY, ch, calm>>
        BY <2>3, <3>1 DEF StoreX
      <4>3. reg = 0 => cursorX' = WORD - 1
        BY <4>2
      <4>4. reg > 0 => cursorX' = reg - 1
        BY <1>0, <3>1, <4>2
      <4> QED BY <1>0, <3>1, <4>1, <4>2, <4>3, <4>4
    <3>2. CASE wpc = "storeIncX"
      BY <2>3, <3>2 DEF StoreX
    <3> QED BY <2>3, <3>1, <3>2 DEF StoreX
  <2>4. CASE StoreY
    <3>1. CASE wpc = "storeDecY"
      <4>1. cursorY' = (reg + WORD - 1) % WORD /\ wpc' = "lastColumn"
            /\ UNCHANGED <<cursorX, ch, calm>>
        BY <2>4, <3>1 DEF StoreY
      <4>2. reg = 0 => cursorY' = WORD - 1
        BY <4>1
      <4>3. reg > 0 => cursorY' = reg - 1
        BY <1>0, <3>1, <4>1
      <4> QED BY <1>0, <3>1, <4>1, <4>2, <4>3
    <3>2. CASE wpc = "storeIncY"
      BY <2>4, <3>2 DEF StoreY
    <3> QED BY <2>4, <3>1, <3>2 DEF StoreY
  <2>5. CASE LastColumn
    <3>1. ch = BS
      BY <2>5 DEF LastColumn, ConsoleInv
    <3> QED BY <1>0, <2>5, <3>1 DEF LastColumn
  <2>6. CASE OffsetY
    <3>1. CASE Aimed
      BY <1>0, <2>6, <3>1, RowFacts DEF OffsetY
    <3>2. CASE Under
      BY <1>0, <2>6, <3>2, RowBefore DEF OffsetY
    <3> QED BY <2>6, <3>1, <3>2 DEF OffsetY
  <2>7. CASE OffsetX
    <3>1. wpc' = "put" /\ off' = (off + cursorX) % WORD /\ UNCHANGED <<ch, calm>>
          /\ wpc = "offX"
      BY <2>7 DEF OffsetX
    <3>2. off + cursorX < WORD => off' = off + cursorX
      BY <1>0, <3>1
    <3>3. CASE off + VGA_W <= CellCount /\ cursorX < VGA_W
      BY <1>0, <3>1, <3>2, <3>3 DEF Cells
    <3>4. CASE ch = BS /\ ~calm /\ off = 0 /\ cursorX = WORD - 1
      BY <1>0, <3>1, <3>2, <3>4
    <3>5. CASE ch = BS /\ ~calm /\ off = WORD - VGA_W /\ cursorX \in {0, VGA_W - 1}
      BY <1>0, <3>1, <3>2, <3>5
    <3> QED BY <3>1, <3>3, <3>4, <3>5
  <2>8. CASE \/ NewLine \/ Put \/ WrapTest \/ ScrollTest \/ ScrollLoad \/ ScrollStore
             \/ ScrollBlank \/ ScrollPin \/ ClearCells \/ ClearHomeX \/ ClearHomeY
             \/ PosY \/ PosX \/ SelectRegister \/ DataHigh \/ DataLow
    <3>1. wpc' \notin {"testX", "testY", "loadDecX", "storeDecX", "loadDecY",
                      "storeDecY", "lastColumn", "offY", "offX", "put"}
      BY <2>8
      DEF NewLine, Put, WrapTest, ScrollTest, ScrollLoad, ScrollStore, ScrollBlank,
          ScrollPin, ClearCells, ClearHomeX, ClearHomeY, PosY, PosX, SelectRegister,
          DataHigh, DataLow
    <3> QED BY <3>1
  <2> QED BY <2>1, <2>2, <2>3, <2>4, <2>5, <2>6, <2>7, <2>8 DEF WriterStep
<1> QED BY <1>1, <1>2, <1>3, <1>4 DEF ScreenNext

(* Nothing is stored off the screen but by an interrupted backspace        *)
(* (io.c:196-209).                                                         *)
THEOREM StoresStayOnScreen == ScreenSpec => []PutOnScreen
<1>1. ScreenInit => ConsoleInv /\ StoreInv
  BY ConsoleInvInit, StoreInvInit DEF ScreenInit
<1>2. ConsoleInv /\ StoreInv /\ [ScreenNext]_allScreenVars => StoreInv'
  BY StoreInvStep
<1>3. StoreInv => PutOnScreen
  BY DEF StoreInv
<1> QED BY <1>1, <1>2, <1>3, ConsoleInvariant, PTL DEF ScreenSpec

-----------------------------------------------------------------------------
(* From the cursor's position to the controller's registers *)
HwInv ==
  /\ wpc \in {"idle", "blankAll", "homeX", "homeY"} => off = 0
  /\ wpc = "homeY" => cursorX = 0
  /\ calm =>
       /\ wpc = "posX" => off = cursorY * VGA_W
       /\ wpc \in {"selectHigh", "dataHigh", "selectLow", "dataLow"} => off = CursorCell
       /\ wpc = "dataHigh" => crtc.index = "high"
       /\ wpc = "dataLow"  => crtc.index = "low"
       /\ wpc \in {"selectLow", "dataLow"} => crtc.high = off \div RADIX
  /\ HwCursorFollows

LEMMA HwInvInit == ScreenInit => HwInv
BY ScreenFacts DEF ScreenInit, ConsoleInit, HwInv, HwCursorFollows, CursorCell

LEMMA HwInvStep ==
  ASSUME ConsoleInv, HwInv, [ScreenNext]_allScreenVars
  PROVE  HwInv'
<1> USE ScreenFacts
    DEF HwInv, HwCursorFollows, Idle, Step, screenVars, writerVars, screenHistory, consoleVars
<1>0. /\ cursorX \in Nat /\ cursorY \in Nat /\ off \in Nat
      /\ crtc \in [index : {"high", "low"}, high : 0 .. RADIX - 1, low : 0 .. RADIX - 1]
  BY DEF ConsoleInv, ConsoleTypeOK, Words
<1>1. CASE Call
  <2>1. PICK c \in Glyph \cup {NL, BS, CLEAR} : WriteChar(c)
    BY <1>1 DEF Call
  <2>2. wpc = "idle" /\ off' = off /\ wpc' \in {"newline", "testX", "blankAll", "offY"}
    BY <2>1 DEF WriteChar
  <2> QED BY <2>2
<1>2. CASE CtrlL
  BY <1>2 DEF CtrlL, ClearScreen
<1>3. CASE UNCHANGED allScreenVars
  BY <1>3 DEF allScreenVars, CursorCell
<1>4. ASSUME Work PROVE HwInv'
  <2> USE <1>4 DEF Work
  <2>1. CASE \/ NewLine \/ BackspaceTestX \/ BackspaceTestY \/ LoadX \/ LoadY
             \/ StoreX \/ StoreY \/ LastColumn \/ OffsetY \/ OffsetX \/ Put \/ WrapTest
             \/ ScrollTest \/ ScrollLoad \/ ScrollStore \/ ScrollBlank \/ ScrollPin
    <3>1. wpc' \notin {"idle", "blankAll", "homeX", "homeY", "posX", "selectHigh",
                      "dataHigh", "selectLow", "dataLow"}
      BY <2>1
      DEF NewLine, BackspaceTestX, BackspaceTestY, LoadX, LoadY, StoreX, StoreY, LastColumn,
          OffsetY, OffsetX, Put, WrapTest, ScrollTest, ScrollLoad, ScrollStore,
          ScrollBlank, ScrollPin
    <3> QED BY <3>1
  <2>2. CASE ClearCells \/ ClearHomeX
    BY <2>2 DEF ClearCells, ClearHomeX
  <2>3. CASE ClearHomeY
    <3>1. CursorCell' = 0 /\ off' = 0 /\ wpc' = "selectHigh"
      BY <2>3 DEF ClearHomeY, CursorCell
    <3> QED BY <3>1
  <2>4. CASE PosY
    <3>1. cursorY < VGA_H /\ cursorX < VGA_W
      BY <2>4 DEF PosY, ConsoleInv, PastScroll, PastWrap
    <3>2. off' = cursorY * VGA_W /\ cursorY' = cursorY /\ wpc' = "posX"
      BY <1>0, <2>4, <3>1, RowFacts DEF PosY
    <3> QED BY <3>2
  <2>5. CASE PosX
    <3>1. cursorY < VGA_H /\ cursorX < VGA_W
      BY <2>5 DEF PosX, ConsoleInv, PastScroll, PastWrap
    <3>2. off' = (off + cursorX) % WORD /\ CursorCell' = CursorCell /\ wpc' = "selectHigh"
          /\ wpc = "posX"
      BY <2>5 DEF PosX, CursorCell
    <3>3. calm => off' = CursorCell
      BY <1>0, <3>1, <3>2, RowFacts DEF CursorCell
    <3> QED BY <3>2, <3>3
  <2>6. CASE SelectRegister
    <3>1. UNCHANGED <<off, calm>> /\ CursorCell' = CursorCell /\ crtc'.high = crtc.high
      BY <1>0, <2>6 DEF SelectRegister, CursorCell
    <3>2. \/ wpc = "selectHigh" /\ wpc' = "dataHigh" /\ crtc'.index = "high"
          \/ wpc = "selectLow" /\ wpc' = "dataLow" /\ crtc'.index = "low"
      BY <1>0, <2>6 DEF SelectRegister
    <3> QED BY <3>1, <3>2
  <2>7. ASSUME DataHigh \/ DataLow, calm PROVE HwInv'
    <3>1. CursorCell \in 0 .. RADIX * RADIX - 1 /\ off = CursorCell /\ CursorCell' = CursorCell
      <4>1. cursorY < VGA_H /\ cursorX < VGA_W
        BY <2>7 DEF DataHigh, DataLow, ConsoleInv, PastScroll, PastWrap
      <4>2. CursorCell \in Cells
        BY <1>0, <4>1, RowFacts DEF CursorCell
      <4>3. CellCount <= RADIX * RADIX /\ RADIX * RADIX \in Nat
        BY ConsoleAssumption
      <4> QED BY <2>7, <4>2, <4>3 DEF DataHigh, DataLow, CursorCell, Cells
    <3>2. off \div RADIX < RADIX /\ off \div RADIX \in Nat
          /\ (off \div RADIX) * RADIX + (off % RADIX) = off
      BY <3>1
    <3>3. CASE DataHigh
      <4>1. crtc' = [crtc EXCEPT !["high"] = (off \div RADIX) % RADIX]
        BY <2>7, <3>3 DEF DataHigh, WriteRegister
      <4>2. crtc'.high = off \div RADIX
        BY <1>0, <3>2, <4>1
      <4> QED BY <3>1, <3>3, <4>2 DEF DataHigh
    <3>4. CASE DataLow
      <4>1. crtc' = [crtc EXCEPT !["low"] = off % RADIX]
        BY <2>7, <3>4 DEF DataLow, WriteRegister
      <4>2. crtc'.low = off % RADIX /\ crtc'.high = off \div RADIX
        BY <1>0, <2>7, <3>4, <4>1 DEF DataLow
      <4>3. wpc' = "idle" /\ off' = 0
        BY <3>4 DEF DataLow
      <4> QED BY <3>1, <3>2, <4>2, <4>3
    <3> QED BY <2>7, <3>3, <3>4
  <2>8. ASSUME DataHigh \/ DataLow, ~calm PROVE HwInv'
    BY <2>8 DEF DataHigh, DataLow
  <2> QED BY <2>1, <2>2, <2>3, <2>4, <2>5, <2>6, <2>7, <2>8 DEF WriterStep
<1> QED BY <1>1, <1>2, <1>3, <1>4 DEF ScreenNext

(* After an undisturbed call the display controller shows the cursor where *)
(* it is (io.c:173-177).                                                   *)
THEOREM CursorIsShown == ScreenSpec => []HwCursorFollows
<1>1. ScreenInit => ConsoleInv /\ HwInv
  BY ConsoleInvInit, HwInvInit DEF ScreenInit
<1>2. ConsoleInv /\ HwInv /\ [ScreenNext]_allScreenVars => HwInv'
  BY HwInvStep
<1>3. HwInv => HwCursorFollows
  BY DEF HwInv
<1> QED BY <1>1, <1>2, <1>3, ConsoleInvariant, PTL DEF ScreenSpec

-----------------------------------------------------------------------------
(* What a screen that Ctrl+L cleared shows *)
NoGlyph  == \A i \in Cells : vga[i] = Blank
OneGlyph == \A i, j \in Cells : vga[i] # Blank /\ vga[j] # Blank => i = j

BeforePut == {"testX", "testY", "loadDecX", "storeDecX", "loadDecY", "storeDecY",
              "lastColumn", "offY", "offX", "put"}

SurvivorInv ==
  ~calm =>
    /\ OneGlyph
    /\ wpc \in BeforePut => NoGlyph /\ (ch \in Glyph => cursorY = 0)
    /\ wpc \in {"loadIncX", "storeIncX", "wrapTest", "newline", "loadIncY"}
         => NoGlyph \/ cursorY = 0
    /\ wpc = "storeIncY"  => NoGlyph \/ reg = 0
    /\ wpc = "scrollTest" => NoGlyph \/ cursorY <= 1
    /\ wpc \in {"copyLoad", "copyStore"} =>
         \A i \in Cells : i >= off => vga[i] = Blank
    /\ wpc = "copyStore" => cell = Blank \/ NoGlyph

LEMMA SurvivorInvInit == ScreenInit => SurvivorInv
BY DEF ScreenInit, SurvivorInv

LEMMA SurvivorInvStep ==
  ASSUME ConsoleInv, SurvivorInv, [ScreenNext]_allScreenVars
  PROVE  SurvivorInv'
<1> USE ScreenFacts
    DEF SurvivorInv, BeforePut, Step, screenVars, writerVars, screenHistory, consoleVars
<1>0. /\ cursorY \in Nat /\ off \in Nat /\ reg \in Nat /\ cursorY < WORD /\ reg < WORD
      /\ vga \in [Cells -> Glyph \cup {Blank}] /\ Blank \notin Glyph /\ BS \notin Glyph
  BY ConsoleAssumption DEF ConsoleInv, ConsoleTypeOK, Words
<1>1. CASE Call
  BY <1>1 DEF Call
<1>2. CASE CtrlL
  <2>1. \A i \in Cells : vga'[i] = Blank
    BY <1>2 DEF CtrlL, ClearScreen
  <2>2. OneGlyph' /\ NoGlyph' /\ cursorY' = 0
    BY <1>2, <2>1 DEF CtrlL, ClearScreen, OneGlyph, NoGlyph
  <2> QED BY <2>1, <2>2
<1>3. CASE UNCHANGED allScreenVars
  BY <1>3 DEF allScreenVars, OneGlyph, NoGlyph
<1>4. ASSUME Work, ~calm' PROVE SurvivorInv'
  <2> USE <1>4 DEF Work
  <2>1. CASE \/ NewLine \/ BackspaceTestX \/ BackspaceTestY \/ LoadX \/ LoadY
             \/ StoreX \/ LastColumn \/ OffsetY \/ OffsetX \/ WrapTest
    <3>1. UNCHANGED <<vga, calm>> /\ (NoGlyph' <=> NoGlyph) /\ (OneGlyph' <=> OneGlyph)
      BY <2>1
      DEF NewLine, BackspaceTestX, BackspaceTestY, LoadX, LoadY, StoreX, LastColumn,
          OffsetY, OffsetX, WrapTest, NoGlyph, OneGlyph
    <3>2. CASE NewLine \/ LoadY
      BY <1>0, <3>1, <3>2 DEF NewLine, LoadY
    <3>3. CASE BackspaceTestX \/ BackspaceTestY \/ LoadX
      BY <1>0, <3>1, <3>3 DEF BackspaceTestX, BackspaceTestY, LoadX
    <3>4. CASE StoreX \/ LastColumn \/ OffsetY \/ OffsetX \/ WrapTest
      BY <1>0, <3>1, <3>4 DEF StoreX, LastColumn, OffsetY, OffsetX, WrapTest
    <3> QED BY <2>1, <3>2, <3>3, <3>4
  <2>2. CASE StoreY
    <3>1. UNCHANGED <<vga, calm, ch>> /\ (NoGlyph' <=> NoGlyph) /\ (OneGlyph' <=> OneGlyph)
      BY <2>2 DEF StoreY, NoGlyph, OneGlyph
    <3>2. CASE wpc = "storeDecY"
      <4>1. ch = BS /\ wpc' = "lastColumn"
        BY <2>2, <3>2 DEF StoreY, ConsoleInv
      <4> QED BY <1>0, <3>1, <3>2, <4>1
    <3>3. CASE wpc = "storeIncY"
      <4>1. cursorY' = (reg + 1) % WORD /\ wpc' = "scrollTest"
        BY <2>2, <3>3 DEF StoreY
      <4>2. reg = 0 => cursorY' <= 1
        BY <4>1
      <4> QED BY <3>1, <3>3, <4>1, <4>2
    <3> QED BY <2>2, <3>2, <3>3 DEF StoreY
  <2>3. CASE Put
    <3>1. wpc = "put" /\ NoGlyph /\ (ch \in Glyph => cursorY = 0)
      BY <2>3 DEF Put
    <3>2. ch \in Glyph \cup {BS}
      BY <3>1 DEF ConsoleInv
    <3>3. \A i \in Cells : i # off => vga'[i] = Blank
      BY <1>0, <2>3, <3>1 DEF Put, NoGlyph
    <3>4. ch = BS => NoGlyph'
      BY <1>0, <2>3, <3>1, <3>3 DEF Put, NoGlyph
    <3>5. OneGlyph'
      BY <3>3 DEF OneGlyph
    <3>6. cursorY' = cursorY /\ wpc' \in {"wrapTest", "loadIncX"}
      BY <2>3 DEF Put
    <3> QED BY <3>1, <3>2, <3>4, <3>5, <3>6
  <2>4. CASE ScrollTest
    <3>1. UNCHANGED <<vga, calm>> /\ (NoGlyph' <=> NoGlyph) /\ (OneGlyph' <=> OneGlyph)
          /\ off' = 0
      BY <2>4 DEF ScrollTest, NoGlyph, OneGlyph
    <3>2. CASE wpc' = "copyLoad"
      <4>1. NoGlyph
        BY <1>0, <2>4, <3>2 DEF ScrollTest
      <4> QED BY <3>1, <3>2, <4>1 DEF NoGlyph
    <3>3. CASE wpc' \in {"posY", "blankLast"}
      BY <2>4, <3>1, <3>3 DEF ScrollTest
    <3> QED BY <2>4, <3>2, <3>3 DEF ScrollTest
  <2>5. CASE ScrollLoad
    <3>1. off < CellCount - VGA_W /\ off + VGA_W \in Cells
      BY <1>0, <2>5 DEF ScrollLoad, ConsoleInv, Cells
    <3>2. cell' = Blank /\ UNCHANGED <<vga, off, calm>> /\ wpc' = "copyStore"
      BY <1>0, <2>5, <3>1 DEF ScrollLoad
    <3>3. (NoGlyph' <=> NoGlyph) /\ (OneGlyph' <=> OneGlyph)
      BY <3>2 DEF NoGlyph, OneGlyph
    <3> QED BY <2>5, <3>2, <3>3 DEF ScrollLoad
  <2>6. CASE ScrollStore
    <3>1. off \in Cells /\ off' = off + 1
      BY <1>0, <2>6 DEF ScrollStore, ConsoleInv, Cells
    <3>2. vga' = [vga EXCEPT ![off] = cell] /\ wpc' \in {"copyLoad", "blankLast"}
      BY <2>6 DEF ScrollStore
    <3>3. \A i \in Cells : i >= off' => vga'[i] = Blank
      BY <1>0, <2>6, <3>1, <3>2 DEF ScrollStore, Cells
    <3>4. OneGlyph'
      <4>1. CASE cell = Blank
        <5>1. \A i \in Cells : vga'[i] # Blank => vga[i] # Blank
          BY <1>0, <3>1, <3>2, <4>1
        <5> QED BY <2>6, <5>1 DEF ScrollStore, OneGlyph
      <4>2. CASE NoGlyph
        <5>1. \A i \in Cells : vga'[i] # Blank => i = off
          BY <1>0, <3>1, <3>2, <4>2 DEF NoGlyph
        <5> QED BY <5>1 DEF OneGlyph
      <4> QED BY <2>6, <4>1, <4>2 DEF ScrollStore
    <3> QED BY <3>2, <3>3, <3>4
  <2>7. CASE ScrollBlank
    <3>1. \A i \in Cells : vga'[i] # Blank => vga[i] # Blank
      BY <1>0, <2>7 DEF ScrollBlank
    <3>2. OneGlyph' /\ wpc' = "pinY"
      BY <2>7, <3>1 DEF ScrollBlank, OneGlyph
    <3> QED BY <3>2
  <2>8. CASE ClearCells
    <3>1. OneGlyph' /\ wpc' = "homeX"
      BY <2>8 DEF ClearCells, OneGlyph
    <3> QED BY <3>1
  <2>9. CASE \/ ScrollPin \/ ClearHomeX \/ ClearHomeY \/ PosY \/ PosX
             \/ SelectRegister \/ DataHigh \/ DataLow
    <3>1. UNCHANGED <<vga, calm>>
          /\ wpc' \in {"posY", "homeY", "selectHigh", "posX", "dataHigh", "dataLow",
                       "selectLow", "idle"}
      BY <2>9 DEF ScrollPin, ClearHomeX, ClearHomeY, PosY, PosX, SelectRegister,
                  DataHigh, DataLow
    <3>2. OneGlyph'
      BY <3>1 DEF OneGlyph
    <3> QED BY <3>1, <3>2
  <2> QED BY <2>1, <2>2, <2>3, <2>4, <2>5, <2>6, <2>7, <2>8, <2>9 DEF WriterStep
<1> QED BY <1>1, <1>2, <1>3, <1>4 DEF ScreenNext, SurvivorInv

(* One character at most comes back on a screen that Ctrl+L cleared in the *)
(* middle of a call (io.c:41-52, 209).                                     *)
THEOREM ClearKeepsOneGlyph == ScreenSpec => []OneGlyphSurvivesClear
<1>1. ScreenInit => ConsoleInv /\ SurvivorInv
  BY ConsoleInvInit, SurvivorInvInit DEF ScreenInit
<1>2. ConsoleInv /\ SurvivorInv /\ [ScreenNext]_allScreenVars => SurvivorInv'
  BY SurvivorInvStep
<1>3. SurvivorInv => OneGlyphSurvivesClear
  BY DEF SurvivorInv, OneGlyphSurvivesClear, OneGlyph
<1> QED BY <1>1, <1>2, <1>3, ConsoleInvariant, PTL DEF ScreenSpec

-----------------------------------------------------------------------------
(* A call in progress nobody interrupted: what is left to do turns what is *)
(* there into what the tape says.                                          *)
Settled(pos, cells) ==
  IF pos < CellCount
  THEN [pos |-> pos, cells |-> cells]
  ELSE [pos   |-> pos - VGA_W,
        cells |-> [i \in Cells |-> IF i + VGA_W \in Cells
                                   THEN cells[i + VGA_W] ELSE Blank]]

Erased(pos) == [vga EXCEPT ![pos] = Blank]
NoCells == [i \in Cells |-> Blank]

\* Where the cursor is on its way to the store: a backspace decrements nothing
\* that is zero.
Steady ==
  /\ wpc \in {"testX", "testY", "loadDecX", "storeDecX", "loadDecY", "storeDecY", "offY"} => Aimed
  /\ wpc = "loadDecX"   => cursorX > 0
  /\ wpc = "storeDecX"  => reg > 0 /\ reg < VGA_W
  /\ wpc \in {"testY", "loadDecY", "storeDecY", "lastColumn"} => cursorX = 0
  /\ wpc = "loadDecY"   => cursorY > 0
  /\ wpc = "storeDecY"  => reg > 0 /\ reg < VGA_H
  /\ wpc = "lastColumn" => cursorY < VGA_H
  /\ wpc = "homeY"      => cursorX = 0

\* What a call in progress has done and has to do makes screen and cursor e.
Tape(e) ==
  /\ wpc \in {"newline", "loadIncY"} =>
       e = Settled((cursorY + 1) * VGA_W, vga) /\ cursorY < VGA_H
  /\ wpc = "storeIncY" =>
       e = Settled((reg + 1) * VGA_W, vga) /\ reg < VGA_H
  /\ wpc \in {"loadIncY", "storeIncY"} => cursorX = 0
  /\ wpc = "testX" =>
       e = IF CursorCell = 0 THEN Settled(0, Erased(0))
           ELSE Settled(CursorCell - 1, Erased(CursorCell - 1))
  /\ wpc = "testY" =>
       e = IF cursorY = 0 THEN Settled(0, Erased(0))
           ELSE Settled(cursorY * VGA_W - 1, Erased(cursorY * VGA_W - 1))
  /\ wpc \in {"loadDecX", "storeDecX"} =>
       e = Settled(CursorCell - 1, Erased(CursorCell - 1))
  /\ wpc \in {"storeDecX", "storeIncX"} => reg = cursorX
  /\ wpc \in {"loadDecY", "storeDecY"} =>
       e = Settled(cursorY * VGA_W - 1, Erased(cursorY * VGA_W - 1))
  /\ wpc = "storeDecY" => reg = cursorY
  /\ wpc = "lastColumn" =>
       LET pos == cursorY * VGA_W + VGA_W - 1
       IN e = Settled(pos, Erased(pos))
  /\ wpc \in {"offY", "offX", "put"} =>
       e = IF ch = BS THEN Settled(CursorCell, Erased(CursorCell))
           ELSE Settled(CursorCell + 1, [vga EXCEPT ![CursorCell] = ch])
  /\ wpc \in {"offX", "put", "loadIncX", "storeIncX"} => Aimed
  /\ wpc = "offX" => off = cursorY * VGA_W
  /\ wpc = "put"  => off = CursorCell
  /\ wpc \in {"loadIncX", "storeIncX"} => e = Settled(CursorCell + 1, vga)
  /\ wpc = "wrapTest" =>
       e = Settled(CursorCell, vga) /\ cursorX <= VGA_W /\ cursorY < VGA_H
  /\ wpc = "scrollTest" => e = Settled(CursorCell, vga) /\ cursorY <= VGA_H
  /\ wpc \in {"copyLoad", "copyStore", "blankLast", "pinY"} =>
       /\ cursorY = VGA_H
       /\ e.pos = CursorCell - VGA_W /\ e.cells \in [Cells -> Glyph \cup {Blank}]
       /\ \A i \in Cells : i >= CellCount - VGA_W => e.cells[i] = Blank
  /\ wpc \in {"copyLoad", "copyStore"} =>
       \A i \in Cells :
         IF i < off THEN vga[i] = e.cells[i]
         ELSE i + VGA_W \in Cells => vga[i + VGA_W] = e.cells[i]
  /\ wpc = "copyStore" => cell = e.cells[off]
  /\ wpc = "blankLast" =>
       \A i \in Cells : i < CellCount - VGA_W => vga[i] = e.cells[i]
  /\ wpc = "pinY" => vga = e.cells
  /\ wpc \in {"blankAll", "homeX", "homeY"} => e = [pos |-> 0, cells |-> NoCells]
  /\ wpc \in {"homeX", "homeY"} => vga = NoCells
  /\ wpc \in {"posY", "posX", "selectHigh", "dataHigh", "selectLow", "dataLow", "idle"} =>
       vga = e.cells /\ CursorCell = e.pos

(* A position's row and column; the row below; the row above *)
LEMMA RowSteps ==
  ASSUME NEW y \in Nat
  PROVE  /\ y * VGA_W \in Nat /\ (y * VGA_W = 0 <=> y = 0)
         /\ (y + 1) * VGA_W = y * VGA_W + VGA_W
         /\ (y - 1) * VGA_W = y * VGA_W - VGA_W
         /\ \A x \in 0 .. VGA_W - 1 : (y * VGA_W + x) \div VGA_W = y
<1>1. VGA_W \in Nat \ {0}
  BY ScreenFacts
<1>2. y * VGA_W \in Nat /\ (y * VGA_W = 0 <=> y = 0)
  BY <1>1
<1>3. (y + 1) * VGA_W = y * VGA_W + VGA_W /\ (y - 1) * VGA_W = y * VGA_W - VGA_W
  BY <1>1
<1>4. ASSUME NEW x \in 0 .. VGA_W - 1 PROVE (y * VGA_W + x) \div VGA_W = y
  BY <1>1
<1> QED BY <1>2, <1>3, <1>4

LEMMA LastRow ==
  /\ CellCount = VGA_H * VGA_W /\ VGA_H < WORD
  /\ VGA_H - 1 \in Nat /\ VGA_H \in Nat
<1>1. /\ VGA_H - 1 \in Nat /\ VGA_W - 1 \in Nat
      /\ VGA_H \in Nat /\ VGA_W \in Nat
  BY ScreenFacts
<1>2. CellCount = (VGA_W - 1) * VGA_H + VGA_H /\ (VGA_W - 1) * VGA_H \in Nat
  BY <1>1 DEF CellCount
<1> QED BY <1>1, <1>2, ScreenFacts DEF CellCount

LEMMA TapeIsSettled ==
  ASSUME NEW pos, NEW cells, NEW c
  PROVE  TapeWrite(pos, cells, c) = Settled(TapePosition(pos, c), TapeCells(pos, cells, c))
BY DEF TapeWrite, Settled

LEMMA SteadyCall ==
  ASSUME ConsoleInv, NEW c \in Glyph \cup {NL, BS, CLEAR}, WriteChar(c)
  PROVE  Steady'
<1>1. Aimed
  BY DEF WriteChar, Step, Aimed, ConsoleInv, PastWrap, PastScroll
<1>2. UNCHANGED <<cursorX, cursorY>> /\ wpc' \in {"newline", "testX", "blankAll", "offY"}
  BY DEF WriteChar, Step, screenVars
<1> QED BY <1>1, <1>2 DEF Steady, Aimed

LEMMA SteadyWork ==
  ASSUME ConsoleInv, Steady, WriterStep
  PROVE  Steady'
<1> USE ScreenFacts DEF Steady, Aimed, Step, screenVars
<1>0. /\ cursorX \in Nat /\ cursorY \in Nat /\ reg \in Nat
      /\ cursorX < WORD /\ cursorY < WORD /\ reg < WORD
  BY DEF ConsoleInv, ConsoleTypeOK, Words
<1>1. CASE BackspaceTestX \/ BackspaceTestY \/ LastColumn \/ ClearHomeX
  BY <1>0, <1>1 DEF BackspaceTestX, BackspaceTestY, LastColumn, ClearHomeX
<1>2. CASE LoadX \/ LoadY
  BY <1>0, <1>2 DEF LoadX, LoadY
<1>3. CASE StoreX \/ StoreY
  <2>1. reg > 0 => (reg + WORD - 1) % WORD = reg - 1
    BY <1>0
  <2>2. CASE wpc \in {"storeDecX", "storeDecY"}
    BY <1>0, <1>3, <2>1, <2>2 DEF StoreX, StoreY
  <2>3. CASE wpc \in {"storeIncX", "storeIncY"}
    BY <1>3, <2>3 DEF StoreX, StoreY
  <2> QED BY <1>3, <2>2, <2>3 DEF StoreX, StoreY
<1>4. CASE \/ NewLine \/ OffsetY \/ OffsetX \/ Put \/ WrapTest \/ ScrollTest \/ ScrollLoad
           \/ ScrollStore \/ ScrollBlank \/ ScrollPin \/ ClearCells \/ ClearHomeY
           \/ PosY \/ PosX \/ SelectRegister \/ DataHigh \/ DataLow
  <2>1. wpc' \notin {"testX", "testY", "loadDecX", "storeDecX", "loadDecY",
                    "storeDecY", "lastColumn", "offY", "homeY"}
    BY <1>4
    DEF NewLine, OffsetY, OffsetX, Put, WrapTest, ScrollTest, ScrollLoad, ScrollStore,
        ScrollBlank, ScrollPin, ClearCells, ClearHomeY, PosY, PosX, SelectRegister,
        DataHigh, DataLow
  <2> QED BY <2>1
<1> QED BY <1>1, <1>2, <1>3, <1>4 DEF WriterStep

LEMMA TapeCall ==
  ASSUME ConsoleInv, NEW c \in Glyph \cup {NL, BS, CLEAR}, WriteChar(c),
         NEW e, e = TapeWrite(CursorCell, vga, c)
  PROVE  Tape(e)'
<1>2. wpc = "idle" /\ ch' = c /\ UNCHANGED <<cursorX, cursorY, vga, crtc, reg, off, cell>>
  BY DEF WriteChar, Step, screenVars
<1>3. cursorX \in 0 .. VGA_W - 1 /\ cursorY \in Nat /\ cursorY < VGA_H
  BY <1>2, ScreenFacts DEF ConsoleInv, ConsoleTypeOK, PastWrap, PastScroll, Words
<1>4. e = Settled(TapePosition(CursorCell, c), TapeCells(CursorCell, vga, c))
  BY TapeIsSettled
<1>5. CursorCell' = CursorCell /\ vga' = vga
  BY <1>2 DEF CursorCell
<1>6. Blank \notin Glyph /\ NL \notin Glyph /\ BS \notin Glyph /\ CLEAR \notin Glyph
  BY ConsoleAssumption
<1>0. wpc' = CASE c = NL    -> "newline"
                [] c = BS    -> "testX"
                [] c = CLEAR -> "blankAll"
                [] OTHER     -> "offY"
  BY DEF WriteChar, Step
<1>7. CASE c = NL
  <2>1. wpc' = "newline"
    BY <1>0, <1>7 DEF NL, BS, CLEAR
  <2>2. e = Settled((CursorCell \div VGA_W + 1) * VGA_W, vga)
    BY <1>4, <1>7 DEF TapePosition, TapeCells, NL, BS, CLEAR
  <2>3. CursorCell \div VGA_W = cursorY
    BY <1>3, RowSteps DEF CursorCell
  <2> QED BY <1>2, <1>3, <2>1, <2>2, <2>3 DEF Tape
<1>8. CASE c = BS
  <2>1. wpc' = "testX"
    BY <1>0, <1>8 DEF NL, BS, CLEAR
  <2>2. e = IF CursorCell = 0 THEN Settled(0, Erased(0))
                    ELSE Settled(CursorCell - 1, Erased(CursorCell - 1))
    BY <1>4, <1>8 DEF TapePosition, TapeCells, NL, BS, CLEAR, Erased
  <2>3. e = IF CursorCell' = 0 THEN Settled(0, Erased(0)')
                    ELSE Settled(CursorCell' - 1, Erased(CursorCell - 1)')
    BY <1>5, <2>2 DEF Erased
  <2> QED BY <2>1, <2>3 DEF Tape
<1>9. CASE c = CLEAR
  <2>1. wpc' = "blankAll"
    BY <1>0, <1>9 DEF NL, BS, CLEAR
  <2>2. e = [pos |-> 0, cells |-> NoCells]
    BY <1>4, <1>9, ScreenFacts, LastRow
    DEF TapePosition, TapeCells, Settled, NoCells, NL, BS, CLEAR, CellCount
  <2> QED BY <2>1, <2>2 DEF Tape, NoCells
<1>10. CASE c \in Glyph
  <2>1. wpc' = "offY"
    BY <1>0, <1>6, <1>10
  <2>2. e = Settled(CursorCell + 1, [vga EXCEPT ![CursorCell] = c])
    BY <1>4, <1>6, <1>10 DEF TapePosition, TapeCells
  <2>3. ch' # BS /\ e = Settled(CursorCell' + 1, [vga' EXCEPT ![CursorCell'] = ch'])
    BY <1>2, <1>5, <1>6, <1>10, <2>2
  <2> QED BY <2>1, <2>3 DEF Tape
<1> QED BY <1>7, <1>8, <1>9, <1>10

(* The numbers of the console's state *)
LEMMA ConsoleNumbers ==
  ASSUME ConsoleInv
  PROVE  /\ cursorX \in Nat /\ cursorY \in Nat /\ off \in Nat /\ reg \in Nat
         /\ off < WORD /\ cursorX < WORD /\ cursorY < WORD /\ reg < WORD
         /\ vga \in [Cells -> Glyph \cup {Blank}]
BY ScreenFacts DEF ConsoleInv, ConsoleTypeOK, Words

(* The accesses of a backspace before its store *)
LEMMA TapeBackspace ==
  ASSUME ConsoleInv, Steady, NEW e, Tape(e),
         \/ BackspaceTestX \/ BackspaceTestY \/ LastColumn
         \/ wpc \in {"loadDecX", "loadDecY"} /\ (LoadX \/ LoadY)
         \/ wpc \in {"storeDecX", "storeDecY"} /\ (StoreX \/ StoreY)
  PROVE  Tape(e)'
<1> USE ConsoleNumbers, ScreenFacts DEF Step, screenVars
<1>0. ch = BS /\ UNCHANGED <<vga, ch>>
  BY DEF ConsoleInv, BackspaceTestX, BackspaceTestY, LastColumn, LoadX, LoadY, StoreX, StoreY
<1>1. CASE BackspaceTestX
  <2>1. wpc = "testX" /\ wpc' = (IF cursorX > 0 THEN "loadDecX" ELSE "testY")
        /\ UNCHANGED <<cursorX, cursorY>>
    BY <1>1 DEF BackspaceTestX
  <2>2. CASE cursorX > 0
    <3>1. CursorCell # 0
      BY <2>2, RowSteps DEF CursorCell
    <3> QED BY <1>0, <2>1, <2>2, <3>1 DEF Tape, Erased, CursorCell
  <2>3. CASE cursorX = 0
    <3>1. CursorCell = cursorY * VGA_W /\ (CursorCell = 0 <=> cursorY = 0)
      BY <2>3, RowSteps DEF CursorCell
    <3>2. e = IF cursorY = 0 THEN Settled(0, Erased(0))
                     ELSE Settled(cursorY * VGA_W - 1, Erased(cursorY * VGA_W - 1))
      BY <2>1, <3>1 DEF Tape
    <3> QED BY <1>0, <2>1, <2>3, <3>2 DEF Tape, Erased
  <2> QED BY <2>2, <2>3
<1>2. CASE BackspaceTestY
  <2>1. wpc = "testY" /\ wpc' = (IF cursorY > 0 THEN "loadDecY" ELSE "offY")
        /\ UNCHANGED <<cursorX, cursorY>> /\ cursorX = 0
    BY <1>2 DEF BackspaceTestY, Steady
  <2>2. CASE cursorY > 0
    BY <1>0, <2>1, <2>2 DEF Tape, Erased
  <2>3. CASE cursorY = 0
    <3>1. CursorCell = 0 /\ CursorCell' = 0
      BY <2>1, <2>3, RowSteps DEF CursorCell
    <3>2. e = Settled(CursorCell', Erased(CursorCell)')
      BY <1>0, <2>1, <2>3, <3>1 DEF Tape, Erased
    <3> QED BY <1>0, <2>1, <2>3, <3>2 DEF Tape
  <2> QED BY <2>2, <2>3
<1>3. CASE wpc = "loadDecX" /\ LoadX
  <2>1. wpc' = "storeDecX" /\ reg' = cursorX /\ UNCHANGED <<cursorX, cursorY>>
    BY <1>3 DEF LoadX
  <2> QED BY <1>0, <1>3, <2>1 DEF Tape, Erased, CursorCell
<1>4. CASE wpc = "loadDecY" /\ LoadY
  <2>1. wpc' = "storeDecY" /\ reg' = cursorY /\ UNCHANGED <<cursorX, cursorY>>
    BY <1>4 DEF LoadY
  <2> QED BY <1>0, <1>4, <2>1 DEF Tape, Erased
<1>5. CASE wpc = "storeDecX" /\ StoreX
  <2>1. wpc' = "offY" /\ cursorX' = (reg + WORD - 1) % WORD /\ cursorY' = cursorY
    BY <1>5 DEF StoreX
  <2>2. reg = cursorX /\ reg > 0
    BY <1>5 DEF Tape, Steady
  <2>3. cursorX' = cursorX - 1
    BY <2>1, <2>2
  <2>4. CursorCell' = CursorCell - 1
    BY <2>1, <2>3, RowSteps DEF CursorCell
  <2>5. e = Settled(CursorCell', Erased(CursorCell)')
    BY <1>0, <1>5, <2>4 DEF Tape, Erased
  <2> QED BY <1>0, <2>1, <2>5 DEF Tape
<1>6. CASE wpc = "storeDecY" /\ StoreY
  <2>1. wpc' = "lastColumn" /\ cursorY' = (reg + WORD - 1) % WORD
    BY <1>6 DEF StoreY
  <2>2. reg = cursorY /\ reg > 0
    BY <1>6 DEF Tape, Steady
  <2>3. cursorY' = cursorY - 1
    BY <2>1, <2>2
  <2>4. cursorY' * VGA_W + VGA_W - 1 = cursorY * VGA_W - 1
    BY <2>3, RowSteps
  <2>5. LET pos == cursorY' * VGA_W + VGA_W - 1
        IN e = Settled(pos, [vga' EXCEPT ![pos] = Blank])
    BY <1>0, <1>6, <2>4 DEF Tape, Erased
  <2> QED BY <2>1, <2>5 DEF Tape, Erased
<1>7. CASE LastColumn
  <2>1. wpc = "lastColumn" /\ wpc' = "offY" /\ cursorX' = VGA_W - 1 /\ cursorY' = cursorY
    BY <1>7 DEF LastColumn
  <2>2. CursorCell' = cursorY * VGA_W + VGA_W - 1
    BY <2>1, RowSteps DEF CursorCell
  <2>3. e = Settled(CursorCell', Erased(CursorCell)')
    BY <1>0, <2>1, <2>2 DEF Tape, Erased
  <2> QED BY <1>0, <2>1, <2>3 DEF Tape
<1> QED BY <1>1, <1>2, <1>3, <1>4, <1>5, <1>6, <1>7 DEF LoadX, LoadY, StoreX, StoreY

(* The store, and the cursor's advance behind a character *)
LEMMA TapeStore ==
  ASSUME ConsoleInv, Steady, NEW e, Tape(e),
         \/ OffsetY \/ OffsetX \/ Put
         \/ wpc = "loadIncX" /\ LoadX
         \/ wpc = "storeIncX" /\ StoreX
  PROVE  Tape(e)'
<1> USE ConsoleNumbers, ScreenFacts DEF Step, screenVars
<1>0. Aimed
  BY DEF Steady, Tape, OffsetY, OffsetX, Put, LoadX, StoreX
<1>1. /\ cursorY * VGA_W \in Nat /\ CursorCell \in Cells
      /\ (cursorY * VGA_W) % WORD = cursorY * VGA_W
      /\ (cursorY * VGA_W + cursorX) % WORD = CursorCell
  BY <1>0, RowFacts DEF Aimed, CursorCell
<1>2. CASE OffsetY
  <2>1. wpc = "offY" /\ wpc' = "offX" /\ off' = cursorY * VGA_W
        /\ UNCHANGED <<cursorX, cursorY, vga, ch>>
    BY <1>1, <1>2 DEF OffsetY
  <2> QED BY <1>0, <2>1 DEF Tape, Erased, CursorCell, Aimed
<1>3. CASE OffsetX
  <2>1. wpc = "offX" /\ wpc' = "put" /\ off' = CursorCell
        /\ UNCHANGED <<cursorX, cursorY, vga, ch>>
    BY <1>1, <1>3 DEF OffsetX, Tape
  <2> QED BY <1>0, <2>1 DEF Tape, Erased, CursorCell, Aimed
<1>4. CASE Put
  <2>1. wpc = "put" /\ off = CursorCell /\ UNCHANGED <<cursorX, cursorY, ch>>
        /\ vga' = [vga EXCEPT ![CursorCell] = IF ch = BS THEN Blank ELSE ch]
        /\ wpc' = (IF ch = BS THEN "wrapTest" ELSE "loadIncX")
    BY <1>1, <1>4 DEF Put, Tape
  <2>2. CursorCell' = CursorCell
    BY <2>1 DEF CursorCell
  <2>3. CASE ch = BS
    <3>1. e = Settled(CursorCell', vga')
      BY <1>0, <2>1, <2>2, <2>3 DEF Tape, Erased
    <3> QED BY <1>0, <2>1, <2>3, <3>1 DEF Tape, Aimed
  <2>4. CASE ch # BS
    <3>1. e = Settled(CursorCell' + 1, vga')
      BY <1>0, <2>1, <2>2, <2>4 DEF Tape
    <3> QED BY <1>0, <2>1, <2>4, <3>1 DEF Tape, Aimed
  <2> QED BY <2>3, <2>4
<1>5. CASE wpc = "loadIncX" /\ LoadX
  <2>1. wpc' = "storeIncX" /\ reg' = cursorX /\ UNCHANGED <<cursorX, cursorY, vga>>
    BY <1>5 DEF LoadX
  <2> QED BY <1>0, <1>5, <2>1 DEF Tape, CursorCell, Aimed
<1>6. CASE wpc = "storeIncX" /\ StoreX
  <2>1. wpc' = "wrapTest" /\ cursorX' = (reg + 1) % WORD /\ UNCHANGED <<cursorY, vga>>
        /\ reg = cursorX
    BY <1>6 DEF StoreX, Tape
  <2>2. cursorX' = cursorX + 1 /\ cursorX' <= VGA_W
    BY <1>0, <2>1 DEF Aimed
  <2>3. CursorCell' = CursorCell + 1
    BY <2>1, <2>2, <1>1 DEF CursorCell
  <2>4. e = Settled(CursorCell', vga')
    BY <1>0, <1>6, <2>1, <2>3 DEF Tape
  <2> QED BY <1>0, <2>1, <2>2, <2>4 DEF Tape, Aimed
<1> QED BY <1>2, <1>3, <1>4, <1>5, <1>6

(* The wrap and the row below *)
LEMMA TapeWrap ==
  ASSUME ConsoleInv, NEW e, Tape(e),
         \/ NewLine \/ WrapTest
         \/ wpc = "loadIncY" /\ LoadY
         \/ wpc = "storeIncY" /\ StoreY
  PROVE  Tape(e)'
<1> USE ConsoleNumbers, ScreenFacts DEF Step, screenVars
<1>0. vga' = vga
  BY DEF NewLine, WrapTest, LoadY, StoreY
<1>1. CASE NewLine
  BY <1>0, <1>1 DEF NewLine, Tape
<1>2. CASE WrapTest
  <2>1. wpc = "wrapTest" /\ wpc' = (IF cursorX >= VGA_W THEN "newline" ELSE "scrollTest")
        /\ UNCHANGED <<cursorX, cursorY>>
    BY <1>2 DEF WrapTest
  <2>2. e = Settled(CursorCell, vga) /\ cursorX <= VGA_W /\ cursorY < VGA_H
    BY <2>1 DEF Tape
  <2>3. CASE cursorX >= VGA_W
    <3>1. CursorCell = (cursorY + 1) * VGA_W
      BY <2>2, <2>3, RowSteps DEF CursorCell
    <3> QED BY <1>0, <2>1, <2>2, <2>3, <3>1 DEF Tape
  <2>4. CASE ~(cursorX >= VGA_W)
    <3>1. CursorCell' = CursorCell /\ wpc' = "scrollTest"
      BY <2>1, <2>4 DEF CursorCell
    <3> QED BY <1>0, <2>1, <2>2, <3>1 DEF Tape
  <2> QED BY <2>3, <2>4
<1>3. CASE wpc = "loadIncY" /\ LoadY
  <2>1. wpc' = "storeIncY" /\ reg' = cursorY /\ UNCHANGED <<cursorX, cursorY>>
    BY <1>3 DEF LoadY
  <2> QED BY <1>0, <1>3, <2>1 DEF Tape
<1>4. CASE wpc = "storeIncY" /\ StoreY
  <2>1. wpc' = "scrollTest" /\ cursorY' = (reg + 1) % WORD /\ cursorX' = 0
        /\ reg < VGA_H /\ e = Settled((reg + 1) * VGA_W, vga)
    BY <1>4 DEF StoreY, Tape
  <2>2. cursorY' = reg + 1
    BY <2>1, LastRow
  <2>3. CursorCell' = (reg + 1) * VGA_W
    BY <2>1, <2>2, RowSteps DEF CursorCell
  <2> QED BY <1>0, <2>1, <2>2, <2>3 DEF Tape
<1> QED BY <1>1, <1>2, <1>3, <1>4

(* The scroll: the rows below the index are already where the tape has     *)
(* them, and the ones above it a row too low.                              *)
LEMMA TapeScroll ==
  ASSUME ConsoleInv, NEW e, Tape(e),
         ScrollTest \/ ScrollLoad \/ ScrollStore \/ ScrollBlank \/ ScrollPin
  PROVE  Tape(e)'
<1> USE ConsoleNumbers, ScreenFacts DEF Step, screenVars
<1>0. cursorX' = cursorX
  BY DEF ScrollTest, ScrollLoad, ScrollStore, ScrollBlank, ScrollPin
<1>1. CASE ScrollTest
  <2>1. wpc = "scrollTest" /\ off' = 0 /\ UNCHANGED <<cursorY, vga>>
        /\ wpc' = (IF cursorY < VGA_H THEN "posY"
                  ELSE IF VGA_H = 1 THEN "blankLast" ELSE "copyLoad")
    BY <1>1 DEF ScrollTest
  <2>2. e = Settled(CursorCell, vga) /\ cursorY <= VGA_H /\ cursorX < VGA_W
    BY <2>1 DEF Tape, ConsoleInv, PastWrap
  <2>3. CursorCell' = CursorCell
    BY <1>0, <2>1 DEF CursorCell
  <2>4. CASE cursorY < VGA_H
    <3>1. CursorCell < CellCount
      <4>1. cursorY * VGA_W + cursorX \in Cells
        BY <2>2, <2>4, RowFacts
      <4> QED BY <4>1 DEF CursorCell, Cells
    <3>2. e = [pos |-> CursorCell, cells |-> vga]
      BY <2>2, <3>1 DEF Settled
    <3> QED BY <1>0, <2>1, <2>3, <2>4, <3>2 DEF Tape
  <2>5. CASE ~(cursorY < VGA_H)
    <3>1. cursorY = VGA_H /\ CursorCell = CellCount + cursorX
      BY <2>2, <2>5, LastRow DEF CursorCell
    <3>2. e = [pos   |-> CursorCell - VGA_W,
                      cells |-> [i \in Cells |-> IF i + VGA_W \in Cells
                                                THEN vga[i + VGA_W] ELSE Blank]]
      BY <2>2, <3>1 DEF Settled
    <3>3. e.pos = CursorCell - VGA_W
          /\ e.cells \in [Cells -> Glyph \cup {Blank}]
      BY <3>2
    <3>4. \A i \in Cells : i + VGA_W \in Cells => vga[i + VGA_W] = e.cells[i]
      BY <3>2
    <3>5. \A i \in Cells : i >= CellCount - VGA_W => e.cells[i] = Blank
      BY <3>2 DEF Cells
    <3>6. CASE VGA_H = 1
      <4>1. CellCount - VGA_W = 0
        BY <3>6, LastRow
      <4>2. wpc' = "blankLast" /\ \A i \in Cells : ~(i < CellCount - VGA_W)
        BY <2>1, <2>5, <3>6, <4>1 DEF Cells
      <4> QED BY <1>0, <2>1, <2>3, <3>1, <3>3, <3>5, <4>2 DEF Tape
    <3>7. CASE VGA_H # 1
      <4>1. wpc' = "copyLoad" /\ \A i \in Cells : ~(i < off')
        BY <2>1, <2>5, <3>7 DEF Cells
      <4> QED BY <1>0, <2>1, <2>3, <3>1, <3>3, <3>4, <3>5, <4>1 DEF Tape
    <3> QED BY <3>6, <3>7
  <2> QED BY <2>4, <2>5
<1>2. CASE ScrollLoad
  <2>1. wpc = "copyLoad" /\ wpc' = "copyStore" /\ cell' = vga[off + VGA_W]
        /\ UNCHANGED <<cursorY, vga, off>>
    BY <1>2 DEF ScrollLoad
  <2>2. off \in Cells /\ off + VGA_W \in Cells
    BY <2>1 DEF ConsoleInv, Cells
  <2>3. cell' = e.cells[off]
    BY <2>1, <2>2 DEF Tape
  <2> QED BY <1>0, <2>1, <2>3 DEF Tape, CursorCell
<1>3. CASE ScrollStore
  <2>1. wpc = "copyStore" /\ vga' = [vga EXCEPT ![off] = cell] /\ off' = off + 1
        /\ wpc' = (IF off + 1 < CellCount - VGA_W THEN "copyLoad" ELSE "blankLast")
        /\ UNCHANGED cursorY
    BY <1>3 DEF ScrollStore
  <2>2. off \in Cells /\ off < CellCount - VGA_W
    BY <2>1 DEF ConsoleInv, Cells
  <2>3. \A i \in Cells :
          IF i < off + 1 THEN vga'[i] = e.cells[i]
          ELSE i + VGA_W \in Cells => vga'[i + VGA_W] = e.cells[i]
    <3> SUFFICES ASSUME NEW i \in Cells
                 PROVE  IF i < off + 1 THEN vga'[i] = e.cells[i]
                        ELSE i + VGA_W \in Cells => vga'[i + VGA_W] = e.cells[i]
      OBVIOUS
    <3>0. i \in Nat
      BY DEF Cells
    <3>1. CASE i = off
      BY <2>1, <2>2, <3>1 DEF Tape
    <3>2. CASE i < off
      BY <2>1, <2>2, <3>0, <3>2 DEF Tape
    <3>3. CASE i > off
      BY <2>1, <2>2, <3>0, <3>3 DEF Tape
    <3> QED BY <3>0, <3>1, <3>2, <3>3
  <2>4. CASE off + 1 < CellCount - VGA_W
    BY <1>0, <2>1, <2>3, <2>4 DEF Tape, CursorCell
  <2>5. CASE ~(off + 1 < CellCount - VGA_W)
    <3>1. \A i \in Cells : i < CellCount - VGA_W => vga'[i] = e.cells[i]
      BY <2>2, <2>3, <2>5 DEF Cells
    <3> QED BY <1>0, <2>1, <2>5, <3>1 DEF Tape, CursorCell
  <2> QED BY <2>4, <2>5
<1>4. CASE ScrollBlank
  <2>1. wpc = "blankLast" /\ wpc' = "pinY" /\ cursorY' = cursorY
        /\ vga' = [i \in Cells |-> IF i >= CellCount - VGA_W THEN Blank ELSE vga[i]]
    BY <1>4 DEF ScrollBlank
  <2>2. e.cells \in [Cells -> Glyph \cup {Blank}]
        /\ \A i \in Cells : vga'[i] = e.cells[i]
    BY <2>1 DEF Tape, Cells
  <2>3. vga' = e.cells
    BY <2>1, <2>2
  <2> QED BY <1>0, <2>1, <2>3 DEF Tape, CursorCell
<1>5. CASE ScrollPin
  <2>1. wpc = "pinY" /\ wpc' = "posY" /\ cursorY' = VGA_H - 1 /\ vga' = vga
    BY <1>5 DEF ScrollPin
  <2>2. cursorY = VGA_H /\ vga = e.cells /\ e.pos = CursorCell - VGA_W
    BY <2>1 DEF Tape
  <2>3. CursorCell' = CursorCell - VGA_W
    BY <1>0, <2>1, <2>2, RowSteps, LastRow DEF CursorCell
  <2> QED BY <1>0, <2>1, <2>2, <2>3 DEF Tape
<1> QED BY <1>1, <1>2, <1>3, <1>4, <1>5

(* clearScreen, and the controller's registers *)
LEMMA TapeRest ==
  ASSUME ConsoleInv, Steady, NEW e, Tape(e),
         \/ ClearCells \/ ClearHomeX \/ ClearHomeY \/ PosY \/ PosX
         \/ SelectRegister \/ DataHigh \/ DataLow
  PROVE  Tape(e)'
<1> USE ConsoleNumbers, ScreenFacts DEF Step, screenVars
<1>1. CASE ClearCells \/ ClearHomeX
  BY <1>1 DEF ClearCells, ClearHomeX, Tape, NoCells
<1>2. CASE ClearHomeY
  <2>1. cursorX = 0
    BY <1>2 DEF ClearHomeY, Steady
  <2>2. CursorCell' = 0
    BY <1>2, <2>1 DEF ClearHomeY, CursorCell
  <2> QED BY <1>2, <2>2 DEF ClearHomeY, Tape, NoCells
<1>3. CASE PosY \/ PosX \/ SelectRegister \/ DataHigh \/ DataLow
  <2>1. UNCHANGED <<cursorX, cursorY, vga>> /\ CursorCell' = CursorCell
        /\ wpc \in {"posY", "posX", "selectHigh", "dataHigh", "selectLow", "dataLow"}
        /\ wpc' \in {"posX", "selectHigh", "dataHigh", "selectLow", "dataLow", "idle"}
    BY <1>3 DEF PosY, PosX, SelectRegister, DataHigh, DataLow, CursorCell
  <2> QED BY <2>1 DEF Tape
<1> QED BY <1>1, <1>2, <1>3

(* The tape's outcome stands from the call's first access to its last. *)
LEMMA TapeWork ==
  ASSUME ConsoleInv, Steady, NEW e, Tape(e), WriterStep
  PROVE  Tape(e)'
<1>1. CASE LoadX \/ LoadY
  BY <1>1, TapeBackspace, TapeStore, TapeWrap DEF LoadX, LoadY, Step
<1>2. CASE StoreX \/ StoreY
  BY <1>2, TapeBackspace, TapeStore, TapeWrap DEF StoreX, StoreY, Step
<1> QED BY <1>1, <1>2, TapeBackspace, TapeStore, TapeWrap, TapeScroll, TapeRest DEF WriterStep

TapeInv == calm => Steady /\ Tape(expected)

LEMMA TapeInvInit == ScreenInit => TapeInv
BY ScreenFacts DEF ScreenInit, ConsoleInit, TapeInv, Tape, Steady, CursorCell

LEMMA TapeInvStep ==
  ASSUME ConsoleInv, TapeInv, [ScreenNext]_allScreenVars
  PROVE  TapeInv'
<1> PICK e : e = expected'
  OBVIOUS
<1>0. Steady' /\ Tape(e)' => TapeInv'
  BY DEF TapeInv, Tape, Erased, Settled
<1>1. CASE Call
  <2>1. PICK c \in Glyph \cup {NL, BS, CLEAR} : WriteChar(c)
                                               /\ expected' = TapeWrite(CursorCell, vga, c)
    BY <1>1 DEF Call
  <2> QED BY <1>0, <2>1, SteadyCall, TapeCall
<1>2. CASE CtrlL
  BY <1>2 DEF CtrlL, TapeInv
<1>3. CASE UNCHANGED allScreenVars
  BY <1>3 DEF allScreenVars, consoleVars, screenVars, writerVars, screenHistory, TapeInv,
             Tape, Steady, CursorCell, Erased, Aimed
<1>4. CASE Work
  <2>1. WriterStep /\ expected' = expected /\ calm' = calm
    BY <1>4 DEF Work, screenHistory
  <2>2. CASE calm
    <3>1. Steady /\ Tape(e)
      BY <2>1, <2>2 DEF TapeInv
    <3> QED BY <1>0, <2>1, <3>1, SteadyWork, TapeWork
  <2> QED BY <2>1, <2>2 DEF TapeInv
<1> QED BY <1>1, <1>2, <1>3, <1>4 DEF ScreenNext

(* A call that nobody interrupts is one step of the tape, scrolling        *)
(* included (io.c:184-230).                                                *)
THEOREM WritesAreTapeSteps == ScreenSpec => []UndisturbedWrite
<1>1. ScreenInit => ConsoleInv /\ TapeInv
  BY ConsoleInvInit, TapeInvInit DEF ScreenInit
<1>2. ConsoleInv /\ TapeInv /\ [ScreenNext]_allScreenVars => TapeInv'
  BY TapeInvStep
<1>3. TapeInv => UndisturbedWrite
  BY DEF TapeInv, Tape, UndisturbedWrite, Idle
<1> QED BY <1>1, <1>2, <1>3, ConsoleInvariant, PTL DEF ScreenSpec

-----------------------------------------------------------------------------
(* How long a call takes *)

\* The points of writeChar up to scroll's test, and those behind its loop
BeforeScroll == {"newline", "testX", "testY", "loadIncX", "storeIncX", "loadDecX",
                 "storeDecX", "loadIncY", "storeIncY", "loadDecY", "storeDecY",
                 "lastColumn", "offY", "offX", "put", "wrapTest", "scrollTest"}

AfterScroll == {"idle", "blankLast", "pinY", "blankAll", "homeX", "homeY", "posY", "posX",
                "selectHigh", "dataHigh", "selectLow", "dataLow"}

\* The most accesses a call still makes from p on, scroll's loop apart
Rank(p) ==
  CASE p = "testX"       -> 23
    [] p = "testY"       -> 22
    [] p = "loadDecY"    -> 21
    [] p \in {"storeDecY", "loadDecX"}   -> 20
    [] p \in {"lastColumn", "storeDecX"} -> 19
    [] p = "offY"        -> 18
    [] p = "offX"        -> 17
    [] p = "put"         -> 16
    [] p = "loadIncX"    -> 15
    [] p = "storeIncX"   -> 14
    [] p = "wrapTest"    -> 13
    [] p = "newline"     -> 12
    [] p = "loadIncY"    -> 11
    [] p = "storeIncY"   -> 10
    [] p = "scrollTest"  -> 9
    [] p \in {"copyLoad", "blankLast"}   -> 8
    [] p \in {"copyStore", "pinY", "blankAll"} -> 7
    [] p \in {"posY", "homeX"}           -> 6
    [] p \in {"posX", "homeY"}           -> 5
    [] p = "selectHigh"  -> 4
    [] p = "dataHigh"    -> 3
    [] p = "selectLow"   -> 2
    [] p = "dataLow"     -> 1
    [] OTHER             -> 0

\* The cells scroll copies, and the accesses its loop may still need at index o
Copies == CellCount - VGA_W

Left(p, o) ==
  CASE p \in BeforeScroll -> 2 * Copies + Rank(p)
    [] p \in AfterScroll  -> Rank(p)
    [] OTHER              -> 2 * (Copies - o) + Rank(p)

AccessesLeft == Left(wpc, off)

WritesRunDown ==
  /\ AccessesLeft' \in Nat
  /\ Work => AccessesLeft' < AccessesLeft
  /\ CtrlL => AccessesLeft' = AccessesLeft
  /\ Call => AccessesLeft' <= 2 * Copies + 23

LEMMA RankIsNat == \A p \in WriterLabels : Rank(p) \in 0 .. 23
BY DEF Rank, WriterLabels

LEMMA LeftAt ==
  ASSUME NEW o
  PROVE  /\ \A p \in BeforeScroll : Left(p, o) = 2 * Copies + Rank(p)
         /\ \A p \in AfterScroll : Left(p, o) = Rank(p)
         /\ Left("copyLoad", o) = 2 * (Copies - o) + 8
         /\ Left("copyStore", o) = 2 * (Copies - o) + 7
<1>1. AfterScroll \cap BeforeScroll = {}
  BY DEF BeforeScroll, AfterScroll
<1>2. Rank("copyLoad") = 8 /\ Rank("copyStore") = 7
  BY DEF Rank
<1>3. {"copyLoad", "copyStore"} \cap (BeforeScroll \cup AfterScroll) = {}
  BY DEF BeforeScroll, AfterScroll
<1> QED BY <1>1, <1>2, <1>3 DEF Left

\* Where an access leads: on, into the loop, round it, or out of it.
LEMMA WriterLeads ==
  ASSUME WriterStep
  PROVE  \/ wpc \in BeforeScroll /\ wpc' \in BeforeScroll /\ Rank(wpc') < Rank(wpc)
         \/ wpc = "scrollTest" /\ wpc' \in {"posY", "blankLast"}
         \/ wpc = "scrollTest" /\ wpc' = "copyLoad" /\ off' = 0
         \/ wpc = "copyLoad" /\ wpc' = "copyStore" /\ off' = off
         \/ wpc = "copyStore" /\ wpc' = "copyLoad" /\ off' = off + 1
         \/ wpc = "copyStore" /\ wpc' = "blankLast"
         \/ wpc \in AfterScroll /\ wpc' \in AfterScroll /\ Rank(wpc') < Rank(wpc)
<1> USE DEF Step
<1>1. CASE NewLine \/ LoadX \/ LoadY \/ StoreX \/ StoreY \/ LastColumn \/ OffsetY \/ OffsetX
  BY <1>1 DEF NewLine, LoadX, LoadY, StoreX, StoreY, LastColumn, OffsetY, OffsetX, BeforeScroll,
     Rank
<1>2. CASE BackspaceTestX \/ BackspaceTestY \/ Put \/ WrapTest
  BY <1>2 DEF BackspaceTestX, BackspaceTestY, Put, WrapTest, BeforeScroll, Rank
<1>3. CASE ScrollTest \/ ScrollLoad \/ ScrollStore
  BY <1>3 DEF ScrollTest, ScrollLoad, ScrollStore
<1>4. CASE ScrollBlank \/ ScrollPin \/ ClearCells \/ ClearHomeX \/ ClearHomeY \/ PosY \/ PosX
  BY <1>4 DEF ScrollBlank, ScrollPin, ClearCells, ClearHomeX, ClearHomeY, PosY, PosX, AfterScroll,
     Rank
<1>5. CASE SelectRegister \/ DataHigh \/ DataLow
  BY <1>5 DEF SelectRegister, DataHigh, DataLow, AfterScroll, Rank
<1> QED BY <1>1, <1>2, <1>3, <1>4, <1>5 DEF WriterStep

\* What is left is a number, and each access takes something off it.
LEMMA LeftIsNat == ConsoleInv => AccessesLeft \in Nat
<1> SUFFICES ASSUME ConsoleInv  PROVE AccessesLeft \in Nat
  OBVIOUS
<1>1. Copies \in Nat /\ wpc \in WriterLabels /\ off \in Nat
  BY ScreenFacts DEF Copies, ConsoleInv, ConsoleTypeOK, Words
<1>2. CASE wpc \in BeforeScroll \cup AfterScroll
  <2>1. Rank(wpc) \in Nat
    BY <1>1, RankIsNat
  <2> QED BY <1>1, <1>2, <2>1, LeftAt DEF AccessesLeft
<1>3. CASE wpc \in {"copyLoad", "copyStore"}
  <2>1. Copies - off \in Nat
    BY <1>1, <1>3 DEF ConsoleInv, Copies
  <2> QED BY <1>3, <2>1, LeftAt DEF AccessesLeft
<1>4. wpc \in BeforeScroll \cup AfterScroll \cup {"copyLoad", "copyStore"}
  BY <1>1 DEF WriterLabels, BeforeScroll, AfterScroll
<1> QED BY <1>2, <1>3, <1>4

LEMMA AccessTakesOff ==
  ASSUME ConsoleInv, WriterStep
  PROVE  AccessesLeft' < AccessesLeft
<1>1. AccessesLeft = Left(wpc, off) /\ AccessesLeft' = Left(wpc', off')
  BY DEF AccessesLeft
<1>2. PICK r \in Nat : r = Copies
  BY ScreenFacts DEF Copies
<1>3. CASE wpc \in BeforeScroll /\ wpc' \in BeforeScroll /\ Rank(wpc') < Rank(wpc)
  <2>1. PICK k \in Nat, n \in Nat : Rank(wpc) = n /\ Rank(wpc') = k /\ k < n
    BY <1>3, RankIsNat DEF BeforeScroll, WriterLabels
  <2>2. 2 * r + k < 2 * r + n
    BY <2>1
  <2> QED BY <1>1, <1>2, <1>3, <2>1, <2>2, LeftAt
<1>4. CASE wpc = "scrollTest" /\ wpc' \in {"posY", "blankLast"}
  <2>1. Left(wpc, off) = 2 * r + 9
    BY <1>2, <1>4, LeftAt DEF BeforeScroll, Rank
  <2>2. Left(wpc', off') \in {6, 8}
    BY <1>4, LeftAt DEF AfterScroll, Rank
  <2> QED BY <1>1, <1>2, <2>1, <2>2
<1>5. CASE wpc = "scrollTest" /\ wpc' = "copyLoad" /\ off' = 0
  <2>1. Left(wpc, off) = 2 * r + 9
    BY <1>2, <1>5, LeftAt DEF BeforeScroll, Rank
  <2>2. Left(wpc', off') = 2 * (r - 0) + 8
    BY <1>2, <1>5, LeftAt
  <2> QED BY <1>1, <1>2, <2>1, <2>2
<1>6. CASE wpc = "copyLoad" /\ wpc' = "copyStore" /\ off' = off
  <2>1. PICK o \in Nat : o = off
    BY DEF ConsoleInv, ConsoleTypeOK, Words
  <2>2. Left(wpc, off) = 2 * (r - o) + 8 /\ Left(wpc', off') = 2 * (r - o) + 7
    BY <1>2, <1>6, <2>1, LeftAt
  <2> QED BY <1>1, <1>2, <2>1, <2>2
<1>7. CASE wpc = "copyStore" /\ wpc' = "copyLoad" /\ off' = off + 1
  <2>1. PICK o \in Nat : o = off
    BY DEF ConsoleInv, ConsoleTypeOK, Words
  <2>2. Left(wpc, off) = 2 * (r - o) + 7 /\ Left(wpc', off') = 2 * (r - (o + 1)) + 8
    BY <1>2, <1>7, <2>1, LeftAt
  <2> QED BY <1>1, <1>2, <2>1, <2>2
<1>8. CASE wpc = "copyStore" /\ wpc' = "blankLast"
  <2>1. PICK o \in Nat : o = off /\ o < r
    BY <1>2, <1>8 DEF ConsoleInv, ConsoleTypeOK, Words, Copies
  <2>2. Left(wpc, off) = 2 * (r - o) + 7
    BY <1>2, <1>8, <2>1, LeftAt
  <2>3. Left(wpc', off') = 8
    BY <1>8, LeftAt DEF AfterScroll, Rank
  <2> QED BY <1>1, <1>2, <2>1, <2>2, <2>3
<1>9. CASE wpc \in AfterScroll /\ wpc' \in AfterScroll /\ Rank(wpc') < Rank(wpc)
  BY <1>1, <1>9, LeftAt
<1> QED BY <1>3, <1>4, <1>5, <1>6, <1>7, <1>8, <1>9, WriterLeads

\* A call has at most so many accesses ahead.
LEMMA CallAccesses ==
  ASSUME NEW c, WriteChar(c)
  PROVE  AccessesLeft' <= 2 * Copies + 23
<1>1. wpc' \in {"newline", "testX", "blankAll", "offY"}
  BY DEF WriteChar, Step
<1>2. PICK r \in Nat : r = Copies
  BY ScreenFacts DEF Copies
<1>3. Left(wpc', off') \in {2 * r + 12, 2 * r + 23, 7, 2 * r + 18}
  BY <1>1, <1>2, LeftAt DEF BeforeScroll, AfterScroll, Rank
<1>4. \A n \in {2 * r + 12, 2 * r + 23, 7, 2 * r + 18} : n <= 2 * r + 23
  OBVIOUS
<1> QED BY <1>2, <1>3, <1>4 DEF AccessesLeft

(* Every access of the main thread brings its call nearer the end, and no  *)
(* Ctrl+L puts it off: writeChar, scroll included, returns after at most   *)
(* two accesses for each cell but those of the last row and 23 more        *)
(* (io.c:190-223), for every screen.                                       *)
THEOREM CallsRunDown == ScreenSpec => [][WritesRunDown]_allScreenVars
<1>1. ConsoleInv /\ (AccessesLeft \in Nat)' /\ [ScreenNext]_allScreenVars
        => [WritesRunDown]_allScreenVars
  <2> SUFFICES ASSUME ConsoleInv, (AccessesLeft \in Nat)', ScreenNext  PROVE WritesRunDown
    OBVIOUS
  <2>1. Work => AccessesLeft' < AccessesLeft
    BY AccessTakesOff DEF Work
  <2>2. CtrlL => AccessesLeft' = AccessesLeft
    BY DEF CtrlL, writerVars, AccessesLeft
  <2>3. Call => AccessesLeft' <= 2 * Copies + 23
    BY CallAccesses DEF Call
  <2> QED BY <2>1, <2>2, <2>3 DEF WritesRunDown
<1> QED BY ConsoleInvariant, LeftIsNat, <1>1, PTL DEF ScreenSpec
=============================================================================
