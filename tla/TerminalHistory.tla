---------------------------- MODULE TerminalHistory ----------------------------
(***************************************************************************)
(* The terminal with its typist and a program that prints and reads: the   *)
(* console, the keyboard and standard input composed.                      *)
(***************************************************************************)
EXTENDS Terminal

CONSTANTS
  Typed,     \* the keys the typist uses
  Printed,   \* the characters the program prints
  MaxPrompt, \* bound on the program: the columns it prints to
  MaxLine    \* bound on the typist: characters of a line before Enter

ASSUME TypistAssumption ==
  /\ Typed \subseteq Keys
  /\ Printed \subseteq Glyph \cup {NL}
  /\ MaxPrompt \in Nat
  /\ MaxLine \in Nat /\ MaxLine + 2 <= STDIN_BUF_LEN

VARIABLES
  quiet,  \* no Ctrl+L since the line being read began
  found   \* the screen that line began on: the cells in front of the cursor,
          \* the nearest first, and whether all others were blank

allVars == <<vars, quiet, found>>

\* Where the line being read begins; in front of the screen if that scrolled off
LineStart == CursorCell - pos

Nothing == [front |-> <<>>, clear |-> FALSE]
Screen  == [front |-> [i \in 1 .. CursorCell |-> vga[CursorCell - i]],
            clear |-> \A i \in Cells : i >= CursorCell => vga[i] = Blank]

Init == ConsoleInit /\ KeyboardInit /\ TerminalInit /\ quiet = TRUE /\ found = Nothing

-----------------------------------------------------------------------------
\* readStdinLine does not bound pos: the typist does.
LineSoFar == pos + Occupied + IF gpc = "got" THEN 1 ELSE 0
Fits(k)   == k \in TextKeys /\ Translate(k) \in Glyph => LineSoFar < MaxLine

Press(k) ==
  /\ Fits(k)
  /\ KeyPressed(k)
  /\ quiet' = (quiet /\ ~(k \in TextKeys /\ controlActive /\ keymap[k] = "l"))
  /\ found' = IF quiet' THEN found ELSE Nothing
  /\ UNCHANGED <<getterVars, writerVars, terminalVars>>

\* The break code of a text key changes nothing.
Release(k) ==
  /\ k \notin TextKeys
  /\ KeyReleased(k)
  /\ UNCHANGED <<getterVars, writerVars, terminalVars, quiet, found>>

StartRead ==
  /\ \E n \in Counts : Read(n)
  /\ quiet' = TRUE
  /\ found' = IF stdinLineReady THEN Nothing ELSE Screen

StartPrint ==
  /\ cursorX < MaxPrompt
  /\ \E c \in Printed : Emit(c)
  /\ UNCHANGED <<quiet, found>>

\* What scrolls off is forgotten.
StillShown == [i \in {i \in DOMAIN found.front : i <= LineStart'} |-> found.front[i]]

Remember ==
  found' = CASE tpc' = "echo" -> found
             [] tpc' = "poll" -> [front |-> StillShown, clear |-> found.clear]
             [] OTHER -> Nothing

\* The steps of the call the main thread is in
Main == (ReadStep \/ EchoStep) /\ quiet' = quiet /\ Remember

Next ==
  \/ StartRead \/ StartPrint \/ Main
  \/ \E k \in Typed : Press(k) \/ Release(k)

\* The processor runs the main thread whenever no interrupt is being served.
Spec == Init /\ [][Next]_allVars /\ WF_allVars(Main)

-----------------------------------------------------------------------------
Line == IF tpc \in {"poll", "echo"} THEN Bytes(0, pos) ELSE <<>>

Ready ==
  IF tpc = "finish" THEN Bytes(0, pos)
  ELSE IF stdinLineReady THEN Bytes(stdinBufPos, stdinBufLen) ELSE <<>>

Discipline == INSTANCE LineDiscipline WITH
  Newline <- NL, Backspace <- BS, NoChar <- NUL,
  queue  <- Queue,
  out    <- IF gpc = "got" THEN inChar ELSE NUL,
  line   <- Line,
  ready  <- Ready,
  result <- buf

(* Typing ahead, editing, echoing and reading in pieces of any size, with  *)
(* keys arriving at any moment, is the line discipline: no character of    *)
(* the ring is lost, repeated, reordered or moved to another line, and     *)
(* each line is read with the newline that ends it - contrary to the       *)
(* comment at syscalls.c:106, by which stdinBufLen leaves it out.          *)
ImplementsLineDiscipline == Discipline!Spec

(* While readStdinLine waits for a key, and unless Ctrl+L came, the screen *)
(* is: in front of the line what stood in front of the cursor when the     *)
(* read began (the prompt), then the line as it will be read, up to the    *)
(* cursor, and blanks from there on if there were blanks when it began;    *)
(* all of it as far as it has not scrolled off.  Backspace erases what it  *)
(* deletes, across rows, and never the prompt.                             *)
EchoIsLine ==
  tpc = "poll" /\ quiet =>
    \A at \in Cells :
      CASE at < LineStart   -> vga[at] = found.front[LineStart - at]
        [] at >= CursorCell -> found.clear => vga[at] = Blank
        [] OTHER            -> vga[at] = stdinBuf[at - LineStart]

(* Once Enter is in the ring, the read that is waiting returns. *)
EnterCompletesRead ==
  tpc = "poll" /\ (\E i \in DOMAIN Queue : Queue[i] = NL) ~> tpc = "returned"

=============================================================================
