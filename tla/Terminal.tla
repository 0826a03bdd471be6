------------------------------- MODULE Terminal -------------------------------
(***************************************************************************)
(* Standard input of src/src/syscalls.c: kread_impl(0, ...) and readStdinLine, *)
(* which polls getInput, edits a line and echoes it with writeChar, on the *)
(* kernel's main thread.  (The same code run by a system call has          *)
(* interrupts disabled: no key arrives while it runs.)                     *)
(*                                                                         *)
(* stdinBuf and its indices belong to the main thread, so their accesses   *)
(* are grouped; what the interrupt shares with it, the ring, the cursor    *)
(* and the screen, is accessed in the small steps of Keyboard and Console. *)
(***************************************************************************)
EXTENDS Keyboard

CONSTANTS
  STDIN_BUF_LEN,
  Counts          \* the sizes a caller asks for

ASSUME TerminalAssumption ==
  /\ STDIN_BUF_LEN \in Nat \ {0}
  /\ Counts \subseteq Nat \ {0}

VARIABLES
  stdinBuf, stdinBufLen, stdinBufPos, stdinLineReady,
  tpc,     \* where the main thread is: in a read, in output, or "idle"
  pos,     \* readStdinLine's local
  count,   \* kread_impl's parameter
  buf      \* what the caller's buffer received

stdinVars    == <<stdinBuf, stdinBufLen, stdinBufPos, stdinLineReady>>
callVars     == <<tpc, pos, count, buf>>
terminalVars == <<stdinVars, callVars>>
vars         == <<consoleVars, keyboardVars, terminalVars>>

StdinSlots == 0 .. STDIN_BUF_LEN - 1

TerminalInit ==
  /\ stdinBuf = [i \in StdinSlots |-> NUL]
  /\ stdinBufLen = 0 /\ stdinBufPos = 0 /\ stdinLineReady = FALSE
  /\ tpc = "idle" /\ pos = 0 /\ count = 0 /\ buf = <<>>

\* The bytes stdinBuf[from .. to - 1]
Bytes(from, to) == [i \in 1 .. to - from |-> stdinBuf[from + i - 1]]

-----------------------------------------------------------------------------
\* Variant: a new line is read over the rest of the last one.
ReadAnew(n) ==
  /\ tpc = "idle" /\ wpc = "idle"
  /\ tpc' = "poll"
  /\ count' = n
  /\ UNCHANGED <<consoleVars, keyboardVars, stdinVars, pos, buf>>

(* kread_impl(0, buf, n): a new line is read only when the last one is     *)
(* used up                                                                 *)
Read(n) ==
  /\ tpc = "idle" /\ wpc = "idle"
  /\ tpc' = IF stdinLineReady THEN "copy" ELSE "poll"
  /\ count' = n
  /\ UNCHANGED <<consoleVars, keyboardVars, stdinVars, pos, buf>>

\* while ((c = getInput()) == 0);
PollKey ==
  /\ tpc = "poll"
  /\ GetInput
  /\ UNCHANGED <<consoleVars, terminalVars>>

(* The three cases of readStdinLine's loop; each echo is a call of         *)
(* writeChar.                                                              *)
AcceptNewline ==
  /\ tpc = "poll" /\ inChar = NL
  /\ GetReturned /\ WriteChar(NL)
  /\ stdinBuf' = [stdinBuf EXCEPT ![pos] = NL]
  /\ pos' = pos + 1
  /\ tpc' = "finish"
  /\ UNCHANGED <<stdinBufLen, stdinBufPos, stdinLineReady, count, buf>>

\* Variant: the echo is outside the test of pos.
AcceptBackspaceAlways ==
  /\ tpc = "poll" /\ inChar = BS
  /\ GetReturned /\ WriteChar(BS)
  /\ pos' = IF pos > 0 THEN pos - 1 ELSE pos
  /\ tpc' = "echo"
  /\ UNCHANGED <<stdinVars, count, buf>>

AcceptBackspace ==
  /\ tpc = "poll" /\ inChar = BS
  /\ GetReturned
  /\ IF pos > 0
     THEN pos' = pos - 1 /\ tpc' = "echo" /\ WriteChar(BS)
     ELSE UNCHANGED <<pos, tpc, consoleVars>>
  /\ UNCHANGED <<stdinVars, count, buf>>

AcceptGlyph ==
  /\ tpc = "poll" /\ inChar \in Glyph
  /\ GetReturned /\ WriteChar(inChar)
  /\ stdinBuf' = [stdinBuf EXCEPT ![pos] = inChar]
  /\ pos' = pos + 1
  /\ tpc' = "echo"
  /\ UNCHANGED <<stdinBufLen, stdinBufPos, stdinLineReady, count, buf>>

\* writeChar has returned to the loop
Echoed ==
  /\ tpc = "echo" /\ wpc = "idle"
  /\ tpc' = "poll"
  /\ UNCHANGED <<consoleVars, keyboardVars, stdinVars, pos, count, buf>>

\* ... or, after the newline, to the end of readStdinLine.  stdinBufLen counts
\* the newline, which a read then hands out; the comment at syscalls.c:106 says
\* that it does not.
FinishLine ==
  /\ tpc = "finish" /\ wpc = "idle"
  /\ stdinLineReady' = TRUE
  /\ stdinBufLen' = pos
  /\ stdinBuf' = [stdinBuf EXCEPT ![pos] = NUL]
  /\ stdinBufPos' = 0
  /\ pos' = 0
  /\ tpc' = "copy"
  /\ UNCHANGED <<consoleVars, keyboardVars, count, buf>>

\* the rest of kread_impl: copy, advance, and give the line up at its end
CopyOut ==
  LET left   == stdinBufLen - stdinBufPos
      copied == IF count > left THEN left ELSE count
  IN  /\ tpc = "copy"
      /\ buf' = Bytes(stdinBufPos, stdinBufPos + copied)
      /\ stdinBufPos' = stdinBufPos + copied
      /\ stdinLineReady' = (stdinBufPos + copied < stdinBufLen)
      /\ tpc' = "returned"
      /\ UNCHANGED <<consoleVars, keyboardVars, stdinBuf, stdinBufLen, pos, count>>

\* the caller has used what it read
Returned ==
  /\ tpc = "returned"
  /\ tpc' = "idle" /\ buf' = <<>> /\ count' = 0
  /\ UNCHANGED <<consoleVars, keyboardVars, stdinVars, pos>>

ReadStep ==
  \/ PollKey \/ AcceptNewline \/ AcceptBackspace \/ AcceptGlyph
  \/ Echoed \/ FinishLine \/ CopyOut \/ Returned

-----------------------------------------------------------------------------
(* __stdout_put: between two reads the main thread prints *)
Emit(c) ==
  /\ tpc = "idle"
  /\ WriteChar(c)
  /\ UNCHANGED <<keyboardVars, terminalVars>>

\* The steps inside a call of writeChar, whoever made it
EchoStep == WriterStep /\ UNCHANGED <<keyboardVars, terminalVars>>

=============================================================================
