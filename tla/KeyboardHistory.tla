---------------------------- MODULE KeyboardHistory ----------------------------
(***************************************************************************)
(* The keyboard on its own: a typist pressing and releasing keys, the      *)
(* interrupt handler, and a caller that polls getInput as readStdinLine    *)
(* does (syscalls.c:87).  The history variables are what the typist really *)
(* holds, and whether a character has been lost.                           *)
(***************************************************************************)
EXTENDS Keyboard

VARIABLES
  down,  \* modifier keys held down
  lost   \* the ring has refused a character since one was last taken

historyVars == <<down, lost>>

typistVars == <<consoleVars, keyboardVars, historyVars>>

TypistInit == ConsoleInit /\ KeyboardInit /\ down = {} /\ lost = FALSE

\* The key has a character, and the ring does not take it.
Refused(k) ==
  k \in TextKeys /\ ~controlActive /\ Translate(k) # NUL /\ head' = head

\* A key that stays down repeats: its make code comes again.
TypistPress(k) ==
  /\ KeyPressed(k)
  /\ down' = down \cup ({k} \cap Modifiers)
  /\ lost' = IF Refused(k) THEN TRUE ELSE lost
  /\ UNCHANGED <<getterVars, writerVars>>

TypistRelease(k) ==
  /\ k \in Modifiers => k \in down
  /\ KeyReleased(k)
  /\ down' = down \ {k}
  /\ UNCHANGED <<getterVars, writerVars, lost>>

Poll ==
  /\ GetInput \/ GetReturned
  /\ lost' = IF tail' = tail THEN lost ELSE FALSE
  /\ UNCHANGED <<consoleVars, down>>

TypistNext == Poll \/ \E k \in Keys : TypistPress(k) \/ TypistRelease(k)

\* The caller polls getInput in a loop.
TypistSpec == TypistInit /\ [][TypistNext]_typistVars /\ WF_typistVars(Poll)

-----------------------------------------------------------------------------
Fifo == INSTANCE KeyFifo WITH
          NoChar   <- NUL,
          Capacity <- BUFFER_SIZE - 1,
          queue    <- Queue,
          out      <- IF gpc = "got" THEN inChar ELSE NUL

(* The ring and its two indices, one written by the interrupt and one by   *)
(* getInput without a lock (io.c:136-141, 150-153), are a first-in         *)
(* first-out queue of BUFFER_SIZE - 1 characters that loses a character    *)
(* only when it is full.                                                   *)
ImplementsFifo == Fifo!Spec

(* A character in the ring reaches the caller of getInput, however the     *)
(* typing goes on.                                                         *)
EveryKeyDelivered == Fifo!Delivery

(* The slot getInput is reading is not the handler's to write: it holds a  *)
(* typed character, never 0 (which the caller would take for an empty      *)
(* ring), and the copy in c is still the one in the ring when tail moves.  *)
SlotBeingReadIsStable ==
  gpc \in {"load", "advance"} =>
    /\ head # tail
    /\ keyBuffer[tail] # NUL
    /\ gpc = "advance" => inChar = keyBuffer[tail]

(* No modifier sticks: Ctrl or Shift counts as active only while one of    *)
(* its keys is held, and with none held neither is active, whatever was    *)
(* pressed together and released in any order (io.c:59-64, 72-87).         *)
NoStuckModifier ==
  /\ controlActive => down \cap CtrlKeys # {}
  /\ shiftActive   => down \cap ShiftKeys # {}

=============================================================================
