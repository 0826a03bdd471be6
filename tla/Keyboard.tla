------------------------------- MODULE Keyboard -------------------------------
(***************************************************************************)
(* The keyboard of src/src/io.c: keyboardHandler, run by IRQ 1 with interrupts *)
(* disabled, and getInput, run by the kernel's main thread with interrupts *)
(* enabled, around the ring keyBuffer.                                     *)
(*                                                                         *)
(* A scan code is the name of the key it stands for.  The two Ctrl keys    *)
(* send the same code (the 0xE0 before the right one's is ignored by the   *)
(* handler), the two Shift keys send different ones.                       *)
(***************************************************************************)
EXTENDS Console, Sequences

CONSTANTS
  BUFFER_SIZE,
  TextKeys,               \* the keys the two maps are read for
  keymap, keymapShifted,  \* 0 entries are NUL
  ArrowKeys

NUL == "nul"   \* character 0

LSHIFT == "LSHIFT"
RSHIFT == "RSHIFT"
LCTRL  == "LCTRL"
RCTRL  == "RCTRL"
CAPS   == "CAPS"

ShiftKeys == {LSHIFT, RSHIFT}
CtrlKeys  == {LCTRL, RCTRL}
Modifiers == ShiftKeys \cup CtrlKeys
Keys      == TextKeys \cup ArrowKeys \cup Modifiers \cup {CAPS}

Char  == Glyph \cup {NL, BS}  \* what can be in the ring
Slots == 0 .. BUFFER_SIZE - 1

ASSUME KeyboardAssumption ==
  /\ BUFFER_SIZE \in Nat \ {0}
  /\ keymap \in [TextKeys -> Char \cup {NUL}]
  /\ keymapShifted \in [TextKeys -> Char \cup {NUL}]
  /\ NUL \notin Char \cup ArrowKeys
  /\ TextKeys \cap (ArrowKeys \cup Modifiers \cup {CAPS}) = {}
  /\ ArrowKeys \cap (Modifiers \cup {CAPS}) = {}

VARIABLES
  keyBuffer, head, tail,
  shiftActive, capsLockActive, controlActive,
  eofTrigger,
  arrow,
  gpc,      \* getInput: the main thread's next access, or "idle"
  inChar    \* getInput's local c

ringVars     == <<keyBuffer, head, tail>>
modeVars     == <<shiftActive, capsLockActive, controlActive, eofTrigger, arrow>>
getterVars   == <<gpc, inChar>>
keyboardVars == <<ringVars, modeVars, getterVars>>

KeyboardInit ==
  /\ keyBuffer = [i \in Slots |-> NUL]
  /\ head = 0 /\ tail = 0
  /\ shiftActive = FALSE /\ capsLockActive = FALSE /\ controlActive = FALSE
  /\ eofTrigger = FALSE
  /\ arrow = NUL
  /\ gpc = "idle" /\ inChar = NUL

\* Variant: the index does not wrap.
NextSlotUnwrapped(i) == i + 1

NextSlot(i) == (i + 1) % BUFFER_SIZE

-----------------------------------------------------------------------------
\* Variant: only the left Shift is released.
KeyReleasedLeft(k) ==
  /\ shiftActive'   = (shiftActive /\ k # LSHIFT)
  /\ controlActive' = (controlActive /\ k \notin CtrlKeys)
  /\ arrow' = IF k \in ArrowKeys THEN NUL ELSE arrow
  /\ UNCHANGED <<ringVars, capsLockActive, eofTrigger, screenVars>>

(* keyboardHandler on a break code *)
KeyReleased(k) ==
  /\ shiftActive'   = (shiftActive /\ k \notin ShiftKeys)
  /\ controlActive' = (controlActive /\ k \notin CtrlKeys)
  /\ arrow' = IF k \in ArrowKeys THEN NUL ELSE arrow
  /\ UNCHANGED <<ringVars, capsLockActive, eofTrigger, screenVars>>

(* keyboardHandler on a make code that is no text *)
ModePressed(k) ==
  /\ k \notin TextKeys
  /\ shiftActive'    = (shiftActive \/ k \in ShiftKeys)
  /\ capsLockActive' = (capsLockActive # (k = CAPS))
  /\ controlActive'  = (controlActive \/ k \in CtrlKeys)
  /\ arrow' = IF k \in ArrowKeys THEN k ELSE arrow
  /\ UNCHANGED <<ringVars, eofTrigger, screenVars>>

(* ... on a text key with Ctrl held: Ctrl+L clears the screen, Ctrl+D asks *)
(* for end of file, and nothing is queued                                  *)
ControlPressed(k) ==
  /\ k \in TextKeys /\ controlActive
  /\ IF keymap[k] = "l" THEN ClearScreen ELSE UNCHANGED screenVars
  /\ eofTrigger' = (eofTrigger \/ keymap[k] = "d")
  /\ UNCHANGED <<ringVars, shiftActive, capsLockActive, controlActive, arrow>>

Translate(k) ==
  IF shiftActive # capsLockActive THEN keymapShifted[k] ELSE keymap[k]

\* Variant: a full ring is overwritten.
TextPressedUnchecked(k) ==
  /\ k \in TextKeys /\ ~controlActive
  /\ IF Translate(k) # NUL
     THEN /\ keyBuffer' = [keyBuffer EXCEPT ![head] = Translate(k)]
          /\ head' = NextSlot(head)
     ELSE UNCHANGED <<keyBuffer, head>>
  /\ UNCHANGED <<tail, modeVars, screenVars>>

\* Variant: the ring counts as full one character early.
TextPressedEarly(k) ==
  /\ k \in TextKeys /\ ~controlActive
  /\ IF /\ Translate(k) # NUL
        /\ tail \notin {NextSlot(head), NextSlot(NextSlot(head))}
     THEN /\ keyBuffer' = [keyBuffer EXCEPT ![head] = Translate(k)]
          /\ head' = NextSlot(head)
     ELSE UNCHANGED <<keyBuffer, head>>
  /\ UNCHANGED <<tail, modeVars, screenVars>>

(* ... on any other text key: queued unless it has no character or the     *)
(* ring is full                                                            *)
TextPressed(k) ==
  /\ k \in TextKeys /\ ~controlActive
  /\ IF Translate(k) # NUL /\ NextSlot(head) # tail
     THEN /\ keyBuffer' = [keyBuffer EXCEPT ![head] = Translate(k)]
          /\ head' = NextSlot(head)
     ELSE UNCHANGED <<keyBuffer, head>>
  /\ UNCHANGED <<tail, modeVars, screenVars>>

KeyPressed(k) == ModePressed(k) \/ ControlPressed(k) \/ TextPressed(k)

-----------------------------------------------------------------------------
\* Variant: the ring is taken for empty once head has wrapped.
GetTestUnwrapped ==
  /\ gpc = "idle" /\ head > tail
  /\ gpc' = "load"
  /\ UNCHANGED <<ringVars, modeVars, inChar>>

(* getInput, one access to the ring at a time.  On an empty ring it        *)
(* returns 0 and changes nothing: no step.                                 *)
GetTest ==
  /\ gpc = "idle" /\ head # tail
  /\ gpc' = "load"
  /\ UNCHANGED <<ringVars, modeVars, inChar>>

GetLoad ==
  /\ gpc = "load"
  /\ inChar' = keyBuffer[tail]
  /\ gpc' = "advance"
  /\ UNCHANGED <<ringVars, modeVars>>

GetAdvance ==
  /\ gpc = "advance"
  /\ tail' = NextSlot(tail)
  /\ gpc' = "got"
  /\ UNCHANGED <<keyBuffer, head, modeVars, inChar>>

GetInput == GetTest \/ GetLoad \/ GetAdvance

\* The caller has read what getInput returned.
GetReturned ==
  /\ gpc = "got"
  /\ gpc' = "idle" /\ inChar' = NUL
  /\ UNCHANGED <<ringVars, modeVars>>

-----------------------------------------------------------------------------
(* What the ring holds: the slots in use run from tail (included) to head  *)
(* (excluded).                                                             *)
Occupied == IF head >= tail THEN head - tail ELSE head - tail + BUFFER_SIZE

RingAt(i) == IF tail + i < BUFFER_SIZE
             THEN keyBuffer[tail + i] ELSE keyBuffer[tail + i - BUFFER_SIZE]

Queue == [i \in 1 .. Occupied |-> RingAt(i - 1)]

-----------------------------------------------------------------------------
(* Type invariant of the keyboard's state. *)
KeyboardTypeOK ==
  /\ keyBuffer \in [Slots -> Char \cup {NUL}]
  /\ head \in Slots /\ tail \in Slots
  /\ shiftActive \in BOOLEAN /\ capsLockActive \in BOOLEAN
  /\ controlActive \in BOOLEAN /\ eofTrigger \in BOOLEAN
  /\ arrow \in ArrowKeys \cup {NUL}
  /\ gpc \in {"idle", "load", "advance", "got"}
  /\ inChar \in Char \cup {NUL}

=============================================================================
