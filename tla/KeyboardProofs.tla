---------------------------- MODULE KeyboardProofs ----------------------------
(***************************************************************************)
(* The keyboard and the terminal, for every ring size, key set, pair of    *)
(* maps, screen, buffer and size of read: no modifier sticks, the slot     *)
(* being read is stable, the ring is a first-in first-out queue, standard  *)
(* input is the line discipline, the screen shows the line, and a read     *)
(* whose newline is typed runs to its end, however the typing comes        *)
(* between the steps of reading and echoing.                               *)
(***************************************************************************)
EXTENDS ConsoleProofs, KeyboardHistory, TerminalHistory, SequenceTheorems

-----------------------------------------------------------------------------
(* What the handler and getInput keep true of the keyboard, and the ring   *)
(* as a sequence: facts for the keyboard on its own and in the terminal.   *)

(* Advancing an index: one slot on, or back to slot 0 (io.c:137, 153). *)
LEMMA NextSlotIs ==
  ASSUME NEW i \in Slots
  PROVE  /\ NextSlot(i) \in Slots
         /\ NextSlot(i) = IF i = BUFFER_SIZE - 1 THEN 0 ELSE i + 1
<1>1. CASE i = BUFFER_SIZE - 1
  BY <1>1, KeyboardAssumption DEF NextSlot, Slots
<1>2. CASE i # BUFFER_SIZE - 1
  BY <1>2, KeyboardAssumption DEF NextSlot, Slots
<1> QED BY <1>1, <1>2

(* A key's entry in the selected map is a character or 0. *)
LEMMA TranslateType ==
  ASSUME NEW k \in TextKeys
  PROVE  Translate(k) \in Char \cup {NUL}
BY KeyboardAssumption DEF Translate

-----------------------------------------------------------------------------
(* The steps of the keyboard, whatever goes on beside them *)
Handled == \E k \in Keys : (KeyPressed(k) \/ KeyReleased(k)) /\ UNCHANGED getterVars
Getting == GetInput \/ GetReturned
KeyboardStep == Handled \/ Getting \/ UNCHANGED keyboardVars

(* KeyboardInit's state is well typed (io.c:29-33). *)
LEMMA TypeInit == KeyboardInit => KeyboardTypeOK
<1> SUFFICES ASSUME KeyboardInit PROVE KeyboardTypeOK
  OBVIOUS
<1>1. 0 \in Slots
  BY KeyboardAssumption DEF Slots
<1> QED BY <1>1 DEF KeyboardInit, KeyboardTypeOK

(* No handler and no access of getInput breaks the types. *)
LEMMA TypeStep == KeyboardTypeOK /\ KeyboardStep => KeyboardTypeOK'
<1> SUFFICES ASSUME KeyboardTypeOK, KeyboardStep PROVE KeyboardTypeOK'
  OBVIOUS
<1> USE DEF KeyboardTypeOK
<1>1. CASE Getting
  <2>1. CASE GetTest
    BY <2>1 DEF GetTest, ringVars, modeVars
  <2>2. CASE GetLoad
    BY <2>2 DEF GetLoad, ringVars, modeVars
  <2>3. CASE GetAdvance
    BY <2>3, NextSlotIs DEF GetAdvance, modeVars
  <2>4. CASE GetReturned
    BY <2>4 DEF GetReturned, ringVars, modeVars
  <2> QED BY <1>1, <2>1, <2>2, <2>3, <2>4 DEF Getting, GetInput
<1>2. ASSUME NEW k \in Keys, KeyPressed(k), UNCHANGED getterVars PROVE KeyboardTypeOK'
  <2>1. CASE ModePressed(k)
    BY <1>2, <2>1, KeyboardAssumption DEF ModePressed, ringVars, getterVars
  <2>2. CASE ControlPressed(k)
    BY <1>2, <2>2 DEF ControlPressed, ringVars, getterVars
  <2>3. CASE TextPressed(k)
    <3>1. k \in TextKeys
      BY <2>3 DEF TextPressed
    <3>2. UNCHANGED <<tail, modeVars, getterVars>>
      BY <1>2, <2>3 DEF TextPressed
    <3>3. CASE Translate(k) # NUL /\ NextSlot(head) # tail
      <4>1. keyBuffer' = [keyBuffer EXCEPT ![head] = Translate(k)]
            /\ head' = NextSlot(head)
        BY <2>3, <3>3 DEF TextPressed
      <4> QED BY <3>1, <3>2, <4>1, NextSlotIs, TranslateType
              DEF modeVars, getterVars
    <3>4. CASE ~(Translate(k) # NUL /\ NextSlot(head) # tail)
      BY <2>3, <3>2, <3>4 DEF TextPressed, modeVars, getterVars
    <3> QED BY <3>3, <3>4
  <2> QED BY <1>2, <2>1, <2>2, <2>3 DEF KeyPressed
<1>3. ASSUME NEW k \in Keys, KeyReleased(k), UNCHANGED getterVars PROVE KeyboardTypeOK'
  BY <1>3 DEF KeyReleased, ringVars, getterVars
<1>4. CASE UNCHANGED keyboardVars
  BY <1>4 DEF keyboardVars, ringVars, modeVars, getterVars
<1> QED BY <1>1, <1>2, <1>3, <1>4 DEF KeyboardStep, Handled

-----------------------------------------------------------------------------
(* The ring.  InUse is the part of it between tail and head. *)
InUse(i) == IF head >= tail THEN tail <= i /\ i < head ELSE tail <= i \/ i < head

(* The inductive invariant: a slot in use holds a character, and getInput, *)
(* once it has found the ring not empty, has the slot at tail to itself.   *)
RingInv ==
  /\ \A i \in Slots : InUse(i) => keyBuffer[i] \in Char
  /\ gpc \in {"load", "advance"} => head # tail
  /\ gpc = "advance" => inChar = keyBuffer[tail]
  /\ gpc = "got" => inChar \in Char

(* The ring is empty and nobody reads it at the start. *)
LEMMA RingInit == KeyboardInit => RingInv
BY DEF KeyboardInit, RingInv, InUse, Slots

(* The handler and getInput both preserve the ring's invariant. *)
LEMMA RingStep == KeyboardTypeOK /\ RingInv /\ KeyboardStep => RingInv'
<1> SUFFICES ASSUME KeyboardTypeOK, RingInv, KeyboardStep PROVE RingInv'
  OBVIOUS
<1> USE DEF RingInv
<1>0. /\ keyBuffer \in [Slots -> Char \cup {NUL}] /\ head \in Slots /\ tail \in Slots
      /\ gpc \in {"idle", "load", "advance", "got"}
  BY DEF KeyboardTypeOK
<1>a. BUFFER_SIZE \in Nat \ {0} /\ Slots = 0 .. BUFFER_SIZE - 1
  BY KeyboardAssumption DEF Slots
<1>1. CASE Getting
  <2>1. CASE GetTest
    BY <2>1 DEF GetTest, ringVars, InUse
  <2>2. CASE GetLoad
    BY <2>2 DEF GetLoad, ringVars, InUse
  <2>3. CASE GetAdvance
    <3>1. /\ tail' = NextSlot(tail) /\ head' = head /\ keyBuffer' = keyBuffer
          /\ inChar' = inChar /\ gpc' = "got" /\ gpc = "advance"
      BY <2>3 DEF GetAdvance
    <3>2. head # tail /\ inChar = keyBuffer[tail]
      BY <3>1
    <3>3. keyBuffer[tail] \in Char
      BY <1>0, <1>a, <3>2 DEF InUse
    <3>a. tail' = IF tail = BUFFER_SIZE - 1 THEN 0 ELSE tail + 1
      BY <1>0, <3>1, NextSlotIs
    <3>4. ASSUME NEW i \in Slots, InUse(i)' PROVE InUse(i)
      BY <1>0, <1>a, <3>1, <3>2, <3>4, <3>a DEF InUse
    <3> QED BY <3>1, <3>2, <3>3, <3>4
  <2>4. CASE GetReturned
    BY <2>4 DEF GetReturned, ringVars, InUse
  <2> QED BY <1>1, <2>1, <2>2, <2>3, <2>4 DEF Getting, GetInput
<1>2. ASSUME NEW k \in Keys, KeyPressed(k), UNCHANGED getterVars PROVE RingInv'
  <2>1. CASE ModePressed(k)
    BY <1>2, <2>1 DEF ModePressed, ringVars, getterVars, InUse
  <2>2. CASE ControlPressed(k)
    BY <1>2, <2>2 DEF ControlPressed, ringVars, getterVars, InUse
  <2>3. CASE TextPressed(k)
    <3>1. k \in TextKeys /\ tail' = tail /\ gpc' = gpc /\ inChar' = inChar
      BY <1>2, <2>3 DEF TextPressed, getterVars
    <3>2. CASE Translate(k) # NUL /\ NextSlot(head) # tail
      <4>1. keyBuffer' = [keyBuffer EXCEPT ![head] = Translate(k)]
            /\ head' = NextSlot(head)
        BY <2>3, <3>2 DEF TextPressed
      <4>a. head' = IF head = BUFFER_SIZE - 1 THEN 0 ELSE head + 1
        BY <1>0, <4>1, NextSlotIs
      <4>2. Translate(k) \in Char
        BY <3>1, <3>2, TranslateType
      <4>3. ASSUME NEW i \in Slots, InUse(i)' PROVE keyBuffer'[i] \in Char
        <5>1. i = head \/ InUse(i)
          BY <1>0, <1>a, <3>1, <3>2, <4>1, <4>3, <4>a DEF InUse
        <5> QED BY <5>1, <1>0, <4>1, <4>2
      <4>4. head # tail => keyBuffer'[tail] = keyBuffer[tail]
        BY <1>0, <4>1
      <4>5. head' # tail'
        BY <3>1, <3>2, <4>1
      <4> QED BY <3>1, <4>3, <4>4, <4>5
    <3>3. CASE ~(Translate(k) # NUL /\ NextSlot(head) # tail)
      BY <2>3, <3>1, <3>3 DEF TextPressed, InUse
    <3> QED BY <3>2, <3>3
  <2> QED BY <1>2, <2>1, <2>2, <2>3 DEF KeyPressed
<1>3. ASSUME NEW k \in Keys, KeyReleased(k), UNCHANGED getterVars PROVE RingInv'
  BY <1>3 DEF KeyReleased, ringVars, getterVars, InUse
<1>4. CASE UNCHANGED keyboardVars
  BY <1>4 DEF keyboardVars, ringVars, getterVars, InUse
<1> QED BY <1>1, <1>2, <1>3, <1>4 DEF KeyboardStep, Handled

-----------------------------------------------------------------------------
(* The ring as a sequence, for any contents and any two indices, so that   *)
(* the facts below can be used before a step and after it.                 *)
Used(h, t)      == IF h >= t THEN h - t ELSE h - t + BUFFER_SIZE
SlotOf(t, i)    == IF t + i < BUFFER_SIZE THEN t + i ELSE t + i - BUFFER_SIZE
Contents(b, h, t) == [i \in 1 .. Used(h, t) |-> b[SlotOf(t, i - 1)]]

RingOf(b, h, t) ==
  /\ b \in [Slots -> Char \cup {NUL}] /\ h \in Slots /\ t \in Slots
  /\ \A i \in Slots :
       (IF h >= t THEN t <= i /\ i < h ELSE t <= i \/ i < h) => b[i] \in Char

(* The mapped queue is the ring's contents, before a step and after it. *)
LEMMA QueueIsContents ==
  /\ Queue = Contents(keyBuffer, head, tail)
  /\ Queue' = Contents(keyBuffer', head', tail')
BY DEF Queue, RingAt, Occupied, Contents, Used, SlotOf

(* What the invariant says of the variables, said of any ring. *)
LEMMA RingIsRingOf == KeyboardTypeOK /\ RingInv => RingOf(keyBuffer, head, tail)
BY DEF KeyboardTypeOK, RingInv, RingOf, InUse

(* The contents are a sequence of characters as long as the slots in use,  *)
(* never more than BUFFER_SIZE - 1.                                        *)
LEMMA ContentsType ==
  ASSUME NEW b, NEW h, NEW t, RingOf(b, h, t)
  PROVE  /\ Used(h, t) \in 0 .. BUFFER_SIZE - 1
         /\ Contents(b, h, t) \in Seq(Char)
         /\ Len(Contents(b, h, t)) = Used(h, t)
<1>1. /\ h \in 0 .. BUFFER_SIZE - 1 /\ t \in 0 .. BUFFER_SIZE - 1
      /\ BUFFER_SIZE \in Nat
  BY KeyboardAssumption DEF RingOf, Slots
<1>2. Used(h, t) \in 0 .. BUFFER_SIZE - 1
  BY <1>1 DEF Used
<1>3. ASSUME NEW i \in 1 .. Used(h, t) PROVE b[SlotOf(t, i - 1)] \in Char
  <2>1. SlotOf(t, i - 1) \in Slots
    BY <1>1, <1>2 DEF Used, SlotOf, Slots
  <2>2. IF h >= t THEN t <= SlotOf(t, i - 1) /\ SlotOf(t, i - 1) < h
        ELSE t <= SlotOf(t, i - 1) \/ SlotOf(t, i - 1) < h
    BY <1>1, <1>2 DEF Used, SlotOf
  <2> QED BY <2>1, <2>2 DEF RingOf
<1>4. Contents(b, h, t) \in [1 .. Used(h, t) -> Char]
  BY <1>3 DEF Contents
<1>5. Used(h, t) \in Nat
  BY <1>2, <1>1
<1> QED BY <1>2, <1>4, <1>5, SeqDef

(* A function on 1 .. m that agrees with a sequence of length m is it. *)
LEMMA SameSequence ==
  ASSUME NEW S, NEW m \in Nat, NEW u \in [1 .. m -> S], NEW v \in Seq(S),
         Len(v) = m, \A i \in 1 .. m : u[i] = v[i]
  PROVE  u = v
<1>1. u \in Seq(S)
  BY SeqDef
<1>2. Len(u) = m
  OBVIOUS
<1> QED BY <1>1, <1>2, SeqEqual

(* Storing a character at head and moving head on appends it. *)
LEMMA StoreAppends ==
  ASSUME NEW b, NEW h, NEW t, RingOf(b, h, t), NEW c \in Char,
         NextSlot(h) # t,
         NEW d, d[h] = c, \A i \in Slots \ {h} : d[i] = b[i]
  PROVE  /\ Used(h, t) < BUFFER_SIZE - 1
         /\ Contents(d, NextSlot(h), t) = Append(Contents(b, h, t), c)
<1> DEFINE n == Used(h, t)
           s == Contents(b, h, t)
<1>1. /\ h \in 0 .. BUFFER_SIZE - 1 /\ t \in 0 .. BUFFER_SIZE - 1
      /\ BUFFER_SIZE \in Nat /\ h \in Slots
      /\ Slots = 0 .. BUFFER_SIZE - 1
  BY KeyboardAssumption DEF RingOf, Slots
<1>2. NextSlot(h) = IF h = BUFFER_SIZE - 1 THEN 0 ELSE h + 1
  BY <1>1, NextSlotIs
<1>3. n \in Nat /\ n < BUFFER_SIZE - 1 /\ Used(NextSlot(h), t) = n + 1
  BY <1>1, <1>2 DEF Used
<1>4. s \in Seq(Char) /\ Len(s) = n
  BY ContentsType
<1>5. SlotOf(t, n) = h /\ d[h] = c
  BY <1>1 DEF SlotOf, Used
<1>6. ASSUME NEW i \in 1 .. n PROVE d[SlotOf(t, i - 1)] = s[i]
  <2>1. SlotOf(t, i - 1) \in 0 .. BUFFER_SIZE - 1 /\ SlotOf(t, i - 1) # h
    BY <1>1, <1>3 DEF SlotOf, Used
  <2>2. d[SlotOf(t, i - 1)] = b[SlotOf(t, i - 1)]
    BY <1>1, <2>1
  <2> QED BY <2>2 DEF Contents
<1>7. /\ Append(s, c) \in Seq(Char) /\ Len(Append(s, c)) = n + 1
      /\ \A i \in 1 .. n + 1 : Append(s, c)[i] = IF i <= n THEN s[i] ELSE c
  <2>1. /\ Append(s, c) \in Seq(Char) /\ Len(Append(s, c)) = n + 1
        /\ \A i \in 1 .. n : Append(s, c)[i] = s[i]
        /\ Append(s, c)[n + 1] = c
    BY <1>4, AppendProperties
  <2> QED BY <1>3, <2>1
<1>8. Contents(d, NextSlot(h), t)
        = [i \in 1 .. n + 1 |-> d[SlotOf(t, i - 1)]]
  BY <1>3 DEF Contents
<1>9. ASSUME NEW i \in 1 .. n + 1
      PROVE  d[SlotOf(t, i - 1)] = IF i <= n THEN s[i] ELSE c
  <2>1. CASE i <= n
    BY <1>3, <1>6, <2>1
  <2>2. CASE ~(i <= n)
    <3>1. i - 1 = n
      BY <1>3, <2>2
    <3> QED BY <1>5, <2>2, <3>1
  <2> QED BY <2>1, <2>2
<1>10. Contents(d, NextSlot(h), t) = Append(s, c)
  <2> DEFINE u == Contents(d, NextSlot(h), t)
  <2>1. \A i \in 1 .. n + 1 : u[i] = Append(s, c)[i]
    BY <1>7, <1>8, <1>9
  <2>2. u \in [1 .. n + 1 -> Char]
    <3>1. \A i \in 1 .. n + 1 : d[SlotOf(t, i - 1)] \in Char
      BY <1>3, <1>4, <1>9, ElementOfSeq
    <3> QED BY <1>8, <3>1
  <2>3. n + 1 \in Nat
    BY <1>3
  <2> HIDE DEF u, n, s
  <2>4. u = Append(s, c)
    BY <1>7, <2>1, <2>2, <2>3, SameSequence
  <2> QED BY <2>4 DEF u, s
<1> QED BY <1>3, <1>10

(* A ring head cannot advance in is full. *)
LEMMA FullRing ==
  ASSUME NEW b, NEW h, NEW t, RingOf(b, h, t), NextSlot(h) = t
  PROVE  Used(h, t) = BUFFER_SIZE - 1
<1>1. /\ h \in 0 .. BUFFER_SIZE - 1 /\ t \in 0 .. BUFFER_SIZE - 1
      /\ BUFFER_SIZE \in Nat /\ h \in Slots
  BY KeyboardAssumption DEF RingOf, Slots
<1>2. NextSlot(h) = IF h = BUFFER_SIZE - 1 THEN 0 ELSE h + 1
  BY <1>1, NextSlotIs
<1> QED BY <1>1, <1>2 DEF Used

(* Moving tail on drops the first character. *)
LEMMA AdvanceDropsHead ==
  ASSUME NEW b, NEW h, NEW t, RingOf(b, h, t), h # t
  PROVE  /\ Contents(b, h, t) # <<>>
         /\ Head(Contents(b, h, t)) = b[t]
         /\ Contents(b, h, NextSlot(t)) = Tail(Contents(b, h, t))
<1> DEFINE n == Used(h, t)
           s == Contents(b, h, t)
<1>1. /\ h \in 0 .. BUFFER_SIZE - 1 /\ t \in 0 .. BUFFER_SIZE - 1
      /\ BUFFER_SIZE \in Nat /\ t \in Slots
  BY KeyboardAssumption DEF RingOf, Slots
<1>2. NextSlot(t) = IF t = BUFFER_SIZE - 1 THEN 0 ELSE t + 1
  BY <1>1, NextSlotIs
<1>3. n \in Nat /\ n > 0 /\ Used(h, NextSlot(t)) = n - 1
  BY <1>1, <1>2 DEF Used
<1>4. s \in Seq(Char) /\ Len(s) = n
  BY ContentsType
<1>5. s # <<>>
  BY <1>3, <1>4, EmptySeq
<1>6. s[1] = b[t]
  <2>1. s[1] = b[SlotOf(t, 1 - 1)]
    BY <1>3 DEF Contents
  <2>2. SlotOf(t, 1 - 1) = t
    BY <1>1 DEF SlotOf
  <2> QED BY <2>1, <2>2
<1>7. /\ Head(s) = s[1] /\ Tail(s) \in Seq(Char) /\ Len(Tail(s)) = n - 1
      /\ \A i \in 1 .. n - 1 : Tail(s)[i] = s[i + 1]
  BY <1>4, <1>5, HeadTailProperties
<1>8. Contents(b, h, NextSlot(t))
        = [i \in 1 .. n - 1 |-> b[SlotOf(NextSlot(t), i - 1)]]
  BY <1>3 DEF Contents
<1>9. ASSUME NEW i \in 1 .. n - 1
      PROVE  b[SlotOf(NextSlot(t), i - 1)] = s[i + 1]
  <2>1. SlotOf(NextSlot(t), i - 1) = SlotOf(t, (i + 1) - 1)
    BY <1>1, <1>2, <1>3 DEF SlotOf, Used
  <2>2. i + 1 \in 1 .. n
    BY <1>3
  <2> QED BY <2>1, <2>2 DEF Contents
<1>10. Contents(b, h, NextSlot(t)) = Tail(s)
  <2> DEFINE u == Contents(b, h, NextSlot(t))
  <2>1. \A i \in 1 .. n - 1 : u[i] = Tail(s)[i]
    BY <1>7, <1>8, <1>9
  <2>2. u \in [1 .. n - 1 -> Char]
    <3>1. \A i \in 1 .. n - 1 : s[i + 1] \in Char
      BY <1>3, <1>4, ElementOfSeq
    <3> QED BY <1>8, <1>9, <3>1
  <2>3. n - 1 \in Nat
    BY <1>3
  <2> HIDE DEF u, n, s
  <2>4. u = Tail(s)
    BY <1>7, <2>1, <2>2, <2>3, SameSequence
  <2> QED BY <2>4 DEF u, s
<1> QED BY <1>5, <1>6, <1>7, <1>10

-----------------------------------------------------------------------------
(* The keyboard on its own *)

(* Every step of the specification is one of the keyboard. *)
LEMMA TypistNextIsKeyboardStep == [TypistNext]_typistVars => KeyboardStep
<1>1. ASSUME NEW k \in Keys, TypistPress(k) \/ TypistRelease(k) PROVE Handled
  BY <1>1 DEF TypistPress, TypistRelease, Handled
<1>2. ASSUME Poll PROVE Getting
  BY <1>2 DEF Poll, Getting
<1> QED BY <1>1, <1>2 DEF TypistNext, typistVars, KeyboardStep

(* Every reachable state of the keyboard is well typed, whatever is typed. *)
THEOREM KeyboardTypeCorrect == TypistSpec => []KeyboardTypeOK
BY TypeInit, TypeStep, TypistNextIsKeyboardStep, PTL DEF TypistSpec, TypistInit

-----------------------------------------------------------------------------
(* Modifiers *)

(* No modifier is active at the start and no key is held. *)
LEMMA ModifierInit == TypistInit => NoStuckModifier
BY DEF TypistInit, KeyboardInit, NoStuckModifier

(* A release always clears the modifier its key set (io.c:68-82). *)
LEMMA ModifierStep ==
  KeyboardTypeOK /\ NoStuckModifier /\ [TypistNext]_typistVars => NoStuckModifier'
<1> SUFFICES ASSUME KeyboardTypeOK, NoStuckModifier, [TypistNext]_typistVars
             PROVE  NoStuckModifier'
  OBVIOUS
<1> USE DEF NoStuckModifier
<1>1. CASE Poll
  BY <1>1 DEF Poll, GetInput, GetTest, GetLoad, GetAdvance, GetReturned, modeVars
<1>2. ASSUME NEW k \in Keys, TypistPress(k) PROVE NoStuckModifier'
  <2>1. CASE ModePressed(k)
    BY <1>2, <2>1 DEF TypistPress, ModePressed, Modifiers
  <2>2. CASE ControlPressed(k)
    BY <1>2, <2>2 DEF TypistPress, ControlPressed
  <2>3. CASE TextPressed(k)
    BY <1>2, <2>3 DEF TypistPress, TextPressed, modeVars
  <2> QED BY <1>2, <2>1, <2>2, <2>3 DEF TypistPress, KeyPressed
<1>3. ASSUME NEW k \in Keys, TypistRelease(k) PROVE NoStuckModifier'
  <2>1. down' = down \ {k} /\ KeyReleased(k)
    BY <1>3 DEF TypistRelease
  <2>2. CtrlKeys \cap ShiftKeys = {}
    BY DEF CtrlKeys, ShiftKeys, LCTRL, RCTRL, LSHIFT, RSHIFT
  <2>3. controlActive' => k \notin CtrlKeys /\ controlActive
    BY <2>1 DEF KeyReleased
  <2>4. shiftActive' => k \notin ShiftKeys /\ shiftActive
    BY <2>1 DEF KeyReleased
  <2> QED BY <2>1, <2>3, <2>4
<1>4. CASE UNCHANGED typistVars
  BY <1>4 DEF typistVars, keyboardVars, modeVars, historyVars
<1> QED BY <1>1, <1>2, <1>3, <1>4 DEF TypistNext

(* No modifier sticks, whatever is pressed together and however released. *)
THEOREM ModifiersNeverStick == TypistSpec => []NoStuckModifier
<1>1. TypistSpec => []KeyboardTypeOK
  BY KeyboardTypeCorrect
<1> QED BY <1>1, ModifierInit, ModifierStep, PTL DEF TypistSpec

-----------------------------------------------------------------------------
(* The ring *)

(* The ring's invariant holds, however handler and getInput interleave. *)
THEOREM RingInvariant == TypistSpec => []RingInv
<1>1. TypistSpec => []KeyboardTypeOK
  BY KeyboardTypeCorrect
<1> QED BY <1>1, RingInit, RingStep, TypistNextIsKeyboardStep, PTL DEF TypistSpec, TypistInit

(* The handler never touches the slot getInput is reading, and that slot   *)
(* holds a character, never the 0 that would mean an empty ring.           *)
THEOREM ReadSlotIsStable == TypistSpec => []SlotBeingReadIsStable
<1>1. KeyboardTypeOK /\ RingInv => SlotBeingReadIsStable
  <2> SUFFICES ASSUME KeyboardTypeOK, RingInv, gpc \in {"load", "advance"}
               PROVE  /\ head # tail /\ keyBuffer[tail] # NUL
                      /\ gpc = "advance" => inChar = keyBuffer[tail]
    BY DEF SlotBeingReadIsStable
  <2>1. head \in Slots /\ tail \in Slots /\ head # tail
    BY DEF KeyboardTypeOK, RingInv
  <2>2. InUse(tail)
    BY <2>1, KeyboardAssumption DEF InUse, Slots
  <2>3. keyBuffer[tail] \in Char
    BY <2>1, <2>2 DEF RingInv
  <2> QED BY <2>1, <2>3, KeyboardAssumption DEF RingInv
<1> QED BY <1>1, KeyboardTypeCorrect, RingInvariant, PTL

-----------------------------------------------------------------------------
(* Refinement *)

(* The empty ring is the empty queue. *)
LEMMA FifoInit == TypistInit => Fifo!Init
<1> SUFFICES ASSUME TypistInit PROVE Fifo!Init
  OBVIOUS
<1>1. head = 0 /\ tail = 0 /\ gpc = "idle"
  BY DEF TypistInit, KeyboardInit
<1>2. Queue = <<>>
  BY <1>1 DEF Queue, Occupied
<1> QED BY <1>1, <1>2 DEF TypistInit, Fifo!Init

(* Every step of handler or getInput is a step of the queue or none. *)
LEMMA FifoStep ==
  ASSUME KeyboardTypeOK, RingInv, [TypistNext]_typistVars
  PROVE  [Fifo!Next]_<<Queue, IF gpc = "got" THEN inChar ELSE NUL, lost>>
<1> DEFINE Out == IF gpc = "got" THEN inChar ELSE NUL
<1>0. RingOf(keyBuffer, head, tail) /\ NUL \notin Char
  BY RingIsRingOf, KeyboardAssumption
<1>a. ASSUME UNCHANGED <<ringVars, getterVars>> PROVE UNCHANGED <<Queue, Out>>
  BY <1>a DEF ringVars, getterVars, Queue, Occupied, RingAt
<1>1. CASE Poll
  <2>1. CASE GetTest \/ GetLoad
    BY <1>1, <2>1 DEF Poll, GetTest, GetLoad, ringVars, Queue, Occupied, RingAt
  <2>2. CASE GetAdvance
    <3>1. /\ gpc = "advance" /\ gpc' = "got" /\ tail' = NextSlot(tail)
          /\ UNCHANGED <<keyBuffer, head, inChar>>
      BY <2>2 DEF GetAdvance
    <3>2. head # tail /\ inChar = keyBuffer[tail]
      BY <3>1 DEF RingInv
    <3>3. /\ Queue # <<>> /\ Head(Queue) = inChar /\ Queue' = Tail(Queue)
      BY <1>0, <3>1, <3>2, QueueIsContents, AdvanceDropsHead
    <3>4. Out = NUL /\ Out' = inChar
      BY <3>1
    <3>5. lost' = FALSE
      <4>1. tail \in Slots /\ head \in Slots
        BY DEF KeyboardTypeOK
      <4>2. tail' # tail
        BY <3>1, <3>2, <4>1, NextSlotIs, KeyboardAssumption DEF Slots
      <4> QED BY <1>1, <4>2 DEF Poll
    <3> QED BY <3>3, <3>4, <3>5 DEF Fifo!Take, Fifo!Next
  <2>3. CASE GetReturned
    <3>1. gpc = "got" /\ gpc' = "idle" /\ Queue' = Queue
      BY <2>3 DEF GetReturned, ringVars, Queue, Occupied, RingAt
    <3>2. Out # NUL /\ Out' = NUL
      BY <1>0, <3>1 DEF RingInv
    <3>3. lost' = lost
      BY <1>1, <2>3 DEF Poll, GetReturned, ringVars
    <3> QED BY <3>1, <3>2, <3>3 DEF Fifo!Hand, Fifo!Next
  <2> QED BY <1>1, <2>1, <2>2, <2>3 DEF Poll, GetInput
<1>2. ASSUME NEW k \in Keys, TypistPress(k)
      PROVE  [Fifo!Next]_<<Queue, Out, lost>>
  <2>0. lost' = IF Refused(k) THEN TRUE ELSE lost
    BY <1>2 DEF TypistPress
  <2>1. CASE ModePressed(k) \/ ControlPressed(k)
    <3>1. UNCHANGED <<ringVars, getterVars>>
      BY <1>2, <2>1 DEF TypistPress, ModePressed, ControlPressed
    <3>2. ~Refused(k)
      BY <2>1 DEF ModePressed, ControlPressed, Refused
    <3> QED BY <1>a, <2>0, <3>1, <3>2
  <2>2. CASE TextPressed(k)
    <3>1. /\ k \in TextKeys /\ ~controlActive
          /\ tail' = tail /\ Out' = Out
      BY <1>2, <2>2 DEF TypistPress, TextPressed, getterVars
    <3>2. CASE Translate(k) = NUL
      <4>1. UNCHANGED <<ringVars, getterVars>>
        BY <1>2, <2>2, <3>2 DEF TypistPress, TextPressed, ringVars
      <4>2. ~Refused(k)
        BY <3>2 DEF Refused
      <4> QED BY <1>a, <2>0, <4>1, <4>2
    <3>3. CASE Translate(k) # NUL /\ NextSlot(head) # tail
      <4>1. Translate(k) \in Char
        BY <3>1, <3>3, TranslateType
      <4>2. /\ keyBuffer' = [keyBuffer EXCEPT ![head] = Translate(k)]
            /\ head' = NextSlot(head)
        BY <2>2, <3>3 DEF TextPressed
      <4>3. /\ Len(Queue) < BUFFER_SIZE - 1
            /\ Queue' = Append(Queue, Translate(k))
        <5>1. /\ Used(head, tail) < BUFFER_SIZE - 1
              /\ Contents(keyBuffer', NextSlot(head), tail)
                   = Append(Contents(keyBuffer, head, tail), Translate(k))
          <6>1. /\ keyBuffer'[head] = Translate(k)
                /\ \A i \in Slots \ {head} : keyBuffer'[i] = keyBuffer[i]
            BY <4>2 DEF KeyboardTypeOK
          <6> QED BY <1>0, <3>3, <4>1, <6>1, StoreAppends
        <5>2. Len(Queue) = Used(head, tail)
          BY <1>0, QueueIsContents, ContentsType
        <5>3. Queue' = Append(Queue, Translate(k))
          BY <3>1, <4>2, <5>1, QueueIsContents
        <5> QED BY <5>1, <5>2, <5>3
      <4>4. ~Refused(k)
        <5>1. head \in Slots /\ tail \in Slots
          BY DEF KeyboardTypeOK
        <5>2. NextSlot(head) # head
          BY <3>3, <5>1, NextSlotIs, KeyboardAssumption DEF Slots
        <5> QED BY <4>2, <5>2 DEF Refused
      <4>5. Fifo!Press(Translate(k))
        BY <2>0, <3>1, <4>3, <4>4 DEF Fifo!Press
      <4> QED BY <4>1, <4>5 DEF Fifo!Next
    <3>4. CASE Translate(k) # NUL /\ NextSlot(head) = tail
      <4>1. UNCHANGED <<ringVars, getterVars>>
        BY <1>2, <2>2, <3>4 DEF TypistPress, TextPressed, ringVars
      <4>2. Refused(k)
        BY <3>1, <3>4, <4>1 DEF Refused, ringVars
      <4>3. Used(head, tail) = BUFFER_SIZE - 1
        BY <1>0, <3>4, FullRing
      <4>4. Len(Queue) = BUFFER_SIZE - 1
        BY <1>0, <4>3, QueueIsContents, ContentsType
      <4>5. ~(Len(Queue) < BUFFER_SIZE - 1)
        BY <4>4, KeyboardAssumption
      <4>6. Fifo!Press(Translate(k))
        BY <1>a, <2>0, <4>1, <4>2, <4>5 DEF Fifo!Press
      <4>7. Translate(k) \in Char
        BY <3>1, <3>4, TranslateType
      <4> QED BY <4>6, <4>7 DEF Fifo!Next
    <3> QED BY <3>2, <3>3, <3>4
  <2> QED BY <1>2, <2>1, <2>2 DEF TypistPress, KeyPressed
<1>3. ASSUME NEW k \in Keys, TypistRelease(k)
      PROVE  [Fifo!Next]_<<Queue, Out, lost>>
  <2>1. UNCHANGED <<ringVars, getterVars, lost>>
    BY <1>3 DEF TypistRelease, KeyReleased
  <2> QED BY <1>a, <2>1
<1>4. CASE UNCHANGED typistVars
  BY <1>4, <1>a DEF typistVars, keyboardVars, historyVars
<1> QED BY <1>1, <1>2, <1>3, <1>4 DEF TypistNext

(* The keyboard ring, read without a lock, is a bounded first-in first-out *)
(* queue, for every size of the ring.                                      *)
THEOREM KeyboardImplementsFifo == TypistSpec => ImplementsFifo
<1>1. KeyboardTypeOK /\ RingInv /\ [TypistNext]_typistVars
        => [Fifo!Next]_<<Queue, IF gpc = "got" THEN inChar ELSE NUL, lost>>
  BY FifoStep
<1> QED BY <1>1, FifoInit, KeyboardTypeCorrect, RingInvariant, PTL
        DEF TypistSpec, ImplementsFifo, Fifo!Spec

-----------------------------------------------------------------------------
(* The terminal *)

Byte == Char \cup {NUL}

Reading == tpc \in {"poll", "echo", "finish"}
Got     == IF gpc = "got" THEN 1 ELSE 0

Types ==
  /\ stdinBuf \in [StdinSlots -> Byte]
  /\ stdinBufLen \in Nat /\ stdinBufPos \in Nat /\ pos \in Nat
  /\ tpc \in {"idle", "poll", "echo", "finish", "copy", "returned"}
  /\ tpc \notin {"idle", "returned"} => count \in Counts

\* What is set at which point of a read
Places ==
  /\ gpc # "idle" => tpc = "poll"
  /\ tpc \in {"poll", "echo"} => pos <= MaxLine
  /\ tpc = "finish" => pos \in 1 .. MaxLine + 1
  /\ ~Reading => pos = 0
  /\ tpc # "returned" => buf = <<>>
  /\ Reading => ~stdinLineReady
  /\ tpc = "copy" => stdinLineReady
  /\ stdinLineReady => stdinBufPos < stdinBufLen /\ stdinBufLen <= STDIN_BUF_LEN

\* Where a character typed ahead will come to stand: the bound on the typist
\* bounds pos, however many lines are typed ahead.
Bounded ==
  /\ \A i \in 1 .. Len(Queue) : Queue[i] \in Glyph => pos + Got + i <= MaxLine
  /\ gpc = "got" /\ inChar \in Glyph => pos < MaxLine

KeyInv == KeyboardTypeOK /\ RingInv
LineInv == Types /\ Places /\ Bounded

-----------------------------------------------------------------------------
(* Every step is one of the keyboard, with the rest in step. *)
LEMMA NextIsKeyboardStep == [Next]_allVars => KeyboardStep
<1> USE DEF KeyboardStep
<1>1. ASSUME NEW k \in Typed, Press(k) \/ Release(k) PROVE Handled
  <2>1. k \in Keys
    BY TypistAssumption
  <2>2. UNCHANGED getterVars
    BY <1>1 DEF Press, Release
  <2> QED BY <1>1, <2>1, <2>2 DEF Press, Release, Handled
<1>2. ASSUME StartRead \/ StartPrint PROVE UNCHANGED keyboardVars
  BY <1>2 DEF StartRead, Read, StartPrint, Emit
<1>3. ASSUME Main PROVE Getting \/ UNCHANGED keyboardVars
  BY <1>3 DEF Main, ReadStep, EchoStep, PollKey, AcceptNewline, AcceptBackspace, AcceptGlyph,
              Echoed, FinishLine, CopyOut, Returned, Getting
<1>4. ASSUME UNCHANGED allVars PROVE UNCHANGED keyboardVars
  BY <1>4 DEF allVars, vars
<1> QED BY <1>1, <1>2, <1>3, <1>4 DEF Next

(* The keyboard keeps its invariant inside the terminal. *)
LEMMA KeyInvariant == Spec => []KeyInv
<1>1. Init => KeyboardInit
  BY DEF Init
<1> QED BY <1>1, TypeInit, TypeStep, RingInit, RingStep, NextIsKeyboardStep, PTL
        DEF Spec, KeyInv

-----------------------------------------------------------------------------
(* What the keyboard's steps do to the queue *)

(* A key changes the queue only by appending a character it stands for. *)
LEMMA HandlerAppends ==
  ASSUME KeyInv, NEW k \in Keys, KeyPressed(k) \/ KeyReleased(k)
  PROVE  \/ Queue' = Queue
         \/ /\ k \in TextKeys /\ Translate(k) \in Char
            /\ Queue' = Append(Queue, Translate(k))
<1>0. RingOf(keyBuffer, head, tail) /\ keyBuffer \in [Slots -> Byte] /\ head \in Slots
  BY RingIsRingOf DEF KeyInv, KeyboardTypeOK, Byte
<1>1. CASE UNCHANGED ringVars
  BY <1>1 DEF ringVars, Queue, Occupied, RingAt
<1>2. CASE TextPressed(k) /\ Translate(k) # NUL /\ NextSlot(head) # tail
  <2>1. /\ k \in TextKeys /\ tail' = tail /\ head' = NextSlot(head)
        /\ keyBuffer' = [keyBuffer EXCEPT ![head] = Translate(k)]
    BY <1>2 DEF TextPressed
  <2>2. Translate(k) \in Char
    BY <1>2, <2>1, TranslateType
  <2>3. keyBuffer'[head] = Translate(k) /\ \A i \in Slots \ {head} : keyBuffer'[i] = keyBuffer[i]
    BY <1>0, <2>1
  <2>4. Contents(keyBuffer', NextSlot(head), tail)
          = Append(Contents(keyBuffer, head, tail), Translate(k))
    BY <1>0, <1>2, <2>2, <2>3, StoreAppends
  <2> QED BY <2>1, <2>2, <2>4, QueueIsContents
<1>3. CASE TextPressed(k) /\ ~(Translate(k) # NUL /\ NextSlot(head) # tail)
  BY <1>1, <1>3 DEF TextPressed, ringVars
<1>4. CASE ModePressed(k) \/ ControlPressed(k) \/ KeyReleased(k)
  BY <1>1, <1>4 DEF ModePressed, ControlPressed, KeyReleased
<1> QED BY <1>2, <1>3, <1>4 DEF KeyPressed

(* The queue's characters are as many as the slots in use. *)
LEMMA QueueType ==
  ASSUME KeyInv
  PROVE  /\ Queue \in Seq(Char) /\ Len(Queue) = Occupied /\ Occupied \in Nat
<1>1. RingOf(keyBuffer, head, tail)
  BY RingIsRingOf DEF KeyInv
<1>2. Used(head, tail) \in Nat /\ Used(head, tail) = Occupied
  BY <1>1, ContentsType DEF Used, Occupied
<1> QED BY <1>1, <1>2, QueueIsContents, ContentsType

(* Advancing tail takes the character getInput has read. *)
LEMMA AdvanceTakes ==
  ASSUME KeyInv, GetAdvance
  PROVE  Queue # <<>> /\ inChar = Head(Queue) /\ Queue' = Tail(Queue)
<1>1. /\ gpc = "advance" /\ tail' = NextSlot(tail) /\ UNCHANGED <<keyBuffer, head>>
  BY DEF GetAdvance
<1>2. head # tail /\ inChar = keyBuffer[tail] /\ RingOf(keyBuffer, head, tail)
  BY <1>1, RingIsRingOf DEF KeyInv, RingInv
<1> QED BY <1>1, <1>2, QueueIsContents, AdvanceDropsHead

LEMMA QueueKept ==
  ASSUME UNCHANGED ringVars PROVE Queue' = Queue
BY DEF ringVars, Queue, Occupied, RingAt

-----------------------------------------------------------------------------
(* The line's invariant *)

LEMMA Bounds ==
  /\ MaxLine \in Nat /\ STDIN_BUF_LEN \in Nat /\ MaxLine + 2 <= STDIN_BUF_LEN
  /\ StdinSlots = 0 .. STDIN_BUF_LEN - 1
  /\ NL \in Char /\ BS \in Char /\ Glyph \subseteq Char /\ NUL \notin Char
  /\ NL \notin Glyph /\ BS \notin Glyph /\ NL # BS
BY ConsoleAssumption, KeyboardAssumption, TerminalAssumption, TypistAssumption
   DEF StdinSlots, Char, NL, BS

LEMMA SumKept ==
  ASSUME NEW p \in Nat, NEW q \in Nat, NEW g \in Nat, NEW h \in Nat, NEW i \in Nat,
         NEW m \in Nat, q + h <= p + g, p + g + i <= m
  PROVE  q + h + i <= m
OBVIOUS

(* The bound holds as long as no character comes and pos moves only with   *)
(* the character that was taken.                                           *)
LEMMA BoundedKept ==
  ASSUME KeyInv, Types, Bounded, Queue' = Queue, pos' \in Nat, pos' + Got' <= pos + Got,
         gpc' = "got" => gpc = "got" /\ inChar' = inChar /\ pos' = pos
  PROVE  Bounded'
<1>1. pos \in Nat /\ MaxLine \in Nat /\ Got \in Nat /\ Got' \in Nat /\ Len(Queue) \in Nat
  BY Bounds, QueueType DEF Types, Got
<1>2. ASSUME NEW i \in 1 .. Len(Queue), Queue[i] \in Glyph PROVE pos' + Got' + i <= MaxLine
  <2>1. pos + Got + i <= MaxLine
    BY <1>2 DEF Bounded
  <2>2. i \in Nat
    BY <1>1
  <2> QED BY ONLY <1>1, pos' \in Nat, pos' + Got' <= pos + Got, <2>1, <2>2, SumKept
<1>3. gpc' = "got" /\ inChar' \in Glyph => pos' < MaxLine
  BY DEF Bounded
<1> QED BY <1>2, <1>3 DEF Bounded

LEMMA LineInvInit == Init => LineInv
<1> SUFFICES ASSUME Init PROVE LineInv
  OBVIOUS
<1>1. head = 0 /\ tail = 0 /\ gpc = "idle"
  BY DEF Init, KeyboardInit
<1>2. Queue = <<>>
  BY <1>1 DEF Queue, Occupied
<1>3. Types /\ Places
  BY <1>1, Bounds DEF Init, TerminalInit, Types, Places, Byte, Reading
<1> QED BY <1>1, <1>2, <1>3 DEF LineInv, Bounded

(* A key: the typist's bound is what it must be. *)
LEMMA LineInvKey ==
  ASSUME KeyInv, LineInv, NEW k \in Typed, Press(k) \/ Release(k)
  PROVE  LineInv'
<1>1. k \in Keys /\ UNCHANGED <<getterVars, terminalVars>>
  BY TypistAssumption DEF Press, Release
<1>2. UNCHANGED <<gpc, inChar, stdinBuf, stdinBufLen, stdinBufPos, stdinLineReady,
                  tpc, pos, count, buf>>
  BY <1>1 DEF getterVars, terminalVars, stdinVars, callVars
<1>3. Types' /\ Places'
  BY <1>2 DEF LineInv, Types, Places, Reading
<1>4. pos \in Nat /\ Got \in Nat /\ Got' = Got /\ pos' = pos
  BY <1>2 DEF LineInv, Types, Got
<1>5. CASE Queue' = Queue
  <2>1. pos' + Got' <= pos + Got
    BY <1>4
  <2> QED BY <1>2, <1>3, <1>4, <1>5, <2>1, BoundedKept DEF LineInv
<1>6. CASE /\ Queue' # Queue
           /\ k \in TextKeys /\ Translate(k) \in Char
           /\ Queue' = Append(Queue, Translate(k))
  <2>1. /\ Queue \in Seq(Char) /\ Len(Queue) \in Nat /\ Len(Queue) = Occupied
        /\ Len(Queue') = Len(Queue) + 1
        /\ \A i \in 1 .. Len(Queue) : Queue'[i] = Queue[i]
        /\ Queue'[Len(Queue) + 1] = Translate(k)
    BY <1>6, QueueType, AppendProperties
  <2>2. Fits(k)
    <3>1. ~Release(k)
      BY <1>6, QueueKept DEF Release, KeyReleased
    <3> QED BY <3>1 DEF Press
  <2>3. Translate(k) \in Glyph => pos + Len(Queue) + Got < MaxLine
    BY <1>6, <2>1, <2>2 DEF Fits, LineSoFar, Got
  <2>4. ASSUME NEW i \in 1 .. Len(Queue'), Queue'[i] \in Glyph
        PROVE  pos' + Got' + i <= MaxLine
    <3>1. CASE i = Len(Queue) + 1
      <4>1. Translate(k) \in Glyph
        BY <2>1, <2>4, <3>1
      <4>2. pos + Len(Queue) + Got < MaxLine
        BY <2>3, <4>1
      <4>3. Len(Queue) \in Nat /\ MaxLine \in Nat
        BY <2>1, Bounds
      <4> QED BY <1>4, <3>1, <4>2, <4>3
    <3>2. CASE i # Len(Queue) + 1
      <4>1. i \in 1 .. Len(Queue) /\ Queue[i] \in Glyph
        BY <2>1, <2>4, <3>2
      <4> QED BY <1>4, <4>1 DEF LineInv, Bounded
    <3> QED BY <3>1, <3>2
  <2>5. gpc' = "got" /\ inChar' \in Glyph => pos' < MaxLine
    BY <1>2 DEF LineInv, Bounded
  <2> QED BY <1>3, <2>4, <2>5 DEF LineInv, Bounded
<1> QED BY <1>1, <1>5, <1>6, HandlerAppends DEF Press, Release

(* getInput: the character taken keeps its place. *)
LEMMA LineInvPoll ==
  ASSUME KeyInv, LineInv, PollKey
  PROVE  LineInv'
<1>1. /\ tpc = "poll" /\ GetInput
      /\ UNCHANGED <<stdinBuf, stdinBufLen, stdinBufPos, stdinLineReady, tpc, pos, count, buf>>
  BY DEF PollKey, terminalVars, stdinVars, callVars
<1>2. Types' /\ Places'
  BY <1>1 DEF LineInv, Types, Places, Reading
<1>3. pos \in Nat /\ pos' = pos
  BY <1>1 DEF LineInv, Types
<1>4. CASE GetTest \/ GetLoad
  <2>1. gpc # "got" /\ gpc' # "got" /\ Queue' = Queue
    BY <1>4, QueueKept DEF GetTest, GetLoad
  <2>2. Got = 0 /\ Got' = 0
    BY <2>1 DEF Got
  <2>3. pos' + Got' <= pos + Got
    BY <1>3, <2>2
  <2> QED BY <1>2, <1>3, <2>1, <2>3, BoundedKept DEF LineInv
<1>5. CASE GetAdvance
  <2>1. Queue # <<>> /\ inChar = Head(Queue) /\ Queue' = Tail(Queue)
    BY <1>5, AdvanceTakes
  <2>2. /\ Queue \in Seq(Char) /\ Len(Queue) \in Nat
        /\ Len(Queue') = Len(Queue) - 1
        /\ \A i \in 1 .. Len(Queue') : Queue'[i] = Queue[i + 1]
    BY <2>1, QueueType, HeadTailProperties
  <2>3. inChar = Queue[1] /\ Len(Queue) >= 1
    BY <2>1, <2>2
  <2>4. Got = 0 /\ Got' = 1 /\ inChar' = inChar
    BY <1>5 DEF GetAdvance, Got
  <2>5. ASSUME NEW i \in 1 .. Len(Queue'), Queue'[i] \in Glyph
        PROVE  pos' + Got' + i <= MaxLine
    <3>1. i + 1 \in 1 .. Len(Queue) /\ Queue[i + 1] \in Glyph
      BY <2>2, <2>5
    <3>2. pos + Got + (i + 1) <= MaxLine
      BY <3>1 DEF LineInv, Bounded
    <3> QED BY <1>3, <2>4, <3>2, Bounds
  <2>6. ASSUME inChar \in Glyph PROVE pos < MaxLine
    <3>1. pos + Got + 1 <= MaxLine
      BY <2>2, <2>3, <2>6 DEF LineInv, Bounded
    <3> QED BY <1>3, <2>4, <3>1, Bounds
  <2> QED BY <1>2, <1>3, <2>4, <2>5, <2>6 DEF LineInv, Bounded
<1> QED BY <1>1, <1>4, <1>5 DEF GetInput

(* The character is used: it moves pos by one place at most. *)
LEMMA LineInvAccept ==
  ASSUME KeyInv, LineInv, AcceptNewline \/ AcceptBackspace \/ AcceptGlyph
  PROVE  LineInv'
<1> USE DEF LineInv
<1>1. /\ tpc = "poll" /\ gpc = "got" /\ gpc' = "idle"
      /\ UNCHANGED <<stdinBufLen, stdinBufPos, stdinLineReady, count, buf>>
  BY DEF AcceptNewline, AcceptBackspace, AcceptGlyph, GetReturned, stdinVars
<1>2. Queue' = Queue
  BY QueueKept DEF AcceptNewline, AcceptBackspace, AcceptGlyph, GetReturned
<1>3. Got = 1 /\ Got' = 0 /\ pos \in Nat /\ pos <= MaxLine /\ MaxLine \in Nat
  BY <1>1, Bounds DEF Types, Places, Got
<1>4. CASE AcceptNewline
  <2>1. pos' = pos + 1 /\ tpc' = "finish" /\ stdinBuf' = [stdinBuf EXCEPT ![pos] = NL]
    BY <1>4 DEF AcceptNewline
  <2>2. Types'
    BY <1>1, <1>3, <2>1, Bounds DEF Types, Byte
  <2>3. Places'
    BY <1>1, <1>3, <2>1 DEF Places, Reading
  <2>4. pos' \in Nat /\ pos' + Got' <= pos + Got
    BY <1>3, <2>1
  <2> QED BY <1>1, <1>2, <2>2, <2>3, <2>4, BoundedKept
<1>5. CASE AcceptBackspace
  <2>1. /\ pos' = IF pos > 0 THEN pos - 1 ELSE pos
        /\ tpc' \in {"echo", "poll"} /\ stdinBuf' = stdinBuf
    BY <1>1, <1>5 DEF AcceptBackspace, stdinVars
  <2>2. Types'
    BY <1>1, <1>3, <2>1 DEF Types
  <2>3. Places'
    BY <1>1, <1>3, <2>1 DEF Places, Reading
  <2>4. pos' \in Nat /\ pos' + Got' <= pos + Got
    BY <1>3, <2>1
  <2> QED BY <1>1, <1>2, <2>2, <2>3, <2>4, BoundedKept
<1>6. CASE AcceptGlyph
  <2>1. /\ pos' = pos + 1 /\ tpc' = "echo" /\ inChar \in Glyph
        /\ stdinBuf' = [stdinBuf EXCEPT ![pos] = inChar]
    BY <1>6 DEF AcceptGlyph
  <2>2. Types'
    BY <1>1, <1>3, <2>1, Bounds DEF Types, Byte
  <2>3. pos' <= MaxLine
    BY <1>1, <1>3, <2>1 DEF Bounded
  <2>4. Places'
    BY <1>1, <2>1, <2>3 DEF Places, Reading
  <2>5. pos' \in Nat /\ pos' + Got' <= pos + Got
    BY <1>3, <2>1
  <2> QED BY <1>1, <1>2, <2>2, <2>4, <2>5, BoundedKept
<1> QED BY <1>4, <1>5, <1>6

(* The steps that leave keyboard and ring alone *)
LEMMA LineInvRest ==
  ASSUME KeyInv, LineInv, UNCHANGED keyboardVars,
         \/ StartRead \/ Echoed \/ FinishLine \/ CopyOut \/ Returned
         \/ UNCHANGED terminalVars
  PROVE  LineInv'
<1> USE DEF LineInv
<1>1. UNCHANGED <<gpc, inChar>> /\ Queue' = Queue /\ Got' = Got
  BY QueueKept DEF keyboardVars, getterVars, Got
<1>2. /\ pos \in Nat /\ Got \in Nat
      /\ stdinBufPos \in Nat /\ stdinBufLen \in Nat
  BY DEF Types, Got
<1>3. ASSUME Types', Places', pos' = pos \/ (pos' = 0 /\ gpc = "idle") PROVE LineInv'
  <2>1. pos' \in Nat /\ pos' + Got' <= pos + Got
    BY <1>1, <1>2, <1>3
  <2>2. gpc' = "got" => gpc = "got" /\ inChar' = inChar /\ pos' = pos
    BY <1>1, <1>3
  <2> QED BY <1>1, <1>3, <2>1, <2>2, BoundedKept
<1>4. CASE StartRead
  <2>1. PICK n \in Counts : Read(n)
    BY <1>4 DEF StartRead
  <2>2. /\ tpc = "idle" /\ count' = n
        /\ tpc' = IF stdinLineReady THEN "copy" ELSE "poll"
        /\ UNCHANGED <<stdinBuf, stdinBufLen, stdinBufPos, stdinLineReady, pos, buf>>
    BY <2>1 DEF Read, stdinVars
  <2>3. Types'
    BY <2>2 DEF Types
  <2>4. Places'
    BY <1>1, <2>2, Bounds DEF Places, Reading
  <2> QED BY <1>3, <2>2, <2>3, <2>4
<1>5. CASE Echoed
  <2>1. /\ tpc = "echo" /\ tpc' = "poll"
        /\ UNCHANGED <<stdinBuf, stdinBufLen, stdinBufPos, stdinLineReady, pos, count, buf>>
    BY <1>5 DEF Echoed, stdinVars
  <2>2. Types'
    BY <2>1 DEF Types
  <2>3. Places'
    BY <1>1, <2>1 DEF Places, Reading
  <2> QED BY <1>3, <2>1, <2>2, <2>3
<1>6. CASE FinishLine
  <2>1. /\ tpc = "finish" /\ tpc' = "copy" /\ stdinLineReady' /\ stdinBufLen' = pos
        /\ stdinBufPos' = 0 /\ pos' = 0
        /\ stdinBuf' = [stdinBuf EXCEPT ![pos] = NUL] /\ UNCHANGED <<count, buf>>
    BY <1>6 DEF FinishLine
  <2>2. pos \in 1 .. MaxLine + 1 /\ gpc = "idle"
    BY <2>1 DEF Places
  <2>3. Types'
    BY <1>2, <2>1 DEF Types, Byte
  <2>4. Places'
    BY <1>1, <2>1, <2>2, Bounds DEF Places, Reading
  <2> QED BY <1>3, <2>1, <2>2, <2>3, <2>4
<1>7. CASE CopyOut
  <2> DEFINE copied == IF count > stdinBufLen - stdinBufPos THEN stdinBufLen - stdinBufPos
                       ELSE count
  <2>1. /\ tpc = "copy" /\ tpc' = "returned"
        /\ stdinBufPos' = stdinBufPos + copied
        /\ stdinLineReady' => stdinBufPos + copied < stdinBufLen
        /\ UNCHANGED <<stdinBuf, stdinBufLen, pos, count>>
    BY <1>7 DEF CopyOut
  <2>2. count \in Nat /\ stdinBufPos < stdinBufLen /\ stdinBufLen <= STDIN_BUF_LEN
    BY <2>1, TerminalAssumption DEF Types, Places
  <2>3. copied \in Nat
    BY <1>2, <2>2
  <2>4. Types'
    BY <1>2, <2>1, <2>3 DEF Types
  <2>5. Places'
    BY <1>1, <2>1, <2>2 DEF Places, Reading
  <2> QED BY <1>3, <2>1, <2>4, <2>5
<1>8. CASE Returned
  <2>1. /\ tpc = "returned" /\ tpc' = "idle" /\ buf' = <<>>
        /\ UNCHANGED <<stdinBuf, stdinBufLen, stdinBufPos, stdinLineReady, pos>>
    BY <1>8 DEF Returned, stdinVars
  <2>2. Types'
    BY <2>1 DEF Types
  <2>3. Places'
    BY <1>1, <2>1 DEF Places, Reading
  <2> QED BY <1>3, <2>1, <2>2, <2>3
<1>9. CASE UNCHANGED terminalVars
  <2>1. UNCHANGED <<stdinBuf, stdinBufLen, stdinBufPos, stdinLineReady, tpc, pos, count, buf>>
    BY <1>9 DEF terminalVars, stdinVars, callVars
  <2>2. Types'
    BY <2>1 DEF Types
  <2>3. Places'
    BY <1>1, <2>1 DEF Places, Reading
  <2> QED BY <1>3, <2>1, <2>2, <2>3
<1> QED BY <1>4, <1>5, <1>6, <1>7, <1>8, <1>9

(* The steps, by what they leave alone *)
LEMMA Steps ==
  ASSUME [Next]_allVars
  PROVE  \/ \E k \in Typed : Press(k) \/ Release(k)
         \/ PollKey
         \/ AcceptNewline \/ AcceptBackspace \/ AcceptGlyph
         \/ /\ UNCHANGED keyboardVars
            /\ \/ StartRead \/ Echoed \/ FinishLine \/ CopyOut \/ Returned
               \/ UNCHANGED terminalVars
<1>1. CASE UNCHANGED allVars
  BY <1>1 DEF allVars, vars
<1>2. CASE StartRead
  BY <1>2 DEF StartRead, Read
<1>3. CASE StartPrint
  BY <1>3 DEF StartPrint, Emit
<1>4. CASE Main
  BY <1>4 DEF Main, ReadStep, EchoStep, Echoed, FinishLine, CopyOut, Returned
<1> QED BY <1>1, <1>2, <1>3, <1>4 DEF Next

LEMMA LineInvStep == KeyInv /\ LineInv /\ [Next]_allVars => LineInv'
BY Steps, LineInvKey, LineInvPoll, LineInvAccept, LineInvRest

(* The line being edited, what getInput has taken and what is typed ahead  *)
(* stay within the bound on a line, and a line is ready exactly where the  *)
(* code takes it for ready (syscalls.c:82-133).                            *)
THEOREM LineInvariant == Spec => []LineInv
BY KeyInvariant, LineInvInit, LineInvStep, PTL DEF Spec

-----------------------------------------------------------------------------
(* Pieces of the buffer *)
Piece(b, from, to) == [i \in 1 .. to - from |-> b[from + i - 1]]

LEMMA PieceType ==
  ASSUME NEW b \in [StdinSlots -> Byte], NEW from \in Nat, NEW to \in Nat,
         to <= STDIN_BUF_LEN, from <= to
  PROVE  /\ Piece(b, from, to) \in Seq(Byte)
         /\ Piece(b, from, to) \in [1 .. to - from -> Byte]
         /\ Len(Piece(b, from, to)) = to - from
         /\ \A i \in 1 .. to - from : Piece(b, from, to)[i] = b[from + i - 1]
<1>1. ASSUME NEW i \in 1 .. to - from PROVE b[from + i - 1] \in Byte
  <2>1. from + i - 1 \in StdinSlots
    BY Bounds
  <2> QED BY <2>1
<1>2. Piece(b, from, to) \in [1 .. to - from -> Byte]
  BY <1>1 DEF Piece
<1>3. to - from \in Nat
  OBVIOUS
<1>4. \A i \in 1 .. to - from : Piece(b, from, to)[i] = b[from + i - 1]
  BY DEF Piece
<1>5. Len(Piece(b, from, to)) = to - from
  BY <1>2, <1>3
<1>6. Piece(b, from, to) \in Seq(Byte)
  BY <1>2, <1>3, SeqDef
<1> QED BY <1>2, <1>4, <1>5, <1>6

(* Storing a byte behind a piece appends it. *)
LEMMA PieceGrows ==
  ASSUME NEW b \in [StdinSlots -> Byte], NEW n \in Nat, n < STDIN_BUF_LEN, NEW c \in Byte
  PROVE  Piece([b EXCEPT ![n] = c], 0, n + 1) = Append(Piece(b, 0, n), c)
<1> DEFINE d == [b EXCEPT ![n] = c]
           u == Piece(d, 0, n + 1)
           v == Append(Piece(b, 0, n), c)
<1>1. n \in StdinSlots /\ n + 1 <= STDIN_BUF_LEN /\ n <= STDIN_BUF_LEN
  BY Bounds
<1>2. d \in [StdinSlots -> Byte] /\ d[n] = c /\ \A i \in StdinSlots \ {n} : d[i] = b[i]
  BY <1>1
<1>3. /\ u \in [1 .. n + 1 -> Byte]
      /\ \A i \in 1 .. n + 1 : u[i] = d[i - 1]
  <2> HIDE DEF d
  <2> QED BY <1>1, <1>2, PieceType
<1>4. /\ v \in Seq(Byte) /\ Len(v) = n + 1 /\ v[n + 1] = c
      /\ \A i \in 1 .. n : v[i] = b[i - 1]
  <2>1. /\ Piece(b, 0, n) \in Seq(Byte) /\ Len(Piece(b, 0, n)) = n
        /\ \A i \in 1 .. n : Piece(b, 0, n)[i] = b[i - 1]
    BY <1>1, PieceType
  <2> QED BY <2>1, AppendProperties
<1>5. ASSUME NEW i \in 1 .. n + 1 PROVE u[i] = v[i]
  <2>1. CASE i = n + 1
    <3>1. i - 1 = n
      BY <2>1
    <3>2. u[i] = d[n]
      BY <1>3, <3>1
    <3> QED BY <1>2, <1>4, <2>1, <3>2
  <2>2. CASE i # n + 1
    <3>1. i \in 1 .. n /\ i - 1 \in StdinSlots \ {n}
      BY <1>1, <2>2, Bounds
    <3>2. u[i] = d[i - 1]
      BY <1>3
    <3>3. v[i] = b[i - 1]
      BY <1>4, <3>1
    <3>4. d[i - 1] = b[i - 1]
      BY <1>2, <3>1
    <3> QED BY <3>2, <3>3, <3>4
  <2> QED BY <2>1, <2>2
<1>6. n + 1 \in Nat
  OBVIOUS
<1> HIDE DEF u, v
<1>7. u = v
  BY <1>3, <1>4, <1>5, <1>6, SameSequence
<1> QED BY <1>7 DEF u, v

(* A piece cut in two *)
LEMMA PieceCut ==
  ASSUME NEW b \in [StdinSlots -> Byte], NEW from \in Nat, NEW m \in Nat, NEW to \in Nat,
         from <= m, m <= to, to <= STDIN_BUF_LEN
  PROVE  /\ SubSeq(Piece(b, from, to), 1, m - from) = Piece(b, from, m)
         /\ SubSeq(Piece(b, from, to), m - from + 1, to - from) = Piece(b, m, to)
<1> DEFINE w == Piece(b, from, to)
<1>1. /\ w \in Seq(Byte) /\ Len(w) = to - from
      /\ \A i \in 1 .. to - from : w[i] = b[from + i - 1] /\ w[i] \in Byte
  <2>1. from <= to
    OBVIOUS
  <2>2. /\ w \in Seq(Byte) /\ w \in [1 .. to - from -> Byte] /\ Len(w) = to - from
        /\ \A i \in 1 .. to - from : w[i] = b[from + i - 1]
    BY <2>1, PieceType
  <2> HIDE DEF w
  <2> QED BY <2>2
<1>2. /\ Piece(b, from, m) \in [1 .. m - from -> Byte]
      /\ \A i \in 1 .. m - from : Piece(b, from, m)[i] = b[from + i - 1]
  <2>1. m <= STDIN_BUF_LEN
    BY Bounds
  <2> QED BY <2>1, PieceType
<1>3. /\ Piece(b, m, to) \in [1 .. to - m -> Byte]
      /\ \A i \in 1 .. to - m : Piece(b, m, to)[i] = b[m + i - 1]
  BY PieceType
<1> HIDE DEF w
<1>4. SubSeq(w, 1, m - from) = Piece(b, from, m)
  <2> DEFINE v == SubSeq(w, 1, m - from)
  <2>1. \A i \in 1 .. m - from : w[i] \in Byte
    BY <1>1
  <2>2. /\ v \in Seq(Byte) /\ Len(v) = m - from
        /\ \A i \in 1 .. m - from : v[i] = w[i]
    BY <2>1, SubSeqProperties
  <2> HIDE DEF v
  <2>3. ASSUME NEW i \in 1 .. m - from PROVE Piece(b, from, m)[i] = v[i]
    <3>1. i \in 1 .. to - from
      OBVIOUS
    <3>2. v[i] = w[i]
      BY <2>2
    <3>3. w[i] = b[from + i - 1]
      BY <1>1, <3>1
    <3> QED BY <1>2, <3>2, <3>3
  <2>4. m - from \in Nat
    OBVIOUS
  <2>5. Piece(b, from, m) = v
    BY <1>2, <2>2, <2>3, <2>4, SameSequence
  <2> QED BY <2>5 DEF v
<1>5. SubSeq(w, m - from + 1, to - from) = Piece(b, m, to)
  <2> DEFINE v == SubSeq(w, m - from + 1, to - from)
  <2>1. \A i \in m - from + 1 .. to - from : w[i] \in Byte
    BY <1>1
  <2>2. /\ v \in Seq(Byte) /\ Len(v) = to - m
        /\ \A i \in 1 .. to - m : v[i] = w[m - from + i]
    BY <2>1, SubSeqProperties
  <2> HIDE DEF v
  <2>3. ASSUME NEW i \in 1 .. to - m PROVE Piece(b, m, to)[i] = v[i]
    <3>1. m - from + i \in 1 .. to - from /\ from + (m - from + i) - 1 = m + i - 1
      OBVIOUS
    <3>2. v[i] = w[m - from + i]
      BY <2>2
    <3>3. w[m - from + i] = b[m + i - 1]
      BY <1>1, <3>1
    <3> QED BY <1>3, <3>2, <3>3
  <2>4. to - m \in Nat
    OBVIOUS
  <2>5. Piece(b, m, to) = v
    BY <1>3, <2>2, <2>3, <2>4, SameSequence
  <2> QED BY <2>5 DEF v
<1> QED BY <1>4, <1>5 DEF w

-----------------------------------------------------------------------------
(* The line discipline *)
Out    == IF gpc = "got" THEN inChar ELSE NUL
Mapped == <<Queue, Out, Line, Ready, buf>>

LEMMA LineIs ==
  /\ Line = IF tpc \in {"poll", "echo"} THEN Piece(stdinBuf, 0, pos) ELSE <<>>
  /\ Ready = IF tpc = "finish" THEN Piece(stdinBuf, 0, pos)
             ELSE IF stdinLineReady THEN Piece(stdinBuf, stdinBufPos, stdinBufLen)
             ELSE <<>>
  /\ Line' = IF tpc' \in {"poll", "echo"} THEN Piece(stdinBuf', 0, pos') ELSE <<>>
  /\ Ready' = IF tpc' = "finish" THEN Piece(stdinBuf', 0, pos')
              ELSE IF stdinLineReady' THEN Piece(stdinBuf', stdinBufPos', stdinBufLen')
              ELSE <<>>
<1>1. /\ Bytes(0, pos) = Piece(stdinBuf, 0, pos)
      /\ Bytes(stdinBufPos, stdinBufLen) = Piece(stdinBuf, stdinBufPos, stdinBufLen)
  BY DEF Bytes, Piece
<1>2. /\ Bytes(0, pos)' = Piece(stdinBuf', 0, pos')
      /\ Bytes(stdinBufPos, stdinBufLen)' = Piece(stdinBuf', stdinBufPos', stdinBufLen')
  BY DEF Bytes, Piece
<1>3. /\ Line = IF tpc \in {"poll", "echo"} THEN Bytes(0, pos) ELSE <<>>
      /\ Line' = IF tpc' \in {"poll", "echo"} THEN Bytes(0, pos)' ELSE <<>>
  BY DEF Line
<1>4. Ready = IF tpc = "finish" THEN Bytes(0, pos)
              ELSE IF stdinLineReady THEN Bytes(stdinBufPos, stdinBufLen) ELSE <<>>
  BY DEF Ready
<1>5. Ready' = IF tpc' = "finish" THEN Bytes(0, pos)'
               ELSE IF stdinLineReady' THEN Bytes(stdinBufPos, stdinBufLen)' ELSE <<>>
  BY DEF Ready
<1> QED BY <1>1, <1>2, <1>3, <1>4, <1>5

LEMMA EmptyPiece == ASSUME NEW b, NEW n \in Nat PROVE Piece(b, n, n) = <<>>
BY DEF Piece

\* What is left alone when the main thread does something else
LEMMA Unmoved ==
  ASSUME UNCHANGED terminalVars
  PROVE  UNCHANGED <<Line, Ready, buf>>
BY DEF terminalVars, stdinVars, callVars, Line, Ready, Bytes

LEMMA DisciplineInit == Init => Discipline!Init
<1> SUFFICES ASSUME Init PROVE Discipline!Init
  OBVIOUS
<1>1. head = 0 /\ tail = 0 /\ gpc = "idle"
  BY DEF Init, KeyboardInit
<1>2. Queue = <<>>
  BY <1>1 DEF Queue, Occupied
<1>3. Line = <<>> /\ Ready = <<>> /\ buf = <<>>
  BY DEF Init, TerminalInit, Line, Ready
<1> QED BY <1>1, <1>2, <1>3 DEF Discipline!Init

(* A key arrives, or none does. *)
LEMMA KeyArrives ==
  ASSUME KeyInv, NEW k \in Typed, Press(k) \/ Release(k)
  PROVE  Discipline!Arrive \/ UNCHANGED Mapped
<1>1. k \in Keys /\ UNCHANGED <<getterVars, terminalVars>>
  BY TypistAssumption DEF Press, Release
<1>2. UNCHANGED <<Out, Line, Ready, buf>>
  BY <1>1, Unmoved DEF getterVars, Out
<1>3. CASE Queue' = Queue
  BY <1>2, <1>3 DEF Mapped
<1>4. CASE Translate(k) \in Char /\ Queue' = Append(Queue, Translate(k))
  BY <1>2, <1>4 DEF Discipline!Arrive, Out
<1> QED BY <1>1, <1>3, <1>4, HandlerAppends DEF Press, Release

(* getInput takes the first character when it advances tail. *)
LEMMA PollTakes ==
  ASSUME KeyInv, LineInv, PollKey
  PROVE  Discipline!Take \/ UNCHANGED Mapped
<1>1. tpc = "poll" /\ GetInput /\ UNCHANGED terminalVars
  BY DEF PollKey
<1>2. UNCHANGED <<Line, Ready, buf>>
  BY <1>1, Unmoved
<1>3. CASE GetTest \/ GetLoad
  <2>1. Queue' = Queue
    BY <1>3, QueueKept DEF GetTest, GetLoad
  <2>2. Out' = Out
    BY <1>3 DEF GetTest, GetLoad, Out
  <2> QED BY <1>2, <2>1, <2>2 DEF Mapped
<1>4. CASE GetAdvance
  <2>1. Queue # <<>> /\ inChar = Head(Queue) /\ Queue' = Tail(Queue)
    BY <1>4, AdvanceTakes
  <2>2. Out = NUL /\ Out' = inChar
    BY <1>4 DEF GetAdvance, Out
  <2>3. Ready = <<>>
    BY <1>1, LineIs DEF LineInv, Places, Reading
  <2> QED BY <1>2, <2>1, <2>2, <2>3 DEF Discipline!Take, Out
<1> QED BY <1>1, <1>3, <1>4 DEF GetInput

(* The three cases of readStdinLine's loop edit the line. *)
LEMMA AcceptEdits ==
  ASSUME KeyInv, LineInv, AcceptNewline \/ AcceptBackspace \/ AcceptGlyph
  PROVE  Discipline!Edit
<1> USE DEF LineInv
<1>1. /\ tpc = "poll" /\ gpc = "got" /\ gpc' = "idle"
      /\ UNCHANGED <<stdinBufLen, stdinBufPos, buf>>
      /\ stdinLineReady' = stdinLineReady
  BY DEF AcceptNewline, AcceptBackspace, AcceptGlyph, GetReturned, stdinVars
<1>2. Queue' = Queue
  BY QueueKept DEF AcceptNewline, AcceptBackspace, AcceptGlyph, GetReturned
<1>3. Out = inChar /\ Out # NUL /\ Out' = NUL
  BY <1>1, Bounds DEF Out, KeyInv, RingInv
<1>4. ~stdinLineReady /\ ~stdinLineReady'
  BY <1>1 DEF Places, Reading
<1>5. Line = Piece(stdinBuf, 0, pos) /\ Ready = <<>>
  BY <1>1, <1>4, LineIs
<1>6. /\ pos \in Nat /\ pos < STDIN_BUF_LEN /\ stdinBuf \in [StdinSlots -> Byte]
      /\ pos <= STDIN_BUF_LEN /\ 0 <= pos
  BY <1>1, Bounds DEF Types, Places
<1>7. Len(Line) = pos
  BY <1>5, <1>6, PieceType
<1>8. CASE AcceptNewline
  <2>1. /\ inChar = NL /\ pos' = pos + 1 /\ tpc' = "finish"
        /\ stdinBuf' = [stdinBuf EXCEPT ![pos] = NL]
    BY <1>8 DEF AcceptNewline
  <2>2. Line' = <<>> /\ Ready' = Piece(stdinBuf', 0, pos')
    BY <2>1, LineIs
  <2>3. Ready' = Append(Line, NL)
    <3>1. pos \in Nat /\ pos < STDIN_BUF_LEN /\ NL \in Byte
      BY <1>5, <1>6, <2>1, Bounds DEF Byte
    <3>2. Piece([stdinBuf EXCEPT ![pos] = NL], 0, pos + 1) = Append(Piece(stdinBuf, 0, pos), NL)
      BY <1>5, <1>6, <3>1, PieceGrows
    <3> QED BY <1>5, <1>6, <2>1, <2>2, <3>2
  <2> QED BY <1>1, <1>2, <1>3, <2>1, <2>2, <2>3, Bounds DEF Discipline!Edit, Out
<1>9. CASE AcceptBackspace
  <2>1. /\ inChar = BS /\ pos' = IF pos > 0 THEN pos - 1 ELSE pos
        /\ tpc' \in {"echo", "poll"} /\ stdinBuf' = stdinBuf
    BY <1>1, <1>9 DEF AcceptBackspace, stdinVars
  <2>2. Line' = Piece(stdinBuf, 0, pos') /\ Ready' = Ready
    BY <1>4, <1>5, <2>1, LineIs
  <2>3. Line' = SubSeq(Line, 1, Len(Line) - 1)
    <3>1. CASE pos = 0
      <4>1. pos' = 0 /\ Line' = <<>>
        BY <2>1, <2>2, <3>1, EmptyPiece
      <4>2. Len(Line) - 1 = -1
        BY <1>7, <3>1
      <4>3. SubSeq(Line, 1, -1) = <<>>
        BY SubSeqEmpty
      <4> QED BY <4>1, <4>2, <4>3
    <3>2. CASE pos > 0
      <4>1. pos - 1 \in Nat /\ 0 <= pos - 1 /\ pos - 1 <= pos /\ (pos - 1) - 0 = pos - 1
        BY <1>6, <3>2
      <4>2. SubSeq(Piece(stdinBuf, 0, pos), 1, (pos - 1) - 0) = Piece(stdinBuf, 0, pos - 1)
        BY <1>6, <4>1, PieceCut
      <4> QED BY <1>5, <1>7, <2>1, <2>2, <3>2, <4>1, <4>2
    <3> QED BY <1>6, <3>1, <3>2
  <2> QED BY <1>1, <1>2, <1>3, <2>1, <2>2, <2>3, Bounds DEF Discipline!Edit, Out
<1>10. CASE AcceptGlyph
  <2>1. /\ inChar \in Glyph /\ pos' = pos + 1 /\ tpc' = "echo"
        /\ stdinBuf' = [stdinBuf EXCEPT ![pos] = inChar]
    BY <1>10 DEF AcceptGlyph
  <2>2. Line' = Piece(stdinBuf', 0, pos') /\ Ready' = Ready
    BY <1>4, <1>5, <2>1, LineIs
  <2>3. Line' = Append(Line, inChar)
    <3>1. inChar \in Byte
      BY <2>1, Bounds DEF Byte
    <3> QED BY <1>5, <1>6, <2>1, <2>2, <3>1, PieceGrows
  <2>4. inChar # NL /\ inChar # BS
    BY <2>1, Bounds
  <2> QED BY <1>1, <1>2, <1>3, <2>2, <2>3, <2>4 DEF Discipline!Edit, Out
<1> QED BY <1>8, <1>9, <1>10

(* A read copies out what it asked for, or what is left of the line. *)
LEMMA CopyDelivers ==
  ASSUME LineInv, UNCHANGED keyboardVars, CopyOut
  PROVE  count \in Counts /\ Discipline!Deliver(count)
<1> USE DEF LineInv
<1> DEFINE left   == stdinBufLen - stdinBufPos
           copied == IF count > left THEN left ELSE count
<1>1. /\ tpc = "copy" /\ tpc' = "returned"
      /\ buf' = Bytes(stdinBufPos, stdinBufPos + copied)
      /\ stdinBufPos' = stdinBufPos + copied
      /\ UNCHANGED <<stdinBuf, stdinBufLen, pos, count>>
  BY DEF CopyOut
<1>2. /\ stdinLineReady' => stdinBufPos + copied < stdinBufLen
      /\ stdinBufPos + copied < stdinBufLen => stdinLineReady'
  BY DEF CopyOut
<1>3. /\ count \in Counts /\ count \in Nat /\ buf = <<>>
      /\ stdinLineReady /\ stdinBufPos \in Nat /\ stdinBufLen \in Nat
      /\ stdinBufPos < stdinBufLen /\ stdinBufLen <= STDIN_BUF_LEN
      /\ stdinBuf \in [StdinSlots -> Byte]
  BY <1>1, TerminalAssumption DEF Types, Places
<1>4. /\ Line = <<>> /\ Line' = <<>>
      /\ Ready = Piece(stdinBuf, stdinBufPos, stdinBufLen)
  BY <1>1, <1>3, LineIs
<1>5. Len(Ready) = left /\ Ready # <<>>
  <2>1. Len(Ready) = left /\ left > 0
    BY <1>3, <1>4, PieceType
  <2> QED BY <2>1
<1>6. UNCHANGED <<Queue, Out>>
  BY QueueKept DEF keyboardVars, getterVars, Out
<1> DEFINE m == stdinBufPos + copied
<1>7. copied \in Nat /\ m \in Nat /\ stdinBufPos <= m /\ m <= stdinBufLen
      /\ m - stdinBufPos = copied
  BY <1>3
<1>8. /\ SubSeq(Ready, 1, copied) = Piece(stdinBuf, stdinBufPos, m)
      /\ SubSeq(Ready, copied + 1, left) = Piece(stdinBuf, m, stdinBufLen)
  <2>1. /\ stdinBufPos \in Nat /\ stdinBufLen \in Nat /\ stdinBufLen <= STDIN_BUF_LEN
        /\ stdinBuf \in [StdinSlots -> Byte]
    BY <1>3
  <2>2. m \in Nat /\ stdinBufPos <= m /\ m <= stdinBufLen
    BY <1>7
  <2> HIDE DEF m
  <2>3. LET w == Piece(stdinBuf, stdinBufPos, stdinBufLen)
        IN  /\ SubSeq(w, 1, m - stdinBufPos) = Piece(stdinBuf, stdinBufPos, m)
            /\ SubSeq(w, m - stdinBufPos + 1, stdinBufLen - stdinBufPos)
                 = Piece(stdinBuf, m, stdinBufLen)
    BY ONLY <2>1, <2>2, PieceCut
  <2>4. Ready = Piece(stdinBuf, stdinBufPos, stdinBufLen)
    BY <1>4
  <2>5. m - stdinBufPos = copied
    BY <1>7
  <2> QED BY ONLY <2>3, <2>4, <2>5
<1>9. buf' = SubSeq(Ready, 1, copied)
  BY <1>1, <1>8 DEF Bytes, Piece
<1>10. Ready' = SubSeq(Ready, copied + 1, left)
  <2>1. CASE m < stdinBufLen
    BY <1>1, <1>2, <1>8, <2>1, LineIs
  <2>2. CASE ~(m < stdinBufLen)
    <3>1. m = stdinBufLen
      BY <1>3, <1>7, <2>2
    <3>2. Piece(stdinBuf, m, stdinBufLen) = <<>>
      BY <1>3, <3>1, EmptyPiece
    <3>3. ~stdinLineReady'
      BY <1>2, <2>2
    <3>4. Ready' = <<>>
      BY <1>1, <3>3, LineIs
    <3> QED BY <1>8, <3>2, <3>4
  <2> QED BY <2>1, <2>2
<1> HIDE DEF m
<1>11. copied = IF count > Len(Ready) THEN Len(Ready) ELSE count
  BY <1>5
<1> HIDE DEF copied, left
<1> QED BY <1>3, <1>4, <1>5, <1>6, <1>9, <1>10, <1>11 DEF Discipline!Deliver, Out

(* Starting a read, going on after an echo and finishing the line change   *)
(* nothing that the line discipline sees.                                  *)
LEMMA OthersStutter ==
  ASSUME LineInv, LineInv', UNCHANGED keyboardVars, StartRead \/ Echoed \/ FinishLine
  PROVE  UNCHANGED Mapped
<1> USE DEF LineInv
<1>1. UNCHANGED <<Queue, Out>>
  BY QueueKept DEF keyboardVars, getterVars, Out
<1>2. CASE StartRead
  <2>1. PICK n \in Counts : Read(n)
    BY <1>2 DEF StartRead
  <2>2. /\ tpc = "idle" /\ tpc' \in {"copy", "poll"}
        /\ UNCHANGED <<stdinBuf, stdinBufLen, stdinBufPos, pos, buf>>
        /\ stdinLineReady' = stdinLineReady
    BY <2>1 DEF Read, stdinVars
  <2>3. pos = 0 /\ pos' = 0
    BY <2>2 DEF Places, Reading
  <2>4. Line = <<>> /\ Line' = <<>>
    BY <2>2, <2>3, LineIs, EmptyPiece
  <2>5. Ready' = Ready
    BY <2>2, LineIs
  <2> QED BY <1>1, <2>2, <2>4, <2>5 DEF Mapped
<1>3. CASE Echoed
  <2>1. /\ tpc = "echo" /\ tpc' = "poll"
        /\ UNCHANGED <<stdinBuf, stdinBufLen, stdinBufPos, pos, buf>>
        /\ stdinLineReady' = stdinLineReady
    BY <1>3 DEF Echoed, stdinVars
  <2> QED BY <1>1, <2>1, LineIs DEF Mapped
<1>4. CASE FinishLine
  <2>1. /\ tpc = "finish" /\ tpc' = "copy" /\ stdinLineReady' /\ stdinBufLen' = pos
        /\ stdinBufPos' = 0 /\ stdinBuf' = [stdinBuf EXCEPT ![pos] = NUL] /\ buf' = buf
    BY <1>4 DEF FinishLine
  <2>2. Line = <<>> /\ Line' = <<>> /\ Ready = Piece(stdinBuf, 0, pos)
        /\ Ready' = Piece(stdinBuf', 0, pos)
    BY <2>1, LineIs
  <2>3. pos \in Nat /\ pos \in StdinSlots /\ stdinBuf \in [StdinSlots -> Byte]
    BY <2>1, Bounds DEF Types, Places
  <2>4. ASSUME NEW i \in 1 .. pos PROVE stdinBuf'[0 + i - 1] = stdinBuf[0 + i - 1]
    <3>1. 0 + i - 1 \in StdinSlots /\ 0 + i - 1 # pos
      BY <2>3, Bounds
    <3> QED BY <2>1, <2>3, <3>1
  <2>5. Ready' = Ready
    BY <2>2, <2>3, <2>4 DEF Piece
  <2> QED BY <1>1, <2>1, <2>2, <2>5 DEF Mapped
<1> QED BY <1>2, <1>3, <1>4

(* Every step of the terminal is one of the line discipline, or none. *)
LEMMA DisciplineStep ==
  ASSUME KeyInv, LineInv, LineInv', [Next]_allVars
  PROVE  [Discipline!Next]_Mapped
<1>1. CASE \E k \in Typed : Press(k) \/ Release(k)
  BY <1>1, KeyArrives DEF Discipline!Next
<1>2. CASE PollKey
  BY <1>2, PollTakes DEF Discipline!Next
<1>3. CASE AcceptNewline \/ AcceptBackspace \/ AcceptGlyph
  BY <1>3, AcceptEdits DEF Discipline!Next
<1>4. CASE UNCHANGED keyboardVars /\ CopyOut
  BY <1>4, CopyDelivers DEF Discipline!Next
<1>5. CASE UNCHANGED keyboardVars /\ Returned
  <2>1. UNCHANGED <<Queue, Out>>
    BY <1>5, QueueKept DEF keyboardVars, getterVars, Out
  <2>2. /\ tpc = "returned" /\ tpc' = "idle" /\ buf' = <<>>
        /\ UNCHANGED <<stdinBuf, stdinBufLen, stdinBufPos, pos>>
        /\ stdinLineReady' = stdinLineReady
    BY <1>5 DEF Returned, stdinVars
  <2>3. UNCHANGED <<Line, Ready>>
    BY <2>2, LineIs
  <2> QED BY <2>1, <2>2, <2>3 DEF Discipline!Used, Discipline!Next, Out
<1>6. CASE UNCHANGED keyboardVars /\ (StartRead \/ Echoed \/ FinishLine)
  BY <1>6, OthersStutter
<1>7. CASE UNCHANGED keyboardVars /\ UNCHANGED terminalVars
  BY <1>7, QueueKept, Unmoved DEF keyboardVars, getterVars, Mapped, Out
<1> QED BY <1>1, <1>2, <1>3, <1>4, <1>5, <1>6, <1>7, Steps

(* Typing ahead, editing, echoing and reading in pieces of any size are    *)
(* the line discipline, for every ring, buffer and screen, and with Ctrl+L *)
(* at any moment: no character is lost, repeated, reordered or moved to    *)
(* another line, and no read is empty (syscalls.c:82-133, io.c:136-153).   *)
THEOREM TerminalIsLineDiscipline == Spec => ImplementsLineDiscipline
<1>1. KeyInv /\ LineInv /\ LineInv' /\ [Next]_allVars
        => [Discipline!Next]_<<Queue, IF gpc = "got" THEN inChar ELSE NUL, Line, Ready, buf>>
  BY DisciplineStep DEF Mapped, Out
<1> QED BY <1>1, KeyInvariant, LineInvariant, DisciplineInit, PTL
        DEF Spec, ImplementsLineDiscipline, Discipline!Spec, Discipline!vars


-----------------------------------------------------------------------------
(* The echo *)

\* The end of the line being read stands in front of a position of some cells,
LineShown(at, cells) ==
  \A i \in 1 .. pos : at - i \in Cells => cells[at - i] = stdinBuf[pos - i]

\* ... in front of it what the read found in front of the cursor,
PromptShown(at, cells) ==
  \A i \in Cells :
    i < at - pos => /\ at - pos - i \in DOMAIN found.front
                    /\ cells[i] = found.front[at - pos - i]

\* ... and behind it nothing, if nothing was there.
RestShown(at, cells) == found.clear => \A i \in Cells : i >= at => cells[i] = Blank

Shown(at, cells) == LineShown(at, cells) /\ PromptShown(at, cells) /\ RestShown(at, cells)

(* While writeChar is echoing, what it has done and has to do makes a      *)
(* screen that shows the line.                                             *)
EchoInv ==
  /\ tpc = "poll" => wpc = "idle"
  /\ tpc = "poll" /\ quiet => Shown(CursorCell, vga)
  /\ tpc = "echo" /\ quiet => Steady /\ \E e : Shown(e.pos, e.cells) /\ Tape(e)

LEMMA EchoInvInit == Init => ConsoleInv /\ EchoInv
BY ConsoleInvInit DEF Init, TerminalInit, EchoInv

(* A key leaves the console as it is, or it is Ctrl+L. *)
LEMMA KeyOnScreen ==
  ASSUME NEW k \in Typed, Press(k) \/ Release(k)
  PROVE  /\ UNCHANGED <<writerVars, tpc, pos, stdinBuf>>
         /\ ClearScreen \/ UNCHANGED screenVars
         /\ quiet' => quiet /\ UNCHANGED <<screenVars, found>>
<1>1. CASE Press(k)
  BY <1>1 DEF Press, KeyPressed, ModePressed, ControlPressed, TextPressed, terminalVars,
              stdinVars, callVars
<1>2. CASE Release(k)
  BY <1>2 DEF Release, KeyReleased, terminalVars, stdinVars, callVars
<1> QED BY <1>1, <1>2

(* What the steps do to the console *)
LEMMA ConsoleSteps ==
  ASSUME [Next]_allVars
  PROVE  \/ ClearScreen /\ UNCHANGED writerVars
         \/ \E c \in Glyph \cup {NL, BS, CLEAR} : WriteChar(c)
         \/ WriterStep
         \/ UNCHANGED consoleVars
<1>1. ASSUME NEW k \in Typed, Press(k) \/ Release(k)
      PROVE  (ClearScreen /\ UNCHANGED writerVars) \/ UNCHANGED consoleVars
  BY <1>1, KeyOnScreen DEF consoleVars
<1>2. CASE StartRead
  BY <1>2 DEF StartRead, Read
<1>3. CASE StartPrint
  BY <1>3, TypistAssumption DEF StartPrint, Emit
<1>4. CASE Main
  BY <1>4 DEF Main, ReadStep, EchoStep, PollKey, AcceptNewline, AcceptBackspace, AcceptGlyph,
              Echoed, FinishLine, CopyOut, Returned
<1>5. CASE UNCHANGED allVars
  BY <1>5 DEF allVars, vars
<1> QED BY <1>1, <1>2, <1>3, <1>4, <1>5 DEF Next

(* The console keeps its invariant inside the terminal. *)
LEMMA ConsoleInTerminal == ConsoleInv /\ [Next]_allVars => ConsoleInv'
<1> SUFFICES ASSUME ConsoleInv, [Next]_allVars PROVE ConsoleInv'
  OBVIOUS
<1>1. CASE UNCHANGED consoleVars
  BY <1>1 DEF consoleVars, screenVars, writerVars, ConsoleInv, ConsoleTypeOK
<1> QED BY <1>1, ConsoleSteps, ClearStep, CallStep, WorkStep

LEMMA SettledPast ==
  ASSUME NEW p, NEW cells, ~(p < CellCount)
  PROVE  /\ Settled(p, cells).pos = p - VGA_W
         /\ \A i \in Cells : Settled(p, cells).cells[i]
                              = IF i + VGA_W \in Cells THEN cells[i + VGA_W] ELSE Blank
BY DEF Settled

(* Between calls the cursor is on the screen. *)
LEMMA CursorOnScreen ==
  ASSUME ConsoleInv, wpc = "idle"
  PROVE  /\ CursorCell \in Cells /\ CursorCell \in Nat /\ CursorCell < CellCount
         /\ CellCount \in Nat /\ VGA_W \in Nat \ {0}
         /\ vga \in [Cells -> Glyph \cup {Blank}]
<1>1. cursorX \in Nat /\ cursorY \in Nat /\ cursorX < VGA_W /\ cursorY < VGA_H
  BY ConsoleNumbers DEF ConsoleInv, PastWrap, PastScroll
<1>2. CursorCell \in Cells
  BY <1>1, RowFacts DEF CursorCell
<1>3. CellCount \in Nat
  BY ScreenFacts
<1> QED BY <1>2, <1>3, ScreenFacts, ConsoleNumbers DEF Cells

(* A character behind the line appears behind it on the tape. *)
LEMMA GlyphShown ==
  ASSUME ConsoleInv, wpc = "idle", LineShown(CursorCell, vga), pos \in Nat,
         stdinBuf \in [StdinSlots -> Byte], pos \in StdinSlots,
         NEW c \in Glyph, pos' = pos + 1, stdinBuf' = [stdinBuf EXCEPT ![pos] = c],
         NEW e, e = TapeWrite(CursorCell, vga, c)
  PROVE  \A i \in 1 .. pos' : e.pos - i \in Cells => e.cells[e.pos - i] = stdinBuf'[pos' - i]
<1>1. /\ CursorCell \in Cells /\ CursorCell \in Nat /\ CellCount \in Nat /\ VGA_W \in Nat \ {0}
      /\ vga \in [Cells -> Glyph \cup {Blank}]
  BY CursorOnScreen
<1> DEFINE drawn == [vga EXCEPT ![CursorCell] = c]
<1>2. \A i \in 1 .. pos + 1 : CursorCell + 1 - i \in Cells
                                => drawn[CursorCell + 1 - i] = stdinBuf'[pos + 1 - i]
  <2> SUFFICES ASSUME NEW i \in 1 .. pos + 1, CursorCell + 1 - i \in Cells
               PROVE  drawn[CursorCell + 1 - i] = stdinBuf'[pos + 1 - i]
    OBVIOUS
  <2>1. CASE i = 1
    <3>1. CursorCell + 1 - i = CursorCell /\ pos + 1 - i = pos
      BY <1>1, <2>1
    <3> QED BY <1>1, <3>1
  <2>2. CASE i # 1
    <3>1. PICK j \in 1 .. pos : j = i - 1
      BY <2>2
    <3>2. CursorCell + 1 - i = CursorCell - j /\ pos + 1 - i = pos - j
          /\ CursorCell - j # CursorCell /\ pos - j # pos /\ pos - j \in StdinSlots
      BY <1>1, <3>1, Bounds
    <3>3. vga[CursorCell - j] = stdinBuf[pos - j]
      BY <3>2 DEF LineShown
    <3> QED BY <1>1, <3>2, <3>3
  <2> QED BY <2>1, <2>2
<1>3. /\ TapePosition(CursorCell, c) = CursorCell + 1 /\ TapeCells(CursorCell, vga, c) = drawn
  BY ConsoleAssumption DEF TapePosition, TapeCells
<1> HIDE DEF drawn
<1>4. CASE CursorCell + 1 < CellCount
  <2>1. e = [pos |-> CursorCell + 1, cells |-> drawn]
    BY <1>3, <1>4, TapeIsSettled DEF Settled
  <2>2. e.pos = CursorCell + 1 /\ e.cells = drawn
    BY <2>1
  <2> SUFFICES ASSUME NEW i \in 1 .. pos + 1, e.pos - i \in Cells
               PROVE  e.cells[e.pos - i] = stdinBuf'[pos + 1 - i]
    OBVIOUS
  <2>3. CursorCell + 1 - i \in Cells
    BY <1>1, <2>2
  <2>4. drawn[CursorCell + 1 - i] = stdinBuf'[pos + 1 - i]
    BY <1>2, <2>3
  <2> QED BY <1>1, <2>2, <2>4
<1>5. CASE ~(CursorCell + 1 < CellCount)
  <2>0. e = Settled(CursorCell + 1, drawn)
    BY <1>3, TapeIsSettled
  <2>1. /\ e.pos = CursorCell + 1 - VGA_W
        /\ \A i \in Cells : i + VGA_W \in Cells => e.cells[i] = drawn[i + VGA_W]
    BY <1>1, <1>5, <2>0, SettledPast
  <2> SUFFICES ASSUME NEW i \in 1 .. pos + 1, e.pos - i \in Cells
               PROVE  e.cells[e.pos - i] = stdinBuf'[pos + 1 - i]
    OBVIOUS
  <2>2. PICK k \in Cells : k = e.pos - i
    OBVIOUS
  <2>3. k + VGA_W = CursorCell + 1 - i /\ k + VGA_W \in Cells
    BY <1>1, <2>1, <2>2 DEF Cells
  <2>4. e.cells[k] = drawn[k + VGA_W]
    BY <2>1, <2>3
  <2>5. drawn[CursorCell + 1 - i] = stdinBuf'[pos + 1 - i]
    BY <1>2, <2>3
  <2> QED BY <2>2, <2>3, <2>4, <2>5
<1> QED BY <1>4, <1>5


(* What a backspace deletes from the end of the line it erases in front of *)
(* the cursor.                                                             *)
LEMMA BackspaceShown ==
  ASSUME ConsoleInv, wpc = "idle", LineShown(CursorCell, vga), pos \in Nat, pos > 0,
         pos' = pos - 1, stdinBuf' = stdinBuf, NEW e, e = TapeWrite(CursorCell, vga, BS)
  PROVE  \A i \in 1 .. pos' : e.pos - i \in Cells => e.cells[e.pos - i] = stdinBuf'[pos' - i]
<1>1. /\ CursorCell \in Cells /\ CursorCell \in Nat /\ CellCount \in Nat /\ CursorCell < CellCount
      /\ vga \in [Cells -> Glyph \cup {Blank}]
  BY CursorOnScreen
<1>2. e = Settled(TapePosition(CursorCell, BS), TapeCells(CursorCell, vga, BS))
  BY TapeIsSettled
<1> SUFFICES ASSUME NEW i \in 1 .. pos - 1, e.pos - i \in Cells
             PROVE  e.cells[e.pos - i] = stdinBuf[pos - 1 - i]
  OBVIOUS
<1>3. CASE CursorCell = 0
  <2>1. e = Settled(0, [vga EXCEPT ![0] = Blank])
    BY <1>2, <1>3 DEF TapePosition, TapeCells, NL, BS, CLEAR
  <2>2. e.pos = 0
    BY <1>1, <1>3, <2>1 DEF Settled
  <2> QED BY <2>2 DEF Cells
<1>4. CASE CursorCell # 0
  <2> DEFINE drawn == [vga EXCEPT ![CursorCell - 1] = Blank]
  <2>1. e = Settled(CursorCell - 1, drawn)
    BY <1>2, <1>4 DEF TapePosition, TapeCells, NL, BS, CLEAR
  <2>2. CursorCell - 1 < CellCount
    BY <1>1
  <2>3. e.pos = CursorCell - 1 /\ e.cells = drawn
    BY <2>1, <2>2 DEF Settled
  <2>4. PICK j \in 1 .. pos : j = i + 1
    OBVIOUS
  <2>5. e.pos - i = CursorCell - j /\ CursorCell - j # CursorCell - 1 /\ pos - 1 - i = pos - j
    BY <1>1, <2>3, <2>4
  <2>6. CursorCell - j \in Cells
    BY <2>5
  <2>7. vga[CursorCell - j] = stdinBuf[pos - j]
    BY <2>6 DEF LineShown
  <2>8. drawn[CursorCell - j] = vga[CursorCell - j]
    BY <1>1, <2>5, <2>6
  <2> QED BY <2>3, <2>5, <2>7, <2>8
<1> QED BY <1>3, <1>4

(* Neither touches what stands in front of the line, nor leaves anything   *)
(* behind it.                                                              *)
LEMMA GlyphFramed ==
  ASSUME ConsoleInv, wpc = "idle", PromptShown(CursorCell, vga), RestShown(CursorCell, vga),
         pos \in Nat, NEW c \in Glyph, pos' = pos + 1, found' = found,
         NEW e, e = TapeWrite(CursorCell, vga, c)
  PROVE  PromptShown(e.pos, e.cells)' /\ RestShown(e.pos, e.cells)'
<1> DEFINE drawn == [vga EXCEPT ![CursorCell] = c]
<1>1. /\ CursorCell \in Cells /\ CursorCell \in Nat /\ CursorCell < CellCount
      /\ CellCount \in Nat /\ VGA_W \in Nat \ {0} /\ vga \in [Cells -> Glyph \cup {Blank}]
  BY CursorOnScreen
<1>2. /\ TapePosition(CursorCell, c) = CursorCell + 1 /\ TapeCells(CursorCell, vga, c) = drawn
  BY ConsoleAssumption DEF TapePosition, TapeCells
<1>3. e = Settled(CursorCell + 1, drawn)
  BY <1>2, TapeIsSettled
<1>4. \A i \in Cells : i # CursorCell => drawn[i] = vga[i]
  BY <1>1
<1> HIDE DEF drawn
<1> DEFINE start == CursorCell - pos
<1>5. \A i \in Cells : i < start => /\ start - i \in DOMAIN found.front
                                    /\ drawn[i] = found.front[start - i]
  <2> SUFFICES ASSUME NEW i \in Cells, i < start
               PROVE  start - i \in DOMAIN found.front /\ drawn[i] = found.front[start - i]
    OBVIOUS
  <2>1. i # CursorCell /\ i < CursorCell - pos
    BY <1>1 DEF Cells
  <2> QED BY <1>4, <2>1 DEF PromptShown
<1>6. CASE CursorCell + 1 < CellCount
  <2>1. e.pos = CursorCell + 1 /\ e.cells = drawn
    BY <1>3, <1>6 DEF Settled
  <2>2. e.pos - (pos + 1) = start
    BY <1>1, <2>1
  <2>3. \A i \in Cells : i >= e.pos => i >= CursorCell /\ i # CursorCell
    BY <1>1, <2>1 DEF Cells
  <2> QED BY <1>4, <1>5, <2>1, <2>2, <2>3 DEF PromptShown, RestShown
<1>7. CASE ~(CursorCell + 1 < CellCount)
  <2>1. /\ e.pos = CursorCell + 1 - VGA_W
        /\ \A i \in Cells : e.cells[i] = IF i + VGA_W \in Cells THEN drawn[i + VGA_W] ELSE Blank
    BY <1>1, <1>3, <1>7, SettledPast
  <2>2. \A i \in Cells : i >= e.pos => i + VGA_W \notin Cells
    BY <1>1, <1>7, <2>1 DEF Cells
  <2>3. ASSUME NEW i \in Cells, i < e.pos - (pos + 1)
        PROVE  /\ e.pos - (pos + 1) - i \in DOMAIN found.front
               /\ e.cells[i] = found.front[e.pos - (pos + 1) - i]
    <3>1. PICK k \in Cells : k = i + VGA_W
      BY <1>1, <2>1, <2>3 DEF Cells
    <3>2. k < start /\ start - k = e.pos - (pos + 1) - i
      BY <1>1, <2>1, <2>3, <3>1
    <3>3. e.cells[i] = drawn[k]
      BY <2>1, <3>1
    <3> HIDE DEF start
    <3> QED BY <1>5, <3>2, <3>3
  <2> QED BY <2>1, <2>2, <2>3 DEF PromptShown, RestShown
<1> QED BY <1>6, <1>7

LEMMA BackspaceFramed ==
  ASSUME ConsoleInv, wpc = "idle", PromptShown(CursorCell, vga), RestShown(CursorCell, vga),
         pos \in Nat, pos > 0, pos' = pos - 1, found' = found,
         NEW e, e = TapeWrite(CursorCell, vga, BS)
  PROVE  PromptShown(e.pos, e.cells)' /\ RestShown(e.pos, e.cells)'
<1>1. /\ CursorCell \in Cells /\ CursorCell \in Nat /\ CursorCell < CellCount
      /\ CellCount \in Nat /\ vga \in [Cells -> Glyph \cup {Blank}]
  BY CursorOnScreen
<1>2. e = Settled(TapePosition(CursorCell, BS), TapeCells(CursorCell, vga, BS))
  BY TapeIsSettled
<1> DEFINE to == IF CursorCell = 0 THEN 0 ELSE CursorCell - 1
           drawn == [vga EXCEPT ![to] = Blank]
<1>3. TapePosition(CursorCell, BS) = to /\ TapeCells(CursorCell, vga, BS) = drawn
  BY DEF TapePosition, TapeCells, NL, BS, CLEAR
<1>4. to \in Cells /\ to \in Nat /\ to < CellCount
  BY <1>1 DEF Cells
<1>5. /\ drawn[to] = Blank
      /\ \A i \in Cells : i # to => drawn[i] = vga[i]
  BY <1>1, <1>4
<1> HIDE DEF drawn
<1>6. e.pos = to /\ e.cells = drawn
  BY <1>2, <1>3, <1>4 DEF Settled
<1>7. \A i \in Cells : i >= to /\ i # to => i >= CursorCell
  BY <1>1, <1>4 DEF Cells
<1>8. RestShown(e.pos, e.cells)'
  BY <1>5, <1>6, <1>7 DEF RestShown
<1>9. ASSUME NEW i \in Cells, i < to - (pos - 1)
      PROVE  /\ to - (pos - 1) - i \in DOMAIN found.front
             /\ drawn[i] = found.front[to - (pos - 1) - i]
  <2>1. i \in Nat /\ CursorCell # 0
    BY <1>1, <1>4, <1>9 DEF Cells
  <2>2. i < CursorCell - pos /\ to - (pos - 1) - i = CursorCell - pos - i /\ i # to
    BY <1>1, <1>9, <2>1
  <2>3. drawn[i] = vga[i]
    BY <1>5, <2>2
  <2>4. /\ CursorCell - pos - i \in DOMAIN found.front
        /\ vga[i] = found.front[CursorCell - pos - i]
    BY <2>2 DEF PromptShown
  <2> QED BY <2>2, <2>3, <2>4
<1>10. PromptShown(e.pos, e.cells)'
  BY <1>6, <1>9 DEF PromptShown
<1> QED BY <1>8, <1>10

(* What has scrolled off may be forgotten. *)
LEMMA Forgets ==
  ASSUME PromptShown(CursorCell, vga), RestShown(CursorCell, vga), pos \in Nat,
         CursorCell \in Nat, UNCHANGED <<cursorX, cursorY, vga, pos>>,
         found' = [front |-> StillShown, clear |-> found.clear]
  PROVE  PromptShown(CursorCell, vga)' /\ RestShown(CursorCell, vga)'
<1>1. CursorCell' = CursorCell /\ LineStart' = CursorCell - pos
  BY DEF CursorCell, LineStart
<1>2. found'.clear = found.clear /\ found'.front = StillShown
  OBVIOUS
<1>3. ASSUME NEW i \in Cells, i < CursorCell - pos
      PROVE  /\ CursorCell - pos - i \in DOMAIN found'.front
             /\ vga[i] = found'.front[CursorCell - pos - i]
  <2>1. PICK j : j = CursorCell - pos - i
    OBVIOUS
  <2>2. j \in DOMAIN found.front /\ vga[i] = found.front[j]
    BY <1>3, <2>1 DEF PromptShown
  <2>3. j <= LineStart'
    BY <1>1, <2>1 DEF Cells
  <2>4. j \in DOMAIN StillShown /\ StillShown[j] = found.front[j]
    BY <2>2, <2>3 DEF StillShown
  <2> QED BY <1>2, <2>1, <2>2, <2>4
<1>4. PromptShown(CursorCell, vga)'
  BY <1>1, <1>3 DEF PromptShown
<1>5. RestShown(CursorCell, vga)'
  BY <1>1, <1>2 DEF RestShown
<1> QED BY <1>4, <1>5

(* The steps that leave the console and the line alone *)
LEMMA EchoStands ==
  ASSUME EchoInv, quiet' => quiet,
         UNCHANGED <<cursorX, cursorY, vga, wpc, ch, reg, off, cell, tpc, pos, stdinBuf, found>>
  PROVE  EchoInv'
<1>1. CursorCell' = CursorCell /\ Steady' = Steady
  BY DEF CursorCell, Steady, Aimed
<1>2. ASSUME NEW e PROVE Shown(e.pos, e.cells)' = Shown(e.pos, e.cells)
  BY DEF Shown, LineShown, PromptShown, RestShown
<1>3. ASSUME NEW e PROVE Tape(e)' = Tape(e)
  BY DEF Tape, Aimed, CursorCell, Erased
<1>4. Shown(CursorCell, vga)' = Shown(CursorCell, vga)
  BY <1>1 DEF Shown, LineShown, PromptShown, RestShown
<1> QED BY <1>1, <1>2, <1>3, <1>4 DEF EchoInv

LEMMA EchoKey ==
  ASSUME EchoInv, NEW k \in Typed, Press(k) \/ Release(k)
  PROVE  EchoInv'
<1>1. /\ UNCHANGED <<wpc, ch, reg, off, cell, tpc, pos, stdinBuf>>
      /\ quiet' => quiet /\ UNCHANGED <<cursorX, cursorY, vga, found>>
  BY KeyOnScreen DEF writerVars, screenVars
<1>2. CASE quiet'
  BY <1>1, <1>2, EchoStands
<1>3. CASE ~quiet'
  BY <1>1, <1>3 DEF EchoInv
<1> QED BY <1>2, <1>3

(* A read begins at an empty line. *)
LEMMA EchoStart ==
  ASSUME ConsoleInv, LineInv, EchoInv, StartRead \/ StartPrint
  PROVE  EchoInv'
<1>1. CASE StartPrint
  BY <1>1 DEF StartPrint, Emit, terminalVars, callVars, EchoInv
<1>2. CASE StartRead
  <2>1. tpc = "idle" /\ wpc = "idle" /\ tpc' # "echo" /\ wpc' = wpc /\ pos' = pos
    BY <1>2 DEF StartRead, Read, consoleVars, writerVars
  <2>2. pos' = 0
    BY <2>1 DEF LineInv, Places, Reading
  <2>3. CASE tpc' = "poll"
    <3>1. found' = Screen /\ UNCHANGED <<cursorX, cursorY, vga>>
      BY <1>2, <2>3 DEF StartRead, Read, consoleVars, screenVars
    <3>2. CursorCell' = CursorCell /\ CursorCell \in Nat
      BY <2>1, <3>1, CursorOnScreen DEF CursorCell
    <3>3. LineShown(CursorCell, vga)' /\ RestShown(CursorCell, vga)'
      BY <2>2, <3>1, <3>2 DEF LineShown, RestShown, Screen
    <3>4. ASSUME NEW i \in Cells, i < CursorCell - 0
          PROVE  /\ CursorCell - 0 - i \in DOMAIN Screen.front
                 /\ vga[i] = Screen.front[CursorCell - 0 - i]
      <4>1. CursorCell - 0 - i \in 1 .. CursorCell /\ CursorCell - (CursorCell - 0 - i) = i
        BY <3>2, <3>4 DEF Cells
      <4>2. Screen.front = [k \in 1 .. CursorCell |-> vga[CursorCell - k]]
        BY DEF Screen
      <4> QED BY <4>1, <4>2
    <3>5. PromptShown(CursorCell, vga)'
      BY <2>2, <3>1, <3>2, <3>4 DEF PromptShown
    <3> QED BY <2>1, <2>3, <3>3, <3>5 DEF EchoInv, Shown
  <2> QED BY <2>1, <2>3 DEF EchoInv
<1> QED BY <1>1, <1>2

(* Each echo is a step of the tape, begun at a screen that shows the line. *)
LEMMA EchoAccept ==
  ASSUME ConsoleInv, LineInv, EchoInv, quiet' = quiet, Remember,
         PollKey \/ AcceptNewline \/ AcceptBackspace \/ AcceptGlyph
  PROVE  EchoInv'
<1>0. tpc = "poll" /\ wpc = "idle" /\ pos \in Nat /\ pos <= MaxLine
      /\ stdinBuf \in [StdinSlots -> Byte]
  BY DEF PollKey, AcceptNewline, AcceptBackspace, AcceptGlyph, EchoInv, LineInv, Types, Places
<1>1. ASSUME UNCHANGED <<consoleVars, stdinBuf, pos, tpc>> PROVE EchoInv'
  <2>1. UNCHANGED <<cursorX, cursorY, vga, wpc>> /\ CursorCell' = CursorCell
    BY <1>1 DEF consoleVars, screenVars, writerVars, CursorCell
  <2>2. CASE quiet
    <3>1. Shown(CursorCell, vga) /\ CursorCell \in Nat
      BY <1>0, <2>2, CursorOnScreen DEF EchoInv
    <3>2. found' = [front |-> StillShown, clear |-> found.clear]
      BY <1>0, <1>1 DEF Remember
    <3>3. PromptShown(CursorCell, vga)' /\ RestShown(CursorCell, vga)'
      BY <1>0, <1>1, <2>1, <3>1, <3>2, Forgets DEF Shown
    <3>4. LineShown(CursorCell, vga)'
      BY <1>1, <2>1, <3>1 DEF Shown, LineShown
    <3> QED BY <1>0, <1>1, <2>1, <3>3, <3>4 DEF EchoInv, Shown
  <2> QED BY <1>0, <1>1, <2>1, <2>2 DEF EchoInv
<1>2. CASE AcceptNewline
  BY <1>2 DEF AcceptNewline, EchoInv
<1>3. CASE PollKey \/ (AcceptBackspace /\ ~(pos > 0))
  BY <1>1, <1>3 DEF PollKey, AcceptBackspace, terminalVars, callVars, stdinVars
<1>4. CASE AcceptBackspace /\ pos > 0
  <2>1. /\ pos' = pos - 1 /\ tpc' = "echo" /\ WriteChar(BS) /\ stdinBuf' = stdinBuf
    BY <1>4 DEF AcceptBackspace, stdinVars
  <2>3. found' = found
    BY <2>1 DEF Remember
  <2>2. CASE quiet
    <3>1. PICK e : e = TapeWrite(CursorCell, vga, BS)
      OBVIOUS
    <3>2. Shown(CursorCell, vga)
      BY <1>0, <2>2 DEF EchoInv
    <3>3. \A i \in 1 .. pos' : e.pos - i \in Cells => e.cells[e.pos - i] = stdinBuf'[pos' - i]
      BY <1>0, <1>4, <2>1, <3>1, <3>2, BackspaceShown DEF Shown
    <3>6. PromptShown(e.pos, e.cells)' /\ RestShown(e.pos, e.cells)'
      BY <1>0, <1>4, <2>1, <2>3, <3>1, <3>2, BackspaceFramed DEF Shown
    <3>4. Tape(e)' /\ Steady'
      BY <2>1, <3>1, TapeCall, SteadyCall
    <3>5. Shown(e.pos, e.cells)'
      BY <3>3, <3>6 DEF Shown, LineShown
    <3> QED BY <2>1, <3>4, <3>5 DEF EchoInv
  <2> QED BY <2>1, <2>2 DEF EchoInv
<1>5. CASE AcceptGlyph
  <2>1. /\ inChar \in Glyph /\ WriteChar(inChar) /\ tpc' = "echo" /\ pos' = pos + 1
        /\ stdinBuf' = [stdinBuf EXCEPT ![pos] = inChar]
    BY <1>5 DEF AcceptGlyph
  <2>3. found' = found
    BY <2>1 DEF Remember
  <2>2. CASE quiet
    <3>1. PICK e : e = TapeWrite(CursorCell, vga, inChar)
      OBVIOUS
    <3>2. Shown(CursorCell, vga) /\ pos \in StdinSlots
      BY <1>0, <2>2, Bounds DEF EchoInv
    <3>3. \A i \in 1 .. pos' : e.pos - i \in Cells => e.cells[e.pos - i] = stdinBuf'[pos' - i]
      BY <1>0, <2>1, <3>1, <3>2, GlyphShown DEF Shown
    <3>6. PromptShown(e.pos, e.cells)' /\ RestShown(e.pos, e.cells)'
      BY <1>0, <2>1, <2>3, <3>1, <3>2, GlyphFramed DEF Shown
    <3>4. Tape(e)' /\ Steady'
      BY <2>1, <3>1, TapeCall, SteadyCall
    <3>5. Shown(e.pos, e.cells)'
      BY <3>3, <3>6 DEF Shown, LineShown
    <3> QED BY <2>1, <3>4, <3>5 DEF EchoInv
  <2> QED BY <2>1, <2>2 DEF EchoInv
<1> QED BY <1>1, <1>2, <1>3, <1>4, <1>5

(* The echo's own steps, and its return to the loop *)
LEMMA EchoWork ==
  ASSUME ConsoleInv, LineInv, EchoInv, quiet' = quiet, Remember,
         EchoStep \/ Echoed \/ FinishLine \/ CopyOut \/ Returned
  PROVE  EchoInv'
<1>1. CASE EchoStep
  <2>1. WriterStep /\ UNCHANGED <<tpc, pos, stdinBuf>> /\ wpc # "idle"
    BY <1>1 DEF EchoStep, terminalVars, stdinVars, callVars, WriterStep, Step, NewLine,
       BackspaceTestX, BackspaceTestY, LoadX, LoadY, StoreX, StoreY, LastColumn, OffsetY,
       OffsetX, Put, WrapTest, ScrollTest, ScrollLoad, ScrollStore, ScrollBlank, ScrollPin,
       ClearCells, ClearHomeX, ClearHomeY, PosY, PosX, SelectRegister, DataHigh, DataLow
  <2>2. CASE tpc = "echo" /\ quiet
    <3>1. PICK e : Shown(e.pos, e.cells) /\ Tape(e)
      BY <2>2 DEF EchoInv
    <3>2. Tape(e)' /\ Steady'
      BY <2>1, <2>2, <3>1, TapeWork, SteadyWork DEF EchoInv
    <3>3. Shown(e.pos, e.cells)'
      BY <2>1, <2>2, <3>1 DEF Shown, LineShown, PromptShown, RestShown, Remember
    <3> QED BY <2>1, <2>2, <3>2, <3>3 DEF EchoInv
  <2> QED BY <2>1, <2>2 DEF EchoInv
<1>2. CASE Echoed
  <2>1. /\ tpc = "echo" /\ wpc = "idle" /\ wpc' = wpc
        /\ UNCHANGED <<cursorX, cursorY, vga, stdinBuf, pos>> /\ tpc' = "poll"
    BY <1>2 DEF Echoed, consoleVars, screenVars, writerVars, stdinVars
  <2>2. CASE quiet
    <3>1. PICK e : Shown(e.pos, e.cells) /\ Tape(e)
      BY <2>1, <2>2 DEF EchoInv
    <3>2. vga = e.cells /\ CursorCell = e.pos /\ CursorCell \in Nat /\ pos \in Nat
      BY <2>1, <3>1, CursorOnScreen DEF Tape, LineInv, Types
    <3>3. found' = [front |-> StillShown, clear |-> found.clear]
      BY <2>1 DEF Remember
    <3>4. PromptShown(CursorCell, vga)' /\ RestShown(CursorCell, vga)'
      BY <2>1, <3>1, <3>2, <3>3, Forgets DEF Shown
    <3>5. LineShown(CursorCell, vga)'
      BY <2>1, <3>1, <3>2 DEF Shown, LineShown, CursorCell
    <3> QED BY <2>1, <3>4, <3>5 DEF EchoInv, Shown
  <2> QED BY <2>1, <2>2 DEF EchoInv
<1>3. CASE FinishLine \/ CopyOut \/ Returned
  BY <1>3 DEF FinishLine, CopyOut, Returned, EchoInv
<1> QED BY <1>1, <1>2, <1>3

LEMMA EchoInvStep == ConsoleInv /\ LineInv /\ EchoInv /\ [Next]_allVars => EchoInv'
<1> SUFFICES ASSUME ConsoleInv, LineInv, EchoInv, [Next]_allVars PROVE EchoInv'
  OBVIOUS
<1>1. CASE Main
  BY <1>1, EchoAccept, EchoWork DEF Main, ReadStep
<1>2. CASE UNCHANGED allVars
  <2>1. UNCHANGED <<cursorX, cursorY, vga, wpc, ch, reg, off, cell, tpc, pos, stdinBuf, quiet,
                  found>>
    BY <1>2 DEF allVars, vars, consoleVars, screenVars, writerVars, terminalVars, stdinVars,
                callVars
  <2> QED BY <2>1, EchoStands
<1> QED BY <1>1, <1>2, EchoKey, EchoStart DEF Next

(* While a line is being read and no Ctrl+L came, the screen shows what    *)
(* the read found in front of the cursor, then the line, then nothing,     *)
(* across rows and scrolling, whatever is typed between any two accesses   *)
(* of the echo (syscalls.c:87-119).                                        *)
THEOREM ScreenShowsLine == Spec => []EchoIsLine
<1>1. Init => ConsoleInv /\ EchoInv
  BY EchoInvInit
<1>2. ConsoleInv /\ LineInv /\ EchoInv /\ [Next]_allVars => ConsoleInv' /\ EchoInv'
  BY ConsoleInTerminal, EchoInvStep
<1>3. ConsoleInv /\ LineInv /\ EchoInv => EchoIsLine
  <2> SUFFICES ASSUME ConsoleInv, LineInv, EchoInv, tpc = "poll", quiet, NEW at \in Cells
               PROVE  CASE at < LineStart   -> vga[at] = found.front[LineStart - at]
                        [] at >= CursorCell -> found.clear => vga[at] = Blank
                        [] OTHER            -> vga[at] = stdinBuf[at - LineStart]
    BY DEF EchoIsLine
  <2>1. Shown(CursorCell, vga) /\ CursorCell \in Nat /\ pos \in Nat /\ at \in Nat
    BY CursorOnScreen DEF EchoInv, LineInv, Types, Cells
  <2>2. LineStart = CursorCell - pos
    BY DEF LineStart
  <2>3. CASE at < LineStart
    <3>1. vga[at] = found.front[LineStart - at]
      BY <2>1, <2>2, <2>3 DEF Shown, PromptShown
    <3> QED BY <2>1, <2>2, <2>3, <3>1
  <2>4. CASE ~(at < LineStart) /\ at >= CursorCell
    BY <2>1, <2>2, <2>4 DEF Shown, RestShown
  <2>5. CASE ~(at < LineStart) /\ ~(at >= CursorCell)
    <3>1. PICK i \in 1 .. pos : at = CursorCell - i
      BY <2>1, <2>2, <2>5
    <3>2. pos - i = at - LineStart
      BY <2>1, <2>2, <3>1
    <3>3. vga[at] = stdinBuf[at - LineStart]
      BY <2>1, <3>1, <3>2 DEF Shown, LineShown
    <3> QED BY <2>5, <3>3
  <2> QED BY <2>3, <2>4, <2>5
<1> QED BY <1>1, <1>2, <1>3, LineInvariant, PTL DEF Spec


-----------------------------------------------------------------------------
(* How long a read takes once its newline is typed *)

\* The steps left, those of writeChar apart, of the round of readStdinLine's
\* loop that uses up the next character, or of the read behind the loop
RoundLeft ==
  CASE tpc = "poll" /\ gpc = "idle"    -> 3
    [] tpc = "poll" /\ gpc = "load"    -> 2
    [] tpc = "poll" /\ gpc = "advance" -> 1
    [] tpc = "poll" /\ gpc = "got"     -> 2 * Copies + 28
    [] tpc = "echo"   -> 4
    [] tpc = "finish" -> 2
    [] tpc = "copy"   -> 1
    [] OTHER          -> 0

StepsLeft == AccessesLeft + RoundLeft

\* A newline that n characters of the ring, itself included, have to be read
\* for: it is in the ring, taken from it, or in the line.
NewlineAt(n) ==
  \/ tpc \in {"poll", "echo"} /\ n \in 1 .. Len(Queue) /\ Queue[n] = NL
  \/ tpc = "poll" /\ gpc = "got" /\ inChar = NL /\ n = 0
  \/ tpc \in {"finish", "copy"} /\ n = 0

\* It has come up, or as far from it fewer steps are left.
Nearer(n) ==
  \E m \in 0 .. n : NewlineAt(m)' /\ (m = n => StepsLeft' < StepsLeft)

ReadRunsDown ==
  \A n \in Nat : NewlineAt(n) =>
    /\ StepsLeft \in Nat
    /\ Main => tpc' = "returned" \/ Nearer(n)
    /\ ~Main => NewlineAt(n)' /\ StepsLeft' = StepsLeft

LEMMA RoundIs ==
  /\ tpc = "poll" /\ gpc = "idle" => RoundLeft = 3
  /\ tpc = "poll" /\ gpc = "load" => RoundLeft = 2
  /\ tpc = "poll" /\ gpc = "advance" => RoundLeft = 1
  /\ tpc = "poll" /\ gpc = "got" => RoundLeft = 2 * Copies + 28
  /\ tpc = "echo" => RoundLeft = 4
  /\ tpc = "finish" => RoundLeft = 2
  /\ tpc = "copy" => RoundLeft = 1
BY DEF RoundLeft

LEMMA RoundIsNat == ASSUME KeyInv, LineInv PROVE RoundLeft \in Nat
<1>1. PICK r \in Nat : r = Copies
  BY ScreenFacts DEF Copies
<1>2. CASE tpc = "poll"
  <2>1. RoundLeft \in {3, 2, 1, 2 * r + 28}
    BY <1>1, <1>2, RoundIs DEF KeyInv, KeyboardTypeOK
  <2> QED BY <2>1
<1>3. CASE tpc # "poll"
  <2>1. RoundLeft \in {4, 2, 1, 0}
    BY <1>3 DEF RoundLeft
  <2> QED BY <2>1
<1> QED BY <1>2, <1>3

\* The steps of the round, as RoundLeft counts them
LEMMA RoundShrinks ==
  ASSUME (AccessesLeft \in Nat), (AccessesLeft \in Nat)', KeyInv, LineInv, LineInv',
         \/ GetTest /\ tpc = "poll" /\ UNCHANGED <<consoleVars, tpc>>
         \/ GetLoad /\ tpc = "poll" /\ UNCHANGED <<consoleVars, tpc>>
         \/ AcceptNewline \/ AcceptBackspace \/ AcceptGlyph
         \/ Echoed \/ FinishLine
  PROVE  StepsLeft' < StepsLeft
<1>1. PICK a \in Nat, b \in Nat, r \in Nat :
        AccessesLeft = a /\ AccessesLeft' = b /\ r = Copies
  BY ScreenFacts DEF Copies
<1>2. ASSUME NEW i \in Nat, NEW j \in Nat, RoundLeft = i, RoundLeft' = j, b + j < a + i
      PROVE  StepsLeft' < StepsLeft
  BY <1>1, <1>2 DEF StepsLeft
<1>3. UNCHANGED consoleVars => b = a
  BY <1>1 DEF consoleVars, writerVars, AccessesLeft
<1>4. CASE GetTest /\ tpc = "poll" /\ UNCHANGED <<consoleVars, tpc>>
  <2>1. RoundLeft = 3 /\ RoundLeft' = 2
    BY <1>4 DEF GetTest, RoundLeft
  <2> QED BY <1>2, <1>3, <1>4, <2>1
<1>5. CASE GetLoad /\ tpc = "poll" /\ UNCHANGED <<consoleVars, tpc>>
  <2>1. RoundLeft = 2 /\ RoundLeft' = 1
    BY <1>5 DEF GetLoad, RoundLeft
  <2> QED BY <1>2, <1>3, <1>5, <2>1
<1>6. CASE AcceptNewline \/ AcceptBackspace \/ AcceptGlyph
  <2>1. RoundLeft = 2 * r + 28
    BY <1>1, <1>6 DEF AcceptNewline, AcceptBackspace, AcceptGlyph, GetReturned, RoundLeft
  <2>2. CASE tpc' = "poll"
    <3>1. UNCHANGED consoleVars /\ gpc' = "idle"
      BY <1>6, <2>2 DEF AcceptNewline, AcceptBackspace, AcceptGlyph, GetReturned
    <3>2. RoundLeft' = 3
      BY <2>2, <3>1 DEF RoundLeft
    <3> QED BY <1>2, <1>3, <2>1, <3>1, <3>2
  <2>3. CASE tpc' # "poll"
    <3>1. tpc' \in {"echo", "finish"} /\ \E c : WriteChar(c)
      BY <1>6, <2>3 DEF AcceptNewline, AcceptBackspace, AcceptGlyph
    <3>2. b <= 2 * r + 23
      BY <1>1, <3>1, CallAccesses
    <3>3. PICK j \in {2, 4} : RoundLeft' = j
      BY <3>1 DEF RoundLeft
    <3>4. PICK i \in Nat : RoundLeft = i /\ i = 2 * r + 28
      BY <2>1
    <3>5. b + j < a + i
      BY <3>2, <3>4
    <3> QED BY <1>2, <3>3, <3>4, <3>5
  <2> QED BY <2>2, <2>3
<1>7. CASE Echoed
  <2>1. tpc = "echo" /\ tpc' = "poll" /\ gpc' = gpc /\ UNCHANGED consoleVars
    BY <1>7 DEF Echoed, keyboardVars, getterVars
  <2>2. gpc = "idle"
    BY <2>1 DEF LineInv, Places
  <2>3. RoundLeft = 4 /\ RoundLeft' = 3
    BY <2>1, <2>2 DEF RoundLeft
  <2> QED BY <1>2, <1>3, <2>1, <2>3
<1>8. CASE FinishLine
  <2>1. RoundLeft = 2 /\ RoundLeft' = 1
    BY <1>8 DEF FinishLine, RoundLeft
  <2> QED BY <1>2, <1>3, <1>8, <2>1 DEF FinishLine
<1> QED BY <1>4, <1>5, <1>6, <1>7, <1>8

LEMMA ReadAdvances ==
  ASSUME KeyInv, LineInv, LineInv', ConsoleInv, ConsoleInv', Main, NEW n \in Nat, NewlineAt(n)
  PROVE  tpc' = "returned" \/ Nearer(n)
<1>0. AccessesLeft \in Nat /\ (AccessesLeft \in Nat)'
  <2>1. (ConsoleInv => AccessesLeft \in Nat)'
    BY LeftIsNat, PTL
  <2> QED BY <2>1, LeftIsNat
<1>1. ASSUME NewlineAt(n)', StepsLeft' < StepsLeft PROVE Nearer(n)
  BY <1>1 DEF Nearer
<1>2. CASE PollKey
  <2>1. tpc = "poll" /\ GetInput /\ UNCHANGED <<consoleVars, tpc>>
    BY <1>2 DEF PollKey, terminalVars, callVars
  <2>2. CASE GetTest \/ GetLoad
    <3>1. gpc # "got" /\ Queue' = Queue
      BY <2>2, QueueKept DEF GetTest, GetLoad
    <3>2. NewlineAt(n)'
      BY <2>1, <3>1 DEF NewlineAt
    <3> QED BY <1>0, <1>1, <2>1, <2>2, <3>2, RoundShrinks
  <2>3. CASE GetAdvance
    <3>1. Queue # <<>> /\ inChar = Head(Queue) /\ Queue' = Tail(Queue)
      BY <2>3, AdvanceTakes
    <3>2. gpc = "advance" /\ gpc' = "got" /\ inChar' = inChar
      BY <2>3 DEF GetAdvance
    <3>3. n \in 1 .. Len(Queue) /\ Queue[n] = NL
      BY <2>1, <3>2 DEF NewlineAt
    <3>4. /\ Len(Queue) \in Nat /\ Head(Queue) = Queue[1]
          /\ Len(Queue') = Len(Queue) - 1
          /\ \A i \in 1 .. Len(Queue') : Queue'[i] = Queue[i + 1]
      BY <3>1, QueueType, HeadTailProperties
    <3>5. PICK m \in 0 .. n : m = n - 1 /\ m # n
      BY <3>3
    <3>6. NewlineAt(m)'
      <4>1. CASE n = 1
        <5>1. m = 0 /\ inChar' = NL
          BY <3>1, <3>2, <3>3, <3>4, <3>5, <4>1
        <5> QED BY <2>1, <3>2, <5>1 DEF NewlineAt
      <4>2. CASE n # 1
        <5>1. m \in 1 .. Len(Queue') /\ m + 1 = n
          BY <3>3, <3>4, <3>5, <4>2
        <5>2. Queue'[m] = NL
          BY <3>3, <3>4, <5>1
        <5> QED BY <2>1, <5>1, <5>2 DEF NewlineAt
      <4> QED BY <4>1, <4>2
    <3> QED BY <3>5, <3>6 DEF Nearer
  <2> QED BY <2>1, <2>2, <2>3 DEF GetInput
<1>3. CASE AcceptNewline
  <2>1. tpc' = "finish"
    BY <1>3 DEF AcceptNewline
  <2>2. NewlineAt(0)'
    BY <2>1 DEF NewlineAt
  <2>3. StepsLeft' < StepsLeft
    BY <1>0, <1>3, RoundShrinks
  <2> QED BY <2>2, <2>3 DEF Nearer
<1>4. CASE AcceptBackspace \/ AcceptGlyph
  <2>1. tpc = "poll" /\ inChar # NL /\ tpc' \in {"poll", "echo"} /\ Queue' = Queue
    BY <1>4, QueueKept, Bounds DEF AcceptBackspace, AcceptGlyph, GetReturned
  <2>2. NewlineAt(n)'
    BY <2>1 DEF NewlineAt
  <2> QED BY <1>0, <1>1, <1>4, <2>2, RoundShrinks
<1>5. CASE Echoed \/ FinishLine
  <2>1. Queue' = Queue /\ (\/ tpc = "echo" /\ tpc' = "poll"
                           \/ tpc = "finish" /\ tpc' = "copy")
    BY <1>5, QueueKept DEF Echoed, FinishLine, keyboardVars
  <2>2. NewlineAt(n)'
    BY <2>1 DEF NewlineAt
  <2> QED BY <1>0, <1>1, <1>5, <2>2, RoundShrinks
<1>6. CASE CopyOut
  BY <1>6 DEF CopyOut
<1>7. CASE Returned
  BY <1>7 DEF Returned, NewlineAt
<1>8. CASE EchoStep
  <2>1. WriterStep /\ UNCHANGED <<tpc, gpc, inChar>> /\ Queue' = Queue
    BY <1>8, QueueKept DEF EchoStep, keyboardVars, getterVars, terminalVars, callVars
  <2>2. NewlineAt(n)'
    BY <2>1 DEF NewlineAt
  <2>3. RoundLeft' = RoundLeft
    BY <2>1 DEF RoundLeft
  <2>4. StepsLeft' < StepsLeft
    BY <1>0, <2>1, <2>3, AccessTakesOff, RoundIsNat DEF StepsLeft
  <2> QED BY <1>1, <2>2, <2>4
<1> QED BY <1>2, <1>3, <1>4, <1>5, <1>6, <1>7, <1>8 DEF Main, ReadStep

(* Keys and Ctrl+L leave a newline where it is, and the steps where they   *)
(* are.                                                                    *)
LEMMA ReadStands ==
  ASSUME KeyInv, [Next]_allVars, ~Main, NEW n \in Nat, NewlineAt(n)
  PROVE  NewlineAt(n)' /\ StepsLeft' = StepsLeft
<1>1. ASSUME UNCHANGED <<tpc, gpc, inChar, wpc, off>>,
             Queue' = Queue \/ \E c \in Char : Queue' = Append(Queue, c)
      PROVE  NewlineAt(n)' /\ StepsLeft' = StepsLeft
  <2>1. StepsLeft' = StepsLeft
    BY <1>1 DEF StepsLeft, RoundLeft, AccessesLeft
  <2>2. \A i \in 1 .. Len(Queue) : i \in 1 .. Len(Queue') /\ Queue'[i] = Queue[i]
    BY <1>1, QueueType, AppendProperties
  <2> QED BY <1>1, <2>1, <2>2 DEF NewlineAt
<1>2. ASSUME NEW k \in Typed, Press(k) \/ Release(k)
      PROVE  NewlineAt(n)' /\ StepsLeft' = StepsLeft
  <2>1. UNCHANGED <<tpc, gpc, inChar, wpc, off>>
    BY <1>2, KeyOnScreen DEF Press, Release, getterVars, writerVars
  <2>2. k \in Keys /\ (KeyPressed(k) \/ KeyReleased(k))
    BY <1>2, TypistAssumption DEF Press, Release
  <2> QED BY <1>1, <2>1, <2>2, HandlerAppends
<1>3. CASE StartRead \/ StartPrint
  BY <1>3 DEF StartRead, StartPrint, Read, Emit, NewlineAt
<1>4. CASE UNCHANGED allVars
  <2>1. UNCHANGED <<tpc, gpc, inChar, wpc, off>> /\ Queue' = Queue
    BY <1>4, QueueKept DEF allVars, vars, consoleVars, writerVars, keyboardVars, getterVars,
                           terminalVars, callVars
  <2> QED BY <1>1, <2>1
<1> QED BY <1>2, <1>3, <1>4 DEF Next

(* Once Enter is in the ring, each step of the main thread brings the      *)
(* waiting read nearer its return: the newline comes up to be read, or     *)
(* fewer steps are left until the next character does.  Whatever is typed  *)
(* meanwhile, behind it in the ring, and whatever Ctrl+L does to the       *)
(* screen, puts it off by nothing (syscalls.c:87-133).                     *)
THEOREM ReadsRunDown == Spec => [][ReadRunsDown]_allVars
<1>1. Init => ConsoleInv
  BY EchoInvInit
<1>2. KeyInv /\ LineInv /\ LineInv' /\ ConsoleInv /\ ConsoleInv' /\ [Next]_allVars
        => [ReadRunsDown]_allVars
  <2> SUFFICES ASSUME KeyInv, LineInv, LineInv', ConsoleInv, ConsoleInv', [Next]_allVars,
                      NEW n \in Nat, NewlineAt(n)
               PROVE  /\ StepsLeft \in Nat
                      /\ Main => tpc' = "returned" \/ Nearer(n)
                      /\ ~Main => NewlineAt(n)' /\ StepsLeft' = StepsLeft
    BY DEF ReadRunsDown
  <2>1. StepsLeft \in Nat
    BY LeftIsNat, RoundIsNat DEF StepsLeft
  <2> QED BY <2>1, ReadAdvances, ReadStands
<1> QED BY <1>1, <1>2, ConsoleInTerminal, KeyInvariant, LineInvariant, PTL DEF Spec
=============================================================================
