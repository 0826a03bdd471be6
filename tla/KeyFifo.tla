-------------------------------- MODULE KeyFifo --------------------------------
(***************************************************************************)
(* What the keyboard buffer of src/src/io.c promises: a bounded queue between  *)
(* the keyboard interrupt and getInput.  Characters come out in the order  *)
(* they were typed, and one is lost only when the queue is full.           *)
(***************************************************************************)
EXTENDS Naturals, Sequences

CONSTANTS
  Char,      \* what a key can put in the buffer
  NoChar,    \* getInput's 0: nothing
  Capacity

VARIABLES
  queue,  \* typed and not yet returned
  out,    \* the character getInput has returned to its caller
  lost    \* a character has been lost since the last was taken

Init == queue = <<>> /\ out = NoChar /\ lost = FALSE

Press(c) ==
  /\ IF Len(queue) < Capacity
     THEN queue' = Append(queue, c) /\ lost' = lost
     ELSE queue' = queue /\ lost' = TRUE
  /\ out' = out

Take ==
  /\ out = NoChar
  /\ queue # <<>>
  /\ out' = Head(queue)
  /\ queue' = Tail(queue)
  /\ lost' = FALSE

Hand ==
  /\ out # NoChar
  /\ out' = NoChar
  /\ UNCHANGED <<queue, lost>>

Next == (\E c \in Char : Press(c)) \/ Take \/ Hand

Spec == Init /\ [][Next]_<<queue, out, lost>>

\* A queued character reaches the caller.
Delivery == queue # <<>> ~> out # NoChar

=============================================================================
