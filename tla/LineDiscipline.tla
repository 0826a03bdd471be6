---------------------------- MODULE LineDiscipline ----------------------------
(***************************************************************************)
(* What standard input promises: the characters that reach the keyboard    *)
(* buffer (KeyFifo says which do) are taken in order, each line is edited  *)
(* with backspace as it is taken, and the reads return the lines in order, *)
(* one piece after the other, none empty.  The newline is the last         *)
(* character of its line and is read like the others.                      *)
(***************************************************************************)
EXTENDS Naturals, Sequences

CONSTANTS Char, Newline, Backspace, NoChar, Counts

VARIABLES
  queue,   \* characters in the keyboard buffer
  out,     \* the character taken from it, or NoChar
  line,    \* the line being edited
  ready,   \* the rest of the last finished line
  result   \* what the last read returned

vars == <<queue, out, line, ready, result>>

Init ==
  /\ queue = <<>> /\ out = NoChar
  /\ line = <<>> /\ ready = <<>> /\ result = <<>>

Arrive ==
  /\ \E c \in Char : queue' = Append(queue, c)
  /\ UNCHANGED <<out, line, ready, result>>

\* Characters are taken only while no finished line waits.
Take ==
  /\ queue # <<>> /\ out = NoChar /\ ready = <<>>
  /\ out' = Head(queue) /\ queue' = Tail(queue)
  /\ UNCHANGED <<line, ready, result>>

Edit ==
  /\ out # NoChar /\ out' = NoChar
  /\ CASE out = Newline   -> line' = <<>> /\ ready' = Append(line, Newline)
       [] out = Backspace -> /\ line' = SubSeq(line, 1, Len(line) - 1)
                             /\ ready' = ready
       [] OTHER           -> line' = Append(line, out) /\ ready' = ready
  /\ UNCHANGED <<queue, result>>

Deliver(n) ==
  LET m == IF n > Len(ready) THEN Len(ready) ELSE n
  IN  /\ ready # <<>> /\ result = <<>>
      /\ result' = SubSeq(ready, 1, m)
      /\ ready'  = SubSeq(ready, m + 1, Len(ready))
      /\ UNCHANGED <<queue, out, line>>

Used == result' = <<>> /\ UNCHANGED <<queue, out, line, ready>>

Next == Arrive \/ Take \/ Edit \/ Used \/ \E n \in Counts : Deliver(n)

Spec == Init /\ [][Next]_vars

=============================================================================
