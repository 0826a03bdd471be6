------------------------------ MODULE ShellHistory ------------------------------
(***************************************************************************)
(* The command line with what was typed kept as history.                   *)
(***************************************************************************)
EXTENDS Shell

VARIABLES
  line,    \* history: the line the shell is at
  unreset, \* history: the loop's end was not reached since sh began or clear ran
  wrote    \* history: the last command read a text

allVars == <<shellVars, line, unreset, wrote>>

Init == ShellInit /\ line = <<>> /\ unreset = TRUE /\ wrote = FALSE

\* An empty line stands for the first word of the line before.
Noted(typed) ==
  line' = IF Head(typed) = NL THEN StringAt(input, 0) ELSE UpTo(typed, NL)

Next ==
  \/ \E typed \in Waiting : ReadCommand(typed) /\ Noted(typed) /\ UNCHANGED <<unreset, wrote>>
  \/ Clear /\ unreset' = TRUE /\ wrote' = FALSE /\ line' = line
  \/ (RunCommand \/ Shown \/ NoProgram) /\ unreset' = FALSE /\ wrote' = FALSE /\ line' = line
  \/ Redirected /\ UNCHANGED <<line, unreset, wrote>>
  \/ \E l \in Lines : ReadData(l) /\ unreset' = FALSE /\ wrote' = TRUE /\ line' = line
  \/ RunProgram /\ unreset' = TRUE /\ wrote' = FALSE /\ line' = line

Spec == Init /\ [][Next]_allVars

-----------------------------------------------------------------------------
(* The words of a line, from their first to their last character *)
Runs(l) ==
  {r \in (1 .. Len(l)) \X (1 .. Len(l)) :
     /\ r[1] <= r[2] /\ \A k \in r[1] .. r[2] : l[k] # SP
     /\ r[1] = 1 \/ l[r[1] - 1] = SP
     /\ r[2] = Len(l) \/ l[r[2] + 1] = SP}

(* The same, in order *)
Words(l) ==
  LET runs == Runs(l)
      nth(k) == CHOOSE r \in runs : Cardinality({q \in runs : q[1] < r[1]}) = k - 1
  IN [k \in 1 .. Cardinality(runs) |-> SubSeq(l, nth(k)[1], nth(k)[2])]

(* What a command finds in tokens, until it has returned: the words of the *)
(* line, and no argument that is not on the line.  The exception is a      *)
(* command that follows clear, or comes first: behind the words it finds   *)
(* the stack's pointers, or the ones into the line that clear was on, and  *)
(* these are strings within input (sh.c:49, sh.c:78, sh.c:159).            *)
TokensAreTheLine ==
  pc # "prompt" =>
    LET w == Words(line)
    IN \A k \in Slots :
         IF k < Len(w) THEN Is(k, w[k + 1])
         ELSE \/ tokens[k] = NULL
              \/ /\ unreset
                 /\ \/ tokens[k] = WILD
                    \/ /\ tokens[k] \in Cells
                       /\ \E i \in Cells : i >= tokens[k] /\ input[i] = NUL

(* A command line was typed at the prompt, with one exception: what stands *)
(* behind the first word of a text given to echo > or cat > is the next    *)
(* command line (sh.c:63, sh.c:129 read a word and flush nothing).  It     *)
(* rests on the library's fflush dropping what scanf has put back.         *)
OnlyTextIsLeftOver == stdin # <<>> => pc = "prompt" /\ wrote

=============================================================================
