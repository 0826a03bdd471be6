--------------------------------- MODULE Shell ---------------------------------
(***************************************************************************)
(* The command line of src/src/sh.c: how sh reads a line into input, cuts  *)
(* it into tokens in place and hands pointers into it to its commands.     *)
(*                                                                         *)
(* scanf and fflush are the C library's.  A character is a string of       *)
(* length one and a command's name a word of a character or two; what the  *)
(* commands do to files and to the machine is in Storage and Interrupts.   *)
(***************************************************************************)
EXTENDS Integers, Sequences, SequencesExt, FiniteSetsExt

CONSTANTS
  SIZE,        \* of input, 256
  MAX_TOKENS,  \* 16
  Lines,       \* what the user may type, without the Enter
  clear,       \* the command of that name
  Writers,     \* echo and cat, which take a file behind a ">"
  Redirect,    \* ">"
  Commands     \* the others: help, ls, rm, touch, free, ...

SP  == " "
NL  == "newline"
NUL == "end"

\* Pointers to nothing and to somewhere outside input
NULL == -1
WILD == -2

ASSUME ShellAssumption ==
  /\ SIZE \in Nat \ {0} /\ MAX_TOKENS \in Nat /\ MAX_TOKENS > 2
  /\ \A l \in Lines : /\ l \in Seq(STRING) /\ Len(l) < SIZE
                       /\ \A i \in 1 .. Len(l) : l[i] \notin {NL, NUL}

VARIABLES
  pc,          \* "prompt", "run", or "data" while a command reads its text
  stdin,       \* characters typed and not yet read
  input,       \* char input[256]
  tokens,      \* char *tokens[MAX_TOKENS], as offsets into input
  tokenCount

shellVars == <<pc, stdin, input, tokens, tokenCount>>

Cells == 0 .. SIZE - 1
Slots == 0 .. MAX_TOKENS - 1

\* The string at p
End(a, p) == Min({i \in Cells : i >= p /\ a[i] = NUL})
StringAt(a, p) == [i \in 1 .. End(a, p) - p |-> a[p + i - 1]]
Text(k) == StringAt(input, tokens[k])

\* strcmp of a token with a word; address 0 and a stack's garbage hold none.
Is(k, w) == tokens[k] \in Cells /\ Text(k) = w

\* What input and tokens may hold when sh is called: sh sets neither.
StackCells    == [Cells -> {NUL}] \cup {[i \in Cells |-> IF i = SIZE - 1 THEN NUL ELSE "?"]}
StackPointers == [Slots -> {NULL}] \cup [Slots -> {WILD}]

ShellInit ==
  /\ pc = "prompt" /\ stdin = <<>> /\ tokenCount = 0
  /\ input \in StackCells /\ tokens \in StackPointers

-----------------------------------------------------------------------------
(* Reading a line *)

\* scanf("%[^\n]", input) stores nothing when the line is empty.
Scanned(a, line) ==
  [i \in Cells |-> IF line = <<>> \/ i > Len(line) THEN a[i]
                   ELSE IF i = Len(line) THEN NUL ELSE line[i + 1]]

\* Where tokenize sees a word begin
Starts(a) ==
  {i \in 0 .. End(a, 0) - 1 : a[i] # SP /\ (i = 0 \/ a[i - 1] = SP)}

Cut(a) == [i \in Cells |-> IF i < End(a, 0) /\ a[i] = SP THEN NUL ELSE a[i]]

\* tokenize stores the first max_tokens of them, each in the slot of its count,
\* and leaves the other slots.
Pointers(a, old) ==
  LET starts == Starts(a)
      count(i) == Cardinality({j \in starts : j < i})
  IN [k \in Slots |-> IF \E i \in starts : count(i) = k
                      THEN CHOOSE i \in starts : count(i) = k
                      ELSE old[k]]

UpTo(s, c) == IF c \in ToSet(s) THEN SubSeq(s, 1, SelectInSeq(s, LAMBDA x : x = c) - 1)
              ELSE s

\* Variant: what is left of the line stays.
FlushedNot(s) == SubSeq(s, Len(UpTo(s, NL)) + 1, Len(s))

\* fflush(stdin), "clear stdin buffer": of a command line scanf has left only the
\* newline, put back.  That the library drops it, although stdin has no flush of
\* its own (syscalls.c:158), is taken from that comment.
Flushed(s) == <<>>

\* The first half of sh's loop, up to the test of the command
ReadCommand(typed) ==
  LET a == Scanned(input, UpTo(typed, NL))
  IN /\ pc = "prompt"
     /\ stdin' = Flushed(typed)
     /\ input' = Cut(a)
     /\ tokens' = Pointers(a, tokens)
     /\ tokenCount' = Min({MAX_TOKENS, Cardinality(Starts(a))})
     /\ pc' = IF tokenCount' = 0 THEN "prompt" ELSE "run"

\* At the prompt the user types a line, unless stdin still holds one.
Waiting == IF stdin # <<>> THEN {stdin} ELSE {Append(l, NL) : l \in Lines}

-----------------------------------------------------------------------------
(* The commands *)

\* Variant: the slots keep their pointers.
EndOfLoopKept == pc' = "prompt" /\ UNCHANGED <<input, tokens, tokenCount>>

\* The end of sh's loop
EndOfLoop ==
  /\ pc' = "prompt"
  /\ tokens' = [k \in Slots |-> NULL]
  /\ UNCHANGED <<input, tokenCount>>

Begins(names) == pc = "run" /\ \E c \in names : Is(0, c)

\* clear goes back to the prompt past the end of the loop.
Clear ==
  /\ Begins({clear})
  /\ pc' = "prompt"
  /\ UNCHANGED <<stdin, input, tokens, tokenCount>>

RunCommand == Begins(Commands) /\ EndOfLoop /\ UNCHANGED stdin

\* echo and cat: with ">" the text is read from stdin, ...
Redirected ==
  /\ Begins(Writers) /\ Is(1, Redirect)
  /\ pc' = "data"
  /\ UNCHANGED <<stdin, input, tokens, tokenCount>>

\* ... without it the arguments or a file are shown.
Shown == Begins(Writers) /\ ~Is(1, Redirect) /\ EndOfLoop /\ UNCHANGED stdin

\* scanf("%s", buf): blanks and empty lines are skipped, one word is taken and
\* the rest of its line left.
ReadData(l) ==
  LET start == Min({i \in 1 .. Len(l) : l[i] # SP})
      word  == UpTo(SubSeq(l, start, Len(l)), SP)
  IN /\ pc = "data"
     /\ \E i \in 1 .. Len(l) : l[i] # SP
     /\ stdin' = SubSeq(Append(l, NL), start + Len(word), Len(l) + 1)
     /\ EndOfLoop

IsProgram == pc = "run" /\ ~Begins({clear} \cup Commands \cup Writers)

NoProgram == IsProgram /\ EndOfLoop /\ UNCHANGED stdin

\* A program that exits calls sh anew (syscalls.c:226).
RunProgram ==
  /\ IsProgram
  /\ pc' = "prompt" /\ tokenCount' = 0
  /\ input' \in StackCells /\ tokens' \in StackPointers
  /\ UNCHANGED stdin

=============================================================================
