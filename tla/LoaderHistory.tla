------------------------------ MODULE LoaderHistory ------------------------------
(***************************************************************************)
(* Programs in memory, with what was granted and what has run as history.  *)
(***************************************************************************)
EXTENDS Loader

VARIABLES
  grants,  \* history: how many grants that were not given back hold an address
  sunk,    \* history: more was given back than granted
  ran,     \* history: the programs that were loaded since the archive was made
  fresh    \* history: the program has not written yet

allLoaderVars == <<loaderVars, grants, sunk, ran, fresh>>

LoaderHistoryInit ==
  /\ LoaderInit
  /\ grants = [a \in 0 .. ADDRESSES - 1 |-> 0] /\ sunk = FALSE
  /\ ran = {} /\ fresh = FALSE

Granted(increment) ==
  /\ grants' = IF brk' > brk
               THEN [a \in DOMAIN grants |-> grants[a] + IF a \in brk .. brk' - 1 THEN 1 ELSE 0]
               ELSE [a \in DOMAIN grants |-> IF a >= brk' THEN 0 ELSE grants[a]]
  /\ sunk' = (sunk \/ brk' < HEAP)

LoaderNext ==
  \/ \E f \in Names : LoadBinary(f) /\ ran' = ran \cup {f} /\ UNCHANGED <<grants, sunk, fresh>>
  \/ LoadSegment /\ UNCHANGED <<grants, sunk, ran, fresh>>
  \/ EnterUsermode /\ fresh' = TRUE /\ UNCHANGED <<grants, sunk, ran>>
  \/ \E a \in Cells : Write(a) /\ fresh' = FALSE /\ UNCHANGED <<grants, sunk, ran>>
  \/ \E i \in Increments : kbrk(i) /\ Granted(i) /\ UNCHANGED <<ran, fresh>>
  \/ Exit /\ fresh' = FALSE /\ UNCHANGED <<grants, sunk, ran>>
  \/ (Flush \/ Reload) /\ UNCHANGED <<grants, sunk, ran, fresh>>
  \/ /\ Restart
     /\ grants' = [a \in DOMAIN grants |-> 0] /\ sunk' = FALSE
     /\ fresh' = FALSE /\ ran' = ran

LoaderSpec == LoaderHistoryInit /\ [][LoaderNext]_allLoaderVars

-----------------------------------------------------------------------------
Spans(S) == UNION {Span(f) : f \in S}

\* What the linker put at an address, the later segment on top
Linked(f, a) ==
  LET last == CHOOSE i \in DOMAIN File[f].segs :
                /\ a \in Held(File[f].segs[i])
                /\ \A j \in DOMAIN File[f].segs : j > i => a \notin Held(File[f].segs[j])
      s == File[f].segs[last]
  IN IF a < s.vaddr + s.filesz THEN <<f, s.offset + 1 + a - s.vaddr>> ELSE Zero

(* A program starts as it was linked, every time: its segments copied and  *)
(* its bss zero whatever ran there before it.  The exception is a program  *)
(* whose file lies under one that was loaded: it starts with the other's   *)
(* text or data in it (binary.c:33-40, app.ld:4).                          *)
LoadedAsLinked ==
  pc = "program" /\ fresh /\ Place(prog) \cap Spans(ran) = {} =>
    \A a \in Span(prog) : mem[a] = Linked(prog, a)

(* A file that no loaded program lies over is in the buffer and on the     *)
(* disk as it was, through loads, writes, flushes and restarts; loading    *)
(* writes nothing past what a program's segments hold (binary.c:36-38).    *)
FilesOutliveLoads ==
  \A f \in Names :
    Place(f) \cap Spans(ran) = {} =>
      \A a \in Place(f) : mem[a] = <<f, a - Header(f)>> /\ disk[a] = mem[a]

(* No address is granted twice before it was given back, by whichever      *)
(* program, and none past the heap's end; none in front of it, unless a    *)
(* program gave back more than was granted, which moves the break into the *)
(* kernel's other variables (mem.c:11-19).                                 *)
GrantsApart ==
  \A a \in DOMAIN grants :
    /\ grants[a] <= 1
    /\ grants[a] = 1 => a < Top /\ (a >= HEAP \/ sunk)

=============================================================================
