------------------------------ MODULE LibraryProofs ------------------------------
(***************************************************************************)
(* What the run library checks, for every size.  Programs in memory, for   *)
(* every archive and every heap: what loadBinary makes of memory, what     *)
(* becomes of the files under it, and what kbrk grants.  Then the numbers  *)
(* that are written and read back, for every width and every size of word, *)
(* and the dates that ls shows, for every number of days.                  *)
(***************************************************************************)
EXTENDS LoaderHistory, Conversions, SequenceTheorems, WellFoundedInduction, TLAPS

-----------------------------------------------------------------------------
(* Programs in memory *)

\* What a load has left when it is past the first segments: the cells of
\* each of them are as the last segment that holds them has them.
Value(f, i, a) ==
  LET s == File[f].segs[i]
  IN IF a < s.vaddr + s.filesz THEN <<f, s.offset + 1 + a - s.vaddr>> ELSE Zero

Segs == DOMAIN File[prog].segs

Memory == mem = [a \in Cells |-> mem[a]]

Types ==
  /\ Memory
  /\ brk \in 0 .. Top
  /\ pc \in {"shell", "loading", "program"}
  /\ prog \in Names /\ ran \subseteq Names
  /\ seg \in Nat \ {0} /\ fresh \in BOOLEAN
  /\ pc # "shell" => prog \in ran /\ File[prog].executable
  /\ pc = "loading" => seg <= Len(File[prog].segs) + 1
  /\ fresh => pc = "program" /\ seg = Len(File[prog].segs) + 1

Laid ==
  (pc = "loading" \/ fresh) /\ Place(prog) \cap Spans(ran) = {} =>
    \A k \in Segs : \A a \in Held(File[prog].segs[k]) :
      k < seg => \E i \in Segs :
        /\ i < seg /\ a \in Held(File[prog].segs[i])
        /\ \A j \in Segs : i < j /\ j < seg => a \notin Held(File[prog].segs[j])
        /\ mem[a] = Value(prog, i, a)

Granting ==
  /\ grants \in [0 .. ADDRESSES - 1 -> {0, 1}]
  /\ sunk \in BOOLEAN /\ (brk < HEAP => sunk)
  /\ \A a \in 0 .. ADDRESSES - 1 : grants[a] = 1 => a < brk /\ (a >= HEAP \/ sunk)

IInv == Types /\ FilesOutliveLoads /\ Laid /\ Granting

-----------------------------------------------------------------------------
LEMMA Numbers ==
  /\ ADDRESSES \in Nat /\ MEMORY \in Nat /\ HEAP \in Nat /\ HEAP_SIZE \in Nat
  /\ BUF \in Nat /\ BUF_SIZE \in Nat /\ Top \in Nat
  /\ Top <= BUF /\ BUF + BUF_SIZE <= MEMORY /\ MEMORY < ADDRESSES /\ Top < ADDRESSES
  /\ ADDRESSES \div 2 \in Nat /\ ADDRESSES # 0
BY LoaderAssumption DEF Top

Phdrs == [load : BOOLEAN, offset : Nat, vaddr : Nat, filesz : Nat, memsz : Nat]

LEMMA Tables ==
  ASSUME NEW f \in Names
  PROVE  File[f].segs \in Seq(Phdrs) /\ Len(File[f].segs) \in Nat
<1>1. File[f].segs \in Seq(Phdrs)
  BY LoaderAssumption DEF Phdrs
<1> QED BY <1>1

\* The places of files and segments
LEMMA Layout ==
  ASSUME NEW f \in Names
  PROVE  /\ File[f].at \in Nat /\ File[f].cells \in Nat \ {0} /\ Header(f) \in Nat
         /\ Place(f) \subseteq Buffer /\ Buffer \subseteq Cells
         /\ Place(f) = Header(f) .. Header(f) + File[f].cells - 1
         /\ Span(f) \subseteq Cells
         /\ \A g \in Names : g # f => Place(f) \cap Place(g) = {}
<1>1. /\ File[f].at \in Nat /\ File[f].cells \in Nat \ {0}
      /\ Place(f) \subseteq Buffer /\ Span(f) \subseteq BUF .. MEMORY - 1
      /\ \A g \in Names \ {f} : Place(f) \cap Place(g) = {}
  BY LoaderAssumption
<1>2. Header(f) \in Nat /\ Place(f) = Header(f) .. Header(f) + File[f].cells - 1
  BY <1>1, Numbers DEF Place, Header
<1>3. Buffer \subseteq Cells /\ BUF .. MEMORY - 1 \subseteq Cells
  BY Numbers DEF Buffer, Cells
<1> QED BY <1>1, <1>2, <1>3

LEMMA SegmentFacts ==
  ASSUME NEW f \in Names, NEW i \in DOMAIN File[f].segs
  PROVE  /\ Len(File[f].segs) \in Nat /\ i \in 1 .. Len(File[f].segs)
         /\ File[f].segs[i].load \in BOOLEAN /\ File[f].segs[i].offset \in Nat
         /\ File[f].segs[i].vaddr \in Nat
         /\ File[f].segs[i].filesz \in Nat /\ File[f].segs[i].memsz \in Nat
         /\ File[f].segs[i].filesz <= File[f].segs[i].memsz
         /\ File[f].segs[i].offset + 1 + File[f].segs[i].filesz <= File[f].cells
         /\ Held(File[f].segs[i]) \subseteq Span(f)
         /\ File[f].executable => Len(File[f].segs) + 2 <= File[f].cells
<1> DEFINE S == File[f].segs
<1>1. S \in Seq(Phdrs)
  BY Tables
<1>2. i \in 1 .. Len(S) /\ Len(S) \in Nat /\ S[i] \in Phdrs
  BY <1>1
<1>3. S[i] \in Segments(f)
  BY DEF Segments
<1>4. S[i].filesz <= S[i].memsz /\ S[i].offset + 1 + S[i].filesz <= File[f].cells
  BY <1>3, LoaderAssumption
<1>5. Held(S[i]) \subseteq Span(f)
  BY <1>3 DEF Span
<1>6. File[f].executable => Len(S) + 2 <= File[f].cells
  BY LoaderAssumption
<1> QED BY <1>2, <1>4, <1>5, <1>6 DEF Phdrs

\* What loadBinary writes is what its segment holds.
LEMMA Writes ==
  ASSUME Types, LoadSegment
  PROVE  LET s == File[prog].segs[seg]
         IN /\ seg \in Segs /\ seg <= Len(File[prog].segs) /\ pc = "loading"
            /\ \A a \in Cells : a \notin Held(s) => mem'[a] = mem[a]
            /\ ~Loads(s) => mem' = mem
            /\ Loads(s) => /\ s.load
                           /\ \A a \in Held(s) \cap Cells :
                                mem'[a] = IF a < s.vaddr + s.filesz
                                          THEN mem[Data(prog) + s.offset + a - s.vaddr]
                                          ELSE Zero
            /\ Memory'
<1> DEFINE s == File[prog].segs[seg]
<1>1. seg \in Segs /\ pc = "loading" /\ prog \in Names
  <2>1. File[prog].segs \in Seq(Phdrs)
    BY Tables DEF Types
  <2>2. seg \in Nat \ {0} /\ seg <= Len(File[prog].segs)
    BY DEF LoadSegment, Types
  <2> QED BY <2>1, <2>2 DEF LoadSegment, Segs, Types
<1>2. /\ s.vaddr \in Nat /\ s.filesz \in Nat /\ s.memsz \in Nat /\ s.filesz <= s.memsz
      /\ s.load \in BOOLEAN
  BY <1>1, SegmentFacts DEF Segs
<1>3. Loads(s) => s.load
  BY DEF Loads
<1>4. mem' = IF Loads(s) THEN [a \in Cells |-> IF a \in Bss(s) THEN Zero ELSE Copied(s)[a]]
             ELSE mem
  BY DEF LoadSegment
<1>5. ASSUME NEW a \in Cells, Loads(s)
      PROVE  mem'[a] = IF a \in Bss(s) THEN Zero
                       ELSE IF a \in s.vaddr .. s.vaddr + s.filesz - 1
                            THEN mem[Data(prog) + s.offset + a - s.vaddr] ELSE mem[a]
  BY <1>4, <1>5 DEF Copied
<1>6. \A a \in Cells : a \in Nat
  BY Numbers DEF Cells
<1>7. ASSUME NEW a \in Cells, a \notin Held(s)
      PROVE  mem'[a] = mem[a]
  <2>1. CASE Loads(s)
    <3>1. a \notin Bss(s) /\ a \notin s.vaddr .. s.vaddr + s.filesz - 1
      BY <1>2, <1>3, <1>6, <1>7, <2>1 DEF Held, Bss
    <3> QED BY <1>5, <2>1, <3>1
  <2>2. CASE ~Loads(s)
    BY <1>4, <2>2
  <2> QED BY <2>1, <2>2
<1>8. ASSUME NEW a \in Cells, a \in Held(s), Loads(s)
      PROVE  mem'[a] = IF a < s.vaddr + s.filesz
                       THEN mem[Data(prog) + s.offset + a - s.vaddr] ELSE Zero
  <2>1. a \in s.vaddr .. s.vaddr + s.memsz - 1
    BY <1>3, <1>8 DEF Held
  <2>2. a < s.vaddr + s.filesz => a \notin Bss(s) /\ a \in s.vaddr .. s.vaddr + s.filesz - 1
    BY <1>2, <2>1 DEF Bss
  <2>3. ~(a < s.vaddr + s.filesz) => a \in Bss(s)
    BY <1>2, <2>1 DEF Bss
  <2> QED BY <1>5, <1>8, <2>2, <2>3
<1>9. Memory'
  BY <1>4 DEF Types, Memory
<1> QED BY <1>1, <1>3, <1>4, <1>7, <1>8, <1>9 DEF LoadSegment

-----------------------------------------------------------------------------
LEMMA IInvInit == LoaderHistoryInit => IInv
<1> SUFFICES ASSUME LoaderHistoryInit  PROVE IInv
  OBVIOUS
<1> USE DEF LoaderHistoryInit, LoaderInit
<1>1. Types
  <2>1. mem = [a \in Cells |-> IF a \in Buffer THEN Archive[a] ELSE Zero]
    OBVIOUS
  <2>2. Memory
    BY <2>1 DEF Memory
  <2>3. prog \in Names
    BY LoaderAssumption
  <2>4. HEAP \in 0 .. Top
    BY Numbers DEF Top
  <2>5. brk = HEAP /\ pc = "shell" /\ seg = 1 /\ ran = {} /\ fresh = FALSE
    OBVIOUS
  <2> HIDE DEF LoaderHistoryInit, LoaderInit
  <2>6. brk \in 0 .. Top /\ seg \in Nat \ {0}
    BY <2>4, <2>5
  <2>7. pc = "shell" /\ ran \subseteq Names /\ ~fresh /\ fresh \in BOOLEAN
    BY <2>5
  <2> QED BY <2>2, <2>3, <2>6, <2>7 DEF Types
<1>2. FilesOutliveLoads
  <2> SUFFICES ASSUME NEW f \in Names, NEW a \in Place(f)
               PROVE  mem[a] = <<f, a - Header(f)>> /\ disk[a] = mem[a]
    BY DEF FilesOutliveLoads
  <2>1. a \in Buffer /\ a \in Cells /\ \A g \in Names : a \in Place(g) => g = f
    BY Layout
  <2>2. Archive[a] = <<f, a - BUF - File[f].at>>
    BY <2>1 DEF Archive
  <2>3. a - BUF - File[f].at = a - Header(f)
    BY <2>1, Layout, Numbers DEF Header, Cells
  <2> QED BY <2>1, <2>2, <2>3
<1>3. Granting
  <2>1. grants = [a \in 0 .. ADDRESSES - 1 |-> 0] /\ sunk = FALSE /\ brk = HEAP /\ ~(HEAP < HEAP)
    BY Numbers
  <2> HIDE DEF LoaderHistoryInit, LoaderInit
  <2>2. grants \in [0 .. ADDRESSES - 1 -> {0, 1}] /\ \A a \in 0 .. ADDRESSES - 1 : grants[a] # 1
    BY <2>1
  <2> QED BY <2>1, <2>2 DEF Granting
<1> QED BY <1>1, <1>2, <1>3 DEF IInv, Laid

LEMMA TypesStep ==
  ASSUME Types, [LoaderNext]_allLoaderVars
  PROVE  Types'
<1> USE Numbers DEF Types
<1>1. ASSUME NEW f \in Names, LoadBinary(f), ran' = ran \cup {f}, UNCHANGED fresh
      PROVE  Types'
  <2>1. File[f].executable /\ File[f].segs \in Seq(Phdrs)
    BY <1>1, Tables DEF LoadBinary, Executable
  <2>2. Len(File[f].segs) \in Nat /\ Memory'
    BY <1>1, Tables DEF LoadBinary, Memory
  <2> QED BY <1>1, <2>1, <2>2 DEF LoadBinary
<1>2. CASE LoadSegment /\ UNCHANGED <<ran, fresh>>
  <2>1. Memory' /\ seg <= Len(File[prog].segs) /\ pc = "loading"
    BY <1>2, Writes
  <2>2. Len(File[prog].segs) \in Nat
    BY Tables
  <2>3. seg' = seg + 1 /\ UNCHANGED <<brk, pc, prog, ran, fresh>> /\ fresh = FALSE
    BY <1>2, <2>1 DEF LoadSegment
  <2>4. seg' \in Nat \ {0} /\ seg' <= Len(File[prog].segs) + 1
    BY <2>1, <2>2, <2>3
  <2> QED BY <2>1, <2>3, <2>4
<1>3. CASE EnterUsermode /\ fresh' = TRUE /\ UNCHANGED ran
  <2>1. Len(File[prog].segs) \in Nat
    BY Tables
  <2>2. /\ pc' = "program" /\ pc = "loading" /\ seg > Len(File[prog].segs)
        /\ UNCHANGED <<mem, brk, prog, seg, ran>> /\ fresh' = TRUE
    BY <1>3 DEF EnterUsermode
  <2>3. seg \in Nat /\ seg <= Len(File[prog].segs) + 1 /\ Memory'
    BY <2>2 DEF Memory
  <2>4. seg = Len(File[prog].segs) + 1
    BY <2>1, <2>2, <2>3
  <2> QED BY <2>2, <2>3, <2>4
<1>4. ASSUME NEW a \in Cells, Write(a), fresh' = FALSE, UNCHANGED ran
      PROVE  Types'
  <2>1. Memory'
    BY <1>4 DEF Write, Memory
  <2> QED BY <1>4, <2>1 DEF Write
<1>5. ASSUME NEW i \in Increments, kbrk(i), UNCHANGED <<ran, fresh>>
      PROVE  Types'
  <2>1. i \in Int
    BY LoaderAssumption
  <2>2. Fits(i) => (brk + i) % ADDRESSES \in 0 .. Top
    BY <2>1 DEF Fits
  <2>3. Memory'
    BY <1>5 DEF kbrk, Memory
  <2> QED BY <1>5, <2>2, <2>3 DEF kbrk
<1>6. CASE Exit /\ fresh' = FALSE /\ UNCHANGED ran
  BY <1>6 DEF Exit, Memory
<1>7. CASE (Flush \/ Reload) /\ UNCHANGED <<ran, fresh>>
  <2>1. Memory'
    BY <1>7 DEF Flush, Reload, Loaded, Memory
  <2> QED BY <1>7, <2>1 DEF Flush, Reload
<1>8. CASE Restart /\ fresh' = FALSE /\ ran' = ran
  <2>1. Memory'
    BY <1>8 DEF Restart, Loaded, Memory
  <2>2. HEAP \in 0 .. Top
    BY DEF Top
  <2>3. pc' = "shell" /\ brk' = HEAP /\ seg' = 1 /\ UNCHANGED <<prog, ran>> /\ fresh' = FALSE
    BY <1>8 DEF Restart
  <2>4. seg' \in Nat \ {0}
    BY <2>3
  <2> QED BY <2>1, <2>2, <2>3, <2>4
<1>9. CASE UNCHANGED allLoaderVars
  BY <1>9 DEF allLoaderVars, loaderVars, Memory
<1> QED BY <1>1, <1>2, <1>3, <1>4, <1>5, <1>6, <1>7, <1>8, <1>9 DEF LoaderNext

\* No step touches a file that no program loaded so far lies over.
LEMMA FilesStep ==
  ASSUME Types, FilesOutliveLoads, [LoaderNext]_allLoaderVars
  PROVE  FilesOutliveLoads'
<1> SUFFICES ASSUME NEW f \in Names, Place(f) \cap Spans(ran') = {}, NEW a \in Place(f)
             PROVE  mem'[a] = <<f, a - Header(f)>> /\ disk'[a] = mem'[a]
  BY DEF FilesOutliveLoads, Place, Spans, Span, Segments, Held, Header
<1>1. ran \subseteq ran'
  BY DEF LoaderNext, allLoaderVars, Types
<1>2. Place(f) \cap Spans(ran) = {}
  BY <1>1 DEF Spans
<1>3. mem[a] = <<f, a - Header(f)>> /\ disk[a] = mem[a]
  BY <1>2 DEF FilesOutliveLoads
<1>4. a \in Buffer /\ a \in Cells
  BY Layout
<1>5. prog \in ran => a \notin Span(prog)
  BY <1>2 DEF Spans
<1>6. CASE LoadSegment
  <2>1. a \notin Held(File[prog].segs[seg])
    BY <1>5, <1>6, Writes, SegmentFacts DEF Types, Segs
  <2>2. mem'[a] = mem[a]
    BY <1>4, <1>6, <2>1, Writes
  <2> QED BY <1>3, <1>6, <2>2 DEF LoadSegment
<1>7. ASSUME NEW b \in Cells, Write(b)  PROVE mem'[a] = mem[a] /\ disk' = disk
  BY <1>5, <1>7 DEF Write, Types
<1>8. CASE Flush
  BY <1>3, <1>4, <1>8 DEF Flush
<1>9. CASE Reload \/ Restart
  BY <1>3, <1>4, <1>9 DEF Reload, Restart, Loaded
<1>10. CASE UNCHANGED <<mem, disk>>
  BY <1>3, <1>10
<1> QED BY <1>3, <1>6, <1>7, <1>8, <1>9, <1>10
        DEF LoaderNext, LoadBinary, EnterUsermode, kbrk, Exit, allLoaderVars, loaderVars

\* A segment more is laid, on top of those before it.
LEMMA LaidStep ==
  ASSUME Types, FilesOutliveLoads, Laid, [LoaderNext]_allLoaderVars
  PROVE  Laid'
<1> SUFFICES ASSUME pc' = "loading" \/ fresh', Place(prog') \cap Spans(ran') = {}
             PROVE  \A k \in Segs' : \A a \in Held(File[prog'].segs[k]) :
                      k < seg' => \E i \in Segs' :
                        /\ i < seg' /\ a \in Held(File[prog'].segs[i])
                        /\ \A j \in Segs' : i < j /\ j < seg' => a \notin Held(File[prog'].segs[j])
                        /\ mem'[a] = Value(prog', i, a)
  BY DEF Laid, Place, Spans, Span, Segments, Held, Value
<1>1. ASSUME NEW f \in Names, LoadBinary(f)  PROVE Laid'
  <2>1. seg' = 1 /\ prog' = f
    BY <1>1 DEF LoadBinary
  <2>2. \A k \in DOMAIN File[f].segs : ~(k < 1)
    BY SegmentFacts
  <2> QED BY <2>1, <2>2 DEF Laid, Segs
<1>2. CASE LoadSegment /\ ran' = ran /\ fresh' = fresh
  <2> DEFINE s == File[prog].segs[seg]
  <2>1. /\ seg \in Segs /\ prog' = prog /\ pc = "loading" /\ seg' = seg + 1 /\ prog \in Names
        /\ seg \in Nat /\ File[prog].executable /\ Segs \subseteq Nat
    BY <1>2, Writes, SegmentFacts DEF LoadSegment, Types, Segs
  <2>2. Place(prog) \cap Spans(ran) = {}
    BY <1>2, <2>1
  <2>3. /\ s.offset \in Nat /\ s.vaddr \in Nat /\ s.filesz \in Nat /\ s.memsz \in Nat
        /\ s.offset + 1 + s.filesz <= File[prog].cells
        /\ seg + 2 <= File[prog].cells /\ Held(s) \subseteq Cells
    <3>1. seg \in DOMAIN File[prog].segs
      BY <2>1 DEF Segs
    <3>2. seg <= Len(File[prog].segs) /\ Len(File[prog].segs) + 2 <= File[prog].cells
          /\ Len(File[prog].segs) \in Nat
      BY <2>1, <3>1, SegmentFacts
    <3>3. File[prog].cells \in Nat /\ seg + 2 <= File[prog].cells
      BY <2>1, <3>2, Layout
    <3>4. Held(s) \subseteq Cells
      BY <2>1, <3>1, SegmentFacts, Layout
    <3> QED BY <2>1, <3>1, <3>3, <3>4, SegmentFacts
  <2>4. /\ Header(prog) \in Nat /\ File[prog].cells \in Nat
        /\ \A c \in Nat : c < File[prog].cells => Header(prog) + c \in Place(prog)
    BY <2>1, Layout
  <2>5. \A c \in Nat : c < File[prog].cells => mem[Header(prog) + c] = <<prog, c>>
    <3> SUFFICES ASSUME NEW c \in Nat, c < File[prog].cells
                 PROVE  mem[Header(prog) + c] = <<prog, c>>
      OBVIOUS
    <3>1. Header(prog) + c \in Place(prog) /\ (Header(prog) + c) - Header(prog) = c
      BY <2>4
    <3> QED BY <2>1, <2>2, <3>1 DEF FilesOutliveLoads
  <2>6. Phdr = <<prog, seg + 1>>
    <3>1. Data(prog) + seg = Header(prog) + (seg + 1) /\ seg + 1 \in Nat
          /\ seg + 1 < File[prog].cells
      BY <2>1, <2>3, <2>4 DEF Data
    <3> QED BY <2>5, <3>1 DEF Phdr
  <2>7. ASSUME NEW a \in Held(s)  PROVE mem'[a] = Value(prog, seg, a)
    <3>1. s.load /\ a \in s.vaddr .. s.vaddr + s.memsz - 1
      BY <2>7 DEF Held
    <3>2. mem'[a] = IF a < s.vaddr + s.filesz
                    THEN mem[Data(prog) + s.offset + a - s.vaddr] ELSE Zero
      BY <1>2, <2>3, <2>6, <3>1, Writes DEF Loads
    <3>3. CASE a < s.vaddr + s.filesz
      <4> DEFINE c == s.offset + 1 + a - s.vaddr
      <4>1. c \in Nat /\ c < File[prog].cells
            /\ Data(prog) + s.offset + a - s.vaddr = Header(prog) + c
        BY <2>3, <2>4, <3>1, <3>3 DEF Data
      <4> QED BY <2>5, <3>2, <3>3, <4>1 DEF Value
    <3>4. CASE ~(a < s.vaddr + s.filesz)
      BY <3>2, <3>4 DEF Value
    <3> QED BY <3>3, <3>4
  <2>8. ASSUME NEW k \in Segs, NEW a \in Held(File[prog].segs[k]), k < seg + 1
        PROVE  \E i \in Segs : /\ i < seg + 1 /\ a \in Held(File[prog].segs[i])
                               /\ \A j \in Segs : i < j /\ j < seg + 1 => a \notin Held(File[prog].segs[j])
                               /\ mem'[a] = Value(prog, i, a)
    <3>1. CASE a \in Held(s)
      <4>1. \A j \in Segs : ~(seg < j /\ j < seg + 1)
        BY <2>1
      <4>2. mem'[a] = Value(prog, seg, a)
        BY <2>7, <3>1
      <4>3. seg < seg + 1
        BY <2>1
      <4> QED BY <2>1, <3>1, <4>1, <4>2, <4>3
    <3>2. CASE a \notin Held(s)
      <4>1. k < seg
        BY <2>1, <2>8, <3>2
      <4>2. PICK i \in Segs : /\ i < seg /\ a \in Held(File[prog].segs[i])
                              /\ \A j \in Segs : i < j /\ j < seg => a \notin Held(File[prog].segs[j])
                              /\ mem[a] = Value(prog, i, a)
        BY <2>1, <2>2, <4>1 DEF Laid
      <4>3. a \in Cells
        BY <2>1, <2>8, SegmentFacts, Layout DEF Segs
      <4>4. mem'[a] = mem[a]
        BY <1>2, <3>2, <4>3, Writes
      <4>5. \A j \in Segs : i < j /\ j < seg + 1 => j = seg \/ j < seg
        BY <2>1
      <4>6. i < seg + 1
        BY <2>1, <4>2
      <4> QED BY <3>2, <4>2, <4>4, <4>5, <4>6
    <3> QED BY <3>1, <3>2
  <2>9. Segs' = Segs
    BY <2>1 DEF Segs
  <2> QED BY <2>1, <2>8, <2>9 DEF Laid
<1>3. CASE UNCHANGED <<mem, prog, seg, ran>> /\ (pc = "loading" \/ fresh)
  BY <1>3 DEF Laid, Segs
<1>4. pc = "loading" \/ fresh \/ (\E f \in Names : LoadBinary(f))
  BY DEF LoaderNext, EnterUsermode, Write, kbrk, Exit, Flush, Reload, Restart, LoadSegment,
     allLoaderVars, loaderVars, Types
<1>5. \/ \E f \in Names : LoadBinary(f)
      \/ LoadSegment /\ ran' = ran /\ fresh' = fresh
      \/ UNCHANGED <<mem, prog, seg, ran>>
  BY <1>4 DEF LoaderNext, EnterUsermode, Write, kbrk, Exit, Flush, Reload, Restart,
     allLoaderVars, loaderVars, Types
<1> QED BY <1>1, <1>2, <1>3, <1>4, <1>5 DEF Laid

LEMMA Below == \A m, n \in Nat : \A a \in m .. n - 1 : a < n
OBVIOUS

\* The break and what is granted below it
LEMMA GrantingStep ==
  ASSUME Types, Granting, [LoaderNext]_allLoaderVars
  PROVE  Granting'
<1> USE Numbers DEF Granting
<1>1. ASSUME NEW i \in Increments, kbrk(i), Granted(i)
      PROVE  Granting'
  <2>1. brk \in Nat /\ brk' \in Nat /\ brk' <= Top /\ sunk' = (sunk \/ brk' < HEAP)
    <3>1. i \in Int
      BY LoaderAssumption
    <3>2. Fits(i) => (brk + i) % ADDRESSES \in 0 .. Top
      BY <3>1 DEF Fits, Types
    <3> QED BY <1>1, <3>2 DEF kbrk, Granted, Types
  <2>2. CASE brk' > brk
    <3>1. grants' = [a \in 0 .. ADDRESSES - 1 |->
                       grants[a] + IF a \in brk .. brk' - 1 THEN 1 ELSE 0]
      BY <1>1, <2>2 DEF Granted
    <3>2. ASSUME NEW a \in 0 .. ADDRESSES - 1
          PROVE  /\ grants'[a] \in {0, 1}
                 /\ grants'[a] = 1 => a < brk' /\ (a >= HEAP \/ sunk')
      <4>1. CASE a \in brk .. brk' - 1
        <5>1. grants[a] = 0
          BY <2>1, <3>2, <4>1
        <5>2. grants'[a] = 1
          BY <3>1, <3>2, <4>1, <5>1
        <5>3. a >= HEAP \/ sunk'
          BY <2>1, <4>1
        <5>4. a < brk'
          BY <2>1, <4>1, Below
        <5> QED BY <5>2, <5>3, <5>4
      <4>2. CASE a \notin brk .. brk' - 1
        <5>1. grants'[a] = grants[a]
          BY <3>1, <3>2, <4>2
        <5> QED BY <2>1, <2>2, <3>2, <5>1
      <4> QED BY <4>1, <4>2
    <3> QED BY <2>1, <2>2, <3>1, <3>2
  <2>3. CASE ~(brk' > brk)
    <3>1. grants' = [a \in 0 .. ADDRESSES - 1 |-> IF a >= brk' THEN 0 ELSE grants[a]]
      BY <1>1, <2>3 DEF Granted
    <3>2. ASSUME NEW a \in 0 .. ADDRESSES - 1
          PROVE  /\ grants'[a] \in {0, 1}
                 /\ grants'[a] = 1 => a < brk' /\ (a >= HEAP \/ sunk')
      BY <2>1, <2>3, <3>1, <3>2
    <3> QED BY <2>1, <2>3, <3>1, <3>2
  <2> QED BY <2>2, <2>3
<1>2. CASE Restart /\ grants' = [a \in DOMAIN grants |-> 0] /\ sunk' = FALSE
  <2>1. grants' = [a \in 0 .. ADDRESSES - 1 |-> 0] /\ brk' = HEAP /\ ~(HEAP < HEAP)
    BY <1>2 DEF Restart
  <2>2. grants' \in [0 .. ADDRESSES - 1 -> {0, 1}]
        /\ \A a \in 0 .. ADDRESSES - 1 : grants'[a] # 1
    BY <2>1
  <2> QED BY <1>2, <2>1, <2>2
<1>3. CASE UNCHANGED <<brk, grants, sunk>>
  BY <1>3
<1> QED BY <1>1, <1>2, <1>3
        DEF LoaderNext, LoadBinary, LoadSegment, EnterUsermode, Write, Exit, Flush, Reload,
            allLoaderVars, loaderVars

LEMMA Inductive == LoaderSpec => []IInv
<1>1. IInv /\ [LoaderNext]_allLoaderVars => IInv'
  BY TypesStep, FilesStep, LaidStep, GrantingStep DEF IInv
<1> QED BY IInvInit, <1>1, PTL DEF LoaderSpec

-----------------------------------------------------------------------------
(* A program starts as it was linked, for every archive: the loop of       *)
(* loadBinary lays its segments one on the other, from program headers     *)
(* and contents that no program loaded before has touched.                 *)
THEOREM ProgramsStartAsLinked == LoaderSpec => []LoadedAsLinked
<1>1. ASSUME IInv  PROVE LoadedAsLinked
  <2> SUFFICES ASSUME pc = "program", fresh, Place(prog) \cap Spans(ran) = {},
                      NEW a \in Span(prog)
               PROVE  mem[a] = Linked(prog, a)
    BY DEF LoadedAsLinked
  <2> USE <1>1
  <2>1. prog \in Names /\ seg = Len(File[prog].segs) + 1 /\ Len(File[prog].segs) \in Nat
        /\ Segs = 1 .. Len(File[prog].segs)
    <3>1. File[prog].segs \in Seq(Phdrs)
      BY Tables DEF IInv, Types
    <3> QED BY <3>1 DEF IInv, Types, Segs
  <2>2. PICK k \in Segs : a \in Held(File[prog].segs[k])
    BY DEF Span, Segments, Segs
  <2>3. \A j \in Segs : j < seg /\ j \in Nat
    BY <2>1
  <2>4. PICK i \in Segs : /\ a \in Held(File[prog].segs[i])
                          /\ \A j \in Segs : j > i => a \notin Held(File[prog].segs[j])
                          /\ mem[a] = Value(prog, i, a)
    BY <2>2, <2>3 DEF IInv, Laid
  <2> DEFINE Holds(l) == /\ a \in Held(File[prog].segs[l])
                        /\ \A j \in Segs : j > l => a \notin Held(File[prog].segs[j])
             last == CHOOSE l \in Segs : Holds(l)
  <2>5. last \in Segs /\ Holds(last)
    BY <2>4
  <2>6. last = i
    BY <2>3, <2>4, <2>5
  <2>7. Linked(prog, a) = Value(prog, last, a)
    BY DEF Linked, Value, Segs
  <2> QED BY <2>4, <2>6, <2>7
<1> QED BY Inductive, <1>1, PTL

(* A file no loaded program lies over stays what it was, in the buffer and *)
(* on the disk, whatever is loaded, written, flushed or restarted.         *)
THEOREM FilesStay == LoaderSpec => []FilesOutliveLoads
<1>1. IInv => FilesOutliveLoads
  BY DEF IInv
<1> QED BY Inductive, <1>1, PTL

(* kbrk grants no address twice and none past the heap, for every heap and *)
(* every increment of the word.                                            *)
THEOREM GrantsStayApart == LoaderSpec => []GrantsApart
<1>1. IInv => GrantsApart
  BY Numbers DEF IInv, Granting, Types, GrantsApart
<1> QED BY Inductive, <1>1, PTL

-----------------------------------------------------------------------------
(* Natural numbers *)

\* The least member of a set of numbers, for arguments by induction
LEMMA LeastNatural ==
  ASSUME NEW S \in SUBSET Nat, S # {}
  PROVE  \E m \in S : \A k \in S : m <= k
<1> DEFINE R == OpToRel(<, Nat)
<1>1. IsWellFoundedOn(R, Nat)
  BY NatLessThanWellFounded
<1>2. \A x, y \in Nat : x < y => <<x, y>> \in R
  BY DEF OpToRel
<1> HIDE DEF R
<1>3. PICK x \in S : \A y \in S : ~(<<y, x>> \in R)
  BY <1>1, WFMin
<1>4. \A y \in S : ~(y < x)
  BY <1>2, <1>3
<1> QED BY <1>4

LEMMA Induction ==
  ASSUME NEW S, 0 \in S, \A n \in Nat : n \in S => n + 1 \in S
  PROVE  Nat \subseteq S
<1> DEFINE T == {n \in Nat : n \notin S}
<1>1. SUFFICES ASSUME T # {} PROVE FALSE
  OBVIOUS
<1>2. PICK m \in T : \A k \in T : m <= k
  BY <1>1, LeastNatural
<1>3. m # 0 /\ m - 1 \in Nat /\ m - 1 \notin T
  BY <1>2
<1> QED BY <1>3

LEMMA DivModOf ==
  ASSUME NEW S \in Nat \ {0}, NEW x \in Int
  PROVE  x \div S \in Int /\ x % S \in 0 .. S - 1 /\ x = S * (x \div S) + (x % S)
OBVIOUS

\* A quotient and a remainder are those of one number only.
LEMMA DivModUnique ==
  ASSUME NEW S \in Nat \ {0}, NEW a \in Int, NEW r \in 0 .. S - 1
  PROVE  (S * a + r) \div S = a /\ (S * a + r) % S = r
<1> DEFINE x == S * a + r
           q == x \div S
           m == x % S
<1>1. S * a \in Int
  OBVIOUS
<1>2. x \in Int
  BY <1>1
<1> HIDE DEF x
<1>3. q \in Int /\ m \in 0 .. S - 1 /\ x = S * q + m
  BY <1>2, DivModOf
<1> HIDE DEF q, m
<1>4. S * a + r = S * q + m
  BY <1>3 DEF x
<1>5. S * q \in Int
  BY <1>3
<1>6. ~(q < a)
  <2> SUFFICES ASSUME q < a PROVE FALSE
    OBVIOUS
  <2>1. S * (q + 1) <= S * a
    BY <1>3
  <2>2. S * (q + 1) = S * q + S
    BY <1>3
  <2> QED BY <1>1, <1>3, <1>4, <1>5, <2>1, <2>2
<1>7. ~(a < q)
  <2> SUFFICES ASSUME a < q PROVE FALSE
    OBVIOUS
  <2>1. S * (a + 1) <= S * q
    BY <1>3
  <2>2. S * (a + 1) = S * a + S
    OBVIOUS
  <2> QED BY <1>1, <1>3, <1>4, <1>5, <2>1, <2>2
<1>8. q = a
  BY <1>3, <1>6, <1>7
<1>9. m = r
  BY <1>1, <1>3, <1>4, <1>8
<1> QED BY <1>8, <1>9 DEF q, m, x

-----------------------------------------------------------------------------
(* Recursion *)

\* Two rows are the same if they start so and go on so.
GoOnAlike(f, g, n) ==
  /\ f[0] = g[0]
  /\ \A k \in 1 .. n : f[k - 1] = g[k - 1] => f[k] = g[k]

LEMMA SameRow ==
  ASSUME NEW n \in Nat, NEW f, NEW g, GoOnAlike(f, g, n)
  PROVE  \A k \in 0 .. n : f[k] = g[k]
<1> DEFINE Wrong == {k \in 0 .. n : f[k] # g[k]}
<1>1. SUFFICES ASSUME Wrong # {} PROVE FALSE
  OBVIOUS
<1>2. PICK k \in Wrong : \A j \in Wrong : k <= j
  <2> HIDE DEF Wrong
  <2>1. Wrong \in SUBSET Nat
    BY DEF Wrong
  <2> QED BY <1>1, <2>1, LeastNatural
<1>3. k \in 0 .. n /\ f[k] # g[k] /\ k # 0
  BY <1>2 DEF GoOnAlike
<1>4. k - 1 \in 0 .. n /\ k - 1 \notin Wrong /\ k \in 1 .. n
  BY <1>2, <1>3
<1> QED BY <1>3, <1>4 DEF GoOnAlike

\* f is what it is at each number up to n by what it is at a smaller one.
Recurs(f, nx, first, step, n) ==
  /\ f[0] = first
  /\ \A k \in 1 .. n : f[k] = step[k][f[nx[k]]]

LEMMA RecursAlike ==
  ASSUME NEW nx \in [Nat \ {0} -> Nat], \A k \in Nat \ {0} : nx[k] < k, NEW first, NEW step,
         NEW n \in Nat, NEW f, NEW g, Recurs(f, nx, first, step, n), Recurs(g, nx, first, step, n)
  PROVE  \A k \in 0 .. n : f[k] = g[k]
<1> DEFINE Wrong == {k \in 0 .. n : f[k] # g[k]}
<1>1. SUFFICES ASSUME Wrong # {} PROVE FALSE
  OBVIOUS
<1>2. PICK k \in Wrong : \A j \in Wrong : k <= j
  <2> HIDE DEF Wrong
  <2>1. Wrong \in SUBSET Nat
    BY DEF Wrong
  <2> QED BY <1>1, <2>1, LeastNatural
<1>3. k \in 0 .. n /\ f[k] # g[k] /\ k # 0
  BY <1>2 DEF Recurs
<1>4. k \in 1 .. n /\ k \in Nat \ {0} /\ nx[k] \in Nat /\ nx[k] < k
  BY <1>3
<1>5. nx[k] \in 0 .. n /\ nx[k] \notin Wrong
  BY <1>2, <1>4
<1>6. f[nx[k]] = g[nx[k]]
  BY <1>5
<1> QED BY <1>3, <1>4, <1>6 DEF Recurs

LEMMA Recursion ==
  ASSUME NEW V, NEW nx \in [Nat \ {0} -> Nat], \A k \in Nat \ {0} : nx[k] < k,
         NEW first \in V, NEW step \in [Nat \ {0} -> [V -> V]]
  PROVE  \E f \in [Nat -> V] : \A n \in Nat : Recurs(f, nx, first, step, n)
<1> DEFINE S == {n \in Nat : \E f \in [Nat -> V] : Recurs(f, nx, first, step, n)}
<1>1. 0 \in S
  <2>1. [k \in Nat |-> first] \in [Nat -> V] /\ Recurs([k \in Nat |-> first], nx, first, step, 0)
    BY DEF Recurs
  <2> QED BY <2>1
<1>2. ASSUME NEW n \in Nat, n \in S PROVE n + 1 \in S
  <2>1. PICK f \in [Nat -> V] : Recurs(f, nx, first, step, n)
    BY <1>2
  <2> DEFINE g == [k \in Nat |-> IF k = n + 1 THEN step[n + 1][f[nx[n + 1]]] ELSE f[k]]
  <2>2. n + 1 \in Nat \ {0} /\ nx[n + 1] \in Nat /\ nx[n + 1] < n + 1
    OBVIOUS
  <2>3. g \in [Nat -> V]
    BY <2>2
  <2>4. g[0] = first
    BY <2>1 DEF Recurs
  <2>5. ASSUME NEW k \in 1 .. n + 1 PROVE g[k] = step[k][g[nx[k]]]
    <3>1. k \in Nat \ {0} /\ nx[k] \in Nat /\ nx[k] < k
      OBVIOUS
    <3>2. g[nx[k]] = f[nx[k]]
      BY <3>1
    <3>3. CASE k = n + 1
      BY <3>2, <3>3
    <3>4. CASE k # n + 1
      BY <2>1, <3>1, <3>2, <3>4 DEF Recurs
    <3> QED BY <3>3, <3>4
  <2> HIDE DEF g
  <2>6. Recurs(g, nx, first, step, n + 1)
    BY <2>4, <2>5 DEF Recurs
  <2> QED BY <2>3, <2>6
<1>3. \A n \in Nat : \E f \in [Nat -> V] : Recurs(f, nx, first, step, n)
  <2> HIDE DEF S
  <2>1. Nat \subseteq S
    BY <1>1, <1>2, Induction
  <2> QED BY <2>1 DEF S
<1> DEFINE F == [n \in Nat |-> CHOOSE f \in [Nat -> V] : Recurs(f, nx, first, step, n)]
           h == [n \in Nat |-> F[n][n]]
<1>4. \A n \in Nat : F[n] \in [Nat -> V] /\ Recurs(F[n], nx, first, step, n)
  BY <1>3
<1> HIDE DEF F
<1>5. h \in [Nat -> V]
  BY <1>4
<1>6. ASSUME NEW n \in Nat PROVE Recurs(h, nx, first, step, n)
  <2>1. h[0] = first
    BY <1>4 DEF Recurs
  <2>2. ASSUME NEW k \in 1 .. n PROVE h[k] = step[k][h[nx[k]]]
    <3>1. k \in Nat \ {0} /\ k \in Nat /\ nx[k] \in Nat /\ nx[k] < k
      OBVIOUS
    <3>2. F[k][k] = step[k][F[k][nx[k]]]
      BY <1>4, <3>1 DEF Recurs
    <3>3. F[k][nx[k]] = F[nx[k]][nx[k]]
      <4> DEFINE j == nx[k]
      <4>1. j \in Nat /\ j < k
        BY <3>1
      <4> HIDE DEF j
      <4>2. Recurs(F[k], nx, first, step, j) /\ Recurs(F[j], nx, first, step, j)
        BY <1>4, <3>1, <4>1 DEF Recurs
      <4>3. PICK f, g : f = F[k] /\ g = F[j]
        OBVIOUS
      <4>4. Recurs(f, nx, first, step, j) /\ Recurs(g, nx, first, step, j)
        BY <4>2, <4>3
      <4>5. \A i \in 0 .. j : f[i] = g[i]
        BY <4>1, <4>4, RecursAlike, SMTT(30)
      <4> QED BY <4>1, <4>3, <4>5 DEF j
    <3> QED BY <3>1, <3>2, <3>3
  <2> QED BY <2>1, <2>2 DEF Recurs
<1> HIDE DEF h
<1> QED BY <1>5, <1>6

-----------------------------------------------------------------------------
(* Powers *)

PowerFrom(b) == CHOOSE f : f = [k \in Nat |-> IF k = 0 THEN 1 ELSE b * f[k - 1]]

LEMMA PowerIs ==
  ASSUME NEW b \in Nat
  PROVE  /\ Power(b, 0) = 1
         /\ \A n \in Nat : Power(b, n + 1) = b * Power(b, n) /\ Power(b, n) \in Nat
<1> DEFINE nx == [k \in Nat \ {0} |-> k - 1]
           step == [k \in Nat \ {0} |-> [v \in Nat |-> b * v]]
<1>1. /\ nx \in [Nat \ {0} -> Nat] /\ \A k \in Nat \ {0} : nx[k] < k
      /\ step \in [Nat \ {0} -> [Nat -> Nat]]
      /\ \A k \in Nat \ {0} : nx[k] = k - 1 /\ \A v \in Nat : step[k][v] = b * v
  OBVIOUS
<1> HIDE DEF nx, step
<1>2. PICK f \in [Nat -> Nat] : \A n \in Nat : Recurs(f, nx, 1, step, n)
  BY <1>1, Recursion
<1>3. \A k \in Nat : f[k] = IF k = 0 THEN 1 ELSE b * f[k - 1]
  <2> TAKE k \in Nat
  <2>1. Recurs(f, nx, 1, step, k)
    BY <1>2
  <2>2. CASE k = 0
    BY <2>1, <2>2 DEF Recurs
  <2>3. CASE k # 0
    <3>1. k \in 1 .. k /\ k \in Nat \ {0} /\ k - 1 \in Nat /\ f[k - 1] \in Nat
      BY <2>3
    <3>2. f[k] = step[k][f[k - 1]]
      BY <1>1, <2>1, <3>1 DEF Recurs
    <3> QED BY <1>1, <2>3, <3>1, <3>2
  <2> QED BY <2>2, <2>3
<1>4. f = [k \in Nat |-> IF k = 0 THEN 1 ELSE b * f[k - 1]]
  BY <1>3
<1>5. PowerFrom(b) = [k \in Nat |-> IF k = 0 THEN 1 ELSE b * PowerFrom(b)[k - 1]]
  BY <1>4, Zenon DEF PowerFrom
<1>6. \A n : Power(b, n) = PowerFrom(b)[n]
  BY Zenon DEF Power, PowerFrom
<1>7. \A k \in Nat : PowerFrom(b)[k] = f[k]
  <2>0. PICK p : p = PowerFrom(b)
    OBVIOUS
  <2>1. \A k \in Nat : p[k] = IF k = 0 THEN 1 ELSE b * p[k - 1]
    BY <1>5, <2>0
  <2> TAKE n \in Nat
  <2>2. p[0] = f[0]
    BY <1>3, <2>1
  <2>3. \A k \in 1 .. n : p[k - 1] = f[k - 1] => p[k] = f[k]
    BY <1>3, <2>1
  <2>4. GoOnAlike(p, f, n)
    BY <2>2, <2>3 DEF GoOnAlike
  <2>5. \A k \in 0 .. n : p[k] = f[k]
    BY <2>4, SameRow
  <2> QED BY <2>0, <2>5
<1>8. \A n \in Nat : n + 1 \in Nat /\ n + 1 # 0 /\ n + 1 - 1 = n
  OBVIOUS
<1> QED BY <1>3, <1>6, <1>7, <1>8

LEMMA PowerPositive ==
  ASSUME NEW b \in Nat \ {0}, NEW n \in Nat
  PROVE  Power(b, n) \in Nat \ {0}
<1> DEFINE S == {k \in Nat : Power(b, k) \in Nat \ {0}}
<1>1. 0 \in S
  BY PowerIs
<1>2. ASSUME NEW k \in Nat, k \in S PROVE k + 1 \in S
  <2>1. PICK p : p = Power(b, k)
    OBVIOUS
  <2>2. Power(b, k + 1) = b * p /\ p \in Nat \ {0}
    BY <1>2, <2>1, PowerIs
  <2>3. b * p \in Nat \ {0}
    BY <2>2
  <2> QED BY <2>2, <2>3
<1> HIDE DEF S
<1>3. Nat \subseteq S
  BY <1>1, <1>2, Induction
<1> QED BY <1>3 DEF S

-----------------------------------------------------------------------------
(* Words and ints *)

LEMMA WordIs == WORD \in Nat \ {0} /\ HALF \in Nat /\ WORD = HALF + HALF /\ HALF >= 8
<1>1. DIGITS - 1 \in Nat /\ DIGITS - 1 + 1 = DIGITS
  BY ConversionsAssumption
<1>2. PICK p : p = Power(16, DIGITS - 1)
  OBVIOUS
<1>3. p \in Nat \ {0}
  BY <1>1, <1>2, PowerPositive
<1>4. WORD = 16 * p
  BY <1>1, <1>2, PowerIs DEF WORD
<1> QED BY <1>3, <1>4 DEF HALF

LEMMA SignedSmall ==
  ASSUME NEW n \in Int, -HALF <= n, n < HALF
  PROVE  Signed(n) = n
<1>1. CASE n >= 0
  <2>1. n \in 0 .. WORD - 1 /\ WORD * 0 + n = n
    BY <1>1, WordIs
  <2>2. n % WORD = n
    BY <2>1, WordIs, DivModUnique
  <2> QED BY <1>1, <2>2 DEF Signed
<1>2. CASE n < 0
  <2>1. n + WORD \in 0 .. WORD - 1 /\ WORD * (-1) + (n + WORD) = n
    BY <1>2, WordIs
  <2>2. n % WORD = n + WORD
    BY <2>1, WordIs, DivModUnique
  <2> QED BY <1>2, <2>2, WordIs DEF Signed
<1> QED BY <1>1, <1>2

LEMMA SignedAway ==
  ASSUME NEW n \in Int
  PROVE  \E q \in Int : Signed(n) = n + WORD * q
<1>1. PICK q : q = n \div WORD
  OBVIOUS
<1>2. q \in Int /\ n % WORD \in 0 .. WORD - 1 /\ n = WORD * q + (n % WORD)
  BY <1>1, WordIs, DivModOf
<1>3. WORD * (-q) = -(WORD * q) /\ WORD * (-q - 1) = -(WORD * q) - WORD /\ WORD * q \in Int
  BY <1>2, WordIs
<1>4. CASE n % WORD < HALF
  <2>1. Signed(n) = n + WORD * (-q)
    BY <1>2, <1>3, <1>4 DEF Signed
  <2> QED BY <1>2, <2>1
<1>5. CASE ~(n % WORD < HALF)
  <2>1. Signed(n) = n + WORD * (-q - 1)
    BY <1>2, <1>3, <1>5, WordIs DEF Signed
  <2> QED BY <1>2, <2>1
<1> QED BY <1>4, <1>5

LEMMA SignedShift ==
  ASSUME NEW n \in Int, NEW q \in Int
  PROVE  Signed(n + WORD * q) = Signed(n)
<1>1. PICK a, r : a = n \div WORD /\ r = n % WORD
  OBVIOUS
<1>2. a \in Int /\ r \in 0 .. WORD - 1 /\ n = WORD * a + r
  BY <1>1, WordIs, DivModOf
<1>3. n + WORD * q = WORD * (a + q) + r
  <2>1. WORD * (a + q) = WORD * a + WORD * q /\ WORD * a \in Int /\ WORD * q \in Int
    BY <1>2, WordIs
  <2> QED BY <1>2, <2>1, WordIs
<1>4. (n + WORD * q) % WORD = r
  BY <1>2, <1>3, WordIs, DivModUnique
<1> QED BY <1>1, <1>4 DEF Signed

\* A digit more, base 8, before or after the word is cut
LEMMA SignedDigit ==
  ASSUME NEW a \in Int, NEW d \in Int
  PROVE  Signed(Signed(a) * 8 + d) = Signed(a * 8 + d)
<1>1. PICK q \in Int : Signed(a) = a + WORD * q
  BY SignedAway
<1>2. Signed(a) * 8 + d = (a * 8 + d) + WORD * (q * 8)
  <2>1. WORD * (q * 8) = (WORD * q) * 8 /\ WORD * q \in Int
    BY WordIs
  <2> QED BY <1>1, <2>1
<1>3. a * 8 + d \in Int /\ q * 8 \in Int
  OBVIOUS
<1> QED BY <1>2, <1>3, SignedShift

-----------------------------------------------------------------------------
(* Digits *)

Chars == Range(hexChars)

LEMMA CharsAre ==
  /\ \A d \in 0 .. 15 : hexChars[d + 1] \in Chars /\ DigitOf(hexChars[d + 1]) = d
  /\ \A c \in Chars : c # "-" /\ DigitOf(c) \in 0 .. 15
  /\ DigitOf("-") = -1 /\ DigitOf("0") = 0 /\ "0" \in Chars
<1>1. DOMAIN hexChars = 1 .. 16
  BY DEF hexChars
<1>2. /\ hexChars[1] = "0" /\ hexChars[2] = "1" /\ hexChars[3] = "2" /\ hexChars[4] = "3"
      /\ hexChars[5] = "4" /\ hexChars[6] = "5" /\ hexChars[7] = "6" /\ hexChars[8] = "7"
      /\ hexChars[9] = "8" /\ hexChars[10] = "9" /\ hexChars[11] = "A" /\ hexChars[12] = "B"
      /\ hexChars[13] = "C" /\ hexChars[14] = "D" /\ hexChars[15] = "E" /\ hexChars[16] = "F"
  BY DEF hexChars
<1>3. \A i, j \in 1 .. 16 : hexChars[i] = hexChars[j] => i = j
  <2>1. ASSUME NEW i \in 1 .. 16, NEW j \in 1 .. 16, i < j PROVE hexChars[i] # hexChars[j]
    <3>1. i \in {1, 2, 3, 4, 5, 6, 7, 8, 9, 10, 11, 12, 13, 14, 15, 16}
      OBVIOUS
    <3>2. j \in {1, 2, 3, 4, 5, 6, 7, 8, 9, 10, 11, 12, 13, 14, 15, 16}
      OBVIOUS
    <3> QED BY <1>2, <2>1, <3>1, <3>2
  <2> QED BY <2>1
<1>4. \A i \in 1 .. 16 : hexChars[i] # "-"
  <2> TAKE i \in 1 .. 16
  <2>1. i \in {1, 2, 3, 4, 5, 6, 7, 8, 9, 10, 11, 12, 13, 14, 15, 16}
    OBVIOUS
  <2> QED BY <1>2, <2>1
<1>5. \A i \in 1 .. 16 : hexChars[i] \in Range(hexChars)
  BY <1>1 DEF Range
<1>6. \A c \in Range(hexChars) : \E i \in 1 .. 16 : c = hexChars[i]
  BY <1>1 DEF Range
<1>7. \A i \in 1 .. 16 : DigitOf(hexChars[i]) = i - 1
  BY <1>3, <1>5 DEF DigitOf
<1>8. DigitOf("-") = -1
  BY <1>4, <1>6 DEF DigitOf
<1>9. \A d \in 0 .. 15 : d + 1 \in 1 .. 16
  OBVIOUS
<1> QED BY <1>2, <1>4, <1>5, <1>6, <1>7, <1>8, <1>9 DEF Chars

\* w holds what the digits of s up to each of them denote, k in the end.
Row(w, s, k, base) ==
  /\ w[0] = 0 /\ w[Len(s)] = k
  /\ \A i \in 0 .. Len(s) : w[i] \in 0 .. k
  /\ \A i \in 1 .. Len(s) : /\ DigitOf(s[i]) \in 0 .. base - 1
                            /\ w[i] = w[i - 1] * base + DigitOf(s[i])

Reads(s, k, base) == s \in Seq(Chars) /\ \E w : Row(w, s, k, base)

LEMMA ReadsNothing == ASSUME NEW base PROVE Reads(<<>>, 0, base)
<1>1. Row([i \in {0} |-> 0], <<>>, 0, base)
  BY DEF Row
<1> QED BY <1>1 DEF Reads

LEMMA ReadsMore ==
  ASSUME NEW base \in {10, 16}, NEW s, NEW k \in Nat, Reads(s, k, base), NEW d \in 0 .. base - 1
  PROVE  Reads(Append(s, hexChars[d + 1]), k * base + d, base)
<1>1. PICK w : Row(w, s, k, base)
  BY DEF Reads
<1>2. s \in Seq(Chars) /\ Len(s) \in Nat /\ d \in 0 .. 15
  BY DEF Reads
<1>3. PICK c, t : c = hexChars[d + 1] /\ t = Append(s, c)
  OBVIOUS
<1>4. c \in Chars /\ DigitOf(c) = d
  BY <1>2, <1>3, CharsAre
<1>5. /\ t \in Seq(Chars) /\ Len(t) = Len(s) + 1 /\ t[Len(s) + 1] = c
      /\ \A i \in 1 .. Len(s) : t[i] = s[i]
  BY <1>2, <1>3, <1>4
<1>6. PICK m : m = k * base + d
  OBVIOUS
<1>7. m \in Nat /\ k <= m
  BY <1>2, <1>6
<1> DEFINE v == [i \in 0 .. Len(s) + 1 |-> IF i = Len(s) + 1 THEN m ELSE w[i]]
<1>8. v[0] = 0 /\ v[Len(t)] = m /\ \A i \in 0 .. Len(s) : v[i] = w[i]
  BY <1>1, <1>2, <1>5 DEF Row
<1>9. v[Len(s) + 1] = m
  BY <1>2
<1> HIDE DEF v
<1>10. ASSUME NEW i \in 0 .. Len(t) PROVE v[i] \in 0 .. m
  <2>1. CASE i = Len(t)
    BY <1>7, <1>8, <2>1
  <2>2. CASE i # Len(t)
    <3>1. i \in 0 .. Len(s)
      BY <1>2, <1>5, <2>2
    <3>2. v[i] = w[i] /\ w[i] \in 0 .. k
      BY <1>1, <1>8, <3>1 DEF Row
    <3> QED BY <1>7, <3>2
  <2> QED BY <2>1, <2>2
<1>11. ASSUME NEW i \in 1 .. Len(t)
       PROVE  DigitOf(t[i]) \in 0 .. base - 1 /\ v[i] = v[i - 1] * base + DigitOf(t[i])
  <2>1. CASE i = Len(t)
    <3>1. i = Len(s) + 1 /\ i - 1 = Len(s) /\ Len(s) \in 0 .. Len(s)
      BY <1>2, <1>5, <2>1
    <3>2. v[i] = m /\ t[i] = c /\ v[i - 1] = w[Len(s)] /\ w[Len(s)] = k
      BY <1>1, <1>5, <1>8, <1>9, <3>1 DEF Row
    <3> QED BY <1>4, <1>6, <3>2
  <2>2. CASE i # Len(t)
    <3>1. i \in 1 .. Len(s) /\ i - 1 \in 0 .. Len(s) /\ i \in 0 .. Len(s)
      BY <1>2, <1>5, <2>2
    <3>2. v[i] = w[i] /\ v[i - 1] = w[i - 1] /\ t[i] = s[i]
      BY <1>5, <1>8, <3>1
    <3> QED BY <1>1, <3>1, <3>2 DEF Row
  <2> QED BY <2>1, <2>2
<1>12. Row(v, t, m, base)
  BY <1>8, <1>10, <1>11 DEF Row
<1> QED BY <1>3, <1>5, <1>6, <1>12 DEF Reads

LEMMA ReadsPadded ==
  ASSUME NEW base \in {10, 16}, NEW s, NEW k \in Nat, Reads(s, k, base), NEW z \in Nat
  PROVE  /\ Reads(Times("0", z) \o s, k, base)
         /\ Len(Times("0", z) \o s) = z + Len(s)
<1>1. PICK w : Row(w, s, k, base)
  BY DEF Reads
<1>2. s \in Seq(Chars) /\ Len(s) \in Nat
  BY DEF Reads
<1>3. PICK p, t : p = Times("0", z) /\ t = p \o s
  OBVIOUS
<1>4. p \in Seq(Chars) /\ Len(p) = z /\ \A i \in 1 .. z : p[i] = "0"
  BY <1>3, CharsAre DEF Times
<1>5. /\ t \in Seq(Chars) /\ Len(t) = z + Len(s)
      /\ \A i \in 1 .. z : t[i] = "0"
      /\ \A i \in 1 .. Len(s) : t[z + i] = s[i]
  <2>1. PICK n \in Nat : n = Len(s)
    BY <1>2
  <2>2. /\ t \in Seq(Chars) /\ Len(t) = z + n
        /\ \A i \in 1 .. z + n : t[i] = IF i <= z THEN p[i] ELSE s[i - z]
    <3>1. PICK C : C = Chars
      OBVIOUS
    <3>2. p \in Seq(C) /\ s \in Seq(C) /\ t = p \o s
      BY <1>2, <1>3, <1>4, <3>1
    <3>3. /\ t \in Seq(C) /\ Len(t) = Len(p) + Len(s)
          /\ \A i \in 1 .. Len(p) + Len(s) : t[i] = IF i <= Len(p) THEN p[i] ELSE s[i - Len(p)]
      BY ONLY <3>2, ConcatProperties
    <3> QED BY ONLY <1>4, <2>1, <3>1, <3>3
  <2>3. \A i \in 1 .. z : i \in 1 .. z + n /\ i <= z
    BY <2>1
  <2>4. \A i \in 1 .. n : z + i \in 1 .. z + n /\ ~(z + i <= z) /\ (z + i) - z = i
    BY <2>1
  <2> QED BY <1>4, <2>1, <2>2, <2>3, <2>4
<1> DEFINE v == [i \in 0 .. z + Len(s) |-> IF i <= z THEN 0 ELSE w[i - z]]
<1>6. /\ \A i \in 0 .. z : v[i] = 0
      /\ \A i \in 1 .. Len(s) : v[z + i] = w[i]
  BY <1>2
<1> HIDE DEF v
<1>7. \A i \in 0 .. Len(s) : v[z + i] = w[i]
  <2> TAKE i \in 0 .. Len(s)
  <2>1. CASE i = 0
    BY <1>1, <1>6, <2>1 DEF Row
  <2>2. CASE i # 0
    BY <1>2, <1>6, <2>2
  <2> QED BY <2>1, <2>2
<1>8. v[0] = 0 /\ v[Len(t)] = k
  <2>1. Len(s) \in 0 .. Len(s) /\ 0 \in 0 .. z
    BY <1>2
  <2> QED BY <1>1, <1>5, <1>6, <1>7, <2>1 DEF Row
<1>9. ASSUME NEW i \in 0 .. Len(t) PROVE v[i] \in 0 .. k
  <2>1. CASE i <= z
    <3>1. i \in 0 .. z
      BY <2>1
    <3> QED BY <1>6, <3>1
  <2>2. CASE ~(i <= z)
    <3>1. i - z \in 0 .. Len(s) /\ i = z + (i - z)
      BY <1>2, <1>5, <2>2
    <3>2. v[i] = w[i - z]
      BY <1>7, <3>1
    <3> QED BY <1>1, <3>1, <3>2 DEF Row
  <2> QED BY <2>1, <2>2
<1>10. ASSUME NEW i \in 1 .. Len(t)
       PROVE  DigitOf(t[i]) \in 0 .. base - 1 /\ v[i] = v[i - 1] * base + DigitOf(t[i])
  <2>1. CASE i <= z
    <3>1. i \in 0 .. z /\ i - 1 \in 0 .. z /\ i \in 1 .. z
      BY <2>1
    <3>2. v[i] = 0 /\ v[i - 1] = 0 /\ DigitOf(t[i]) = 0
      BY <1>5, <1>6, <3>1, CharsAre
    <3> QED BY <3>2
  <2>2. CASE ~(i <= z)
    <3>1. PICK j : j = i - z
      OBVIOUS
    <3>2. j \in 1 .. Len(s) /\ j \in 0 .. Len(s) /\ j - 1 \in 0 .. Len(s)
          /\ i = z + j /\ i - 1 = z + (j - 1)
      BY <1>2, <1>5, <2>2, <3>1
    <3>3. v[i] = w[j] /\ v[i - 1] = w[j - 1] /\ t[i] = s[j]
      BY <1>5, <1>7, <3>2
    <3> QED BY <1>1, <3>2, <3>3 DEF Row
  <2> QED BY <2>1, <2>2
<1>11. Row(v, t, k, base)
  BY <1>8, <1>9, <1>10 DEF Row
<1> QED BY <1>3, <1>5, <1>11 DEF Reads

-----------------------------------------------------------------------------
(* Numerals *)

NumeralFrom(base) ==
  CHOOSE f : f = [k \in Nat |-> IF k = 0 THEN <<>>
                                ELSE Append(f[k \div base], hexChars[(k % base) + 1])]

LEMMA NumeralIs ==
  ASSUME NEW base \in {10, 16}
  PROVE  /\ Numeral(0, base) = <<>>
         /\ \A k \in Nat \ {0} :
              Numeral(k, base) = Append(Numeral(k \div base, base), hexChars[(k % base) + 1])
<1> DEFINE nx == [k \in Nat \ {0} |-> k \div base]
           step == [k \in Nat \ {0} |-> [s \in Seq(Chars) |-> Append(s, hexChars[(k % base) + 1])]]
<1>1. \A k \in Nat \ {0} : /\ k \div base \in Nat /\ k \div base < k
                           /\ k % base \in 0 .. 15 /\ hexChars[(k % base) + 1] \in Chars
  <2> TAKE k \in Nat \ {0}
  <2>1. k \div base \in Nat /\ k \div base < k /\ k % base \in 0 .. 15
    <3>1. CASE base = 10
      BY <3>1
    <3>2. CASE base = 16
      BY <3>2
    <3> QED BY <3>1, <3>2
  <2> QED BY <2>1, CharsAre
<1>2. /\ nx \in [Nat \ {0} -> Nat] /\ \A k \in Nat \ {0} : nx[k] < k
      /\ step \in [Nat \ {0} -> [Seq(Chars) -> Seq(Chars)]]
      /\ <<>> \in Seq(Chars)
  <2>1. \A k \in Nat \ {0} : \A s \in Seq(Chars) :
          Append(s, hexChars[(k % base) + 1]) \in Seq(Chars)
    <3> TAKE k \in Nat \ {0}
    <3> TAKE s \in Seq(Chars)
    <3>1. PICK c \in Chars : c = hexChars[(k % base) + 1]
      BY <1>1
    <3>2. Append(s, c) \in Seq(Chars)
      OBVIOUS
    <3> QED BY <3>1, <3>2
  <2>2. step \in [Nat \ {0} -> [Seq(Chars) -> Seq(Chars)]]
    BY <2>1
  <2> HIDE DEF step
  <2>3. nx \in [Nat \ {0} -> Nat] /\ \A k \in Nat \ {0} : nx[k] < k
    BY <1>1
  <2> QED BY <2>2, <2>3
<1>3. \A k \in Nat \ {0} : /\ nx[k] = k \div base
                           /\ \A s \in Seq(Chars) : step[k][s] = Append(s, hexChars[(k % base) + 1])
  OBVIOUS
<1> HIDE DEF nx, step
<1>4. PICK f \in [Nat -> Seq(Chars)] : \A n \in Nat : Recurs(f, nx, <<>>, step, n)
  BY <1>2, Recursion
<1>5. \A k \in Nat : f[k] = IF k = 0 THEN <<>>
                            ELSE Append(f[k \div base], hexChars[(k % base) + 1])
  <2> TAKE k \in Nat
  <2>1. Recurs(f, nx, <<>>, step, k)
    BY <1>4
  <2>2. CASE k = 0
    BY <2>1, <2>2 DEF Recurs
  <2>3. CASE k # 0
    <3>1. k \in 1 .. k /\ k \in Nat \ {0} /\ f[k \div base] \in Seq(Chars)
      BY <1>1, <2>3
    <3>2. f[k] = step[k][f[k \div base]]
      BY <1>3, <2>1, <3>1 DEF Recurs
    <3> QED BY <1>3, <2>3, <3>1, <3>2
  <2> QED BY <2>2, <2>3
<1>6. f = [k \in Nat |-> IF k = 0 THEN <<>>
                         ELSE Append(f[k \div base], hexChars[(k % base) + 1])]
  BY <1>5
<1>7. NumeralFrom(base) = [k \in Nat |-> IF k = 0 THEN <<>>
                             ELSE Append(NumeralFrom(base)[k \div base], hexChars[(k % base) + 1])]
  BY <1>6, Zenon DEF NumeralFrom
<1>8. \A k : Numeral(k, base) = NumeralFrom(base)[k]
  BY Zenon DEF Numeral, NumeralFrom
<1>9. \A k \in Nat \ {0} : k \in Nat /\ k # 0
  OBVIOUS
<1>10. 0 \in Nat
  OBVIOUS
<1>11. \A k \in Nat : NumeralFrom(base)[k] =
                         IF k = 0 THEN <<>>
                         ELSE Append(NumeralFrom(base)[k \div base], hexChars[(k % base) + 1])
  BY <1>7
<1> QED BY <1>8, <1>9, <1>10, <1>11, Zenon

LEMMA NumeralReads ==
  ASSUME NEW base \in {10, 16}
  PROVE  \A k \in Nat : Reads(Numeral(k, base), k, base)
<1> DEFINE Wrong == {k \in Nat : ~Reads(Numeral(k, base), k, base)}
<1>1. SUFFICES ASSUME Wrong # {} PROVE FALSE
  OBVIOUS
<1>2. PICK k \in Wrong : \A j \in Wrong : k <= j
  <2> HIDE DEF Wrong
  <2>1. Wrong \in SUBSET Nat
    BY DEF Wrong
  <2> QED BY <1>1, <2>1, LeastNatural
<1>3. k \in Nat /\ ~Reads(Numeral(k, base), k, base)
  BY <1>2
<1>4. k # 0
  BY <1>3, NumeralIs, ReadsNothing
<1>5. PICK q, d : q = k \div base /\ d = k % base
  OBVIOUS
<1>6. q \in Nat /\ q < k /\ d \in 0 .. base - 1 /\ k = q * base + d
  <2>1. CASE base = 10
    BY <1>3, <1>4, <1>5, <2>1
  <2>2. CASE base = 16
    BY <1>3, <1>4, <1>5, <2>2
  <2> QED BY <2>1, <2>2
<1>7. q \notin Wrong
  <2> HIDE DEF Wrong
  <2> QED BY <1>2, <1>3, <1>6
<1>8. Reads(Numeral(q, base), q, base)
  BY <1>6, <1>7
<1>9. Reads(Append(Numeral(q, base), hexChars[d + 1]), q * base + d, base)
  BY <1>6, <1>8, ReadsMore
<1>10. Numeral(k, base) = Append(Numeral(q, base), hexChars[d + 1])
  BY <1>3, <1>4, <1>5, NumeralIs
<1> QED BY <1>3, <1>6, <1>9, <1>10

\* A number below the j-th power of 16 has at most j digits.
LEMMA NumeralShort ==
  \A j \in Nat : \A k \in Nat : k < Power(16, j) => Len(Numeral(k, 16)) <= j
<1> DEFINE Short(j) == \A k \in Nat : k < Power(16, j) => Len(Numeral(k, 16)) <= j
           S == {j \in Nat : Short(j)}
<1>1. 0 \in S
  <2>1. ASSUME NEW k \in Nat, k < Power(16, 0) PROVE Len(Numeral(k, 16)) <= 0
    <3>1. k = 0
      BY <2>1, PowerIs
    <3> QED BY <3>1, NumeralIs
  <2> QED BY <2>1
<1>2. ASSUME NEW j \in Nat, j \in S PROVE j + 1 \in S
  <2>1. ASSUME NEW k \in Nat, k < Power(16, j + 1) PROVE Len(Numeral(k, 16)) <= j + 1
    <3>1. CASE k = 0
      BY <3>1, NumeralIs
    <3>2. CASE k # 0
      <4>1. PICK p, q : p = Power(16, j) /\ q = k \div 16
        OBVIOUS
      <4>2. p \in Nat /\ k < 16 * p
        BY <2>1, <4>1, PowerIs
      <4>3. q \in Nat /\ q < p
        BY <4>1, <4>2
      <4>4. Len(Numeral(q, 16)) <= j
        BY <1>2, <4>1, <4>3
      <4>5. Numeral(k, 16) = Append(Numeral(q, 16), hexChars[(k % 16) + 1])
        BY <3>2, <4>1, NumeralIs
      <4>6. Numeral(q, 16) \in Seq(Chars)
        BY <4>3, NumeralReads DEF Reads
      <4>7. k % 16 \in 0 .. 15 /\ hexChars[(k % 16) + 1] \in Chars
        BY CharsAre
      <4> QED BY <4>4, <4>5, <4>6, <4>7
    <3> QED BY <3>1, <3>2
  <2> QED BY <2>1
<1>3. Nat \subseteq S
  <2> HIDE DEF S
  <2> QED BY <1>1, <1>2, Induction
<1> QED BY <1>3

-----------------------------------------------------------------------------
(* Reading them back *)

DenotedFrom(s, base) ==
  CHOOSE f : f = [k \in 0 .. Len(s) |-> IF k = 0 THEN 0 ELSE f[k - 1] * base + DigitOf(s[k])]

LEMMA DenotedReads ==
  ASSUME NEW s, NEW k \in Nat, Reads(s, k, 16)
  PROVE  Denoted(s, 16) = k
<1>1. PICK w : Row(w, s, k, 16)
  BY DEF Reads
<1>2. Len(s) \in Nat
  BY DEF Reads
<1> DEFINE v == [i \in 0 .. Len(s) |-> w[i]]
<1>3. v = [i \in 0 .. Len(s) |-> IF i = 0 THEN 0 ELSE v[i - 1] * 16 + DigitOf(s[i])]
  <2>1. ASSUME NEW i \in 0 .. Len(s)
        PROVE  w[i] = IF i = 0 THEN 0 ELSE v[i - 1] * 16 + DigitOf(s[i])
    <3>1. CASE i = 0
      BY <1>1, <3>1 DEF Row
    <3>2. CASE i # 0
      <4>1. i \in 1 .. Len(s) /\ i - 1 \in 0 .. Len(s)
        BY <1>2, <3>2
      <4> QED BY <1>1, <3>2, <4>1 DEF Row
    <3> QED BY <3>1, <3>2
  <2> QED BY <2>1
<1>4. PICK f : f = DenotedFrom(s, 16)
  OBVIOUS
<1>5. f = [i \in 0 .. Len(s) |-> IF i = 0 THEN 0 ELSE f[i - 1] * 16 + DigitOf(s[i])]
  BY <1>3, <1>4, Zenon DEF DenotedFrom
<1>6. GoOnAlike(f, w, Len(s))
  <2>1. f[0] = w[0]
    BY <1>1, <1>2, <1>5 DEF Row
  <2>2. ASSUME NEW i \in 1 .. Len(s), f[i - 1] = w[i - 1] PROVE f[i] = w[i]
    <3>1. i \in 0 .. Len(s) /\ i # 0
      BY <1>2
    <3>2. f[i] = f[i - 1] * 16 + DigitOf(s[i])
      BY <1>5, <3>1
    <3> QED BY <1>1, <2>2, <3>2 DEF Row
  <2> QED BY <2>1, <2>2 DEF GoOnAlike
<1>7. f[Len(s)] = w[Len(s)]
  BY <1>2, <1>6, SameRow
<1>8. Denoted(s, 16) = f[Len(s)]
  BY <1>4, Zenon DEF Denoted, DenotedFrom
<1> QED BY <1>1, <1>7, <1>8 DEF Row

\* What atoi makes of the digits of t
AtoiFrom(t) ==
  CHOOSE f : f = [k \in 0 .. Len(t) |->
                    IF k = 0 THEN 0 ELSE Signed(f[k - 1] * 10 + DigitOf(t[k]))]

AtoiLast(t) ==
  CHOOSE k \in 0 .. Len(t) :
    (\A i \in 1 .. k : IsDigit(t[i])) /\ (k < Len(t) => ~IsDigit(t[k + 1]))

LEMMA atoiIs ==
  ASSUME NEW s
  PROVE  /\ ~(s # <<>> /\ s[1] = "-") => atoi(s) = Signed(AtoiFrom(s)[AtoiLast(s)] * 1)
         /\ s # <<>> /\ s[1] = "-" =>
              atoi(s) = Signed(AtoiFrom(Tail(s))[AtoiLast(Tail(s))] * (-1))
<1>1. CASE s # <<>> /\ s[1] = "-"
  BY <1>1, Zenon DEF atoi, AtoiFrom, AtoiLast
<1>2. CASE ~(s # <<>> /\ s[1] = "-")
  BY <1>2, Zenon DEF atoi, AtoiFrom, AtoiLast
<1> QED BY <1>1, <1>2

LEMMA DigitsRead ==
  ASSUME NEW s, NEW k \in Nat, Reads(s, k, 10), k < HALF
  PROVE  AtoiFrom(s)[AtoiLast(s)] = k
<1>1. PICK w : Row(w, s, k, 10)
  BY DEF Reads
<1>2. Len(s) \in Nat
  BY DEF Reads
<1>3. ASSUME NEW i \in 1 .. Len(s)
      PROVE  /\ Signed(w[i - 1] * 10 + DigitOf(s[i])) = w[i]
             /\ IsDigit(s[i])
  <2>1. w[i] = w[i - 1] * 10 + DigitOf(s[i]) /\ DigitOf(s[i]) \in 0 .. 9 /\ w[i] \in 0 .. k
    BY <1>1, <1>2 DEF Row
  <2>2. Signed(w[i]) = w[i]
    BY <2>1, WordIs, SignedSmall
  <2> QED BY <2>1, <2>2 DEF IsDigit
<1> DEFINE v == [i \in 0 .. Len(s) |-> w[i]]
<1>4. v = [i \in 0 .. Len(s) |-> IF i = 0 THEN 0 ELSE Signed(v[i - 1] * 10 + DigitOf(s[i]))]
  <2>1. ASSUME NEW i \in 0 .. Len(s)
        PROVE  w[i] = IF i = 0 THEN 0 ELSE Signed(v[i - 1] * 10 + DigitOf(s[i]))
    <3>1. CASE i = 0
      BY <1>1, <3>1 DEF Row
    <3>2. CASE i # 0
      <4>1. i \in 1 .. Len(s) /\ i - 1 \in 0 .. Len(s)
        BY <1>2, <3>2
      <4> QED BY <1>3, <3>2, <4>1
    <3> QED BY <3>1, <3>2
  <2> QED BY <2>1
<1>5. PICK f : f = AtoiFrom(s)
  OBVIOUS
<1>6. f = [i \in 0 .. Len(s) |-> IF i = 0 THEN 0 ELSE Signed(f[i - 1] * 10 + DigitOf(s[i]))]
  BY <1>4, <1>5, Zenon DEF AtoiFrom
<1>7. GoOnAlike(f, w, Len(s))
  <2>1. f[0] = w[0]
    BY <1>1, <1>2, <1>6 DEF Row
  <2>2. ASSUME NEW i \in 1 .. Len(s), f[i - 1] = w[i - 1] PROVE f[i] = w[i]
    <3>1. i \in 0 .. Len(s) /\ i # 0
      BY <1>2
    <3>2. f[i] = Signed(f[i - 1] * 10 + DigitOf(s[i]))
      BY <1>6, <3>1
    <3> QED BY <1>3, <2>2, <3>2
  <2> QED BY <2>1, <2>2 DEF GoOnAlike
<1>8. f[Len(s)] = k
  BY <1>1, <1>2, <1>7, SameRow DEF Row
<1>9. AtoiLast(s) = Len(s)
  <2> DEFINE Ends(j) == (\A i \in 1 .. j : IsDigit(s[i])) /\ (j < Len(s) => ~IsDigit(s[j + 1]))
  <2>1. Ends(Len(s)) /\ Len(s) \in 0 .. Len(s)
    BY <1>2, <1>3
  <2>2. \A j \in 0 .. Len(s) : Ends(j) => j = Len(s)
    <3> SUFFICES ASSUME NEW j \in 0 .. Len(s), Ends(j), j # Len(s) PROVE FALSE
      OBVIOUS
    <3>1. j < Len(s) /\ j + 1 \in 1 .. Len(s)
      BY <1>2
    <3> QED BY <1>3, <3>1
  <2>3. AtoiLast(s) = CHOOSE j \in 0 .. Len(s) : Ends(j)
    BY DEF AtoiLast
  <2> HIDE DEF Ends
  <2> QED BY <2>1, <2>2, <2>3
<1> QED BY <1>5, <1>8, <1>9

LEMMA atoiReads ==
  ASSUME NEW s, NEW k \in Nat, Reads(s, k, 10), k < HALF
  PROVE  atoi(s) = k /\ atoi(<<"-">> \o s) = 0 - k
<1>1. s \in Seq(Chars) /\ Len(s) \in Nat
  BY DEF Reads
<1>2. ~(s # <<>> /\ s[1] = "-")
  <2>1. s # <<>> => s[1] \in Chars
    BY <1>1
  <2> QED BY <2>1, CharsAre
<1>3. AtoiFrom(s)[AtoiLast(s)] = k
  BY DigitsRead
<1>4. Signed(k * 1) = k /\ Signed(k * (-1)) = 0 - k
  <2>1. /\ k * 1 = k /\ k \in Int /\ -HALF <= k
        /\ k * (-1) = 0 - k /\ 0 - k \in Int /\ -HALF <= 0 - k /\ 0 - k < HALF
    BY WordIs
  <2> QED BY <2>1, SignedSmall
<1>5. atoi(s) = k
  BY <1>2, <1>3, <1>4, atoiIs
<1>6. PICK t : t = <<"-">> \o s
  OBVIOUS
<1>7. t # <<>> /\ t[1] = "-" /\ Tail(t) = s
  BY <1>1, <1>6
<1>8. atoi(t) = 0 - k
  BY <1>3, <1>4, <1>7, atoiIs
<1> QED BY <1>5, <1>6, <1>8

-----------------------------------------------------------------------------
(* What is written *)

LEMMA ZeroReads == ASSUME NEW base \in {10, 16} PROVE Reads(<<"0">>, 0, base)
<1>1. Reads(Append(<<>>, hexChars[0 + 1]), 0 * base + 0, base)
  <2>1. Reads(<<>>, 0, base) /\ 0 \in 0 .. base - 1 /\ 0 \in Nat
    BY ReadsNothing
  <2>2. PICK d, k, s : d = 0 /\ k = 0 /\ s = <<>>
    OBVIOUS
  <2>3. Reads(Append(s, hexChars[d + 1]), k * base + d, base)
    BY <2>1, <2>2, ReadsMore
  <2> QED BY <2>2, <2>3
<1>2. hexChars[0 + 1] = "0" /\ 0 * base + 0 = 0
  BY DEF hexChars
<1>3. Append(<<>>, "0") = <<"0">>
  OBVIOUS
<1> QED BY <1>1, <1>2, <1>3

\* A number's digits, with a sign in front if it is negative
LEMMA intToStrIs ==
  ASSUME NEW n \in Ints
  PROVE  /\ intToStr(n) \in Seq(Chars \cup {"-"})
         /\ n >= 0 => Reads(intToStr(n), n, 10)
         /\ atoi(intToStr(n)) = IF n = -HALF THEN 0 ELSE n
<1>1. n \in Int /\ -HALF <= n /\ n < HALF /\ HALF \in Nat
  BY WordIs DEF Ints
<1>2. CASE n = 0
  <2>1. intToStr(n) = <<"0">> /\ Reads(<<"0">>, n, 10)
    BY <1>2, ZeroReads DEF intToStr
  <2>2. atoi(<<"0">>) = n
    BY <1>1, <1>2, <2>1, atoiReads
  <2>3. <<"0">> \in Seq(Chars \cup {"-"}) /\ n # -HALF
    BY <1>2, CharsAre, WordIs
  <2> QED BY <2>1, <2>2, <2>3
<1>3. CASE n > 0
  <2>1. PICK s : s = Numeral(n, 10)
    OBVIOUS
  <2>2. Reads(s, n, 10) /\ s \in Seq(Chars)
    BY <1>1, <1>3, <2>1, NumeralReads DEF Reads
  <2>3. intToStr(n) = <<>> \o s
    <3>1. n # 0 /\ ~(n < 0)
      BY <1>1, <1>3
    <3> QED BY <1>3, <2>1, <3>1, Zenon DEF intToStr
  <2>4. <<>> \o s = s /\ s \in Seq(Chars \cup {"-"})
    BY <2>2
  <2>5. atoi(s) = n
    BY <1>1, <1>3, <2>2, atoiReads
  <2> QED BY <1>1, <1>3, <2>2, <2>3, <2>4, <2>5
<1>4. CASE n < 0 /\ n # -HALF
  <2>1. Signed(-n) = -n /\ -n \in Nat \ {0} /\ -n < HALF
    BY <1>1, <1>4, SignedSmall
  <2>2. PICK s : s = Numeral(-n, 10)
    OBVIOUS
  <2>3. Reads(s, -n, 10) /\ s \in Seq(Chars)
    BY <2>1, <2>2, NumeralReads DEF Reads
  <2>4. intToStr(n) = <<"-">> \o s
    BY <1>1, <1>4, <2>1, <2>2 DEF intToStr
  <2>5. <<"-">> \o s \in Seq(Chars \cup {"-"})
    BY <2>3
  <2>6. atoi(<<"-">> \o s) = 0 - (-n) /\ 0 - (-n) = n
    BY <1>1, <2>1, <2>3, atoiReads
  <2> QED BY <1>1, <1>4, <2>4, <2>5, <2>6
<1>5. CASE n = -HALF
  <2>1. Signed(-n) = -HALF
    <3>1. -n = -HALF + WORD * 1 /\ -HALF \in Int
      BY <1>1, <1>5, WordIs
    <3>2. Signed(-HALF + WORD * 1) = Signed(-HALF)
      BY <3>1, SignedShift
    <3>3. Signed(-HALF) = -HALF
      BY WordIs, SignedSmall
    <3> QED BY <3>1, <3>2, <3>3
  <2>2. intToStr(n) = <<"-">> \o <<>>
    <3>1. n # 0 /\ n < 0 /\ ~(Signed(-n) > 0)
      BY <1>1, <1>5, <2>1, WordIs
    <3> QED BY <3>1, Zenon DEF intToStr
  <2>3. atoi(<<"-">> \o <<>>) = 0
    <3>1. PICK k, s : k = 0 /\ s = <<>>
      OBVIOUS
    <3>2. k \in Nat /\ k < HALF /\ Reads(s, k, 10)
      BY <3>1, WordIs, ReadsNothing
    <3>3. atoi(<<"-">> \o s) = 0 - k
      BY <3>2, atoiReads
    <3>4. 0 - k = 0
      BY <3>1
    <3> QED BY <3>1, <3>3, <3>4, Zenon
  <2>4. <<"-">> \o <<>> \in Seq(Chars \cup {"-"})
    OBVIOUS
  <2>5. n = -HALF /\ ~(n >= 0)
    BY <1>5, WordIs
  <2> QED BY <2>2, <2>3, <2>4, <2>5, Zenon
<1> QED BY <1>1, <1>2, <1>3, <1>4, <1>5

LEMMA DecimalReads ==
  ASSUME NEW n \in Ints, NEW width \in Nat, NEW pad
  PROVE  /\ Len(Decimal(n, width, pad)) >= width
         /\ width = 0 \/ (pad = "0" /\ n >= 0)
              => atoi(Decimal(n, width, pad)) = IF n = -HALF THEN 0 ELSE n
<1>1. PICK s : s = intToStr(n)
  OBVIOUS
<1>2. /\ s \in Seq(Chars \cup {"-"}) /\ Len(s) \in Nat
      /\ n >= 0 => Reads(s, n, 10)
      /\ atoi(s) = IF n = -HALF THEN 0 ELSE n
  BY <1>1, intToStrIs
<1>3. PICK z : z = AtLeast(0, width - Len(s))
  OBVIOUS
<1>4. z \in Nat /\ z + Len(s) >= width /\ (width = 0 => z = 0)
  BY <1>2, <1>3 DEF AtLeast
<1>5. Decimal(n, width, pad) = Times(pad, z) \o s
  BY <1>1, <1>3 DEF Decimal
<1>6. Times(pad, z) \in Seq({pad}) /\ Len(Times(pad, z)) = z
  BY <1>4 DEF Times
<1>7. Len(Times(pad, z) \o s) = z + Len(s)
  <2>1. PICK p, C : p = Times(pad, z) /\ C = Chars \cup {"-", pad}
    OBVIOUS
  <2>2. p \in Seq(C) /\ s \in Seq(C) /\ Len(p) = z
    BY <1>2, <1>6, <2>1
  <2> QED BY <2>1, <2>2
<1>8. CASE width = 0
  <2>1. Times(pad, z) = <<>>
    BY <1>4, <1>8 DEF Times
  <2>2. <<>> \o s = s
    BY <1>2
  <2> QED BY <1>2, <1>4, <1>5, <1>7, <2>1, <2>2
<1>9. CASE pad = "0" /\ n >= 0
  <2>1. n \in Nat /\ n < HALF /\ n # -HALF
    BY <1>9, WordIs DEF Ints
  <2>2. Reads(Times("0", z) \o s, n, 10)
    BY <1>2, <1>4, <1>9, <2>1, ReadsPadded
  <2>3. atoi(Times("0", z) \o s) = n
    BY <2>1, <2>2, atoiReads
  <2> QED BY <1>4, <1>5, <1>7, <1>9, <2>1, <2>3
<1> QED BY <1>4, <1>5, <1>7, <1>8, <1>9

LEMMA HexReads ==
  ASSUME NEW n \in Words, NEW width \in Nat
  PROVE  Len(hexToStr(n, width)) <= DIGITS /\ Denoted(hexToStr(n, width), 16) = n
<1>1. n \in Nat /\ n < Power(16, DIGITS) /\ DIGITS \in Nat /\ DIGITS >= 1
  BY WordIs, ConversionsAssumption DEF Words, WORD
<1>2. PICK s : s = IF n = 0 THEN <<"0">> ELSE Numeral(n, 16)
  OBVIOUS
<1>3. Reads(s, n, 16) /\ Len(s) \in Nat /\ Len(s) <= DIGITS
  <2>1. CASE n = 0
    BY <1>1, <1>2, <2>1, ZeroReads
  <2>2. CASE n # 0
    <3>1. Reads(s, n, 16) /\ Len(s) <= DIGITS
      BY <1>1, <1>2, <2>2, NumeralReads, NumeralShort
    <3> QED BY <3>1 DEF Reads
  <2> QED BY <2>1, <2>2
<1>4. PICK wide : wide = IF width < DIGITS THEN width ELSE DIGITS
  OBVIOUS
<1>5. PICK z : z = AtLeast(0, wide - Len(s))
  OBVIOUS
<1>6. z \in Nat /\ z + Len(s) <= DIGITS
  BY <1>1, <1>3, <1>4, <1>5 DEF AtLeast
<1>7. hexToStr(n, width) = Times("0", z) \o s
  BY <1>2, <1>4, <1>5 DEF hexToStr
<1>8. Reads(Times("0", z) \o s, n, 16) /\ Len(Times("0", z) \o s) = z + Len(s)
  BY <1>1, <1>3, <1>6, ReadsPadded
<1> QED BY <1>1, <1>6, <1>7, <1>8, DenotedReads

-----------------------------------------------------------------------------
(* The fields of a header *)

LeftFrom(n) == CHOOSE f : f = [k \in Nat |-> IF k = 0 THEN n ELSE f[k - 1] \div 8]

LEMMA LeftIs ==
  ASSUME NEW n \in Nat
  PROVE  /\ LeftFrom(n)[0] = n
         /\ \A k \in Nat : LeftFrom(n)[k] \in Nat /\ LeftFrom(n)[k + 1] = LeftFrom(n)[k] \div 8
<1> DEFINE nx == [k \in Nat \ {0} |-> k - 1]
           step == [k \in Nat \ {0} |-> [v \in Nat |-> v \div 8]]
<1>1. /\ nx \in [Nat \ {0} -> Nat] /\ \A k \in Nat \ {0} : nx[k] < k
      /\ step \in [Nat \ {0} -> [Nat -> Nat]]
      /\ \A k \in Nat \ {0} : nx[k] = k - 1 /\ \A v \in Nat : step[k][v] = v \div 8
  OBVIOUS
<1> HIDE DEF nx, step
<1>2. PICK f \in [Nat -> Nat] : \A m \in Nat : Recurs(f, nx, n, step, m)
  BY <1>1, Recursion
<1>3. \A k \in Nat : f[k] = IF k = 0 THEN n ELSE f[k - 1] \div 8
  <2> TAKE k \in Nat
  <2>1. Recurs(f, nx, n, step, k)
    BY <1>2
  <2>2. CASE k = 0
    BY <2>1, <2>2 DEF Recurs
  <2>3. CASE k # 0
    <3>1. k \in 1 .. k /\ k \in Nat \ {0} /\ k - 1 \in Nat /\ f[k - 1] \in Nat
      BY <2>3
    <3>2. f[k] = step[k][f[k - 1]]
      BY <1>1, <2>1, <3>1 DEF Recurs
    <3> QED BY <1>1, <2>3, <3>1, <3>2
  <2> QED BY <2>2, <2>3
<1>4. f = [k \in Nat |-> IF k = 0 THEN n ELSE f[k - 1] \div 8]
  BY <1>3
<1>5. PICK p : p = LeftFrom(n)
  OBVIOUS
<1>6. p = [k \in Nat |-> IF k = 0 THEN n ELSE p[k - 1] \div 8]
  BY <1>4, <1>5, Zenon DEF LeftFrom
<1>7. \A k \in Nat : p[k] = f[k]
  <2> TAKE m \in Nat
  <2>1. p[0] = f[0]
    BY <1>3, <1>6
  <2>2. \A k \in 1 .. m : p[k - 1] = f[k - 1] => p[k] = f[k]
    BY <1>3, <1>6
  <2>3. GoOnAlike(p, f, m)
    BY <2>1, <2>2 DEF GoOnAlike
  <2> QED BY <2>3, SameRow
<1>8. \A k \in Nat : k + 1 \in Nat /\ k + 1 # 0 /\ k + 1 - 1 = k
  OBVIOUS
<1> QED BY <1>3, <1>5, <1>7, <1>8

OctalFrom(s) ==
  CHOOSE f : f = [k \in 0 .. Len(s) |-> IF k = 0 THEN 0 ELSE Signed(f[k - 1] * 8 + DigitOf(s[k]))]

\* The last digits of a number in base 8 are what is left of it, cut.
LEMMA OctalDigit ==
  ASSUME NEW x \in Nat, NEW i \in Nat
  PROVE  x % Power(8, i + 1) = ((x \div 8) % Power(8, i)) * 8 + (x % 8)
<1>1. PICK P : P = Power(8, i)
  OBVIOUS
<1>2. P \in Nat \ {0} /\ Power(8, i + 1) = 8 * P
  BY <1>1, PowerPositive, PowerIs
<1>3. PICK y, d : y = x \div 8 /\ d = x % 8
  OBVIOUS
<1>4. y \in Nat /\ d \in 0 .. 7 /\ x = 8 * y + d
  BY <1>3
<1>5. PICK a, b : a = y \div P /\ b = y % P
  OBVIOUS
<1>6. a \in Int /\ b \in 0 .. P - 1 /\ y = P * a + b
  <2>1. y \in Int
    BY <1>4
  <2>2. y \div P \in Int /\ y % P \in 0 .. P - 1 /\ y = P * (y \div P) + (y % P)
    BY <1>2, <2>1, DivModOf
  <2> QED BY <1>5, <2>2
<1>7. x = (8 * P) * a + (b * 8 + d)
  <2>1. 8 * (P * a) = (8 * P) * a /\ P * a \in Int
    BY <1>2, <1>6
  <2> QED BY <1>4, <1>6, <2>1
<1>8. b * 8 + d \in 0 .. 8 * P - 1 /\ 8 * P \in Nat \ {0}
  BY <1>2, <1>4, <1>6
<1>9. x % (8 * P) = b * 8 + d
  BY <1>6, <1>7, <1>8, DivModUnique
<1> QED BY <1>1, <1>2, <1>3, <1>5, <1>9

LEMMA FieldReads ==
  ASSUME NEW n \in Words, NEW width \in Nat
  PROVE  oct2bin(bin2oct_padded(n, width)) = Signed(n % Power(8, width))
<1>1. n \in Nat
  BY WordIs DEF Words
<1>2. PICK rest : rest = LeftFrom(n)
  OBVIOUS
<1>3. rest[0] = n /\ \A k \in Nat : rest[k] \in Nat /\ rest[k + 1] = rest[k] \div 8
  BY <1>1, <1>2, LeftIs
<1>4. PICK s : s = [i \in 1 .. width |-> hexChars[(rest[width - i] % 8) + 1]]
  OBVIOUS
<1>5. bin2oct_padded(n, width) = s
  <2>1. bin2oct_padded(n, width) = [i \in 1 .. width |-> hexChars[(LeftFrom(n)[width - i] % 8) + 1]]
    BY Zenon DEF bin2oct_padded, LeftFrom
  <2> QED BY <1>2, <1>4, <2>1
<1>6. Len(s) = width
  BY <1>4
<1>7. ASSUME NEW i \in 1 .. width PROVE DigitOf(s[i]) = rest[width - i] % 8
  <2>1. width - i \in Nat /\ rest[width - i] \in Nat
    BY <1>3
  <2>2. rest[width - i] % 8 \in 0 .. 15
    BY <2>1
  <2> QED BY <1>4, <2>2, CharsAre
<1> DEFINE v == [i \in 0 .. width |-> Signed(rest[width - i] % Power(8, i))]
<1>8. v[0] = 0
  <2>1. rest[width - 0] % Power(8, 0) = 0
    <3>1. \A k \in Nat : k % 1 = 0
      OBVIOUS
    <3>2. Power(8, 0) = 1 /\ width - 0 = width
      BY PowerIs
    <3>3. rest[width] \in Nat
      BY <1>3
    <3> QED BY <3>1, <3>2, <3>3
  <2>2. v[0] = Signed(rest[width - 0] % Power(8, 0))
    OBVIOUS
  <2>3. Signed(0) = 0
    BY WordIs, SignedSmall
  <2> QED BY <2>1, <2>2, <2>3
<1>9. ASSUME NEW i \in 1 .. width PROVE v[i] = Signed(v[i - 1] * 8 + DigitOf(s[i]))
  <2>1. PICK x, y, j : x = rest[width - i] /\ y = rest[width - (i - 1)] /\ j = i - 1
    OBVIOUS
  <2>2. x \in Nat /\ y = x \div 8 /\ j \in Nat /\ i = j + 1 /\ y \in Nat
    <3>1. width - i \in Nat /\ width - i + 1 = width - (i - 1) /\ width - (i - 1) \in Nat
      OBVIOUS
    <3>2. rest[width - i] \in Nat /\ rest[width - i + 1] = rest[width - i] \div 8
      BY <1>3, <3>1
    <3> QED BY <1>3, <2>1, <3>1, <3>2
  <2>3. v[i] = Signed(x % Power(8, j + 1)) /\ v[i - 1] = Signed(y % Power(8, j))
    <3>1. i \in 0 .. width /\ i - 1 \in 0 .. width
      OBVIOUS
    <3>2. /\ v[i] = Signed(rest[width - i] % Power(8, i))
          /\ v[i - 1] = Signed(rest[width - (i - 1)] % Power(8, i - 1))
      BY <3>1
    <3> QED BY <2>1, <2>2, <3>2
  <2>4. y % Power(8, j) \in Int /\ x % 8 \in Int
    <3>1. Power(8, j) \in Nat \ {0} /\ y \in Int
      BY <2>2, PowerPositive
    <3>2. y % Power(8, j) \in 0 .. Power(8, j) - 1
      BY <3>1, DivModOf
    <3> QED BY <2>2, <3>1, <3>2
  <2>5. x % Power(8, j + 1) = (y % Power(8, j)) * 8 + (x % 8)
    BY <2>2, OctalDigit
  <2>6. DigitOf(s[i]) = x % 8
    BY <1>7, <2>1
  <2>7. Signed(Signed(y % Power(8, j)) * 8 + (x % 8)) = Signed((y % Power(8, j)) * 8 + (x % 8))
    BY <2>4, SignedDigit
  <2> HIDE DEF v
  <2> QED BY <2>3, <2>5, <2>6, <2>7
<1>10. v[width] = Signed(n % Power(8, width))
  <2>1. width - width = 0 /\ width \in 0 .. width
    OBVIOUS
  <2> QED BY <1>3, <2>1
<1>11. v = [k \in 0 .. Len(s) |-> IF k = 0 THEN 0 ELSE Signed(v[k - 1] * 8 + DigitOf(s[k]))]
  <2>1. v = [k \in 0 .. Len(s) |-> v[k]]
    BY <1>6
  <2> HIDE DEF v
  <2>2. ASSUME NEW k \in 0 .. Len(s)
        PROVE  v[k] = IF k = 0 THEN 0 ELSE Signed(v[k - 1] * 8 + DigitOf(s[k]))
    <3>1. k # 0 => k \in 1 .. width
      BY <1>6
    <3> QED BY <1>8, <1>9, <3>1
  <2> QED BY <2>1, <2>2
<1> HIDE DEF v
<1>12. PICK f : f = OctalFrom(s)
  OBVIOUS
<1>13. f = [k \in 0 .. Len(s) |-> IF k = 0 THEN 0 ELSE Signed(f[k - 1] * 8 + DigitOf(s[k]))]
  BY <1>11, <1>12, Zenon DEF OctalFrom
<1>14. GoOnAlike(f, v, width)
  <2>1. f[0] = v[0]
    BY <1>6, <1>8, <1>13
  <2>2. ASSUME NEW k \in 1 .. width, f[k - 1] = v[k - 1] PROVE f[k] = v[k]
    <3>1. k \in 0 .. Len(s) /\ k # 0
      BY <1>6
    <3>2. f[k] = Signed(f[k - 1] * 8 + DigitOf(s[k]))
      BY <1>13, <3>1
    <3> QED BY <1>9, <2>2, <3>2
  <2> QED BY <2>1, <2>2 DEF GoOnAlike
<1>15. f[width] = v[width]
  <2>1. width \in 0 .. width
    OBVIOUS
  <2> QED BY <1>14, <2>1, SameRow
<1>16. oct2bin(s) = f[Len(s)]
  BY <1>12, Zenon DEF oct2bin, OctalFrom
<1> QED BY <1>5, <1>6, <1>10, <1>15, <1>16

-----------------------------------------------------------------------------
(* The memory *)

Entries == Seq([type : Nat, length : Nat])

GoodRamFrom(e) ==
  CHOOSE f : f = [i \in 0 .. Len(e) |->
                    IF i = 0 THEN 0 ELSE f[i - 1] + IF e[i].type = 1 THEN e[i].length ELSE 0]

TotalFrom(e) ==
  CHOOSE f : f = [i \in 0 .. Len(e) |->
                    IF i = 0 THEN 0
                    ELSE (f[i - 1] + IF e[i].type = 1 THEN e[i].length ELSE 0) % (WORD * WORD)]

Grows(g) == \A k \in Nat : g[k] <= g[k + 1]

LEMMA GrowsAllTheWay ==
  ASSUME NEW g \in [Nat -> Nat], Grows(g), NEW L \in Nat, NEW i \in 0 .. L
  PROVE  g[i] <= g[L]
<1> DEFINE S == {d \in Nat : g[i] <= g[i + d]}
<1>1. i \in Nat /\ L - i \in Nat /\ i + (L - i) = L /\ i + 0 = i
  OBVIOUS
<1>2. 0 \in S
  <2>1. g[i] \in Nat /\ g[i + 0] = g[i]
    BY <1>1
  <2> QED BY <2>1
<1>3. ASSUME NEW d \in Nat, d \in S PROVE d + 1 \in S
  <2>1. PICK k : k = i + d
    OBVIOUS
  <2>2. k \in Nat /\ k + 1 = i + (d + 1) /\ k + 1 \in Nat
    BY <1>1, <2>1
  <2>3. g[k] <= g[k + 1]
    BY <2>2 DEF Grows
  <2>4. g[i] \in Nat /\ g[k] \in Nat /\ g[k + 1] \in Nat
    BY <1>1, <2>2
  <2>5. g[i] <= g[k]
    BY <1>3, <2>1
  <2>6. g[i] <= g[k + 1]
    BY <2>3, <2>4, <2>5
  <2> QED BY <2>2, <2>6
<1>4. Nat \subseteq S
  <2> HIDE DEF S
  <2> QED BY <1>2, <1>3, Induction
<1> QED BY <1>1, <1>4

\* The sum of the entries so far only grows.
LEMMA GoodRamIs ==
  ASSUME NEW e \in Entries
  PROVE  \E f : /\ f = [i \in 0 .. Len(e) |-> f[i]] /\ f[0] = 0
                /\ \A i \in 0 .. Len(e) : f[i] \in Nat /\ f[i] <= f[Len(e)]
                /\ \A i \in 1 .. Len(e) :
                     f[i] = f[i - 1] + IF e[i].type = 1 THEN e[i].length ELSE 0
                /\ GoodRam(e) = f[Len(e)]
<1> DEFINE add == [i \in Nat \ {0} |-> IF i \in 1 .. Len(e) /\ e[i].type = 1 THEN e[i].length ELSE 0]
           nx == [k \in Nat \ {0} |-> k - 1]
           step == [k \in Nat \ {0} |-> [v \in Nat |-> v + add[k]]]
<1>1. Len(e) \in Nat /\ \A i \in 1 .. Len(e) : e[i].type \in Nat /\ e[i].length \in Nat
  <2>1. PICK E : E = [type : Nat, length : Nat]
    OBVIOUS
  <2>2. e \in Seq(E)
    BY <2>1, Zenon DEF Entries
  <2>3. Len(e) \in Nat /\ \A i \in 1 .. Len(e) : e[i] \in E
    BY <2>2, SMT
  <2> QED BY <2>1, <2>3
<1>2. /\ \A i \in Nat \ {0} : add[i] \in Nat
      /\ \A i \in 1 .. Len(e) : add[i] = IF e[i].type = 1 THEN e[i].length ELSE 0
  BY <1>1
<1> HIDE DEF add
<1>3. /\ nx \in [Nat \ {0} -> Nat] /\ \A k \in Nat \ {0} : nx[k] < k
      /\ step \in [Nat \ {0} -> [Nat -> Nat]]
      /\ \A k \in Nat \ {0} : nx[k] = k - 1 /\ \A v \in Nat : step[k][v] = v + add[k]
  BY <1>2
<1> HIDE DEF nx, step
<1>4. PICK g \in [Nat -> Nat] : \A m \in Nat : Recurs(g, nx, 0, step, m)
  BY <1>3, Recursion
<1>5. g[0] = 0 /\ \A k \in Nat \ {0} : g[k] = g[k - 1] + add[k]
  <2>1. g[0] = 0
    BY <1>4 DEF Recurs
  <2>2. ASSUME NEW k \in Nat \ {0} PROVE g[k] = g[k - 1] + add[k]
    <3>1. Recurs(g, nx, 0, step, k) /\ k \in 1 .. k /\ k - 1 \in Nat /\ g[k - 1] \in Nat
      BY <1>4
    <3>2. g[k] = step[k][g[k - 1]]
      BY <1>3, <3>1 DEF Recurs
    <3> QED BY <1>3, <3>1, <3>2
  <2> QED BY <2>1, <2>2
<1> DEFINE f == [i \in 0 .. Len(e) |-> g[i]]
<1>6. f = [i \in 0 .. Len(e) |-> f[i]]
  OBVIOUS
<1>7. \A i \in 0 .. Len(e) : f[i] = g[i] /\ f[i] \in Nat
  BY <1>1
<1> HIDE DEF f
<1>8. f[0] = 0
  BY <1>1, <1>5, <1>7
<1>9. ASSUME NEW i \in 1 .. Len(e)
      PROVE  f[i] = f[i - 1] + IF e[i].type = 1 THEN e[i].length ELSE 0
  <2>1. PICK L \in Nat : L = Len(e)
    BY <1>1
  <2>2. i \in 1 .. L
    BY <2>1
  <2>3. i \in Nat \ {0} /\ i \in 0 .. L /\ i - 1 \in 0 .. L
    BY <2>2
  <2> QED BY <1>2, <1>5, <1>7, <2>1, <2>3
<1>10. \A i \in 0 .. Len(e) : f[i] <= f[Len(e)]
  <2>1. ASSUME NEW k \in Nat PROVE g[k] <= g[k + 1]
    <3>1. PICK l \in Nat \ {0} : l = k + 1
      OBVIOUS
    <3>2. g[l] = g[l - 1] + add[l] /\ l - 1 = k
      BY <1>5, <3>1
    <3>3. g[k] \in Nat /\ add[l] \in Nat
      BY <1>2
    <3> QED BY <3>1, <3>2, <3>3
  <2>2. Grows(g)
    BY <2>1 DEF Grows
  <2> TAKE i \in 0 .. Len(e)
  <2>3. g[i] <= g[Len(e)]
    BY <1>1, <2>2, GrowsAllTheWay
  <2>4. Len(e) \in 0 .. Len(e)
    BY <1>1
  <2> QED BY <1>7, <2>3, <2>4
<1>11. GoodRam(e) = f[Len(e)]
  <2>1. f = [i \in 0 .. Len(e) |->
              IF i = 0 THEN 0 ELSE f[i - 1] + IF e[i].type = 1 THEN e[i].length ELSE 0]
    <3>1. ASSUME NEW i \in 0 .. Len(e)
          PROVE  f[i] = IF i = 0 THEN 0 ELSE f[i - 1] + IF e[i].type = 1 THEN e[i].length ELSE 0
      <4>1. i # 0 => i \in 1 .. Len(e)
        BY <1>1
      <4> QED BY <1>8, <1>9, <4>1
    <3> QED BY <1>6, <3>1
  <2>2. PICK h : h = GoodRamFrom(e)
    OBVIOUS
  <2>3. h = [i \in 0 .. Len(e) |->
              IF i = 0 THEN 0 ELSE h[i - 1] + IF e[i].type = 1 THEN e[i].length ELSE 0]
    BY <2>1, <2>2, Zenon DEF GoodRamFrom
  <2>4. GoOnAlike(h, f, Len(e))
    <3>1. h[0] = f[0]
      BY <1>1, <1>8, <2>3
    <3>2. ASSUME NEW k \in 1 .. Len(e), h[k - 1] = f[k - 1] PROVE h[k] = f[k]
      <4>1. k \in 0 .. Len(e) /\ k # 0
        BY <1>1
      <4>2. h[k] = h[k - 1] + IF e[k].type = 1 THEN e[k].length ELSE 0
        BY <2>3, <4>1
      <4> QED BY <1>9, <3>2, <4>2
    <3> QED BY <3>1, <3>2 DEF GoOnAlike
  <2>5. Len(e) \in 0 .. Len(e)
    BY <1>1
  <2>6. h[Len(e)] = f[Len(e)]
    BY <1>1, <2>4, <2>5, SameRow
  <2>7. GoodRam(e) = h[Len(e)]
    BY <2>2, Zenon DEF GoodRam, GoodRamFrom
  <2> QED BY <2>6, <2>7
<1> QED BY <1>6, <1>7, <1>8, <1>9, <1>10, <1>11

LEMMA SmallRemainder ==
  ASSUME NEW x \in Nat, NEW M \in Nat \ {0}, x < M
  PROVE  x % M = x
<1>1. M * 0 + x = x /\ x \in 0 .. M - 1
  OBVIOUS
<1> QED BY <1>1, DivModUnique

LEMMA TotalReads ==
  ASSUME NEW e \in Entries, GoodRam(e) < WORD
  PROVE  getTotalMem(e) = GoodRam(e)
<1>1. PICK g : /\ g = [i \in 0 .. Len(e) |-> g[i]] /\ g[0] = 0
               /\ \A i \in 0 .. Len(e) : g[i] \in Nat /\ g[i] <= g[Len(e)]
               /\ \A i \in 1 .. Len(e) :
                    g[i] = g[i - 1] + IF e[i].type = 1 THEN e[i].length ELSE 0
               /\ GoodRam(e) = g[Len(e)]
  BY GoodRamIs
<1>2. Len(e) \in Nat /\ WORD \in Nat \ {0} /\ Len(e) \in 0 .. Len(e)
  BY WordIs DEF Entries
<1>3. PICK M : M = WORD * WORD
  OBVIOUS
<1>4. M \in Nat \ {0} /\ WORD <= M
  BY <1>2, <1>3
<1>5. ASSUME NEW i \in 0 .. Len(e) PROVE g[i] % M = g[i]
  <2>1. PICK x : x = g[i]
    OBVIOUS
  <2>2. PICK y : y = g[Len(e)]
    OBVIOUS
  <2>3. x \in Nat /\ x <= y
    BY <1>1, <2>1, <2>2
  <2>4. y \in Nat /\ y < WORD
    BY <1>1, <1>2, <2>2
  <2> QED BY <1>2, <1>4, <2>1, <2>3, <2>4, SmallRemainder
<1>6. g = [i \in 0 .. Len(e) |->
             IF i = 0 THEN 0
             ELSE (g[i - 1] + IF e[i].type = 1 THEN e[i].length ELSE 0) % (WORD * WORD)]
  <2>1. ASSUME NEW i \in 0 .. Len(e)
        PROVE  g[i] = IF i = 0 THEN 0
                      ELSE (g[i - 1] + IF e[i].type = 1 THEN e[i].length ELSE 0) % M
    <3>1. CASE i = 0
      BY <1>1, <3>1
    <3>2. CASE i # 0
      <4>1. i \in 1 .. Len(e)
        BY <1>2, <3>2
      <4>2. g[i] = g[i - 1] + IF e[i].type = 1 THEN e[i].length ELSE 0
        BY <1>1, <4>1
      <4> QED BY <1>5, <3>2, <4>2
    <3> QED BY <3>1, <3>2
  <2> QED BY <1>1, <1>3, <2>1
<1>7. PICK h : h = TotalFrom(e)
  OBVIOUS
<1>8. h = [i \in 0 .. Len(e) |->
             IF i = 0 THEN 0
             ELSE (h[i - 1] + IF e[i].type = 1 THEN e[i].length ELSE 0) % (WORD * WORD)]
  BY <1>6, <1>7, Zenon DEF TotalFrom
<1>9. GoOnAlike(h, g, Len(e))
  <2>1. h[0] = g[0]
    BY <1>1, <1>2, <1>8
  <2>2. ASSUME NEW k \in 1 .. Len(e), h[k - 1] = g[k - 1] PROVE h[k] = g[k]
    <3>1. k \in 0 .. Len(e) /\ k # 0
      BY <1>2
    <3>2. h[k] = (h[k - 1] + IF e[k].type = 1 THEN e[k].length ELSE 0) % M
      BY <1>3, <1>8, <3>1
    <3>3. g[k] = g[k - 1] + IF e[k].type = 1 THEN e[k].length ELSE 0
      BY <1>1
    <3> QED BY <1>5, <2>2, <3>1, <3>2, <3>3
  <2> QED BY <2>1, <2>2 DEF GoOnAlike
<1>10. h[Len(e)] = g[Len(e)]
  BY <1>2, <1>9, SameRow
<1>11. getTotalMem(e) = h[Len(e)] % WORD
  BY <1>7, Zenon DEF getTotalMem, TotalFrom
<1>12. g[Len(e)] % WORD = g[Len(e)]
  <2>1. g[Len(e)] \in Nat /\ g[Len(e)] < WORD
    BY <1>1, <1>2
  <2> QED BY <1>2, <2>1, SmallRemainder
<1> QED BY <1>1, <1>10, <1>11, <1>12

(* Whatever number is written, of whatever width, and in words of whatever *)
(* size, it is there when read back: the decimals and hexadecimals of      *)
(* fmtWrite, the octal fields of a header and the sum of the memory.       *)
THEOREM NumbersAreRight == ConversionsSpec => []NumbersSurvive
<1>1. ConversionsInit => NumbersSurvive
  BY DEF ConversionsInit, NoCall, NumbersSurvive
<1>2. NumbersSurvive /\ [ConversionsNext]_call => NumbersSurvive'
  <2> SUFFICES ASSUME NumbersSurvive, [ConversionsNext]_call PROVE NumbersSurvive'
    OBVIOUS
  <2>1. ASSUME NEW n \in Ints, NEW width \in Nat, NEW pad, PrintDecimal(n, width, pad)
        PROVE  NumbersSurvive'
    <3>1. /\ call'.op = "decimal" /\ call'.n = n /\ call'.width = width /\ call'.pad = pad
          /\ call'.text = Decimal(n, width, pad)
      BY <2>1 DEF PrintDecimal
    <3>2. DecimalSurvives'
      BY <3>1, DecimalReads DEF DecimalSurvives
    <3> QED BY <3>1, <3>2 DEF NumbersSurvive
  <2>2. ASSUME NEW n \in Words, NEW width \in Nat, PrintHex(n, width)
        PROVE  NumbersSurvive'
    <3>1. call'.op = "hex" /\ call'.n = n /\ call'.text = hexToStr(n, width)
      BY <2>2 DEF PrintHex
    <3>2. HexSurvives'
      BY <3>1, HexReads DEF HexSurvives
    <3> QED BY <3>1, <3>2 DEF NumbersSurvive
  <2>3. ASSUME NEW n \in Words, NEW width \in Nat, StoreField(n, width)
        PROVE  NumbersSurvive'
    <3>1. /\ call'.op = "field" /\ call'.n = n /\ call'.width = width
          /\ call'.text = bin2oct_padded(n, width)
      BY <2>3 DEF StoreField
    <3>2. FieldSurvives'
      BY <3>1, FieldReads DEF FieldSurvives
    <3> QED BY <3>1, <3>2 DEF NumbersSurvive
  <2>4. ASSUME NEW e \in Entries, AddMemory(e) PROVE NumbersSurvive'
    <3>1. call'.op = "total" /\ call'.entries = e /\ call'.total = getTotalMem(e)
      BY <2>4 DEF AddMemory
    <3>2. TotalIsSum'
      BY <3>1, TotalReads DEF TotalIsSum
    <3> QED BY <3>1, <3>2 DEF NumbersSurvive
  <2>5. ASSUME NEW days, NEW rem, ShowDate(days, rem) PROVE NumbersSurvive'
    BY <2>5 DEF ShowDate, NumbersSurvive
  <2>6. CASE GoOn
    BY <2>6 DEF GoOn, NoCall, NumbersSurvive
  <2>7. CASE UNCHANGED call
    BY <2>7 DEF NumbersSurvive, DecimalSurvives, HexSurvives, FieldSurvives, TotalIsSum
  <2> QED BY <2>1, <2>2, <2>3, <2>4, <2>5, <2>6, <2>7 DEF ConversionsNext, Entries
<1> QED BY <1>1, <1>2, PTL DEF ConversionsSpec

-----------------------------------------------------------------------------
(* The dates *)

\* Stretches of days, each of which begins where the one before it ends.  Every
\* day from the beginning of one of them on is in one or behind the last.
Stretches(D, Stop, B) ==
  /\ D \subseteq Nat /\ Stop \subseteq D
  /\ B \in [D -> Int]
  /\ \A i \in D \ Stop : i + 1 \in D /\ B[i] < B[i + 1]
  /\ \A i \in D, d \in Nat : \E j \in D : j >= i /\ (j \notin Stop => B[i] + d < B[j + 1])

\* What stepping from a stretch to the next comes to
Stepped(D, Stop, B, f) ==
  \A i \in D, d \in Nat :
    f[<<i, d>>] = IF i \in Stop \/ d < B[i + 1] - B[i] THEN <<i, d>>
                  ELSE f[<<i + 1, d - (B[i + 1] - B[i])>>]

Reached(D, Stop, B, i, d, j, r) ==
  /\ j \in D /\ r \in Nat /\ j >= i
  /\ B[j] + r = B[i] + d
  /\ j \notin Stop => r < B[j + 1] - B[j]

\* j is the first stretch from i on that day d of i lies in front of the end of.
Ends(D, Stop, B, i, d, j) ==
  /\ j \in D /\ j >= i /\ (j \notin Stop => B[i] + d < B[j + 1])
  /\ \A k \in D : k >= i /\ (k \notin Stop => B[i] + d < B[k + 1]) => j <= k

LEMMA SteppingEnds ==
  ASSUME NEW D, NEW Stop, NEW B, Stretches(D, Stop, B)
  PROVE  \E f : f = [t \in D \X Nat |-> f[t]] /\ Stepped(D, Stop, B, f)
<1> DEFINE end == [t \in D \X Nat |-> CHOOSE j : Ends(D, Stop, B, t[1], t[2], j)]
           g == [t \in D \X Nat |-> <<end[t], B[t[1]] + t[2] - B[end[t]]>>]
<1>1. ASSUME NEW i \in D, NEW d \in Nat
      PROVE  \E j : Ends(D, Stop, B, i, d, j)
  <2> DEFINE S == {j \in D : j >= i /\ (j \notin Stop => B[i] + d < B[j + 1])}
  <2>1. S \in SUBSET Nat /\ S # {}
    BY DEF Stretches
  <2>2. \A j : j \in S <=> j \in D /\ j >= i /\ (j \notin Stop => B[i] + d < B[j + 1])
    OBVIOUS
  <2> HIDE DEF S
  <2>3. PICK j \in S : \A k \in S : j <= k
    BY <2>1, LeastNatural
  <2> QED BY <2>2, <2>3 DEF Ends
<1>2. \A i \in D, d \in Nat : Ends(D, Stop, B, i, d, end[<<i, d>>])
  BY <1>1
<1>3. \A i \in D, d \in Nat : g[<<i, d>>] = <<end[<<i, d>>], B[i] + d - B[end[<<i, d>>]]>>
  OBVIOUS
<1> HIDE DEF end
<1>4. g = [t \in D \X Nat |-> g[t]]
  OBVIOUS
<1> HIDE DEF g
<1>5. ASSUME NEW i \in D, NEW d \in Nat
      PROVE  g[<<i, d>>] = IF i \in Stop \/ d < B[i + 1] - B[i] THEN <<i, d>>
                           ELSE g[<<i + 1, d - (B[i + 1] - B[i])>>]
  <2>1. /\ i \in Nat /\ B[i] \in Int /\ D \subseteq Nat
        /\ i \notin Stop => i + 1 \in D /\ B[i + 1] \in Int /\ B[i] < B[i + 1]
    BY DEF Stretches
  <2>2. PICK j : j = end[<<i, d>>] /\ Ends(D, Stop, B, i, d, j)
    BY <1>2
  <2>3. j \in Nat /\ j \in D /\ B[j] \in Int /\ g[<<i, d>>] = <<j, B[i] + d - B[j]>>
    BY <1>3, <2>1, <2>2 DEF Ends, Stretches
  <2>4. CASE i \in Stop \/ d < B[i + 1] - B[i]
    <3>1. j = i
      BY <2>1, <2>2, <2>3, <2>4 DEF Ends
    <3> QED BY <2>1, <2>3, <2>4, <3>1
  <2>5. CASE ~(i \in Stop \/ d < B[i + 1] - B[i])
    <3>1. PICK e : e = d - (B[i + 1] - B[i])
      OBVIOUS
    <3>2. e \in Nat /\ B[i + 1] + e = B[i] + d
      BY <2>1, <2>5, <3>1
    <3>3. PICK j1 : j1 = end[<<i + 1, e>>] /\ Ends(D, Stop, B, i + 1, e, j1)
      BY <1>2, <2>1, <2>5, <3>2
    <3>4. j1 \in Nat /\ j1 \in D /\ g[<<i + 1, e>>] = <<j1, B[i + 1] + e - B[j1]>>
      BY <1>3, <2>1, <2>5, <3>2, <3>3 DEF Ends
    <3>5. j # i
      BY <2>1, <2>2, <2>5 DEF Ends
    <3>6. j <= j1
      BY <2>1, <2>2, <3>2, <3>3, <3>4 DEF Ends
    <3>7. j1 <= j
      BY <2>1, <2>2, <2>3, <3>2, <3>3, <3>5 DEF Ends
    <3>8. j = j1
      BY <2>3, <3>4, <3>6, <3>7
    <3>9. B[i] + d - B[j] = B[i + 1] + e - B[j1]
      BY <2>1, <2>3, <2>5, <3>2, <3>4, <3>8
    <3>10. g[<<i, d>>] = g[<<i + 1, e>>]
      BY <2>3, <3>4, <3>8, <3>9, Zenon
    <3> QED BY <2>5, <3>1, <3>10
  <2> QED BY <2>4, <2>5
<1> QED BY <1>4, <1>5 DEF Stepped

LEMMA SteppingReaches ==
  ASSUME NEW D, NEW Stop, NEW B, Stretches(D, Stop, B), NEW f, Stepped(D, Stop, B, f),
         NEW i0 \in D, NEW d0 \in Nat
  PROVE  \E j, r : f[<<i0, d0>>] = <<j, r>> /\ Reached(D, Stop, B, i0, d0, j, r)
<1> DEFINE Right(i, d) == \E j, r : f[<<i, d>>] = <<j, r>> /\ Reached(D, Stop, B, i, d, j, r)
           Wrong == {d \in Nat : \E i \in D : ~Right(i, d)}
<1>1. SUFFICES ASSUME Wrong # {} PROVE FALSE
  OBVIOUS
<1>2. PICK d \in Wrong : \A k \in Wrong : d <= k
  <2> HIDE DEF Wrong
  <2>1. Wrong \in SUBSET Nat
    BY DEF Wrong
  <2> QED BY <1>1, <2>1, LeastNatural
<1>3. PICK i \in D : ~Right(i, d)
  BY <1>2
<1>4. d \in Nat
  BY <1>2
<1>5. /\ i \in Nat /\ B[i] \in Int /\ D \subseteq Nat
      /\ i \notin Stop => i + 1 \in D /\ B[i + 1] \in Int /\ B[i] < B[i + 1]
  BY DEF Stretches
<1>6. CASE i \in Stop \/ d < B[i + 1] - B[i]
  <2>1. f[<<i, d>>] = <<i, d>>
    BY <1>4, <1>6 DEF Stepped
  <2>2. Reached(D, Stop, B, i, d, i, d)
    BY <1>4, <1>5, <1>6 DEF Reached
  <2> QED BY <1>3, <2>1, <2>2
<1>7. CASE ~(i \in Stop \/ d < B[i + 1] - B[i])
  <2> DEFINE e == d - (B[i + 1] - B[i])
  <2>1. e \in Nat /\ e < d /\ B[i + 1] + e = B[i] + d
    BY <1>4, <1>5, <1>7
  <2>2. f[<<i, d>>] = f[<<i + 1, e>>]
    BY <1>4, <1>7 DEF Stepped
  <2> HIDE DEF e
  <2>3. e \notin Wrong
    <3> HIDE DEF Wrong
    <3> QED BY <1>2, <1>4, <2>1
  <2>4. PICK j, r : f[<<i + 1, e>>] = <<j, r>> /\ Reached(D, Stop, B, i + 1, e, j, r)
    BY <1>5, <1>7, <2>1, <2>3
  <2>5. j \in D /\ j \in Nat /\ r \in Nat /\ B[j] \in Int /\ j >= i + 1
    BY <1>5, <2>4 DEF Reached, Stretches
  <2>6. Reached(D, Stop, B, i, d, j, r)
    BY <1>4, <1>5, <1>7, <2>1, <2>4, <2>5 DEF Reached
  <2> QED BY <1>3, <2>2, <2>4, <2>6
<1> QED BY <1>6, <1>7

\* The functions that unix2date and DayNumber are the values of
YearFrom ==
  CHOOSE f : f = [t \in Nat \X Nat |->
                    LET n == IF Leap(t[1]) THEN 366 ELSE 365
                    IN IF t[2] < n THEN t ELSE f[<<t[1] + 1, t[2] - n>>]]

MonthFrom(y) ==
  CHOOSE f : f = [t \in (1 .. 13) \X Nat |->
                    LET n == IF t[1] = 2 /\ Leap(y) THEN 29 ELSE DaysPerMonth[t[1]]
                    IN IF t[1] = 13 \/ t[2] < n THEN t ELSE f[<<t[1] + 1, t[2] - n>>]]

MonthsBefore(y) ==
  CHOOSE f : f = [k \in 1 .. 12 |-> IF k = 1 THEN 0 ELSE f[k - 1] + LastDay(y, k - 1)]

LEMMA DatesAre ==
  ASSUME NEW days, NEW rem
  PROVE  /\ unix2date(days, rem) =
              [year |-> YearFrom[<<1970, days>>][1],
               month |-> MonthFrom(YearFrom[<<1970, days>>][1])[<<1, YearFrom[<<1970, days>>][2]>>][1],
               day |-> MonthFrom(YearFrom[<<1970, days>>][1])[<<1, YearFrom[<<1970, days>>][2]>>][2] + 1,
               hour |-> rem \div 3600, minute |-> (rem % 3600) \div 60, second |-> rem % 60]
BY SMT DEF unix2date, YearFrom, MonthFrom

LEMMA DayNumberIs ==
  ASSUME NEW y, NEW m, NEW d
  PROVE DayNumber(y, m, d) =
    365 * (y - 1970) + LeapYearsTo(y - 1) - LeapYearsTo(1969) + MonthsBefore(y)[m] + d - 1
BY Zenon DEF DayNumber, MonthsBefore

\* A year has as many days more than 365 as one is counted more.
LEMMA LeapCounted ==
  ASSUME NEW y \in Nat
  PROVE  /\ LeapYearsTo(y) \in Int /\ LeapYearsTo(y - 1) \in Int
         /\ LeapYearsTo(y) - LeapYearsTo(y - 1) = IF Leap(y) THEN 1 ELSE 0
<1>1. y \div 4 - (y - 1) \div 4 = IF y % 4 = 0 THEN 1 ELSE 0
  OBVIOUS
<1>2. y \div 100 - (y - 1) \div 100 = IF y % 100 = 0 THEN 1 ELSE 0
  OBVIOUS
<1>3. y \div 400 - (y - 1) \div 400 = IF y % 400 = 0 THEN 1 ELSE 0
  OBVIOUS
<1>4. (y % 400 = 0 => y % 100 = 0) /\ (y % 100 = 0 => y % 4 = 0)
  OBVIOUS
<1> QED BY <1>1, <1>2, <1>3, <1>4 DEF LeapYearsTo, Leap

YearDays(y) == 365 * y + LeapYearsTo(y - 1)

Years == [y \in Nat |-> YearDays(y)]

LEMMA YearsStretch ==
  /\ Stretches(Nat, {}, Years)
  /\ \A y \in Nat : Years[y + 1] - Years[y] = IF Leap(y) THEN 366 ELSE 365
<1>1. ASSUME NEW y \in Nat
      PROVE  /\ YearDays(y) \in Int
             /\ YearDays(y + 1) - YearDays(y) = IF Leap(y) THEN 366 ELSE 365
  <2>1. y + 1 - 1 = y
    OBVIOUS
  <2> QED BY <2>1, LeapCounted DEF YearDays
<1>2. /\ Years \in [Nat -> Int]
      /\ \A y \in Nat : Years[y + 1] - Years[y] = IF Leap(y) THEN 366 ELSE 365
  BY <1>1 DEF Years
<1>3. \A y \in Nat : Years[y] < Years[y + 1]
  BY <1>2
<1>4. ASSUME NEW i \in Nat, NEW d \in Nat
      PROVE  \E j \in Nat : j >= i /\ Years[i] + d < Years[j + 1]
  <2> DEFINE j == 2 * i + d
  <2>1. LeapYearsTo(i - 1) <= i /\ LeapYearsTo(j) >= 0
    BY DEF LeapYearsTo
  <2>2. Years[i] = 365 * i + LeapYearsTo(i - 1) /\ Years[j + 1] = 365 * (j + 1) + LeapYearsTo(j + 1 - 1)
    BY DEF Years, YearDays
  <2>3. LeapYearsTo(i - 1) \in Int /\ LeapYearsTo(j) \in Int /\ j + 1 - 1 = j
    BY LeapCounted
  <2>4. Years[i] + d < Years[j + 1]
    BY <2>1, <2>2, <2>3
  <2> QED BY <2>4
<1> QED BY <1>2, <1>3, <1>4 DEF Stretches

LEMMA YearSteps == Stepped(Nat, {}, Years, YearFrom)
<1>1. ASSUME NEW f, f = [t \in Nat \X Nat |-> f[t]], Stepped(Nat, {}, Years, f)
      PROVE  f = [t \in Nat \X Nat |->
                    LET n == IF Leap(t[1]) THEN 366 ELSE 365
                    IN IF t[2] < n THEN t ELSE f[<<t[1] + 1, t[2] - n>>]]
  <2>1. ASSUME NEW t \in Nat \X Nat
        PROVE  f[t] = LET n == IF Leap(t[1]) THEN 366 ELSE 365
                      IN IF t[2] < n THEN t ELSE f[<<t[1] + 1, t[2] - n>>]
    <3>1. PICK y \in Nat, d \in Nat : t = <<y, d>> /\ t[1] = y /\ t[2] = d
      OBVIOUS
    <3>2. PICK n : n = Years[y + 1] - Years[y]
      OBVIOUS
    <3>3. f[<<y, d>>] = IF d < n THEN <<y, d>> ELSE f[<<y + 1, d - n>>]
      BY <1>1, <3>2 DEF Stepped
    <3>4. n = IF Leap(y) THEN 366 ELSE 365
      BY <3>2, YearsStretch
    <3>5. f[t] = IF d < n THEN t ELSE f[<<y + 1, d - n>>]
      BY ONLY <3>1, <3>3, SMT
    <3> QED BY ONLY <3>1, <3>4, <3>5, SMT
  <2>2. f = [t \in Nat \X Nat |-> f[t]]
    BY <1>1
  <2> QED BY ONLY <2>1, <2>2, SMT
<1>2. \E f : f = [t \in Nat \X Nat |->
                    LET n == IF Leap(t[1]) THEN 366 ELSE 365
                    IN IF t[2] < n THEN t ELSE f[<<t[1] + 1, t[2] - n>>]]
  <2>1. Stretches(Nat, {}, Years)
    BY YearsStretch
  <2>2. PICK f : f = [t \in Nat \X Nat |-> f[t]] /\ Stepped(Nat, {}, Years, f)
    BY <2>1, SteppingEnds
  <2>3. f = [t \in Nat \X Nat |->
                LET n == IF Leap(t[1]) THEN 366 ELSE 365
                IN IF t[2] < n THEN t ELSE f[<<t[1] + 1, t[2] - n>>]]
    BY <1>1, <2>2
  <2> QED BY <2>3
<1>3. YearFrom = [t \in Nat \X Nat |->
                    LET n == IF Leap(t[1]) THEN 366 ELSE 365
                    IN IF t[2] < n THEN t ELSE YearFrom[<<t[1] + 1, t[2] - n>>]]
  BY <1>2, Zenon DEF YearFrom
<1>4. ASSUME NEW y \in Nat, NEW d \in Nat
      PROVE  YearFrom[<<y, d>>] = LET n == IF Leap(y) THEN 366 ELSE 365
                                  IN IF d < n THEN <<y, d>> ELSE YearFrom[<<y + 1, d - n>>]
  BY <1>3
<1>5. ASSUME NEW y \in Nat, NEW d \in Nat
      PROVE  YearFrom[<<y, d>>] = IF y \in {} \/ d < Years[y + 1] - Years[y] THEN <<y, d>>
                                  ELSE YearFrom[<<y + 1, d - (Years[y + 1] - Years[y])>>]
  BY <1>4, YearsStretch
<1> QED BY <1>5, Zenon DEF Stepped

Months(y) ==
  [m \in 1 .. 13 |-> <<0, 31, 59, 90, 120, 151, 181, 212, 243, 273, 304, 334, 365>>[m]
                    + IF m > 2 /\ Leap(y) THEN 1 ELSE 0]

DaysOf(y, m) == IF m = 2 /\ Leap(y) THEN 29 ELSE DaysPerMonth[m]

LEMMA MonthsStretch ==
  ASSUME NEW y \in Nat
  PROVE  /\ Stretches(1 .. 13, {13}, Months(y))
         /\ \A m \in 1 .. 12 : /\ Months(y)[m + 1] - Months(y)[m] = DaysOf(y, m)
                               /\ DaysOf(y, m) = LastDay(y, m)
         /\ Months(y)[13] = IF Leap(y) THEN 366 ELSE 365
         /\ Months(y)[1] = 0
<1> DEFINE leap == IF Leap(y) THEN 1 ELSE 0
<1>1. /\ Months(y)[1] = 0 /\ Months(y)[2] = 31
      /\ Months(y)[3] = leap + 59 /\ Months(y)[4] = leap + 90 /\ Months(y)[5] = leap + 120
      /\ Months(y)[6] = leap + 151 /\ Months(y)[7] = leap + 181 /\ Months(y)[8] = leap + 212
      /\ Months(y)[9] = leap + 243 /\ Months(y)[10] = leap + 273 /\ Months(y)[11] = leap + 304
      /\ Months(y)[12] = leap + 334 /\ Months(y)[13] = leap + 365
  BY DEF Months
<1>2. Months(y) \in [1 .. 13 -> Int]
  BY DEF Months
<1>3. leap \in {0, 1} /\ (Leap(y) <=> leap = 1)
  OBVIOUS
<1>4. ASSUME NEW m \in 1 .. 12
      PROVE  /\ Months(y)[m + 1] - Months(y)[m] = DaysOf(y, m)
             /\ DaysOf(y, m) = LastDay(y, m)
             /\ Months(y)[m] < Months(y)[m + 1]
  <2>1. m \in {1, 2, 3, 4, 5, 6, 7, 8, 9, 10, 11, 12}
    OBVIOUS
  <2>2. LeapYearsTo(y) \in Int /\ LeapYearsTo(y - 1) \in Int
        /\ LeapYearsTo(y) - LeapYearsTo(y - 1) = leap
    BY LeapCounted
  <2> HIDE DEF leap
  <2>3. DaysOf(y, m) = LastDay(y, m)
    BY <1>3, <2>1, <2>2 DEF DaysOf, LastDay, DaysPerMonth
  <2>4. LastDay(y, m) \in {28 + leap, 30, 31}
    BY <2>1, <2>2, <1>3 DEF LastDay
  <2>5. Months(y)[m + 1] - Months(y)[m] = LastDay(y, m)
    BY <1>1, <1>3, <2>1, <2>2 DEF LastDay
  <2>6. Months(y)[m] \in Int /\ Months(y)[m + 1] \in Int
    BY <1>2
  <2> QED BY <1>3, <2>3, <2>4, <2>5, <2>6
<1>5. ASSUME NEW i \in 1 .. 13, NEW d \in Nat
      PROVE  \E j \in 1 .. 13 : j >= i /\ (j \notin {13} => Months(y)[i] + d < Months(y)[j + 1])
  <2>1. 13 \in 1 .. 13 /\ 13 >= i
    OBVIOUS
  <2> QED BY <2>1
<1>6. \A i \in (1 .. 13) \ {13} : i \in 1 .. 12 /\ i + 1 \in 1 .. 13
  OBVIOUS
<1>7. Stretches(1 .. 13, {13}, Months(y))
  BY <1>2, <1>4, <1>5, <1>6 DEF Stretches
<1>8. Months(y)[13] = IF Leap(y) THEN 366 ELSE 365
  BY <1>1
<1> QED BY <1>1, <1>4, <1>7, <1>8

LEMMA MonthSteps ==
  ASSUME NEW y \in Nat
  PROVE  Stepped(1 .. 13, {13}, Months(y), MonthFrom(y))
<1>1. ASSUME NEW f, f = [t \in (1 .. 13) \X Nat |-> f[t]], Stepped(1 .. 13, {13}, Months(y), f)
      PROVE  f = [t \in (1 .. 13) \X Nat |->
                    LET n == IF t[1] = 2 /\ Leap(y) THEN 29 ELSE DaysPerMonth[t[1]]
                    IN IF t[1] = 13 \/ t[2] < n THEN t ELSE f[<<t[1] + 1, t[2] - n>>]]
  <2>1. ASSUME NEW t \in (1 .. 13) \X Nat
        PROVE  f[t] = LET n == IF t[1] = 2 /\ Leap(y) THEN 29 ELSE DaysPerMonth[t[1]]
                      IN IF t[1] = 13 \/ t[2] < n THEN t ELSE f[<<t[1] + 1, t[2] - n>>]
    <3>1. PICK m \in 1 .. 13, d \in Nat : t = <<m, d>>
      OBVIOUS
    <3>2. f[<<m, d>>] = IF m = 13 \/ d < Months(y)[m + 1] - Months(y)[m] THEN <<m, d>>
                        ELSE f[<<m + 1, d - (Months(y)[m + 1] - Months(y)[m])>>]
      BY <1>1 DEF Stepped
    <3>3. m # 13 => Months(y)[m + 1] - Months(y)[m] = DaysOf(y, m)
      BY MonthsStretch
    <3> QED BY <3>1, <3>2, <3>3 DEF DaysOf
  <2> QED BY <1>1, <2>1
<1>2. \E f : f = [t \in (1 .. 13) \X Nat |->
                    LET n == IF t[1] = 2 /\ Leap(y) THEN 29 ELSE DaysPerMonth[t[1]]
                    IN IF t[1] = 13 \/ t[2] < n THEN t ELSE f[<<t[1] + 1, t[2] - n>>]]
  <2>1. Stretches(1 .. 13, {13}, Months(y))
    BY MonthsStretch
  <2>2. PICK f : f = [t \in (1 .. 13) \X Nat |-> f[t]] /\ Stepped(1 .. 13, {13}, Months(y), f)
    BY <2>1, SteppingEnds
  <2> QED BY <1>1, <2>2, Zenon
<1>3. MonthFrom(y) = [t \in (1 .. 13) \X Nat |->
                    LET n == IF t[1] = 2 /\ Leap(y) THEN 29 ELSE DaysPerMonth[t[1]]
                    IN IF t[1] = 13 \/ t[2] < n THEN t ELSE MonthFrom(y)[<<t[1] + 1, t[2] - n>>]]
  BY <1>2, Zenon DEF MonthFrom
<1>4. ASSUME NEW m \in 1 .. 13, NEW d \in Nat
      PROVE  MonthFrom(y)[<<m, d>>] = IF m = 13 \/ d < DaysOf(y, m) THEN <<m, d>>
                                      ELSE MonthFrom(y)[<<m + 1, d - DaysOf(y, m)>>]
  BY <1>3 DEF DaysOf
<1>5. ASSUME NEW m \in 1 .. 13, NEW d \in Nat
      PROVE  MonthFrom(y)[<<m, d>>] =
               IF m \in {13} \/ d < Months(y)[m + 1] - Months(y)[m] THEN <<m, d>>
               ELSE MonthFrom(y)[<<m + 1, d - (Months(y)[m + 1] - Months(y)[m])>>]
  <2>1. m # 13 => Months(y)[m + 1] - Months(y)[m] = DaysOf(y, m)
    BY MonthsStretch
  <2> QED BY <1>4, <2>1
<1> QED BY <1>5, Zenon DEF Stepped

LEMMA MonthsBeforeAre ==
  ASSUME NEW y \in Nat
  PROVE  \A m \in 1 .. 12 : MonthsBefore(y)[m] = Months(y)[m]
<1> DEFINE f == [k \in 1 .. 12 |-> Months(y)[k]]
<1>1. ASSUME NEW k \in 1 .. 12
      PROVE  Months(y)[k] = IF k = 1 THEN 0 ELSE Months(y)[k - 1] + LastDay(y, k - 1)
  <2>1. CASE k = 1
    BY <2>1, MonthsStretch
  <2>2. CASE k # 1
    <3>1. k - 1 \in 1 .. 12 /\ k - 1 \in 1 .. 13 /\ k - 1 + 1 = k /\ k \in 1 .. 13
      BY <2>2
    <3>2. Months(y)[k] - Months(y)[k - 1] = LastDay(y, k - 1)
      BY <3>1, MonthsStretch
    <3>3. Months(y) \in [1 .. 13 -> Int]
      BY MonthsStretch, Zenon DEF Stretches
    <3> QED BY <2>2, <3>1, <3>2, <3>3
  <2> QED BY <2>1, <2>2
<1>2. f = [k \in 1 .. 12 |-> IF k = 1 THEN 0 ELSE f[k - 1] + LastDay(y, k - 1)]
  BY <1>1
<1>3. MonthsBefore(y) =
        [k \in 1 .. 12 |-> IF k = 1 THEN 0 ELSE MonthsBefore(y)[k - 1] + LastDay(y, k - 1)]
  BY <1>2, Zenon DEF MonthsBefore
<1> DEFINE Wrong == {k \in 1 .. 12 : MonthsBefore(y)[k] # Months(y)[k]}
<1>4. SUFFICES ASSUME Wrong # {} PROVE FALSE
  OBVIOUS
<1>5. PICK k \in Wrong : \A j \in Wrong : k <= j
  <2> HIDE DEF Wrong
  <2>1. Wrong \in SUBSET Nat
    BY DEF Wrong
  <2> QED BY <1>4, <2>1, LeastNatural
<1>6. k \in 1 .. 12 /\ MonthsBefore(y)[k] # Months(y)[k]
  BY <1>5
<1>7. k # 1 => MonthsBefore(y)[k - 1] = Months(y)[k - 1]
  BY <1>5
<1> QED BY <1>1, <1>3, <1>6, <1>7

RightDate(t, days, rem) ==
  /\ t.month \in 1 .. 12 /\ t.day \in 1 .. LastDay(t.year, t.month)
  /\ DayNumber(t.year, t.month, t.day) = days
  /\ t.hour \in 0 .. 23 /\ t.minute \in 0 .. 59 /\ t.second \in 0 .. 59
  /\ (t.hour * 60 + t.minute) * 60 + t.second = rem

RightTime(rem) ==
  /\ rem \div 3600 \in 0 .. 23 /\ (rem % 3600) \div 60 \in 0 .. 59 /\ rem % 60 \in 0 .. 59
  /\ ((rem \div 3600) * 60 + (rem % 3600) \div 60) * 60 + (rem % 60) = rem

LEMMA TimeIsRight ==
  ASSUME NEW rem \in SecondsOfDay
  PROVE  RightTime(rem)
<1>1. rem \in Nat /\ rem < 24 * 3600
  <2>1. PICK n : n = SecondsPerDay
    OBVIOUS
  <2>2. n \in Nat /\ n = 24 * 3600
    BY <2>1, SMT DEF SecondsPerDay
  <2>3. rem \in 0 .. n - 1
    BY <2>1, Zenon DEF SecondsOfDay
  <2>4. n \in Nat
    BY ONLY <2>2
  <2>5. rem \in Nat /\ rem < n
    BY ONLY <2>3, <2>4
  <2> QED BY ONLY <2>2, <2>5
<1>2. PICK h, s : h = rem \div 3600 /\ s = rem % 3600
  OBVIOUS
<1>3. h \in 0 .. 23 /\ s \in Nat /\ s < 3600 /\ h * 3600 + s = rem
  <2>1. h \in Int /\ s \in Int /\ 0 <= s /\ s < 3600 /\ rem = 3600 * h + s
    BY <1>1, <1>2, SMT
  <2> QED BY <1>1, <2>1, SMT
<1>4. s \div 60 \in 0 .. 59 /\ s % 60 \in 0 .. 59 /\ (s \div 60) * 60 + (s % 60) = s
  BY <1>3, SMT
<1>5. rem % 60 = s % 60
  BY <1>3, SMT
<1>6. (h * 60 + s \div 60) * 60 + (rem % 60) = rem
  BY <1>3, <1>4, <1>5, SMT
<1> QED BY <1>2, <1>3, <1>4, <1>5, <1>6, SMT DEF RightTime

\* The first of January 1970
LEMMA Epoch ==
  /\ 1970 \in Nat /\ Years[1970] \in Int
  /\ Years[1970] = 365 * 1970 + LeapYearsTo(1969) /\ LeapYearsTo(1969) \in Int
<1>1. 1970 \in Nat /\ 1970 - 1 = 1969
  BY SMT
<1>2. LeapYearsTo(1969) \in Int
  BY <1>1, LeapCounted, SMT
<1> QED BY <1>1, <1>2, SMT DEF Years, YearDays

LEMMA DateIsRight ==
  ASSUME NEW days \in Nat, NEW rem, RightTime(rem)
  PROVE  RightDate(unix2date(days, rem), days, rem)
<1>1. PICK y, r : /\ YearFrom[<<1970, days>>] = <<y, r>>
                  /\ Reached(Nat, {}, Years, 1970, days, y, r)
  <2>1. Stretches(Nat, {}, Years) /\ 1970 \in Nat
    BY YearsStretch, Epoch
  <2> QED BY <2>1, YearSteps, SteppingReaches
<1>2. y \in Nat /\ r \in Nat /\ Years[y] + r = Years[1970] + days
      /\ r < IF Leap(y) THEN 366 ELSE 365
  <2>1. y \in Nat /\ r \in Nat /\ Years[y] + r = Years[1970] + days
        /\ r < Years[y + 1] - Years[y]
    BY <1>1, SMT DEF Reached
  <2>2. Years[y + 1] - Years[y] = IF Leap(y) THEN 366 ELSE 365
    BY <2>1, YearsStretch
  <2> QED BY ONLY <2>1, <2>2
<1>3. PICK m, d : /\ MonthFrom(y)[<<1, r>>] = <<m, d>>
                  /\ Reached(1 .. 13, {13}, Months(y), 1, r, m, d)
  <2>1. 1 \in 1 .. 13 /\ Stretches(1 .. 13, {13}, Months(y))
        /\ Stepped(1 .. 13, {13}, Months(y), MonthFrom(y))
    BY <1>2, MonthSteps, MonthsStretch
  <2> QED BY <1>2, <2>1, SteppingReaches
<1>4. /\ \A k \in 1 .. 12 : Months(y)[k + 1] - Months(y)[k] = LastDay(y, k)
      /\ Months(y)[13] = IF Leap(y) THEN 366 ELSE 365
      /\ Months(y)[1] = 0
      /\ Months(y) \in [1 .. 13 -> Int]
  <2>1. Stretches(1 .. 13, {13}, Months(y))
    BY <1>2, MonthsStretch
  <2>2. Months(y) \in [1 .. 13 -> Int]
    BY <2>1 DEF Stretches
  <2> QED BY <1>2, <2>2, MonthsStretch
<1>5. m \in 1 .. 13 /\ d \in Nat /\ Months(y)[m] + d = Months(y)[1] + r
      /\ (m \notin {13} => d < Months(y)[m + 1] - Months(y)[m])
  BY <1>3, Zenon DEF Reached
<1>6. m \in 1 .. 12 /\ d < LastDay(y, m)
  <2>1. m # 13
    BY <1>2, <1>4, <1>5
  <2>2. m \in 1 .. 12
    BY <1>5, <2>1
  <2> QED BY <1>4, <1>5, <2>1, <2>2
<1>7. unix2date(days, rem) =
        [year |-> y, month |-> m, day |-> d + 1,
         hour |-> rem \div 3600, minute |-> (rem % 3600) \div 60, second |-> rem % 60]
  <2>1. /\ YearFrom[<<1970, days>>][1] = y /\ YearFrom[<<1970, days>>][2] = r
        /\ MonthFrom(y)[<<1, r>>][1] = m /\ MonthFrom(y)[<<1, r>>][2] = d
    BY <1>1, <1>3
  <2> QED BY <2>1, DatesAre, SMT
<1>8. DayNumber(y, m, d + 1) = days
  <2>1. MonthsBefore(y)[m] = Months(y)[m]
    BY <1>2, <1>6, MonthsBeforeAre
  <2>2. DayNumber(y, m, d + 1) = 365 * (y - 1970) + LeapYearsTo(y - 1) - LeapYearsTo(1969)
                                 + Months(y)[m] + (d + 1) - 1
    BY <2>1, DayNumberIs, SMT
  <2>3. Years[y] = 365 * y + LeapYearsTo(y - 1)
    BY <1>2 DEF Years, YearDays
  <2>4. LeapYearsTo(y - 1) \in Int
    BY <1>2, LeapCounted
  <2>5. Months(y)[m] \in Int
    BY <1>4, <1>5
  <2> QED BY <1>2, <1>4, <1>5, <2>2, <2>3, <2>4, <2>5, Epoch, SMT
<1>9. d + 1 \in 1 .. LastDay(y, m)
  <2>1. LastDay(y, m) \in Int
    BY <1>2, LeapCounted DEF LastDay
  <2> QED BY <1>5, <1>6, <2>1
<1> QED BY <1>6, <1>7, <1>8, <1>9, SMT DEF RightDate, RightTime

(* The date ls shows is the day and the time that the header's seconds     *)
(* stand for, for every number of days and second of the day: no step from *)
(* a year or a month to the next loses or gains a day.                     *)
THEOREM DatesAreRight == ConversionsSpec => []DatesAreCalendar
<1>1. ConversionsInit => DatesAreCalendar
  BY DEF ConversionsInit, NoCall, DatesAreCalendar
<1>2. DatesAreCalendar /\ [ConversionsNext]_call => DatesAreCalendar'
  <2> SUFFICES ASSUME DatesAreCalendar, [ConversionsNext]_call PROVE DatesAreCalendar'
    OBVIOUS
  <2>1. ASSUME NEW n, NEW width, NEW pad, PrintDecimal(n, width, pad) PROVE DatesAreCalendar'
    BY <2>1 DEF PrintDecimal, DatesAreCalendar
  <2>2. ASSUME NEW n, NEW width, PrintHex(n, width) PROVE DatesAreCalendar'
    BY <2>2 DEF PrintHex, DatesAreCalendar
  <2>3. ASSUME NEW n, NEW width, StoreField(n, width) PROVE DatesAreCalendar'
    BY <2>3 DEF StoreField, DatesAreCalendar
  <2>4. ASSUME NEW entries, AddMemory(entries) PROVE DatesAreCalendar'
    BY <2>4 DEF AddMemory, DatesAreCalendar
  <2>5. ASSUME NEW days \in Nat, NEW rem \in SecondsOfDay, ShowDate(days, rem)
        PROVE  DatesAreCalendar'
    <3>1. RightTime(rem)
      BY TimeIsRight
    <3>2. RightDate(unix2date(days, rem), days, rem)
      BY <3>1, DateIsRight
    <3>3. call'.days = days /\ call'.rem = rem /\ call'.date = unix2date(days, rem)
      BY <2>5, SMT DEF ShowDate
    <3> QED BY <3>2, <3>3, SMT DEF RightDate, DatesAreCalendar
  <2>6. CASE GoOn
    BY <2>6 DEF GoOn, NoCall, DatesAreCalendar
  <2>7. CASE UNCHANGED call
    BY <2>7 DEF DatesAreCalendar
  <2> QED BY <2>1, <2>2, <2>3, <2>4, <2>5, <2>6, <2>7 DEF ConversionsNext
<1> QED BY <1>1, <1>2, PTL DEF ConversionsSpec
=============================================================================
