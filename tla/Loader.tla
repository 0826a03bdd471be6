--------------------------------- MODULE Loader ---------------------------------
(***************************************************************************)
(* Programs in memory: loadBinary of src/src/binary.c, kbrk of mem.c, and  *)
(* the archive's buffer that programs are loaded from - and over: app.ld   *)
(* links programs at 0x180000, and the kernel's image, which begins at     *)
(* 0x10000 with 1 MiB of heap_memory in it, has the last part of tarBuf    *)
(* there.                                                                  *)
(*                                                                         *)
(* A cell of memory holds <<f, i>>, the i-th cell of file f: its header in *)
(* the archive (0), its ELF header (1), a program header each (2, ...) and *)
(* then what is copied; or zeros, or what a program has written.  Contents *)
(* that are no header are taken for none.                                  *)
(***************************************************************************)
EXTENDS Integers, Sequences

CONSTANTS
  ADDRESSES,  \* 2^32
  MEMORY,     \* cells of memory
  HEAP,       \* heap_memory
  HEAP_SIZE,
  BUF,        \* tarBuf
  BUF_SIZE,
  Names,      \* the archive's files
  File,       \* of each: header's offset in tarBuf, cells, executable, segments
  Increments  \* what programs ask sbrk for

Zero    == <<"zeros", 0>>
Written == <<"written", 0>>

Cells == 0 .. MEMORY - 1
Top   == HEAP + HEAP_SIZE
Buffer == BUF .. BUF + BUF_SIZE - 1

Place(f) == BUF + File[f].at .. BUF + File[f].at + File[f].cells - 1
Segments(f) == {File[f].segs[i] : i \in DOMAIN File[f].segs}
Held(s)  == IF s.load THEN s.vaddr .. s.vaddr + s.memsz - 1 ELSE {}
Span(f)  == UNION {Held(s) : s \in Segments(f)}

ASSUME LoaderAssumption ==
  /\ {ADDRESSES, MEMORY, HEAP, HEAP_SIZE, BUF, BUF_SIZE} \subseteq Nat
  /\ Top <= BUF /\ BUF + BUF_SIZE <= MEMORY /\ MEMORY < ADDRESSES \div 2
  /\ Names # {}
  /\ Increments \subseteq -(ADDRESSES \div 2) .. ADDRESSES \div 2 - 1
  /\ \A f \in Names :
       /\ File[f].at \in Nat /\ File[f].cells \in Nat \ {0}
       /\ File[f].segs \in Seq([load : BOOLEAN, offset : Nat, vaddr : Nat,
                                filesz : Nat, memsz : Nat])
       /\ Place(f) \subseteq Buffer /\ Span(f) \subseteq BUF .. MEMORY - 1
       /\ \A g \in Names \ {f} : Place(f) \cap Place(g) = {}
       /\ File[f].executable => Len(File[f].segs) + 2 <= File[f].cells
       /\ \A s \in Segments(f) : /\ s.filesz <= s.memsz
                                 /\ s.offset + 1 + s.filesz <= File[f].cells
       \* What memcpy and the loop do to a file under its own program is undefined.
       /\ Place(f) \cap Span(f) = {}

VARIABLES
  mem,
  disk,   \* the archive's sectors
  brk,    \* heap_brk
  pc,     \* "shell", "loading" or "program"
  prog,   \* the program that is loaded or runs
  seg     \* i of loadBinary's loop

loaderVars == <<mem, disk, brk, pc, prog, seg>>

Archive ==
  [a \in Buffer |->
     IF \E f \in Names : a \in Place(f)
     THEN LET f == CHOOSE f \in Names : a \in Place(f) IN <<f, a - BUF - File[f].at>>
     ELSE Zero]

\* The buffer as tarLoad leaves it
Loaded(d) == [a \in Cells |-> IF a \in Buffer THEN d[a] ELSE mem[a]]

LoaderInit ==
  /\ disk = Archive
  /\ mem = [a \in Cells |-> IF a \in Buffer THEN Archive[a] ELSE Zero]
  /\ brk = HEAP /\ pc = "shell" /\ seg = 1
  /\ prog \in {CHOOSE f \in Names : TRUE}

-----------------------------------------------------------------------------
(* loadBinary *)

Header(f) == BUF + File[f].at
Data(f)   == Header(f) + 1

\* tarReadFile walks the headers up to the file's.
Found(f) ==
  \A g \in Names : File[g].at <= File[f].at => mem[Header(g)] = <<g, 0>>

\* ELF's magic and class, e_machine 3 and ET_EXEC
Executable(f) == mem[Data(f)] = <<f, 1>> /\ File[f].executable

\* Without a file, or one of these, loadBinary returns 0 and has done nothing.
LoadBinary(f) ==
  /\ pc = "shell" /\ Found(f) /\ Executable(f)
  /\ pc' = "loading" /\ prog' = f /\ seg' = 1
  /\ UNCHANGED <<mem, disk, brk>>

\* The program header the loop reads from the buffer
Phdr == mem[Data(prog) + seg]
Loads(s) == Phdr = <<prog, seg + 1>> /\ s.load

\* memcpy of a segment from the file
Copied(s) ==
  [a \in Cells |->
     IF a \in s.vaddr .. s.vaddr + s.filesz - 1
     THEN mem[Data(prog) + s.offset + a - s.vaddr] ELSE mem[a]]

\* Variant: memsz zeros behind what was copied.
BssWhole(s) == s.vaddr + s.filesz .. s.vaddr + s.filesz + s.memsz - 1

\* Variant: the bss stays.
BssNone(s) == {}

\* The cells that memset zeroes
Bss(s) == s.vaddr + s.filesz .. s.vaddr + s.memsz - 1

LoadSegment ==
  /\ pc = "loading" /\ seg <= Len(File[prog].segs)
  /\ LET s == File[prog].segs[seg]
     IN mem' = IF Loads(s)
               THEN [a \in Cells |-> IF a \in Bss(s) THEN Zero ELSE Copied(s)[a]]
               ELSE mem
  /\ seg' = seg + 1
  /\ UNCHANGED <<disk, brk, pc, prog>>

EnterUsermode ==
  /\ pc = "loading" /\ seg > Len(File[prog].segs)
  /\ pc' = "program"
  /\ UNCHANGED <<mem, disk, brk, prog, seg>>

-----------------------------------------------------------------------------
(* The program, and the archive between programs *)

Write(a) ==
  /\ pc = "program" /\ a \in Span(prog)
  /\ mem' = [mem EXCEPT ![a] = Written]
  /\ UNCHANGED <<disk, brk, pc, prog, seg>>

\* Variant: the break is tested before it moves.
FitsBefore(increment) == brk <= Top

\* heap_brk + increment is unsigned.
Fits(increment) == (brk + increment) % ADDRESSES <= Top

\* sys_sbrk; kbrk gives the old break or, when it does not fit, -1.
kbrk(increment) ==
  /\ pc = "program"
  /\ brk' = IF increment # 0 /\ Fits(increment)
            THEN (brk + increment) % ADDRESSES ELSE brk
  /\ UNCHANGED <<mem, disk, pc, prog, seg>>

\* The break stays where it is.
Exit ==
  /\ pc = "program" /\ pc' = "shell"
  /\ UNCHANGED <<mem, disk, brk, prog, seg>>

\* tarFlush, by the shell or a close
Flush ==
  /\ pc # "loading"
  /\ disk' = [a \in Buffer |-> mem[a]]
  /\ UNCHANGED <<mem, brk, pc, prog, seg>>

\* tarLoad
Reload ==
  /\ pc = "shell"
  /\ mem' = Loaded(disk)
  /\ UNCHANGED <<disk, brk, pc, prog, seg>>

\* A restart also reads heap_brk from the kernel's image.
Restart ==
  /\ pc' = "shell" /\ brk' = HEAP /\ mem' = Loaded(disk) /\ seg' = 1
  /\ UNCHANGED <<disk, prog>>

=============================================================================
