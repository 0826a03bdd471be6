--------------------------------- MODULE Ustar ---------------------------------
(***************************************************************************)
(* The file system of src/src/ustar.c: a ustar archive edited in place in      *)
(* tarBuf.  A block of the buffer is a header, a block of a file's data,   *)
(* or zeros; a pointer into the buffer is a block's index.                 *)
(*                                                                         *)
(* The archive holds regular files only, as the Makefile builds it: under  *)
(* NO_DIR a directory's header would end the archive.                      *)
(***************************************************************************)
EXTENDS Integers, Sequences, FiniteSets

CONSTANTS
  SECTOR,           \* bytes of a block: 512
  TAR_MAX_SECTORS,  \* blocks of tarBuf
  Names,            \* file names
  Sizes             \* file sizes, in bytes

ASSUME UstarAssumption ==
  /\ SECTOR \in Nat \ {0} /\ TAR_MAX_SECTORS \in Nat \ {0}
  /\ Sizes \subseteq Nat

Blocks == 0 .. TAR_MAX_SECTORS - 1
NULL   == -1

Zero            == [kind |-> "zero"]
Header(f, size) == [kind |-> "header", name |-> f, size |-> size]

\* The i-th block of a file's data; its bytes are 0 until a program writes it.
Data(f, i)      == [kind |-> "data", of |-> f, index |-> i,
                    bytes |-> [j \in 0 .. SECTOR - 1 |-> 0]]

ceilDiv(x, y) == x \div y + IF x % y # 0 THEN 1 ELSE 0

-----------------------------------------------------------------------------
(* Walking the archive.  What lies past tarBuf is no header. *)
tarValid(b, th) == th \in Blocks /\ b[th].kind = "header"

tarNext(b, th) == th + ceilDiv(b[th].size, SECTOR) + 1

tarGetEnd(b) ==
  LET end[curr \in Nat] == IF tarValid(b, curr) THEN end[tarNext(b, curr)]
                           ELSE curr
  IN  end[0]

tarFind(b, fname) ==
  LET find[curr \in Nat] ==
        IF ~tarValid(b, curr) THEN NULL
        ELSE IF b[curr].name = fname THEN curr
        ELSE find[tarNext(b, curr)]
  IN  find[0]

\* The size of a file, or -1; its data begins in the block after its header.
tarRead(b, fname) ==
  LET th == tarFind(b, fname) IN IF th = NULL THEN -1 ELSE b[th].size

\* The names tarList prints
tarList(b) ==
  LET list[curr \in Nat] ==
        IF ~tarValid(b, curr) THEN <<>>
        ELSE <<b[curr].name>> \o list[tarNext(b, curr)]
  IN  list[0]

-----------------------------------------------------------------------------
(* Editing the buffer: each operator gives the buffer it leaves. *)

\* Variant: the blocks at the end are not zeroed.
RemovedUnzeroed(b, fname) ==
  LET toDel     == tarFind(b, fname)
      delBlocks == ceilDiv(b[toDel].size, SECTOR) + 1
  IN  [i \in Blocks |-> IF i >= toDel /\ i + delBlocks < TAR_MAX_SECTORS
                        THEN b[i + delBlocks] ELSE b[i]]

\* Variant: a partial last block is not counted.
RemovedFloor(b, fname) ==
  LET toDel     == tarFind(b, fname)
      delBlocks == b[toDel].size \div SECTOR + 1
  IN  [i \in Blocks |->
         IF i >= TAR_MAX_SECTORS - delBlocks THEN Zero
         ELSE IF i < toDel THEN b[i] ELSE b[i + delBlocks]]

\* tarRm: what follows the file moves down over it, zeros fill the end.
Removed(b, fname) ==
  LET toDel     == tarFind(b, fname)
      delBlocks == ceilDiv(b[toDel].size, SECTOR) + 1
  IN  [i \in Blocks |->
         IF i >= TAR_MAX_SECTORS - delBlocks THEN Zero
         ELSE IF i < toDel THEN b[i] ELSE b[i + delBlocks]]

\* tarTouch: an empty file at the end; past the buffer, no block of it changes.
Touched(b, fname) ==
  LET th == tarGetEnd(b)
  IN  IF th \in Blocks THEN [b EXCEPT ![th] = Header(fname, 0)] ELSE b

\* The end of tarEdit: size and data over the file tarFind gives
Written(b, fname, size) ==
  LET th == tarFind(b, fname)
  IN  [i \in Blocks |->
         IF i = th THEN Header(fname, size)
         ELSE IF i \in th + 1 .. th + ceilDiv(size, SECTOR)
              THEN Data(fname, i - th)
         ELSE b[i]]

\* tarTouch's result: 1 for a file it made, 0 for one that exists
touchMakes(b, fname) == tarRead(b, fname) < 0

\* tarEdit: remove, make again, and return if the file was made
Edited(b, fname, size) ==
  LET removed == Removed(b, fname)
  IN  IF touchMakes(removed, fname) THEN Touched(removed, fname)
      ELSE Written(removed, fname, size)

-----------------------------------------------------------------------------
VARIABLES
  tarBuf,
  ret,      \* what the last call returned
  listed    \* the names the last tarList printed

ustarVars == <<tarBuf, ret, listed>>

(* The archives tar makes: the files one after the other, zeros after them *)
Layout(files) ==
  LET laid[k \in 0 .. Len(files)] ==
        IF k = 0 THEN <<>>
        ELSE laid[k - 1] \o <<Header(files[k].name, files[k].size)>>
               \o [i \in 1 .. ceilDiv(files[k].size, SECTOR) |->
                     Data(files[k].name, i)]
  IN  laid[Len(files)]

DistinctNames(files) ==
  \A i, j \in DOMAIN files : files[i].name = files[j].name => i = j

Archives ==
  {files \in UNION {[1 .. n -> [name : Names, size : Sizes]] :
                      n \in 0 .. Cardinality(Names)} :
     DistinctNames(files) /\ Len(Layout(files)) <= TAR_MAX_SECTORS}

UstarInit ==
  /\ \E files \in Archives :
       LET blocks == Layout(files)
       IN  tarBuf = [i \in Blocks |-> IF i < Len(blocks) THEN blocks[i + 1]
                                      ELSE Zero]
  /\ ret = 0 /\ listed = <<>>

Touch(fname) ==
  /\ IF touchMakes(tarBuf, fname)
     THEN tarBuf' = Touched(tarBuf, fname) /\ ret' = 1
     ELSE tarBuf' = tarBuf /\ ret' = 0
  /\ listed' = listed

Rm(fname) ==
  /\ IF tarRead(tarBuf, fname) < 0
     THEN tarBuf' = tarBuf /\ ret' = 0
     ELSE tarBuf' = Removed(tarBuf, fname) /\ ret' = 1
  /\ listed' = listed

Edit(fname, size) ==
  /\ tarBuf' = IF tarFind(tarBuf, fname) = NULL THEN tarBuf
               ELSE Edited(tarBuf, fname, size)
  /\ ret' = 1 /\ listed' = listed

\* tarRead, tarGetSize and tarList only look.
Look ==
  /\ \/ listed' = listed /\ \E f \in Names : ret' = tarRead(tarBuf, f)
     \/ listed' = tarList(tarBuf) /\ ret' = ret
  /\ tarBuf' = tarBuf

-----------------------------------------------------------------------------
(* tarTouch does not ask whether a block is left: the bound is on its user.*)
RoomToTouch == tarGetEnd(tarBuf) \in Blocks

UstarNext ==
  \/ \E f \in Names :
       \/ RoomToTouch /\ Touch(f)
       \/ Rm(f)
       \/ \E size \in Sizes : Edit(f, size)
  \/ Look

UstarSpec == UstarInit /\ [][UstarNext]_ustarVars

-----------------------------------------------------------------------------
\* The headers the walk visits, in order
Chain(b) ==
  LET walk[curr \in Nat] ==
        IF ~tarValid(b, curr) THEN <<>>
        ELSE <<curr>> \o walk[tarNext(b, curr)]
  IN  walk[0]

\* The file a header begins, with the blocks that follow it
FileAt(b, th) ==
  [name |-> b[th].name,
   size |-> b[th].size,
   data |-> [i \in 1 .. ceilDiv(b[th].size, SECTOR) |-> b[th + i]]]

FilesOf(b) == [k \in DOMAIN Chain(b) |-> FileAt(b, Chain(b)[k])]

Files == FilesOf(tarBuf)

Directory == INSTANCE FileList WITH files <- Files

(* Touching, removing and editing by moving blocks around in the buffer is *)
(* what it would be on a list of named files: no other file loses, gains   *)
(* or swaps a block, no name appears twice, and the results agree.         *)
ImplementsFileList == Directory!Spec

(* Every header is one the walk visits, and what follows the last file is  *)
(* zeros: no operation leaves a header or data behind that a later, longer *)
(* walk would take for a file (ustar.c:130, 228).                          *)
NothingBehindTheEnd ==
  /\ \A i \in Blocks : tarBuf[i].kind = "header" =>
                         \E k \in DOMAIN Chain(tarBuf) : Chain(tarBuf)[k] = i
  /\ \A i \in Blocks : i >= tarGetEnd(tarBuf) => tarBuf[i] = Zero

=============================================================================
