------------------------------ MODULE Descriptors ------------------------------
(***************************************************************************)
(* The file descriptors of src/src/fd.c: raw pointers into tarBuf, used by *)
(* a program through its system calls, over the archive and the disk.      *)
(* Programs run one at a time from the shell; what one leaves open stays   *)
(* open when the shell is back.                                            *)
(*                                                                         *)
(* flags are kept but never looked at again, and mode is ignored: neither  *)
(* is modelled beyond O_CREAT and O_TRUNC at the call.                     *)
(***************************************************************************)
EXTENDS Storage

CONSTANTS
  FD_MAX_FILES,   \* slots of fdTable
  Counts,         \* what programs pass as count
  Values,         \* the bytes they write
  SIZE_T,         \* 2^32, where rwPos + count wraps
  MoveWhileOpen   \* files may be moved while a descriptor is open

ASSUME DescriptorsAssumption ==
  /\ FD_MAX_FILES \in Nat \ {0} /\ SIZE_T \in Nat \ {0}
  /\ Counts \subseteq 0 .. SIZE_T - 1 /\ Values \subseteq Nat
  /\ MoveWhileOpen \in BOOLEAN

Slots == 0 .. FD_MAX_FILES - 1

VARIABLES
  fdTable,   \* [isInUse, dirty, data, size, rwPos, name]; data a block's index
  running,   \* a program runs
  got,       \* the bytes the last read gave
  unsaved    \* history: files open has made or emptied since the last flush

fdVars  == <<fdTable, running, got, unsaved>>
descriptorsVars == <<vars, fdVars>>

\* A slot of zeros; nothing calls fdInit.
Closed == [isInUse |-> FALSE, dirty |-> FALSE, data |-> NULL,
           size |-> 0, rwPos |-> 0, name |-> ""]

DescriptorsInit ==
  /\ StorageInit
  /\ fdTable = [s \in Slots |-> Closed]
  /\ running = FALSE /\ got = <<>> /\ unsaved = {}

InUse == {s \in Slots : fdTable[s].isInUse}

-----------------------------------------------------------------------------
(* Bytes of the buffer behind a descriptor's data pointer *)

Address(fd, i) == fd.data * SECTOR + fd.rwPos + i

ByteAt(b, a) == b[a \div SECTOR].bytes[a % SECTOR]

Stored(b, fd, n, v) ==
  [k \in Blocks |->
     IF \E i \in 0 .. n - 1 : Address(fd, i) \div SECTOR = k
     THEN [b[k] EXCEPT !.bytes =
             [j \in 0 .. SECTOR - 1 |->
                IF \E i \in 0 .. n - 1 : Address(fd, i) = k * SECTOR + j
                THEN v ELSE @[j]]]
     ELSE b[k]]

\* Variant: one byte too many at the end of the file.
ClippedLate(fd, count) ==
  IF (fd.rwPos + count) % SIZE_T > fd.size + 1 THEN fd.size - fd.rwPos ELSE count

Clipped(fd, count) ==
  IF (fd.rwPos + count) % SIZE_T > fd.size THEN fd.size - fd.rwPos ELSE count

-----------------------------------------------------------------------------
(* A program's calls *)

\* fd stays below SIZE_T - count: past it count is not clipped (fd.c:66, 89).
NoWrap(s, count) == fdTable[s].rwPos + count < SIZE_T

\* Nothing is moved under a descriptor, unless the instance asks for it.
MayMove == MoveWhileOpen \/ InUse = {}

Calling == Prompt /\ running

\* Variant: the data pointer is taken before the file is emptied.
PointerBefore(f, before, after) == tarFind(before, f) + 1

Pointer(f, before, after) == tarFind(after, f) + 1

Open(f, create, truncate) ==
  LET exists == tarFind(tarBuf, f) # NULL
      made   == IF exists THEN tarBuf ELSE Touched(tarBuf, f)
      ready  == IF truncate THEN Edited(made, f, 0) ELSE made
      free   == Slots \ InUse
      slot   == CHOOSE s \in free : \A r \in free : s <= r
  IN  /\ Calling /\ got' = <<>>
      /\ IF ~exists /\ ~create
         THEN ret' = -1 /\ UNCHANGED <<tarBuf, fdTable, unsaved>>
         ELSE /\ exists \/ RoomToTouch
              /\ truncate => MayMove
              /\ tarBuf' = ready
              /\ unsaved' = IF exists /\ ~truncate THEN unsaved ELSE unsaved \cup {f}
              /\ IF free = {} THEN ret' = -1 /\ fdTable' = fdTable
                 ELSE /\ ret' = slot + 3
                      /\ fdTable' = [fdTable EXCEPT ![slot] =
                           [isInUse |-> TRUE, dirty |-> FALSE, name |-> f,
                            data |-> Pointer(f, made, ready),
                            size |-> tarRead(ready, f), rwPos |-> 0]]
      /\ UNCHANGED <<listed, storageVars, running>>

Read(s, count) ==
  LET fd == fdTable[s]
      n  == Clipped(fd, count)
  IN  /\ Calling /\ NoWrap(s, count)
      /\ IF ~fd.isInUse \/ fd.rwPos >= fd.size
         THEN /\ ret' = IF fd.isInUse THEN 0 ELSE -1
              /\ got' = <<>> /\ fdTable' = fdTable
         ELSE /\ ret' = n
              /\ got' = [i \in 1 .. n |-> ByteAt(tarBuf, Address(fd, i - 1))]
              /\ fdTable' = [fdTable EXCEPT ![s].rwPos = @ + n]
      /\ UNCHANGED <<tarBuf, listed, storageVars, running, unsaved>>

\* Variant: dirty is not set.
WriteClean(s, count, v) ==
  LET fd == fdTable[s]
      n  == Clipped(fd, count)
  IN  /\ Calling /\ NoWrap(s, count) /\ got' = <<>>
      /\ IF ~fd.isInUse \/ fd.rwPos >= fd.size
         THEN /\ ret' = IF fd.isInUse THEN 0 ELSE -1
              /\ UNCHANGED <<tarBuf, fdTable>>
         ELSE /\ ret' = n
              /\ tarBuf' = Stored(tarBuf, fd, n, v)
              /\ fdTable' = [fdTable EXCEPT ![s].rwPos = @ + n]
      /\ UNCHANGED <<listed, storageVars, running, unsaved>>

Write(s, count, v) ==
  LET fd == fdTable[s]
      n  == Clipped(fd, count)
  IN  /\ Calling /\ NoWrap(s, count) /\ got' = <<>>
      /\ IF ~fd.isInUse \/ fd.rwPos >= fd.size
         THEN /\ ret' = IF fd.isInUse THEN 0 ELSE -1
              /\ UNCHANGED <<tarBuf, fdTable>>
         ELSE /\ ret' = n
              /\ tarBuf' = Stored(tarBuf, fd, n, v)
              /\ fdTable' = [fdTable EXCEPT ![s].rwPos = @ + n, ![s].dirty = TRUE]
      /\ UNCHANGED <<listed, storageVars, running, unsaved>>

\* close flushes what was written; dirty itself is left as it is.
Close(s) ==
  /\ Calling /\ got' = <<>>
  /\ IF ~fdTable[s].isInUse
     THEN ret' = -1 /\ UNCHANGED <<fdTable, todo>>
     ELSE /\ ret' = 0
          /\ todo' = IF fdTable[s].dirty THEN <<"flush">> ELSE <<>>
          /\ fdTable' = [fdTable EXCEPT ![s] = [Closed EXCEPT !.dirty = fdTable[s].dirty]]
  /\ UNCHANGED <<tarBuf, listed, diskVars, sector, arg, running, unsaved>>

-----------------------------------------------------------------------------
(* Programs, the shell and the drive *)

\* loadBinary runs a file of the archive; sys_exit comes back to the shell
\* and closes nothing.
Run  == /\ Prompt /\ ~running /\ (\E f \in Names : tarFind(tarBuf, f) # NULL)
        /\ running' = TRUE
        /\ UNCHANGED <<vars, fdTable, got, unsaved>>
Exit == Calling /\ running' = FALSE /\ UNCHANGED <<vars, fdTable, got, unsaved>>

\* A load drops what open has made and not flushed.
MayReload == MoveWhileOpen \/ InUse = {} \/ unsaved = {}

Shell ==
  /\ ~running
  /\ \/ ShLook /\ MayReload
     \/ \E f \in Names : \/ ShTouch(f)
                         \/ ShRm(f) /\ MayMove
                         \/ \E size \in Sizes : ShWrite(f, size) /\ MayMove
  /\ UNCHANGED fdVars

\* Once a flush or a load is through, buffer and disk have the same files.
Drive ==
  /\ WriteSector \/ ReadSector \/ EditPhase \/ ListPhase
  /\ unsaved' = IF todo' # todo /\ (InPhase("flush") \/ InPhase("load"))
                THEN {} ELSE unsaved
  /\ UNCHANGED <<fdTable, running, got>>

\* Nothing clears the kernel's bss: the memory a restart finds holds zeros, or
\* fdTable as it was, with pointers into the archive that is loaded again.
Restarted ==
  /\ ~running /\ Reboot
  /\ fdTable' \in {[s \in Slots |-> Closed]} \cup {t \in {fdTable} : MayReload}
  /\ unsaved' = {}
  /\ UNCHANGED <<running, got>>

DescriptorsNext ==
  \/ \E f \in Names, create, truncate \in BOOLEAN : Open(f, create, truncate)
  \/ \E s \in Slots : \/ Close(s)
                      \/ \E n \in Counts : Read(s, n)
                      \/ \E n \in Counts, v \in Values : Write(s, n, v)
  \/ Run \/ Exit \/ Shell \/ Drive \/ Restarted

DescriptorsSpec == DescriptorsInit /\ [][DescriptorsNext]_descriptorsVars

-----------------------------------------------------------------------------
(* While calls can be made, a descriptor's pointer is right behind the      *)
(* header of the file it was opened on ("expose data (not the header       *)
(* itself)", fd.c:42), across reloads and restarts that leave it open.     *)
FdPointsAtItsFile ==
  Prompt => \A s \in InUse :
    LET fd == fdTable[s] IN
    /\ tarValid(tarBuf, fd.data - 1)
    /\ tarBuf[fd.data - 1].name = fd.name
    /\ tarBuf[fd.data - 1].size = fd.size
    /\ fd.rwPos <= fd.size

Absent == <<-1>>

BytesOf(b, f) ==
  LET th == tarFind(b, f)
  IN  IF th = NULL THEN Absent
      ELSE [p \in 1 .. b[th].size |-> ByteAt(b, (th + 1) * SECTOR + p - 1)]

Store == INSTANCE FileStore
         WITH content <- [f \in Names |-> BytesOf(tarBuf, f)],
              fds     <- [s \in Slots |-> [isOpen |-> fdTable[s].isInUse,
                                           name   |-> fdTable[s].name,
                                           pos    |-> fdTable[s].rwPos]],
              result  <- ret

(* Reading and writing through pointers into the archive is reading and    *)
(* writing the bytes of the file that was opened, from the position of     *)
(* that descriptor, and no byte of any other file.                         *)
ImplementsFileStore == Store!Spec

(* While the shell or a program may call, a file whose bytes in the buffer *)
(* are not those on disk is one that a dirty descriptor still has open, or *)
(* one that open made or emptied: what was written through a descriptor is *)
(* on disk once it is closed (fd.c:105).                                   *)
DirtyTracksDifferences ==
  Prompt => \A f \in Names :
    \/ f \in unsaved
    \/ BytesOf(tarBuf, f) = BytesOf(disk, f)
    \/ \E s \in InUse : fdTable[s].dirty /\ fdTable[s].name = f

=============================================================================
