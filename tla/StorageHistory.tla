----------------------------- MODULE StorageHistory -----------------------------
(***************************************************************************)
(* The archive on disk with the last command that changed it kept as       *)
(* history: what must hold of the files through cut or lost flushes.       *)
(***************************************************************************)
EXTENDS Storage

VARIABLE txn  \* history: that command, its file, and the disk and buffer it found

allVars == <<vars, txn>>

Init ==
  /\ StorageInit
  /\ txn = [cmd |-> "none", name |-> "none", old |-> disk, base |-> tarBuf]

Noted(cmd, f) == txn' = [cmd |-> cmd, name |-> f, old |-> disk, base |-> tarBuf]

Next ==
  \/ Sectors /\ txn' = txn
  \/ ListPhase /\ txn' = txn
  \/ ShLook /\ txn' = txn
  \/ Reboot /\ txn' = txn
  \/ PowerLoss /\ txn' = txn
  \/ EditPhase /\ Noted("edit", arg.name)
  \/ \E f \in Names :
       \/ ShTouch(f) /\ Noted("touch", f)
       \/ ShRm(f) /\ Noted("rm", f)
       \/ \E size \in Sizes : ShWrite(f, size) /\ txn' = txn

Spec == Init /\ [][Next]_allVars

-----------------------------------------------------------------------------
(* When the shell asks for the next command the buffer is what is on disk, *)
(* whatever was edited and wherever the power went before: a file the      *)
(* shell has touched, removed or written is there after the next restart.  *)
(* Only a drive that timed out breaks it (ustar.c:200-206).                *)
InStep == Prompt /\ lost + misread = 0 => tarBuf = disk

InFront(b, f, g) ==
  /\ tarFind(b, f) # NULL
  /\ tarFind(b, g) = NULL \/ tarFind(b, f) < tarFind(b, g)

OnDisk(b, f) == FileAt(b, tarFind(b, f))

\* No file reaches past the last block of the buffer.
FilesFit(b) ==
  \A i \in Blocks : tarValid(b, i) => tarNext(b, i) <= TAR_MAX_SECTORS

(* A command disturbs no file in front of its own: even when the flush is  *)
(* cut off half-way, or sectors of it are lost, those files are found on   *)
(* disk as they were (ustar.c:225 moves only what lies behind).  A file    *)
(* that claims more blocks than there are makes tarRm clear from in front  *)
(* of it (ustar.c:228): tarEdit can leave one when a cut has left a name   *)
(* twice, for it does not ask whether there is room (ustar.c:262).         *)
FrontFilesSurvive ==
  txn.cmd # "none" /\ txn.base = txn.old /\ FilesFit(txn.old) =>
    \A f \in Names : InFront(txn.old, f, txn.name) =>
      /\ tarFind(disk, f) = tarFind(txn.old, f)
      /\ OnDisk(disk, f) = OnDisk(txn.old, f)

(* A touch is all or nothing: at every moment of its flush, and after a    *)
(* power loss at any of them, the disk holds the files as they were or the *)
(* same files and the new one, even on a disk an earlier cut has torn.     *)
TouchIsAtomic ==
  txn.cmd = "touch" /\ txn.base = txn.old =>
    \/ FilesOf(disk) = FilesOf(txn.old)
    \/ /\ tarFind(txn.old, txn.name) = NULL
       /\ FilesOf(disk) = FilesOf(Touched(txn.old, txn.name))

(* The listing that ends ls and rm is of the files that are on disk, not   *)
(* of those in the buffer, even when sectors of the flush before it were   *)
(* lost ("reloaded, verifying...", sh.c:118).                              *)
ListingIsOfTheDisk ==
  [][ListPhase /\ misread = 0 => listed' = tarList(disk)]_allVars

=============================================================================
