-------------------------------- MODULE Storage --------------------------------
(***************************************************************************)
(* The archive on disk: tarLoad and tarFlush of src/src/ustar.c over       *)
(* ataRead and ataWrite of src/src/ata.c, sector by sector, and the file   *)
(* commands of the shell (src/src/sh.c) that edit the buffer and flush it. *)
(*                                                                         *)
(* The drive may fail to raise DRQ in time: ataWrite then returns without  *)
(* writing and ataRead reads whatever the data register holds.  The power  *)
(* may go between two sectors; a sector itself is written whole.           *)
(***************************************************************************)
EXTENDS Ustar

CONSTANT MaxFaults  \* bound on drive time-outs and power losses together

ASSUME StorageAssumption == MaxFaults \in Nat

\* What a sector read from a drive that is not ready holds: no header
Junk == [kind |-> "junk"]

VARIABLES
  disk,      \* the archive's sectors, from TAR_START_LBA on
  todo,      \* the phases the current command has left
  sector,    \* i of tarLoad's or tarFlush's loop
  arg,       \* the file and size of the command, for its edit
  lost,      \* history: how many sectors were not written
  misread,   \* history: how many sectors were read before they were ready
  cuts       \* history: how many times the power went

storageVars == <<disk, todo, sector, arg, lost, misread, cuts>>
diskVars    == <<disk, lost, misread, cuts>>
vars        == <<ustarVars, storageVars>>

Faults == lost + misread + cuts
NoArg  == [name |-> "none", size |-> 0]

StorageInit ==
  /\ UstarInit
  /\ disk = tarBuf
  /\ todo = <<>> /\ sector = 0 /\ arg = NoArg
  /\ lost = 0 /\ misread = 0 /\ cuts = 0

-----------------------------------------------------------------------------
(* The drive, one sector at a time *)

NextSector ==
  IF sector + 1 < TAR_MAX_SECTORS
  THEN sector' = sector + 1 /\ todo' = todo
  ELSE sector' = 0 /\ todo' = Tail(todo)

bufferResults == <<ret, listed>>

InPhase(phase) == todo # <<>> /\ Head(todo) = phase

\* Variant: the sector before is addressed.
WriteSectorOff ==
  /\ InPhase("flush")
  /\ disk' = [disk EXCEPT ![(sector + TAR_MAX_SECTORS - 1) % TAR_MAX_SECTORS]
                             = tarBuf[sector]]
  /\ NextSector
  /\ UNCHANGED <<ustarVars, arg, lost, misread, cuts>>

\* ataWrite, the drive asking for the data in time
WriteSector ==
  /\ InPhase("flush")
  /\ disk' = [disk EXCEPT ![sector] = tarBuf[sector]]
  /\ NextSector
  /\ UNCHANGED <<ustarVars, arg, lost, misread, cuts>>

\* ataWrite giving up on DRQ: it returns and nobody is told.
WriteTimedOut ==
  /\ InPhase("flush") /\ Faults < MaxFaults
  /\ lost' = lost + 1
  /\ NextSector
  /\ UNCHANGED <<ustarVars, disk, arg, misread, cuts>>

ReadSector ==
  /\ InPhase("load")
  /\ tarBuf' = [tarBuf EXCEPT ![sector] = disk[sector]]
  /\ NextSector
  /\ UNCHANGED <<bufferResults, diskVars, arg>>

\* ataRead ignores waitDrive's result and reads 256 words all the same.
ReadTimedOut ==
  /\ InPhase("load") /\ Faults < MaxFaults
  /\ tarBuf' = [tarBuf EXCEPT ![sector] = Junk]
  /\ misread' = misread + 1
  /\ NextSector
  /\ UNCHANGED <<bufferResults, disk, lost, cuts, arg>>

-----------------------------------------------------------------------------
(* The shell's commands on files.  Each gives the phases that follow it.   *)

Prompt == todo = <<>>

Begin(phases) ==
  /\ todo' = phases
  /\ UNCHANGED <<diskVars, sector, arg>>

\* Variant: touch leaves the flush to the next command.
ShTouchUnflushed(f) ==
  /\ Prompt /\ RoomToTouch
  /\ Touch(f)
  /\ Begin(<<>>)

\* Variant: the file is removed and made again at the end.
ShTouchMoved(f) ==
  /\ Prompt /\ RoomToTouch
  /\ IF tarRead(tarBuf, f) < 0 THEN Touch(f) ELSE Edit(f, 0)
  /\ Begin(<<"flush">>)

ShTouch(f) ==
  /\ Prompt /\ RoomToTouch
  /\ Touch(f)
  /\ Begin(<<"flush">>)

\* Variant: the listing comes from the buffer, not the disk.
ShRmUnloaded(f) ==
  /\ Prompt
  /\ Rm(f)
  /\ IF tarRead(tarBuf, f) < 0 THEN UNCHANGED storageVars
     ELSE Begin(<<"flush", "list">>)

ShRm(f) ==
  /\ Prompt
  /\ Rm(f)
  /\ IF tarRead(tarBuf, f) < 0 THEN UNCHANGED storageVars
     ELSE Begin(<<"flush", "load", "list">>)

\* ls reloads the archive and lists it; cat reloads it and reads a file.
ShLook ==
  /\ Prompt
  /\ todo' \in {<<"load", "list">>, <<"load">>}
  /\ UNCHANGED <<ustarVars, diskVars, sector, arg>>

\* echo > and cat > reload the archive before they edit it.
ShWrite(f, size) ==
  /\ Prompt
  /\ todo' = <<"load", "edit", "flush">>
  /\ arg' = [name |-> f, size |-> size]
  /\ UNCHANGED <<ustarVars, diskVars, sector>>

EditPhase ==
  /\ InPhase("edit")
  /\ Edit(arg.name, arg.size)
  /\ todo' = Tail(todo) /\ arg' = NoArg
  /\ UNCHANGED <<diskVars, sector>>

ListPhase ==
  /\ InPhase("list")
  /\ listed' = tarList(tarBuf)
  /\ todo' = Tail(todo)
  /\ UNCHANGED <<tarBuf, ret, diskVars, sector, arg>>

\* Memory is lost; kmain loads the archive again.
Restart ==
  /\ tarBuf' = [i \in Blocks |-> Zero]
  /\ todo' = <<"load">> /\ sector' = 0 /\ arg' = NoArg
  /\ UNCHANGED <<bufferResults, disk, lost, misread>>

Reboot == Prompt /\ Restart /\ cuts' = cuts

PowerLoss == Faults < MaxFaults /\ Restart /\ cuts' = cuts + 1

Sectors == WriteSector \/ WriteTimedOut \/ ReadSector \/ ReadTimedOut

=============================================================================
