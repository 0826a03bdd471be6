---------------------------------- MODULE Ata ----------------------------------
(***************************************************************************)
(* ataIdentify, ataRead and ataWrite of src/src/ata.c, port access by port *)
(* access, on a drive that may be slow.  Every wait gives up after TIMEOUT *)
(* looks at the status, and the drive may become ready after that: the     *)
(* next call then meets a drive that is still at the last one.             *)
(*                                                                         *)
(* The drive is external.  As the one of `make run` does, it ignores       *)
(* registers and commands while it shows BSY or DRQ, gives junk and keeps  *)
(* nothing when the data port is used in the wrong direction or without    *)
(* DRQ, and takes a count of 0 for the most sectors a command can have.    *)
(***************************************************************************)
EXTENDS Naturals

CONSTANTS
  SECTORS,  \* sectors of the drive
  WORDS,    \* words of a sector (256)
  Values,   \* what a word may hold
  Junk,     \* what the data port gives when the drive has no data
  TIMEOUT,  \* looks at the status before a wait gives up (10000)
  MANY,     \* sectors a count of 0 stands for (256)
  BYTE      \* addresses a register of a byte tells apart (256)

ASSUME AtaAssumption ==
  /\ SECTORS \in Nat \ {0} /\ WORDS \in Nat \ {0}
  /\ TIMEOUT \in Nat \ {0} /\ MANY \in Nat \ {0} /\ BYTE \in Nat \ {0}
  /\ Values # {} /\ Junk \notin Values

VARIABLES
  pc,      \* where the call is, "idle" between calls
  call,    \* the call: operation, sector and the word its data consist of
  polls,   \* i of the wait's loop
  word,    \* i of the data loop
  buf,     \* what a read has stored
  phase,   \* the status register: "ready", "busy", "drq" or "error"
  doing,   \* the command the drive is at
  low,     \* the address register LBA_L
  middle,  \* the address register LBA_M
  count,   \* the sector count register
  index,   \* the next word of the drive's buffer
  fifo,    \* the drive's buffer
  medium   \* the sectors

hostVars  == <<pc, call, polls, word, buf>>
driveVars == <<phase, doing, low, middle, count, index, fifo, medium>>
ataVars   == <<hostVars, driveVars>>

\* What the registers address.  LBA_H and the low bits of HEAD are 0 in every
\* call of this kernel, as are the features (ERR): no step is made of them.
Address == low + BYTE * middle

\* ... and the address behind it
NextAddress == /\ low' = (Address + 1) % BYTE
               /\ middle' = (Address + 1) \div BYTE

Lbas   == 0 .. SECTORS - 1
Whole(v) == [i \in 1 .. WORDS |-> v]

AtaInit ==
  /\ pc = "probe" /\ polls = 0 /\ word = 1 /\ buf = Whole(Junk)
  /\ call \in [op : {"read"}, lba : {0}, data : {Junk}]
  /\ phase = "ready" /\ doing = "none" /\ low = 0 /\ middle = 0 /\ count = 0
  /\ index = 1 /\ fifo = Whole(Junk)
  /\ medium \in [Lbas -> {Whole(v) : v \in Values}]

-----------------------------------------------------------------------------
(* The drive *)

Quiet == phase \in {"ready", "error"}  \* neither BSY nor DRQ

\* A sector read is in the buffer.
Fetch ==
  /\ phase = "busy" /\ doing = "read" /\ Address \in Lbas
  /\ phase' = "drq" /\ fifo' = medium[Address]
  /\ NextAddress /\ count' = count - 1
  /\ UNCHANGED <<doing, index, medium>>

\* The drive asks for the words of a sector to write.
Ask ==
  /\ phase = "busy" /\ doing = "write" /\ Address \in Lbas
  /\ phase' = "drq"
  /\ UNCHANGED <<doing, low, middle, count, index, fifo, medium>>

\* A sector received is on the medium.
Store ==
  /\ phase = "busy" /\ doing = "store"
  /\ medium' = [medium EXCEPT ![Address] = fifo]
  /\ NextAddress /\ count' = count - 1
  /\ IF count = 1 THEN phase' = "ready" /\ doing' = "none"
                  ELSE phase' = "busy" /\ doing' = "write"
  /\ UNCHANGED <<index, fifo>>

Flushed ==
  /\ phase = "busy" /\ doing = "flush"
  /\ phase' = "ready" /\ doing' = "none"
  /\ UNCHANGED <<low, middle, count, index, fifo, medium>>

Fail ==
  /\ phase = "busy"
  /\ phase' = "error" /\ doing' = "none"
  /\ UNCHANGED <<low, middle, count, index, fifo, medium>>

Drive == (Fetch \/ Ask \/ Store \/ Flushed \/ Fail) /\ UNCHANGED hostVars

\* A command written to the port
Command(c) ==
  IF Quiet
  THEN /\ phase' = "busy" /\ doing' = c /\ index' = 1
       /\ count' = IF count = 0 /\ c # "flush" THEN MANY ELSE count
       /\ UNCHANGED <<low, middle, fifo, medium>>
  ELSE UNCHANGED driveVars

\* The word a read of the data port gives
DataWord == IF phase = "drq" /\ doing = "read" THEN fifo[index] ELSE Junk

\* A read of the data port takes a word only while the drive has one.
WordTaken ==
  IF phase = "drq" /\ doing = "read"
  THEN /\ index' = (index % WORDS) + 1
       /\ CASE index < WORDS -> UNCHANGED <<phase, doing>>
            [] index = WORDS /\ count > 0 -> phase' = "busy" /\ UNCHANGED doing
            [] OTHER -> phase' = "ready" /\ doing' = "none"
       /\ UNCHANGED <<low, middle, count, fifo, medium>>
  ELSE UNCHANGED driveVars

\* A word written to the data port is kept only while the drive asks for one.
WordGiven(v) ==
  IF phase = "drq" /\ doing = "write"
  THEN /\ fifo' = [fifo EXCEPT ![index] = v]
       /\ index' = (index % WORDS) + 1
       /\ IF index < WORDS THEN UNCHANGED <<phase, doing>>
                           ELSE phase' = "busy" /\ doing' = "store"
       /\ UNCHANGED <<low, middle, count, medium>>
  ELSE UNCHANGED driveVars

-----------------------------------------------------------------------------
(* The driver *)

\* Variant: the loop forgets its limit.
PollForever(at, wanted, next, late) ==
  /\ pc = at
  /\ pc' = IF wanted THEN next ELSE pc
  /\ UNCHANGED <<call, polls, word, buf, driveVars>>

\* One look at the status: go on when it is as wanted, give up after TIMEOUT.
Poll(at, wanted, next, late) ==
  /\ pc = at
  /\ IF wanted THEN pc' = next /\ polls' = 0
     ELSE IF polls + 1 < TIMEOUT THEN pc' = pc /\ polls' = polls + 1
     ELSE pc' = late /\ polls' = 0
  /\ UNCHANGED <<call, word, buf, driveVars>>

Goto(at, next) == pc = at /\ pc' = next /\ UNCHANGED <<call, polls, word, buf>>

\* ataIdentify at boot.  It waits for data before it has given a command: the
\* wait runs out, and what would prime the drive ("prime") is never reached.
Probe      == Poll("probe", phase # "busy", "probeAgain", "probeAgain")
ProbeAgain == Poll("probeAgain", phase # "busy", "probeData", "idle")
ProbeData  == Poll("probeData", phase = "drq", "prime", "idle")

BeginCall(op, l, v) ==
  /\ pc = "idle"
  /\ call' = [op |-> op, lba |-> l, data |-> v]
  /\ pc' = IF op = "write" THEN "waitReady" ELSE "count"
  /\ UNCHANGED <<polls, word, buf, driveVars>>

\* ataWrite waits for the drive first, and goes on whether it is ready or not.
WaitReady == Poll("waitReady", phase # "busy", "count", "count")

SetCount ==
  /\ Goto("count", "low")
  /\ count' = IF Quiet THEN 1 ELSE count
  /\ UNCHANGED <<phase, doing, low, middle, index, fifo, medium>>

\* Variant: the rest of the address is forgotten.
SetMiddleForgotten == Goto("middle", "command") /\ UNCHANGED driveVars

\* The address goes out a byte at a time: a drive that comes to rest between
\* the two writes is left with an address of which it has taken the second.
SetLow ==
  /\ Goto("low", "middle")
  /\ low' = IF Quiet THEN call.lba % BYTE ELSE low
  /\ UNCHANGED <<phase, doing, middle, count, index, fifo, medium>>

SetMiddle ==
  /\ Goto("middle", "command")
  /\ middle' = IF Quiet THEN call.lba \div BYTE ELSE middle
  /\ UNCHANGED <<phase, doing, low, count, index, fifo, medium>>

SendCommand ==
  /\ Goto("command", IF call.op = "read" THEN "waitBusy" ELSE "waitAsked")
  /\ Command(call.op)

\* waitDrive: BSY, then DRQ or ERR.  ataRead reads whatever comes of it.
WaitBusy == Poll("waitBusy", phase # "busy", "waitData", "data")

\* Variant: no word is stored until the drive has it, however long it takes.
WaitDataForever == PollForever("waitData", phase \in {"drq", "error"}, "data", "data")

WaitData == Poll("waitData", phase \in {"drq", "error"}, "data", "data")

\* Variant: the words are sent whether the drive asks for them or not.
WaitAskedIgnored == Poll("waitAsked", phase = "drq", "data", "data")

\* ataWait for DRQ: ataWrite returns without a word when it gives up.
WaitAsked == Poll("waitAsked", phase = "drq", "data", "idle")

NextWord(last) ==
  /\ pc = "data"
  /\ IF word < WORDS THEN word' = word + 1 /\ pc' = pc
                     ELSE word' = 1 /\ pc' = last
  /\ UNCHANGED <<call, polls>>

\* Variant: the last word of a sector is left in the drive.
ReadWordShort ==
  /\ call.op = "read"
  /\ IF word < WORDS
     THEN buf' = [buf EXCEPT ![word] = DataWord] /\ WordTaken
     ELSE UNCHANGED <<buf, driveVars>>
  /\ NextWord("idle")

ReadWord ==
  /\ call.op = "read"
  /\ buf' = [buf EXCEPT ![word] = DataWord]
  /\ WordTaken
  /\ NextWord("idle")

WriteWord ==
  /\ call.op = "write"
  /\ WordGiven(call.data)
  /\ NextWord("flush")
  /\ UNCHANGED buf

\* FLUSH is sent behind the last word, when the drive may still be busy.
Flush == Goto("flush", "waitFlushed") /\ Command("flush")

WaitFlushed == Poll("waitFlushed", phase # "busy", "idle", "idle")

DriverStep ==
  \/ Probe \/ ProbeAgain \/ ProbeData
  \/ WaitReady \/ SetCount \/ SetLow \/ SetMiddle \/ SendCommand
  \/ WaitBusy \/ WaitData \/ WaitAsked
  \/ ReadWord \/ WriteWord \/ Flush \/ WaitFlushed

=============================================================================
