------------------------------- MODULE AtaHistory -------------------------------
(***************************************************************************)
(* The driver called again and again over a drive that answers in time,    *)
(* late, with an error or never.                                           *)
(***************************************************************************)
EXTENDS Ata

VARIABLES
  found,  \* history: what the current or last call found the drive at
  trouble \* history: one of its waits gave up, or the drive failed

allVars == <<ataVars, found, trouble>>

Init ==
  /\ AtaInit
  /\ found = [phase |-> "ready", doing |-> "none", count |-> 0] /\ trouble = FALSE

GaveUp ==
  /\ pc' # pc
  /\ \/ pc \in {"probe", "probeAgain", "waitReady", "waitBusy", "waitFlushed"} /\ phase = "busy"
     \/ pc \in {"probeData", "waitData", "waitAsked"} /\ phase # "drq"

Driving == DriverStep /\ trouble' = (trouble \/ GaveUp) /\ found' = found

Next ==
  \/ \E op \in {"read", "write"}, l \in Lbas, v \in Values :
       /\ BeginCall(op, l, IF op = "write" THEN v ELSE Junk)
       /\ found' = [phase |-> phase, doing |-> doing, count |-> count]
       /\ trouble' = FALSE
  \/ Driving
  \/ Drive /\ trouble' = (trouble \/ phase' = "error") /\ found' = found

\* The driver's own loops; nothing is assumed of the drive.
Spec == Init /\ [][Next]_allVars /\ WF_allVars(Driving)

-----------------------------------------------------------------------------
Returns == pc # "idle" /\ pc' = "idle"
FoundQuiet == found.phase \in {"ready", "error"}

(* A call that finds the drive at rest is exact: whatever becomes of it,   *)
(* it changes no sector but its own, and if every wait saw what it waited  *)
(* for and the drive did not fail, a read returns the sector asked for and *)
(* a written sector is on the medium when ataWrite returns - although the  *)
(* FLUSH it sends is ignored by a drive still busy with the sector, and    *)
(* hides the error of one that has failed (ata.c:95-123).                  *)
ExactCalls ==
  [][ /\ FoundQuiet /\ medium' # medium =>
           /\ call.op = "write"
           /\ medium' = [medium EXCEPT ![call.lba] = Whole(call.data)]
      /\ Returns /\ FoundQuiet /\ ~trouble' =>
           IF call.op = "read" THEN buf' = medium[call.lba]
           ELSE medium[call.lba] = Whole(call.data)
    ]_allVars

(* A drive that asked for data after the driver had given up stays stuck   *)
(* in that direction: calls of the other one leave it so, reads return     *)
(* nothing but junk and writes are lost with every wait succeeding, until  *)
(* a read drains the sector a read had asked for (ata.c:103, ata.c:118).   *)
StuckDrive ==
  [][ Returns /\ found.phase = "drq" =>
        IF found.doing = call.op
        THEN call.op = "read" /\ found.count = 0 => phase' \in {"ready", "error"}
        ELSE /\ phase' = "drq" /\ doing' = found.doing /\ ~trouble'
             /\ call.op = "read" => buf' = Whole(Junk)
    ]_allVars

(* A sector holds the data of one call, never the front of one and the     *)
(* back of another, however late the drive asked for them: ataWrite sends  *)
(* a word only after it has seen DRQ (ata.c:118-119).                      *)
SectorsWhole == \A l \in Lbas : \E v \in Values : medium[l] = Whole(v)

(* Every call returns, whatever the drive does: no wait is without limit.  *)
CallEnds == pc # "idle" ~> pc = "idle"

=============================================================================
