------------------------------- MODULE AtaProofs -------------------------------
(***************************************************************************)
(* The disk's driver, for every drive and every limit of its waits: calls  *)
(* on a drive at rest are exact, a drive that asked late stays stuck, no   *)
(* sector is ever put together from two calls, and every call runs out.    *)
(***************************************************************************)
EXTENDS AtaHistory, TLAPS

Pcs == {"probe", "probeAgain", "probeData", "idle", "waitReady", "count", "low",
        "middle", "command", "waitBusy", "waitData", "waitAsked", "data", "flush", "waitFlushed"}

Words   == 1 .. WORDS
Sector  == [Words -> Values]
Contents == [Words -> Values \cup {Junk}]

\* The types, and which calls each point of the code belongs to ("prime" is none)
Types ==
  /\ pc \in Pcs
  /\ call \in [op : {"read", "write"}, lba : Lbas, data : Values \cup {Junk}]
  /\ call.op = "write" => call.data \in Values
  /\ word \in Words /\ (pc # "data" => word = 1)
  /\ index \in Words /\ fifo \in Contents /\ buf \in Contents
  /\ medium \in [Lbas -> Sector]
  /\ trouble \in BOOLEAN
  /\ pc \in {"waitBusy", "waitData"} => call.op = "read"
  /\ pc \in {"waitReady", "waitAsked", "flush", "waitFlushed"} => call.op = "write"
  /\ pc \in {"probe", "probeAgain", "probeData"} => phase = "ready" /\ call.op = "read"

\* What the drive's status says of the command it is at
Status ==
  /\ phase \in {"ready", "busy", "drq", "error"}
  /\ doing \in {"none", "read", "write", "store", "flush"}
  /\ Quiet <=> doing = "none"
  /\ phase = "drq" => doing \in {"read", "write"}

Sending == pc = "data" /\ call.op = "write"
Reading == pc = "data" /\ call.op = "read"

\* A write's words go into a buffer that asked for them from its first on.
Filled ==
  /\ Sending => phase = "drq"
  /\ Sending /\ doing = "write" =>
       index = word /\ \A i \in Words : i < word => fifo[i] = call.data
  /\ doing = "write" /\ ~Sending => index = 1
  /\ doing = "store" => index = 1 /\ \E v \in Values : fifo = Whole(v)
  /\ SectorsWhole

\* A call that found the drive at rest, up to whatever trouble it had
Exact ==
  FoundQuiet =>
    /\ pc \in {"waitReady", "count", "low", "middle", "command"} => Quiet
    /\ pc \in {"low", "middle", "command"} => count = 1
    /\ pc = "middle" => low = call.lba % BYTE
    /\ pc = "command" => Address = call.lba
    /\ doing \in IF call.op = "read" THEN {"none", "read"}
                                     ELSE {"none", "write", "store", "flush"}
    /\ doing \in {"write", "store"} => Address = call.lba /\ count = 1
    /\ doing = "store" => fifo = Whole(call.data)
    /\ pc \in {"waitBusy", "waitData"} /\ doing = "read" =>
         /\ index = 1
         /\ IF phase = "busy" THEN Address = call.lba /\ count = 1
                              ELSE fifo = medium[call.lba] /\ count = 0
    /\ Reading /\ ~trouble =>
         /\ phase = "drq" /\ doing = "read" /\ count = 0
         /\ index = word /\ fifo = medium[call.lba]
         /\ \A i \in Words : i < word => buf[i] = fifo[i]
    /\ pc \in {"flush", "waitFlushed"} /\ ~trouble =>
         doing = "store" \/ medium[call.lba] = Whole(call.data)

\* A call that found the drive asking for an earlier call's data
Stuck ==
  found.phase = "drq" /\ pc # "idle" =>
    IF found.doing = call.op
    THEN call.op = "read" /\ found.count = 0 =>
           \/ Reading /\ Quiet
           \/ /\ phase = "drq" /\ doing = "read" /\ count = 0
              /\ Reading => word <= index
    ELSE /\ phase = "drq" /\ doing = found.doing /\ ~trouble
         /\ Reading => \A i \in Words : i < word => buf[i] = Junk

IInv == Types /\ Status /\ Filled /\ Exact /\ Stuck

-----------------------------------------------------------------------------
LEMMA Sizes ==
  /\ WORDS \in Nat \ {0} /\ TIMEOUT \in Nat \ {0} /\ MANY \in Nat \ {0}
  /\ BYTE \in Nat \ {0}
  /\ 1 \in Words /\ WORDS \in Words /\ 0 \in Lbas
  /\ \A v \in Values : v # Junk
BY AtaAssumption DEF Words, Lbas

\* The next word of the drive's buffer, and of the host's loop
LEMMA NextIndex ==
  ASSUME NEW i \in Words
  PROVE  /\ i < WORDS => (i % WORDS) + 1 = i + 1 /\ i + 1 \in Words
         /\ ~(i < WORDS) => i = WORDS /\ (i % WORDS) + 1 = 1
<1>1. i < WORDS => i % WORDS = i
  BY Sizes DEF Words
<1>2. ~(i < WORDS) => i = WORDS /\ i % WORDS = 0
  BY Sizes DEF Words
<1> QED BY <1>1, <1>2, Sizes DEF Words

\* The two bytes of an address make it up again.
LEMMA Bytes ==
  ASSUME NEW a \in Lbas
  PROVE  (a % BYTE) + BYTE * (a \div BYTE) = a
BY Sizes DEF Lbas

LEMMA AddressKept == UNCHANGED <<low, middle>> => Address' = Address
BY DEF Address

\* What the words before the next one and up to it are
LEMMA WordOrder ==
  /\ \A i \in Words : ~(i < 1) /\ (i < WORDS \/ i = WORDS)
  /\ \A w, i \in Words : i < w + 1 => i < w \/ i = w
BY Sizes DEF Words

\* The waits: they look at the drive and leave it alone.
Waits == \/ Probe \/ ProbeAgain \/ ProbeData \/ WaitReady
         \/ WaitBusy \/ WaitData \/ WaitAsked \/ WaitFlushed

Loop == pc \in {"probe", "probeAgain", "probeData", "waitReady", "waitBusy",
                "waitData", "waitAsked", "waitFlushed"}

\* What a wait does: it stays, or goes on as it saw the drive or gave up.
LEMMA WaitFacts ==
  ASSUME Types, Status, Waits
  PROVE  /\ Loop /\ UNCHANGED <<call, word, buf, driveVars>>
         /\ \/ pc' = pc
            \/ pc = "probe" /\ pc' = "probeAgain"
            \/ pc = "probeAgain" /\ pc' \in {"probeData", "idle"}
            \/ pc = "probeData" /\ pc' = "idle"
            \/ pc = "waitReady" /\ pc' = "count"
            \/ pc = "waitBusy" /\ phase # "busy" /\ pc' = "waitData"
            \/ pc = "waitBusy" /\ phase = "busy" /\ pc' = "data"
            \/ pc = "waitData" /\ pc' = "data"
            \/ pc = "waitAsked" /\ phase = "drq" /\ pc' = "data"
            \/ pc = "waitAsked" /\ phase # "drq" /\ pc' = "idle"
            \/ pc = "waitFlushed" /\ pc' = "idle"
BY DEF Types, Status, Waits, Poll, Probe, ProbeAgain, ProbeData, WaitReady, WaitBusy,
       WaitData, WaitAsked, WaitFlushed, Loop

LEMMA TypesStep ==
  ASSUME Types, Status, Filled, [Next]_allVars
  PROVE  Types'
<1> USE Sizes DEF Types, Pcs, hostVars, driveVars
<1>1. ASSUME NEW op \in {"read", "write"}, NEW l \in Lbas, NEW v \in Values,
             BeginCall(op, l, IF op = "write" THEN v ELSE Junk), trouble' = FALSE
      PROVE  Types'
  <2>1. call' = [op |-> op, lba |-> l, data |-> IF op = "write" THEN v ELSE Junk]
        /\ pc = "idle" /\ pc' = (IF op = "write" THEN "waitReady" ELSE "count")
        /\ UNCHANGED <<polls, word, buf, driveVars>>
    BY <1>1 DEF BeginCall
  <2> QED BY <1>1, <2>1
<1>2. CASE UNCHANGED allVars
  BY <1>2 DEF allVars, ataVars
<1>3. CASE Driving /\ Waits
  <2>1. trouble' \in BOOLEAN
    BY <1>3 DEF Driving
  <2> QED BY <1>3, <2>1, WaitFacts DEF Loop
<1>4. CASE Driving /\ (SetCount \/ SetLow \/ SetMiddle \/ SendCommand \/ Flush)
  <2>1. trouble' \in BOOLEAN
    BY <1>4 DEF Driving
  <2> QED BY <1>4, <2>1 DEF SetCount, SetLow, SetMiddle, SendCommand, Flush, Command, Goto
<1>5. CASE Driving /\ ReadWord
  <2>1. trouble' \in BOOLEAN
    BY <1>5 DEF Driving
  <2>2. DataWord \in Values \cup {Junk}
    BY DEF DataWord, Contents
  <2>3. buf' \in Contents /\ UNCHANGED <<call, fifo, medium>>
    BY <1>5, <2>2 DEF ReadWord, WordTaken, NextWord, Contents
  <2>4. index' \in Words /\ word' \in Words /\ pc' \in {"data", "idle"}
        /\ (pc' # "data" => word' = 1)
    BY <1>5, NextIndex DEF ReadWord, WordTaken, NextWord
  <2> QED BY <2>1, <2>3, <2>4
<1>6. CASE Driving /\ WriteWord
  <2>1. trouble' \in BOOLEAN
    BY <1>6 DEF Driving
  <2>2. UNCHANGED <<call, buf, medium>> /\ call.op = "write" /\ call.data \in Values
    BY <1>6 DEF WriteWord, WordGiven, NextWord
  <2>3. fifo' \in Contents
    <3>1. fifo' = fifo \/ fifo' = [fifo EXCEPT ![index] = call.data]
      BY <1>6 DEF WriteWord, WordGiven
    <3> HIDE DEF Types
    <3>2. fifo \in [Words -> Values \cup {Junk}] /\ call.data \in Values \cup {Junk}
      BY <2>2 DEF Types, Contents
    <3>3. fifo' \in [Words -> Values \cup {Junk}]
      BY <3>1, <3>2
    <3> QED BY <3>3 DEF Contents
  <2>4. index' \in Words /\ word' \in Words /\ pc' \in {"data", "flush"}
        /\ (pc' # "data" => word' = 1)
    BY <1>6, NextIndex DEF WriteWord, WordGiven, NextWord
  <2> QED BY <2>1, <2>2, <2>3, <2>4
<1>7. CASE Drive /\ trouble' = (trouble \/ phase' = "error")
  <2>1. phase = "busy" /\ UNCHANGED <<pc, call, word, buf, index>>
    BY <1>7 DEF Drive, Fetch, Ask, Store, Flushed, Fail
  <2>2. fifo' \in Contents
    <3>1. fifo' = fifo \/ \E l \in Lbas : fifo' = medium[l]
      BY <1>7 DEF Drive, Fetch, Ask, Store, Flushed, Fail
    <3>2. ASSUME NEW l \in Lbas PROVE medium[l] \in Contents
      <4>1. medium[l] \in Sector
        OBVIOUS
      <4> QED BY <4>1 DEF Contents, Sector
    <3> QED BY <3>1, <3>2
  <2>3. medium' \in [Lbas -> Sector]
    <3>1. CASE Store
      <4>1. PICK v \in Values : fifo = Whole(v)
        BY <3>1 DEF Store, Filled
      <4>2. fifo \in Sector
        BY <4>1 DEF Whole, Sector, Words
      <4> QED BY <3>1, <4>2 DEF Store
    <3>2. CASE Fetch \/ Ask \/ Flushed \/ Fail
      BY <3>2 DEF Fetch, Ask, Flushed, Fail
    <3> QED BY <1>7, <3>1, <3>2 DEF Drive
  <2> QED BY <1>7, <2>1, <2>2, <2>3
<1> QED BY <1>1, <1>2, <1>3, <1>4, <1>5, <1>6, <1>7
        DEF Next, Driving, DriverStep, Waits

LEMMA StatusStep ==
  ASSUME Types, Status, [Next]_allVars
  PROVE  Status'
<1> USE DEF Status, Quiet, hostVars, driveVars
<1>1. CASE \/ UNCHANGED allVars
           \/ \E op \in {"read", "write"}, l \in Lbas, v \in Values :
                 BeginCall(op, l, IF op = "write" THEN v ELSE Junk)
  BY <1>1 DEF allVars, ataVars, BeginCall
<1>2. CASE Waits
  BY <1>2, WaitFacts
<1>3. CASE SetCount \/ SetLow \/ SetMiddle
  BY <1>3 DEF SetCount, SetLow, SetMiddle
<1>4. CASE SendCommand \/ Flush
  BY <1>4 DEF SendCommand, Flush, Command, Types
<1>5. CASE ReadWord \/ WriteWord
  BY <1>5 DEF ReadWord, WriteWord, WordTaken, WordGiven
<1>6. CASE Drive
  BY <1>6 DEF Drive, Fetch, Ask, Store, Flushed, Fail
<1> QED BY <1>1, <1>2, <1>3, <1>4, <1>5, <1>6 DEF Next, Driving, DriverStep, Waits

LEMMA FilledStep ==
  ASSUME Types, Status, Filled, [Next]_allVars
  PROVE  Filled'
<1> USE Sizes DEF Filled, Sending, SectorsWhole, hostVars, driveVars
<1>1. CASE \/ UNCHANGED allVars
           \/ \E op \in {"read", "write"}, l \in Lbas, v \in Values :
                 BeginCall(op, l, IF op = "write" THEN v ELSE Junk)
  BY <1>1 DEF allVars, ataVars, BeginCall
<1>2. CASE Waits
  <2>1. pc' = "data" /\ pc # "data" => phase = "drq" \/ call.op = "read"
    BY <1>2, WaitFacts DEF Types
  <2>2. pc = "data" => pc' = pc
    BY <1>2, WaitFacts DEF Loop
  <2>3. UNCHANGED <<call, word, driveVars>> /\ word \in Words
    BY <1>2, WaitFacts DEF Types
  <2>4. pc # "data" => word = 1
    BY DEF Types
  <2> QED BY <2>1, <2>2, <2>3, <2>4 DEF Words
<1>3. CASE SetCount \/ SetLow \/ SetMiddle
  BY <1>3 DEF SetCount, SetLow, SetMiddle, Goto
<1>4. CASE SendCommand \/ Flush
  BY <1>4 DEF SendCommand, Flush, Command, Goto, Types
<1>5. CASE ReadWord
  <2>1. pc = "data" /\ call.op = "read" /\ call' = call /\ UNCHANGED <<fifo, medium>>
        /\ doing' \in {doing, "none"} /\ (doing # "read" => UNCHANGED index)
    BY <1>5 DEF ReadWord, NextWord, WordTaken
  <2> QED BY <2>1
<1>6. CASE WriteWord
  <2>1. pc = "data" /\ call.op = "write" /\ phase = "drq" /\ UNCHANGED <<call, medium>>
        /\ call.data \in Values /\ word \in Words
    BY <1>6 DEF WriteWord, NextWord, WordGiven, Types
  <2>2. CASE doing = "write"
    <3>1. index = word /\ fifo' = [fifo EXCEPT ![word] = call.data]
          /\ fifo \in [Words -> Values \cup {Junk}]
      BY <1>6, <2>1, <2>2 DEF WriteWord, WordGiven, Types, Contents
    <3>2. \A i \in Words : i <= word => fifo'[i] = call.data
      BY <2>1, <2>2, <3>1 DEF Words
    <3>3. CASE word < WORDS
      <4>1. pc' = "data" /\ word' = word + 1 /\ index' = word + 1 /\ UNCHANGED <<phase, doing>>
        BY <1>6, <2>1, <2>2, <3>1, <3>3, NextIndex DEF WriteWord, NextWord, WordGiven
      <4> QED BY <2>1, <2>2, <3>2, <4>1 DEF Words
    <3>4. CASE ~(word < WORDS)
      <4>1. pc' = "flush" /\ doing' = "store" /\ word = WORDS /\ index' = 1
        BY <1>6, <2>1, <2>2, <3>1, <3>4, NextIndex DEF WriteWord, NextWord, WordGiven
      <4>2. fifo' \in [Words -> Values \cup {Junk}]
        BY <2>1, <3>1
      <4>3. \A i \in Words : fifo'[i] = call.data
        BY <3>2, <4>1 DEF Words
      <4>4. fifo' = [i \in Words |-> call.data]
        BY <4>2, <4>3
      <4>5. \E v \in Values : fifo' = Whole(v)
        BY <2>1, <4>4 DEF Whole, Words
      <4> QED BY <2>1, <4>1, <4>5
    <3> QED BY <3>3, <3>4
  <2>3. CASE doing # "write"
    <3>1. UNCHANGED driveVars /\ pc' \in {"data", "flush"}
      BY <1>6, <2>3 DEF WriteWord, NextWord, WordGiven
    <3> QED BY <2>1, <2>3, <3>1
  <2> QED BY <2>2, <2>3
<1>7. CASE Drive
  <2>1. phase = "busy" /\ ~Sending /\ UNCHANGED <<pc, call, word, index>>
    BY <1>7 DEF Drive, Fetch, Ask, Store, Flushed, Fail
  <2>2. CASE Store
    <3>1. PICK v \in Values : fifo = Whole(v)
      BY <2>2 DEF Store
    <3>2. \A l \in Lbas : medium'[l] = medium[l] \/ medium'[l] = fifo
      BY <2>2 DEF Store, Types
    <3>3. index = 1
      BY <2>2 DEF Store
    <3> QED BY <2>1, <2>2, <3>1, <3>2, <3>3 DEF Store
  <2>3. CASE Fetch \/ Ask \/ Flushed \/ Fail
    BY <2>1, <2>3 DEF Fetch, Ask, Flushed, Fail
  <2> QED BY <1>7, <2>2, <2>3 DEF Drive
<1> QED BY <1>1, <1>2, <1>3, <1>4, <1>5, <1>6, <1>7 DEF Next, Driving, DriverStep, Waits

-----------------------------------------------------------------------------
(* What one action leaves of a call that found the drive at rest *)

LEMMA ExactStep ==
  ASSUME Types, Status, Filled, Exact, [Next]_allVars
  PROVE  Exact'
<1> USE Sizes DEF Exact, FoundQuiet, Quiet, Reading, hostVars, driveVars
<1> SUFFICES ASSUME FoundQuiet'  PROVE Exact'
  OBVIOUS
<1> USE AddressKept
<1>1. CASE UNCHANGED allVars
  BY <1>1 DEF allVars, ataVars
<1>2. ASSUME NEW op \in {"read", "write"}, NEW l \in Lbas, NEW v \in Values,
             BeginCall(op, l, IF op = "write" THEN v ELSE Junk),
             found' = [phase |-> phase, doing |-> doing, count |-> count]
      PROVE  Exact'
  BY <1>2 DEF BeginCall, Status
<1>3. CASE Driving /\ Waits
  <2>1. /\ Loop /\ UNCHANGED <<call, word, buf, driveVars, found>>
        /\ trouble' = (trouble \/ GaveUp) /\ word = 1 /\ (trouble => trouble')
    BY <1>3, WaitFacts DEF Driving, Types, Loop
  <2>2. ASSUME Reading', ~trouble'
        PROVE  /\ phase = "drq" /\ doing = "read" /\ count = 0 /\ word = 1
               /\ index = 1 /\ fifo = medium[call.lba]
    <3>1. pc \in {"waitBusy", "waitData"} /\ pc' = "data" /\ call.op = "read"
      BY <1>3, <2>1, <2>2, WaitFacts DEF Loop, Types
    <3>2. ~GaveUp /\ pc' # pc
      BY <2>1, <2>2, <3>1
    <3>3. phase = "drq"
      BY <1>3, <3>1, <3>2, WaitFacts DEF GaveUp
    <3>4. doing = "read"
      BY <2>1, <3>1, <3>3 DEF Status
    <3> QED BY <2>1, <3>1, <3>3, <3>4 DEF Types
  <2>3. \/ pc' = pc \/ pc' \notin {"count", "low", "middle", "command", "waitBusy", "waitReady",
                                   "waitData", "flush", "waitFlushed"}
        \/ pc = "waitReady" /\ pc' = "count"
        \/ pc = "waitBusy" /\ pc' = "waitData"
    BY <1>3, WaitFacts
  <2>4. pc # "data"
    BY <2>1 DEF Loop
  <2> QED BY <2>1, <2>2, <2>3, <2>4, WordOrder
<1>4. CASE Driving /\ (SetCount \/ SetLow \/ SetMiddle)
  <2>1. CASE SetCount
    BY <1>4, <2>1 DEF Driving, SetCount, Goto, Status
  <2>2. CASE SetLow
    BY <1>4, <2>2 DEF Driving, SetLow, Goto, Status
  <2>3. CASE SetMiddle
    <3>1. /\ pc = "middle" /\ pc' = "command" /\ Quiet /\ count = 1 /\ call.lba \in Lbas
          /\ UNCHANGED <<call, phase, doing, count, low>>
          /\ low = call.lba % BYTE /\ middle' = call.lba \div BYTE
      BY <1>4, <2>3 DEF Driving, SetMiddle, Goto, Types
    <3>2. Address' = call.lba
      BY <3>1, Bytes DEF Address
    <3> QED BY <1>4, <2>3, <3>1, <3>2 DEF Driving, SetMiddle, Status
  <2> QED BY <1>4, <2>1, <2>2, <2>3
<1>5. CASE Driving /\ SendCommand
  <2>1. /\ pc = "command" /\ pc' = (IF call.op = "read" THEN "waitBusy" ELSE "waitAsked")
        /\ UNCHANGED <<call, found>> /\ Quiet /\ count = 1 /\ Address = call.lba
    BY <1>5 DEF Driving, SendCommand, Goto
  <2>2. /\ phase' = "busy" /\ doing' = call.op /\ index' = 1 /\ count' = 1 /\ UNCHANGED <<low, middle>>
    <3> HIDE DEF Exact, Quiet, FoundQuiet, Reading
    <3>1. Command(call.op)
      BY <1>5 DEF SendCommand
    <3>2. Quiet /\ count = 1
      BY <2>1
    <3>3. count # 0
      BY <3>2
    <3> QED BY <3>1, <3>2, <3>3 DEF Command
  <2> QED BY <2>1, <2>2 DEF Types
<1>6. CASE Driving /\ Flush
  <2>1. /\ pc = "flush" /\ pc' = "waitFlushed" /\ call.op = "write"
        /\ UNCHANGED <<call, medium, fifo, low, middle, found>> /\ (trouble => trouble')
    BY <1>6 DEF Driving, Flush, Goto, Command, Types
  <2>2. CASE Quiet
    BY <1>6, <2>1, <2>2 DEF Flush, Command, Status
  <2>3. CASE ~Quiet
    BY <1>6, <2>1, <2>3 DEF Flush, Command
  <2> QED BY <2>2, <2>3
<1>7. CASE Driving /\ ReadWord
  <2>1. /\ Reading /\ call.op = "read" /\ UNCHANGED <<call, fifo, medium, low, middle, count, found>>
        /\ pc' \in {"data", "idle"} /\ doing' \in {doing, "none"} /\ (trouble => trouble')
    BY <1>7 DEF Driving, ReadWord, NextWord, WordTaken
  <2>2. ASSUME pc' = "data", ~trouble
        PROVE  /\ phase' = "drq" /\ doing' = "read" /\ count' = 0 /\ index' = word'
               /\ \A i \in Words : i < word' => buf'[i] = fifo'[i]
    <3>1. /\ phase = "drq" /\ doing = "read" /\ count = 0 /\ index = word
          /\ \A i \in Words : i < word => buf[i] = fifo[i]
      BY <2>1, <2>2
    <3>2. word < WORDS /\ word' = word + 1 /\ word \in Words
      BY <1>7, <2>2 DEF ReadWord, NextWord, Types
    <3>3. index' = word + 1 /\ UNCHANGED <<phase, doing>>
      BY <1>7, <2>1, <3>1, <3>2, NextIndex DEF ReadWord, WordTaken
    <3>4. buf' = [buf EXCEPT ![word] = fifo[word]] /\ buf \in [Words -> Values \cup {Junk}]
      BY <1>7, <3>1 DEF ReadWord, DataWord, Types, Contents
    <3>5. \A i \in Words : i < word + 1 => buf'[i] = fifo[i]
      BY <3>1, <3>2, <3>4, WordOrder
    <3> QED BY <2>1, <3>1, <3>2, <3>3, <3>5
  <2> QED BY <2>1, <2>2
<1>8. CASE Driving /\ WriteWord
  <2>1. /\ pc = "data" /\ call.op = "write" /\ phase = "drq"
        /\ UNCHANGED <<call, medium, low, middle, count, found>> /\ (trouble => trouble')
        /\ pc' \in {"data", "flush"}
    BY <1>8 DEF Driving, WriteWord, NextWord, WordGiven, Filled, Sending
  <2>2. doing = "write" /\ index = word /\ Address = call.lba /\ count = 1
        /\ \A i \in Words : i < word => fifo[i] = call.data
    BY <2>1 DEF Status, Filled, Sending
  <2>3. CASE word < WORDS
    BY <1>8, <2>1, <2>2, <2>3 DEF WriteWord, NextWord, WordGiven
  <2>4. CASE ~(word < WORDS)
    <3>1. pc' = "flush" /\ doing' = "store"
      BY <1>8, <2>1, <2>2, <2>4 DEF WriteWord, NextWord, WordGiven
    <3>2. fifo' = [fifo EXCEPT ![WORDS] = call.data] /\ fifo \in [Words -> Values \cup {Junk}]
          /\ word = WORDS
      BY <1>8, <2>1, <2>2, <2>4, NextIndex DEF WriteWord, WordGiven, Types, Contents
    <3>4. \A i \in Words : fifo'[i] = call.data
      BY <2>2, <3>2, WordOrder
    <3>5. fifo' = Whole(call.data)
      BY <3>2, <3>4 DEF Whole, Words
    <3> QED BY <2>1, <2>2, <3>1, <3>5
  <2> QED BY <2>3, <2>4
<1>9. CASE Drive /\ trouble' = (trouble \/ phase' = "error") /\ found' = found
  <2>1. /\ phase = "busy" /\ pc \notin {"waitReady", "count", "low", "middle", "command"}
        /\ UNCHANGED <<pc, call, word, buf, index, found>> /\ (Reading => trouble)
        /\ (trouble => trouble')
    BY <1>9 DEF Drive, Fetch, Ask, Store, Flushed, Fail
  <2>2. CASE Fetch
    <3>1. doing = "read" /\ call.op = "read" /\ doing' = "read" /\ medium' = medium
          /\ fifo' = medium[Address] /\ count' = count - 1
      BY <1>9, <2>1, <2>2 DEF Fetch
    <3>2. pc \notin {"flush", "waitFlushed"}
      BY <3>1 DEF Types
    <3>3. pc \in {"waitBusy", "waitData"} => index = 1 /\ Address = call.lba /\ count = 1
      BY <1>9, <2>1, <3>1
    <3>4. phase' = "drq" /\ (count = 1 => count' = 0)
      <4> HIDE DEF Exact
      <4> QED BY <2>2, <3>1 DEF Fetch
    <3> QED BY <2>1, <3>1, <3>2, <3>3, <3>4
  <2>3. CASE Store
    <3>1. /\ doing' = "none" /\ call.op = "write"
          /\ medium' = [medium EXCEPT ![call.lba] = Whole(call.data)]
      BY <1>9, <2>1, <2>3 DEF Store, Types
    <3>2. medium'[call.lba] = Whole(call.data)
      BY <3>1 DEF Types
    <3> QED BY <2>1, <3>1, <3>2
  <2>4. CASE Ask
    BY <1>9, <2>1, <2>4 DEF Ask
  <2>5. CASE Flushed \/ Fail
    BY <1>9, <2>1, <2>5 DEF Flushed, Fail
  <2> QED BY <1>9, <2>2, <2>3, <2>4, <2>5 DEF Drive
<1> QED BY <1>1, <1>2, <1>3, <1>4, <1>5, <1>6, <1>7, <1>8, <1>9
        DEF Next, Driving, DriverStep, Waits

(* ... and of one that found it asking *)

LEMMA StuckStep ==
  ASSUME Types, Status, Stuck, [Next]_allVars
  PROVE  Stuck'
<1> USE Sizes DEF Stuck, Quiet, Reading, hostVars, driveVars
<1> SUFFICES ASSUME found'.phase = "drq", pc' # "idle"  PROVE Stuck'
  OBVIOUS
<1>1. CASE UNCHANGED allVars
  BY <1>1 DEF allVars, ataVars
<1>2. ASSUME NEW op \in {"read", "write"}, NEW l \in Lbas, NEW v \in Values,
             BeginCall(op, l, IF op = "write" THEN v ELSE Junk),
             found' = [phase |-> phase, doing |-> doing, count |-> count], trouble' = FALSE
      PROVE  Stuck'
  BY <1>2 DEF BeginCall, Status
<1>3. CASE Driving /\ Waits
  <2>1. /\ Loop /\ UNCHANGED <<call, word, buf, driveVars, found>>
        /\ word = 1 /\ index \in Words
    BY <1>3, WaitFacts DEF Driving, Types, Loop
  <2>2. phase = "drq" /\ ~trouble => ~trouble'
    BY <1>3 DEF Driving, GaveUp
  <2>3. pc \notin {"data", "idle"}
    BY <2>1 DEF Loop
  <2>4. word <= index /\ \A i \in Words : ~(i < word)
    BY <2>1 DEF Words
  <2>5. CASE found.doing = call.op
    BY <2>1, <2>3, <2>4, <2>5
  <2>6. CASE found.doing # call.op
    BY <2>1, <2>2, <2>3, <2>4, <2>6
  <2> QED BY <2>5, <2>6
<1>4. CASE Driving /\ (SetCount \/ SetLow \/ SetMiddle \/ SendCommand \/ Flush)
  <2>1. /\ pc \in {"count", "low", "middle", "command", "flush"} /\ pc' # "data"
        /\ UNCHANGED <<call, word, buf, found>> /\ trouble' = (trouble \/ GaveUp)
    BY <1>4 DEF Driving, SetCount, SetLow, SetMiddle, SendCommand, Flush, Goto, Types
  <2>2. ~GaveUp
    BY <2>1 DEF GaveUp
  <2>3. phase = "drq" => UNCHANGED driveVars
    BY <1>4 DEF SetCount, SetLow, SetMiddle, SendCommand, Flush, Command
  <2> QED BY <2>1, <2>2, <2>3
<1>5. CASE Driving /\ ReadWord
  <2>1. /\ Reading /\ call.op = "read" /\ pc' = "data" /\ word < WORDS /\ word' = word + 1
        /\ UNCHANGED <<call, found, count>> /\ trouble' = trouble /\ word \in Words
        /\ index \in Words
    BY <1>5 DEF Driving, ReadWord, NextWord, WordTaken, GaveUp, Types
  <2>2. CASE found.doing = "read" /\ found.count = 0 /\ Quiet
    BY <1>5, <2>1, <2>2 DEF ReadWord, WordTaken
  <2>3. CASE found.doing = "read" /\ found.count = 0 /\ ~Quiet
    <3>1. phase = "drq" /\ doing = "read" /\ count = 0 /\ word <= index
      BY <2>1, <2>3
    <3>2. CASE index < WORDS
      <4>1. index' = index + 1 /\ UNCHANGED <<phase, doing>>
        BY <1>5, <3>1, <3>2, <2>1, NextIndex DEF ReadWord, WordTaken
      <4> QED BY <2>1, <2>3, <3>1, <4>1 DEF Words
    <3>3. CASE ~(index < WORDS)
      <4>1. phase' = "ready"
        BY <1>5, <3>1, <3>3, <2>1, NextIndex DEF ReadWord, WordTaken
      <4> QED BY <2>1, <2>3, <4>1
    <3> QED BY <3>2, <3>3
  <2>4. CASE found.doing # "read"
    <3>1. /\ phase = "drq" /\ doing = found.doing /\ ~trouble
          /\ \A i \in Words : i < word => buf[i] = Junk
      BY <2>1, <2>4
    <3>2. UNCHANGED driveVars /\ buf' = [buf EXCEPT ![word] = Junk]
      BY <1>5, <2>4, <3>1 DEF ReadWord, WordTaken, DataWord
    <3>3. buf \in [Words -> Values \cup {Junk}]
      BY DEF Types, Contents
    <3>4. \A i \in Words : i < word + 1 => buf'[i] = Junk
      BY <2>1, <3>1, <3>2, <3>3 DEF Words
    <3> QED BY <2>1, <2>4, <3>1, <3>2, <3>4
  <2> QED BY <2>1, <2>2, <2>3, <2>4
<1>6. CASE Driving /\ WriteWord
  <2>1. /\ pc = "data" /\ call.op = "write" /\ UNCHANGED <<call, found>>
        /\ pc' \in {"data", "flush"} /\ trouble' = (trouble \/ GaveUp) /\ ~GaveUp
    BY <1>6 DEF Driving, WriteWord, NextWord, GaveUp
  <2>2. doing # "write" => UNCHANGED driveVars
    BY <1>6 DEF WriteWord, WordGiven
  <2> QED BY <2>1, <2>2
<1>7. CASE Drive /\ trouble' = (trouble \/ phase' = "error") /\ found' = found
  BY <1>7 DEF Drive, Fetch, Ask, Store, Flushed, Fail
<1> QED BY <1>1, <1>2, <1>3, <1>4, <1>5, <1>6, <1>7 DEF Next, Driving, DriverStep, Waits

-----------------------------------------------------------------------------
(* The driver comes up before it has called anything. *)
LEMMA InitIInv == Init => IInv
<1> SUFFICES ASSUME Init  PROVE IInv
  OBVIOUS
<1> USE Sizes DEF Init, AtaInit
<1>1. /\ pc = "probe" /\ phase = "ready" /\ doing = "none" /\ found.phase = "ready"
      /\ call.op = "read" /\ call.lba \in Lbas /\ call.data = Junk
  OBVIOUS
<1>2. \A v \in Values \cup {Junk} : Whole(v) \in Contents /\ (v \in Values => Whole(v) \in Sector)
  BY DEF Whole, Contents, Sector, Words
<1>3. Types
  <2>1. medium \in [Lbas -> Sector]
    BY <1>2
  <2>2. call \in [op : {"read", "write"}, lba : Lbas, data : Values \cup {Junk}]
    OBVIOUS
  <2> QED BY <1>1, <1>2, <2>1, <2>2 DEF Types, Pcs
<1>4. Status
  BY <1>1 DEF Status, Quiet
<1>5. SectorsWhole
  BY DEF SectorsWhole
<1> QED BY <1>1, <1>3, <1>4, <1>5 DEF IInv, Filled, Sending, Exact, Reading, Stuck, Quiet

LEMMA IInvStep == IInv /\ [Next]_allVars => IInv'
BY TypesStep, StatusStep, FilledStep, ExactStep, StuckStep DEF IInv

LEMMA Inductive == Spec => []IInv
BY InitIInv, IInvStep, PTL DEF Spec

-----------------------------------------------------------------------------
(* No sector is ever the front of one call's data and the back of          *)
(* another's, for every drive: however late it asks, fails or never does.  *)
THEOREM SectorsStayWhole == Spec => []SectorsWhole
<1>1. IInv => SectorsWhole
  BY DEF IInv, Filled
<1> QED BY Inductive, <1>1, PTL

\* The actions a call returns by
LEMMA ReturnFacts ==
  ASSUME Types, [Next]_allVars, Returns
  PROVE  /\ Driving /\ found' = found /\ call' = call /\ trouble' = (trouble \/ GaveUp)
         /\ medium' = medium
         /\ \/ GaveUp /\ UNCHANGED driveVars /\ Loop
            \/ ReadWord /\ Reading /\ word = WORDS
            \/ pc = "waitFlushed" /\ UNCHANGED driveVars /\ call.op = "write"
<1> USE Sizes DEF Returns, hostVars, driveVars
<1>1. DriverStep /\ trouble' = (trouble \/ GaveUp) /\ found' = found
  BY DEF Next, BeginCall, Drive, Driving, allVars, ataVars
<1>2. CASE Waits
  BY <1>1, <1>2 DEF Waits, Poll, Probe, ProbeAgain, ProbeData, WaitReady, WaitBusy, WaitData,
       WaitAsked, WaitFlushed, Loop, GaveUp, Types, Driving
<1>3. CASE ReadWord
  BY <1>1, <1>3 DEF ReadWord, NextWord, WordTaken, Reading, Types, Words, Driving
<1>4. CASE SetCount \/ SetLow \/ SetMiddle \/ SendCommand \/ WriteWord \/ Flush
  BY <1>4 DEF SetCount, SetLow, SetMiddle, SendCommand, WriteWord, Flush, NextWord, Goto
<1> QED BY <1>1, <1>2, <1>3, <1>4 DEF DriverStep, Waits

(* What a call does that found the drive at rest, for every drive: it      *)
(* changes no sector but its own, and without trouble it does what its     *)
(* caller asked for.                                                       *)
THEOREM QuietCallsAreExact == Spec => ExactCalls
<1> DEFINE Own == FoundQuiet /\ medium' # medium =>
                    /\ call.op = "write"
                    /\ medium' = [medium EXCEPT ![call.lba] = Whole(call.data)]
           Done == Returns /\ FoundQuiet /\ ~trouble' =>
                     IF call.op = "read" THEN buf' = medium[call.lba]
                     ELSE medium[call.lba] = Whole(call.data)
<1>1. IInv /\ [Next]_allVars => Own
  <2> SUFFICES ASSUME IInv, [Next]_allVars, FoundQuiet, medium' # medium  PROVE Own
    OBVIOUS
  <2>1. ~Waits
    BY WaitFacts DEF IInv, driveVars
  <2>2. Store
    BY <2>1 DEF Next, BeginCall, Driving, DriverStep, Waits, SetCount, SetLow, SetMiddle, SendCommand,
       Flush, Command, ReadWord, WordTaken, WriteWord, WordGiven, Drive, Fetch, Ask, Flushed,
       Fail, allVars, ataVars, driveVars
  <2>3. call.op = "write" /\ Address = call.lba /\ fifo = Whole(call.data)
    BY <2>2 DEF IInv, Exact, Store, Types
  <2> QED BY <2>2, <2>3 DEF Store
<1>2. IInv /\ [Next]_allVars => Done
  <2> SUFFICES ASSUME IInv, [Next]_allVars, Returns, FoundQuiet, ~trouble'
               PROVE IF call.op = "read" THEN buf' = medium[call.lba]
                     ELSE medium[call.lba] = Whole(call.data)
    OBVIOUS
  <2>1. ~GaveUp /\ ~trouble
    BY ReturnFacts DEF IInv
  <2>2. CASE ReadWord /\ Reading /\ word = WORDS
    <3>1. /\ phase = "drq" /\ doing = "read" /\ index = word /\ fifo = medium[call.lba]
          /\ \A i \in Words : i < word => buf[i] = fifo[i]
      BY <2>1, <2>2 DEF IInv, Exact
    <3>2. buf \in [Words -> Values \cup {Junk}] /\ fifo \in [Words -> Values \cup {Junk}]
      BY DEF IInv, Types, Contents
    <3>3. buf' = [buf EXCEPT ![WORDS] = fifo[WORDS]]
      BY <2>2, <3>1 DEF ReadWord, DataWord
    <3>4. \A i \in Words : buf'[i] = fifo[i]
      BY <2>2, <3>1, <3>2, <3>3, Sizes DEF Words
    <3>5. buf' = fifo
      BY <3>2, <3>3, <3>4, Sizes
    <3> QED BY <2>2, <3>1, <3>5 DEF Reading
  <2>3. CASE pc = "waitFlushed" /\ call.op = "write"
    <3>1. phase # "busy"
      BY <2>1, <2>3 DEF GaveUp, Returns
    <3>2. doing # "store"
      BY <3>1 DEF IInv, Status, Quiet
    <3> QED BY <2>1, <2>3, <3>2 DEF IInv, Exact
  <2> QED BY <2>1, <2>2, <2>3, ReturnFacts DEF IInv
<1> QED BY Inductive, <1>1, <1>2, PTL DEF Spec, ExactCalls

(* What a drive that asked too late does to the calls that follow.         *)
THEOREM LateDriveStaysStuck == Spec => StuckDrive
<1> DEFINE Step == Returns /\ found.phase = "drq" =>
                     IF found.doing = call.op
                     THEN call.op = "read" /\ found.count = 0 => phase' \in {"ready", "error"}
                     ELSE /\ phase' = "drq" /\ doing' = found.doing /\ ~trouble'
                          /\ call.op = "read" => buf' = Whole(Junk)
<1>1. IInv /\ [Next]_allVars => Step
  <2> SUFFICES ASSUME IInv, [Next]_allVars, Returns, found.phase = "drq"  PROVE Step
    OBVIOUS
  <2>1. pc # "idle" /\ trouble' = (trouble \/ GaveUp)
    BY ReturnFacts DEF Returns, IInv
  <2>2. CASE ReadWord /\ Reading /\ word = WORDS
    <3>1. ~GaveUp /\ call.op = "read" /\ index \in Words
      BY <2>2 DEF GaveUp, Reading, IInv, Types
    <3>2. CASE found.doing = "read" /\ found.count = 0
      <4>1. Quiet \/ (phase = "drq" /\ doing = "read" /\ count = 0 /\ index = WORDS)
        BY <2>1, <2>2, <3>1, <3>2, Sizes DEF IInv, Stuck, Words, Reading
      <4> QED BY <2>2, <3>1, <3>2, <4>1, Sizes DEF ReadWord, WordTaken, Quiet, driveVars
    <3>3. CASE found.doing # "read"
      <4>1. /\ phase = "drq" /\ doing = found.doing /\ ~trouble
            /\ \A i \in Words : i < WORDS => buf[i] = Junk
        BY <2>1, <2>2, <3>1, <3>3 DEF IInv, Stuck
      <4>2. UNCHANGED driveVars /\ buf' = [buf EXCEPT ![WORDS] = Junk]
        BY <2>2, <3>3, <4>1 DEF ReadWord, WordTaken, DataWord
      <4>3. buf \in [Words -> Values \cup {Junk}]
        BY DEF IInv, Types, Contents
      <4>4. \A i \in Words : i < WORDS \/ i = WORDS
        BY Sizes DEF Words
      <4>5. \A i \in Words : buf'[i] = Junk
        BY <4>1, <4>2, <4>3, <4>4
      <4>6. buf' = [i \in Words |-> Junk]
        BY <4>2, <4>3, <4>5
      <4> QED BY <2>1, <3>1, <3>3, <4>1, <4>2, <4>6 DEF Whole, Words, driveVars
    <3> QED BY <3>1, <3>2, <3>3
  <2>3. CASE GaveUp /\ UNCHANGED driveVars /\ Loop
    <3>1. phase # "drq" /\ ~Reading
      BY <2>3 DEF GaveUp, Loop, Reading
    <3> QED BY <2>1, <3>1 DEF IInv, Stuck
  <2>4. CASE pc = "waitFlushed" /\ UNCHANGED driveVars /\ call.op = "write" /\ ~GaveUp
    BY <2>1, <2>4 DEF IInv, Stuck, Reading, driveVars
  <2> QED BY <2>2, <2>3, <2>4, ReturnFacts DEF IInv, Loop
<1> QED BY Inductive, <1>1, PTL DEF Spec, StuckDrive
-----------------------------------------------------------------------------
(* How long a call takes *)

Waiting == {"probe", "probeAgain", "probeData", "waitReady", "waitBusy",
            "waitData", "waitAsked", "waitFlushed"}

\* The most steps a call takes at p: the looks of a wait, the words of the
\* data loop, or one.
AtMost(p) ==
  CASE p \in Waiting -> TIMEOUT
    [] p = "data"    -> WORDS
    [] p = "idle"    -> 0
    [] OTHER         -> 1

\* ... and the most it takes once it has left p
Ahead(p) ==
  CASE p = "flush"      -> TIMEOUT
    [] p = "data"       -> TIMEOUT + 1
    [] p = "waitAsked"  -> WORDS + TIMEOUT + 1
    [] p = "waitData"   -> WORDS + TIMEOUT + 1
    [] p = "waitBusy"   -> WORDS + 2 * TIMEOUT + 1
    [] p = "command"    -> WORDS + 3 * TIMEOUT + 1
    [] p = "middle"     -> WORDS + 3 * TIMEOUT + 2
    [] p = "low"        -> WORDS + 3 * TIMEOUT + 3
    [] p = "count"      -> WORDS + 3 * TIMEOUT + 4
    [] p = "waitReady"  -> WORDS + 3 * TIMEOUT + 5
    [] p = "probeAgain" -> TIMEOUT
    [] p = "probe"      -> 2 * TIMEOUT
    [] OTHER            -> 0

\* What is left of those at the point the call is at
Here ==
  CASE pc \in Waiting -> TIMEOUT - polls
    [] pc = "data"    -> (WORDS + 1) - word
    [] pc = "idle"    -> 0
    [] OTHER          -> 1

WorkLeft == Ahead(pc) + Here

CallBegins == pc = "idle" /\ pc' # "idle"

RunsDown ==
  /\ WorkLeft' \in Nat
  /\ Driving => WorkLeft' < WorkLeft
  /\ Drive => WorkLeft' = WorkLeft
  /\ CallBegins => WorkLeft' <= WORDS + 4 * TIMEOUT + 5

Polled == polls \in Nat /\ polls < TIMEOUT

Within == \E h \in Nat : Here = h /\ h <= AtMost(pc) /\ (pc # "idle" => 1 <= h)

\* Where the driver goes from a point it leaves
Leads(p, q) ==
  \/ p = "probe" /\ q = "probeAgain"
  \/ p = "probeAgain" /\ q \in {"probeData", "idle"}
  \/ p = "probeData" /\ q = "idle"
  \/ p = "waitReady" /\ q = "count"
  \/ p = "count" /\ q = "low"
  \/ p = "low" /\ q = "middle"
  \/ p = "middle" /\ q = "command"
  \/ p = "command" /\ q \in {"waitBusy", "waitAsked"}
  \/ p = "waitBusy" /\ q \in {"waitData", "data"}
  \/ p = "waitData" /\ q = "data"
  \/ p = "waitAsked" /\ q \in {"data", "idle"}
  \/ p = "data" /\ q \in {"idle", "flush"}
  \/ p = "flush" /\ q = "waitFlushed"
  \/ p = "waitFlushed" /\ q = "idle"

\* Each wait starts from no looks and gives up before it has had TIMEOUT.
LEMMA PolledStep ==
  ASSUME Polled, [Next]_allVars
  PROVE  Polled'
<1> USE Sizes DEF Polled, hostVars
<1>1. CASE Waits
  <2>1. polls' = 0 \/ polls' = polls \/ (polls + 1 < TIMEOUT /\ polls' = polls + 1)
    BY <1>1 DEF Waits, Poll, Probe, ProbeAgain, ProbeData, WaitReady, WaitBusy, WaitData,
       WaitAsked, WaitFlushed
  <2> QED BY <2>1
<1>2. CASE SetCount \/ SetLow \/ SetMiddle \/ SendCommand \/ Flush \/ ReadWord \/ WriteWord
  BY <1>2 DEF SetCount, SetLow, SetMiddle, SendCommand, Flush, Goto, ReadWord, WriteWord, NextWord
<1>3. CASE Drive
  BY <1>3 DEF Drive
<1>4. CASE UNCHANGED allVars \/ \E op \in {"read", "write"}, l \in Lbas, v \in Values :
                                 BeginCall(op, l, IF op = "write" THEN v ELSE Junk)
  BY <1>4 DEF BeginCall, allVars, ataVars
<1> QED BY <1>1, <1>2, <1>3, <1>4 DEF Next, Driving, DriverStep, Waits

LEMMA AlwaysPolled == Spec => []Polled
<1>1. Init => Polled
  BY Sizes DEF Init, AtaInit, Polled
<1> QED BY <1>1, PolledStep, PTL DEF Spec

\* The two at each point of the code
LEMMA AheadAt ==
  /\ Ahead("idle") = 0 /\ Ahead("waitFlushed") = 0 /\ Ahead("probeData") = 0
  /\ Ahead("flush") = TIMEOUT /\ Ahead("probeAgain") = TIMEOUT
  /\ Ahead("probe") = 2 * TIMEOUT /\ Ahead("data") = TIMEOUT + 1
  /\ Ahead("waitAsked") = WORDS + TIMEOUT + 1
  /\ Ahead("waitData") = WORDS + TIMEOUT + 1
  /\ Ahead("waitBusy") = WORDS + 2 * TIMEOUT + 1
  /\ Ahead("command") = WORDS + 3 * TIMEOUT + 1
  /\ Ahead("middle") = WORDS + 3 * TIMEOUT + 2
  /\ Ahead("low") = WORDS + 3 * TIMEOUT + 3
  /\ Ahead("count") = WORDS + 3 * TIMEOUT + 4
  /\ Ahead("waitReady") = WORDS + 3 * TIMEOUT + 5
BY DEF Ahead

LEMMA AtMostAt ==
  /\ \A p \in Waiting : AtMost(p) = TIMEOUT
  /\ \A p \in {"count", "low", "middle", "command", "flush"} : AtMost(p) = 1
  /\ AtMost("data") = WORDS /\ AtMost("idle") = 0
BY DEF AtMost, Waiting

\* What is ahead of a point makes room for all that the next one may take.
LEMMA AheadMakesRoom ==
  ASSUME NEW p, NEW q, Leads(p, q)
  PROVE  /\ Ahead(p) \in Nat /\ Ahead(q) \in Nat /\ AtMost(q) \in Nat
         /\ Ahead(q) + AtMost(q) <= Ahead(p)
<1> USE Sizes, AheadAt, AtMostAt DEF Waiting
<1>1. CASE p = "probe" /\ q = "probeAgain"
  BY <1>1
<1>2. CASE p = "probeAgain" /\ q \in {"probeData", "idle"}
  BY <1>2
<1>3. CASE p \in {"probeData", "waitFlushed"} /\ q = "idle"
  BY <1>3
<1>4. CASE p = "waitReady" /\ q = "count"
  BY <1>4
<1>5. CASE p = "count" /\ q = "low"
  BY <1>5
<1>6. CASE (p = "low" /\ q = "middle") \/ (p = "middle" /\ q = "command")
  BY <1>6
<1>7. CASE p = "command" /\ q \in {"waitBusy", "waitAsked"}
  BY <1>7
<1>8. CASE p = "waitBusy" /\ q \in {"waitData", "data"}
  BY <1>8
<1>9. CASE p = "waitData" /\ q = "data"
  BY <1>9
<1>10. CASE p = "waitAsked" /\ q \in {"data", "idle"}
  BY <1>10
<1>11. CASE p = "data" /\ q \in {"idle", "flush"}
  BY <1>11
<1>12. CASE p = "flush" /\ q = "waitFlushed"
  BY <1>12
<1> QED BY <1>1, <1>2, <1>3, <1>4, <1>5, <1>6, <1>7, <1>8, <1>9, <1>10, <1>11, <1>12
        DEF Leads

LEMMA AheadOfBegin ==
  ASSUME NEW p \in {"waitReady", "count"}
  PROVE  /\ Ahead(p) \in Nat /\ AtMost(p) \in Nat
         /\ Ahead(p) + AtMost(p) <= WORDS + 4 * TIMEOUT + 5
<1>1. CASE p = "waitReady"
  BY <1>1, Sizes, AheadAt, AtMostAt DEF Waiting
<1>2. CASE p = "count"
  BY <1>2, Sizes, AheadAt, AtMostAt DEF Waiting
<1> QED BY <1>1, <1>2

LEMMA AheadIsNat ==
  ASSUME NEW p \in Pcs
  PROVE  Ahead(p) \in Nat
BY Sizes, AheadAt DEF Pcs

\* The sum of what is ahead and what is left here falls.
LEMMA SumFalls ==
  /\ \A a, b, m, g, h \in Nat : a + m <= b /\ g <= m /\ 1 <= h => a + g < b + h
  /\ \A a, g, h \in Nat : g < h => a + g < a + h
OBVIOUS

\* What is left is a number, at every point of the code.
LEMMA AlwaysWithin ==
  ASSUME Types, Polled
  PROVE  Within /\ WorkLeft \in Nat
<1>1. pc \in Pcs /\ word \in Words
  BY DEF Types
<1>2. Within
  <2>1. CASE pc \in Waiting
    <3>1. Here = TIMEOUT - polls /\ AtMost(pc) = TIMEOUT
      BY <2>1 DEF Here, AtMost, Waiting
    <3>2. TIMEOUT - polls \in Nat /\ 1 <= TIMEOUT - polls /\ TIMEOUT - polls <= TIMEOUT
      BY Sizes DEF Polled
    <3> QED BY <3>1, <3>2 DEF Within
  <2>2. CASE pc = "data"
    <3>1. Here = (WORDS + 1) - word /\ AtMost(pc) = WORDS
      BY <2>2 DEF Here, AtMost, Waiting
    <3>2. (WORDS + 1) - word \in Nat /\ 1 <= (WORDS + 1) - word /\ (WORDS + 1) - word <= WORDS
      BY <1>1, Sizes DEF Words
    <3> QED BY <3>1, <3>2 DEF Within
  <2>3. CASE pc = "idle"
    <3>1. Here = 0 /\ AtMost(pc) = 0
      BY <2>3 DEF Here, AtMost, Waiting
    <3> QED BY <2>3, <3>1 DEF Within
  <2>4. CASE pc \notin Waiting \cup {"data", "idle"}
    <3>1. Here = 1 /\ AtMost(pc) = 1
      BY <2>4 DEF Here, AtMost, Waiting
    <3> QED BY <3>1 DEF Within
  <2> QED BY <2>1, <2>2, <2>3, <2>4
<1>3. PICK h \in Nat : Here = h
  BY <1>2 DEF Within
<1>4. PICK a \in Nat : Ahead(pc) = a
  BY <1>1, AheadIsNat
<1>5. a + h \in Nat
  OBVIOUS
<1> QED BY <1>2, <1>3, <1>4, <1>5 DEF WorkLeft

\* A step goes on at the same point, with one less, or leaves it.
LEMMA OneStep ==
  ASSUME Types, DriverStep
  PROVE  /\ pc # "idle"
         /\ \/ pc' = pc /\ pc \in Waiting /\ polls' = polls + 1
            \/ pc' = pc /\ pc = "data" /\ word' = word + 1
            \/ Leads(pc, pc')
<1>1. CASE Waits
  BY <1>1 DEF Types, Waits, Poll, Probe, ProbeAgain, ProbeData, WaitReady, WaitBusy, WaitData,
     WaitAsked, WaitFlushed, Waiting, Leads
<1>2. CASE SetCount \/ SetLow \/ SetMiddle \/ SendCommand \/ Flush
  BY <1>2 DEF SetCount, SetLow, SetMiddle, SendCommand, Flush, Goto, Leads
<1>3. CASE ReadWord \/ WriteWord
  BY <1>3 DEF ReadWord, WriteWord, NextWord, Leads
<1> QED BY <1>1, <1>2, <1>3 DEF DriverStep, Waits

LEMMA StepTakesOff ==
  ASSUME Types, Polled, Within', DriverStep
  PROVE  WorkLeft' < WorkLeft
<1>1. PICK h \in Nat : Here = h /\ h <= AtMost(pc) /\ 1 <= h
  BY AlwaysWithin, OneStep DEF Within
<1>2. PICK g \in Nat : Here' = g /\ g <= AtMost(pc')
  BY DEF Within
<1>3. CASE pc' = pc
  <2>1. g = h - 1
    <3>1. CASE pc \in Waiting /\ polls' = polls + 1
      <4>1. Here = TIMEOUT - polls /\ Here' = TIMEOUT - (polls + 1)
        BY <1>3, <3>1 DEF Here, Waiting
      <4> QED BY <1>1, <1>2, <4>1, Sizes DEF Polled
    <3>2. CASE pc = "data" /\ word' = word + 1
      <4>1. Here = (WORDS + 1) - word /\ Here' = (WORDS + 1) - (word + 1)
        BY <1>3, <3>2 DEF Here, Waiting
      <4>2. word \in Nat
        BY Sizes DEF Types, Words
      <4> QED BY <1>1, <1>2, <4>1, <4>2, Sizes
    <3>3. ~Leads(pc, pc)
      BY DEF Leads
    <3> QED BY <1>3, <3>1, <3>2, <3>3, OneStep
  <2>2. PICK a \in Nat : Ahead(pc) = a
    BY AheadIsNat DEF Types
  <2>3. g < h
    BY <2>1
  <2> QED BY <1>1, <1>2, <1>3, <2>2, <2>3, SumFalls DEF WorkLeft
<1>4. CASE pc' # pc
  <2>1. Leads(pc, pc')
    BY <1>4, OneStep
  <2>2. PICK a \in Nat, b \in Nat, m \in Nat :
           Ahead(pc) = b /\ Ahead(pc') = a /\ AtMost(pc') = m /\ a + m <= b
    BY <2>1, AheadMakesRoom
  <2>3. a + g < b + h
    BY <1>1, <1>2, <2>2, SumFalls
  <2> QED BY <1>1, <1>2, <2>2, <2>3 DEF WorkLeft
<1> QED BY <1>3, <1>4

(* Every step of the driver brings its call nearer the end, whatever the   *)
(* drive answers, and nothing the drive does puts it off: a call takes at  *)
(* most WORDS + 4 * TIMEOUT + 5 of them (ata.c:41-123), for every drive,   *)
(* size of a sector and limit of the waits.                                *)
THEOREM CallsRunDown == Spec => [][RunsDown]_allVars
<1>1. IInv /\ Polled /\ Within' /\ (WorkLeft \in Nat)' /\ [Next]_allVars => [RunsDown]_allVars
  <2> SUFFICES ASSUME IInv, Polled, Within', (WorkLeft \in Nat)', [Next]_allVars
               PROVE  RunsDown
    OBVIOUS
  <2>1. Driving => WorkLeft' < WorkLeft
    BY StepTakesOff DEF IInv, Driving
  <2>2. Drive => WorkLeft' = WorkLeft
    BY DEF Drive, hostVars, WorkLeft, Here
  <2>3. CASE CallBegins
    <3>1. pc' \in {"waitReady", "count"}
      BY <2>3, OneStep DEF CallBegins, Next, Driving, Drive, BeginCall, hostVars, allVars,
         ataVars, IInv
    <3>2. PICK h \in Nat : Here' = h /\ h <= AtMost(pc')
      BY DEF Within
    <3>3. PICK a \in Nat, m \in Nat :
             Ahead(pc') = a /\ AtMost(pc') = m /\ a + m <= WORDS + 4 * TIMEOUT + 5
      BY <3>1, AheadOfBegin
    <3>4. a + h <= WORDS + 4 * TIMEOUT + 5
      BY <3>2, <3>3, Sizes
    <3>5. WorkLeft' <= WORDS + 4 * TIMEOUT + 5
      BY <3>2, <3>3, <3>4 DEF WorkLeft
    <3> QED BY <2>1, <2>2, <3>5 DEF RunsDown
  <2>4. CASE ~CallBegins
    BY <2>1, <2>2, <2>4 DEF RunsDown
  <2> QED BY <2>3, <2>4
<1>2. IInv /\ Polled => Within /\ WorkLeft \in Nat
  BY AlwaysWithin DEF IInv
<1> QED BY Inductive, AlwaysPolled, <1>1, <1>2, PTL DEF Spec
=============================================================================
