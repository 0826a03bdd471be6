------------------------------- MODULE FileStore -------------------------------
(***************************************************************************)
(* What open, read, write and close promise a program: a file is a string  *)
(* of bytes of fixed length, a descriptor a position in one.               *)
(***************************************************************************)
EXTENDS Integers, Sequences

CONSTANTS Names, Slots, Counts, Values, Absent

VARIABLES
  content,  \* each file's bytes, or Absent
  fds,      \* each slot's [isOpen, name, pos]
  running,  \* a program runs; else the shell has the files
  result,   \* what the last call returned
  got       \* the bytes the last read gave

Closed  == [isOpen |-> FALSE, name |-> "", pos |-> 0]
Opened  == {s \in Slots : fds[s].isOpen}
Left(s) == Len(content[fds[s].name]) - fds[s].pos

Init == running = FALSE /\ fds = [s \in Slots |-> Closed]

\* A file is made, emptied or left; the lowest free slot, if any, gets it.
Open(f, create, truncate) ==
  /\ got' = <<>>
  /\ IF content[f] = Absent /\ ~create
     THEN result' = -1 /\ UNCHANGED <<content, fds>>
     ELSE /\ content' = IF content[f] = Absent \/ truncate
                        THEN [content EXCEPT ![f] = <<>>] ELSE content
          /\ IF Opened = Slots THEN result' = -1 /\ fds' = fds
             ELSE \E s \in Slots \ Opened :
                    /\ \A r \in Slots \ Opened : s <= r
                    /\ result' = s + 3
                    /\ fds' = [fds EXCEPT ![s] = [isOpen |-> TRUE,
                                                  name |-> f, pos |-> 0]]

\* n of the count bytes asked for are there.
Transfer(s, count, n) ==
  /\ n = IF count <= Left(s) THEN count ELSE Left(s)
  /\ result' = n
  /\ fds' = [fds EXCEPT ![s].pos = @ + n]

Read(s, count) ==
  /\ content' = content
  /\ IF s \notin Opened THEN result' = -1 /\ got' = <<>> /\ fds' = fds
     ELSE \E n \in 0 .. Left(s) :
            /\ Transfer(s, count, n)
            /\ got' = SubSeq(content[fds[s].name], fds[s].pos + 1, fds[s].pos + n)

Write(s, count, v) ==
  /\ got' = <<>>
  /\ IF s \notin Opened THEN result' = -1 /\ UNCHANGED <<content, fds>>
     ELSE \E n \in 0 .. Left(s) :
            /\ Transfer(s, count, n)
            /\ content' = [content EXCEPT ![fds[s].name] =
                 [p \in DOMAIN @ |->
                    IF p \in fds[s].pos + 1 .. fds[s].pos + n THEN v ELSE @[p]]]

Close(s) ==
  /\ got' = <<>> /\ content' = content
  /\ IF s \notin Opened THEN result' = -1 /\ fds' = fds
     ELSE result' = 0 /\ fds' = [fds EXCEPT ![s] = Closed]

Call == \/ \E f \in Names, c, t \in BOOLEAN : Open(f, c, t)
        \/ \E s \in Slots : \/ Close(s)
                            \/ \E n \in Counts : Read(s, n)
                            \/ \E n \in Counts, v \in Values : Write(s, n, v)

\* Programs start and end, leaving open what they opened; between them the
\* shell may change any file, and a restart may close everything.
Start   == ~running /\ running' /\ UNCHANGED <<content, fds>>
End     == running /\ ~running' /\ UNCHANGED <<content, fds>>
Outside == ~running /\ ~running' /\ (fds' = fds \/ \A s \in Slots : ~fds'[s].isOpen)

Next == (running /\ running' /\ Call) \/ Start \/ End \/ Outside

Spec == Init /\ [][Next]_<<content, fds, running, result, got>>
=============================================================================
