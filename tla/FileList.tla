-------------------------------- MODULE FileList --------------------------------
(***************************************************************************)
(* What the operations of src/src/ustar.c do to the archive seen as a list of  *)
(* files.  An edit leaves an empty file at the end of the list: tarEdit    *)
(* returns before it writes the data (ustar.c:260).                        *)
(***************************************************************************)
EXTENDS Integers, Sequences

CONSTANT Names

VARIABLES
  files,  \* a sequence of [name, size, data], names distinct
  ret,    \* the last call's result
  listed  \* the last listing

Position(f) == {k \in DOMAIN files : files[k].name = f}
Exists(f)   == Position(f) # {}
Empty(f)    == [name |-> f, size |-> 0, data |-> <<>>]

\* The files that follow f move up by one.
Without(f) ==
  LET k == CHOOSE k \in Position(f) : TRUE
  IN  IF Exists(f) THEN [j \in 1 .. Len(files) - 1 |-> files[IF j < k THEN j ELSE j + 1]]
      ELSE files

DistinctNames ==
  \A i, j \in DOMAIN files : files[i].name = files[j].name => i = j

Init == DistinctNames /\ ret = 0 /\ listed = <<>>

Touch(f) ==
  /\ IF Exists(f) THEN files' = files /\ ret' = 0
     ELSE files' = Append(files, Empty(f)) /\ ret' = 1
  /\ listed' = listed

Rm(f) ==
  /\ files' = Without(f)
  /\ ret' = IF Exists(f) THEN 1 ELSE 0
  /\ listed' = listed

Edit(f) ==
  /\ files' = IF Exists(f) THEN Append(Without(f), Empty(f)) ELSE files
  /\ ret' = 1 /\ listed' = listed

Size(f) ==
  /\ IF Exists(f) THEN \E k \in Position(f) : ret' = files[k].size
     ELSE ret' = -1
  /\ UNCHANGED <<files, listed>>

List ==
  /\ listed' = [k \in DOMAIN files |-> files[k].name]
  /\ UNCHANGED <<files, ret>>

Next == List \/ \E f \in Names : Touch(f) \/ Rm(f) \/ Edit(f) \/ Size(f)

Spec == Init /\ [][Next]_<<files, ret, listed>>

=============================================================================
