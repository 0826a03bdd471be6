-------------------------------- MODULE MCLibrary --------------------------------
(* The conversions on words of three hexadecimal digits, every day of the  *)
(* 32-bit clock, and the loader on an archive of five files: a program     *)
(* that loads with a bss over the fourth file and the third one's text, a  *)
(* program linked behind it, and one file past both.                       *)
EXTENDS Conversions, LoaderHistory

MCFile ==
  LET plain(at, cells) == [at |-> at, cells |-> cells, executable |-> FALSE, segs |-> <<>>]
      base == 18
      segment(load, offset, vaddr, filesz, memsz) ==
        [load |-> load, offset |-> offset, vaddr |-> vaddr, filesz |-> filesz, memsz |-> memsz]
  IN [text  |-> plain(0, 2),
      hello |-> [at |-> 2, cells |-> 7, executable |-> TRUE,
                 segs |-> <<segment(FALSE, 0, 0, 0, 0), segment(TRUE, 4, base, 1, 1),
                            segment(TRUE, 5, base + 1, 1, 3)>>],
      calc  |-> [at |-> 9, cells |-> 4, executable |-> TRUE,
                 segs |-> <<segment(TRUE, 2, base + 2, 1, 2)>>],
      under |-> plain(13, 3),
      past  |-> plain(16, 2)]
MCNames == DOMAIN MCFile
MCIncrements == {-32, -3, 0, 1, 2, 31}

Formats == {<<0, " ">>, <<2, "0">>, <<4, "0">>, <<8, " ">>}
Blocks  == UNION {[1 .. n -> [type : {1, 2}, length : {1, 4000, 5000}]] : n \in 0 .. 3}

Converts ==
  \/ \E n \in Ints, f \in Formats : PrintDecimal(n, f[1], f[2])
  \/ \E n \in Words, w \in {0, 2, 8} : PrintHex(n, w)
  \/ \E n \in Words, w \in {3, 5} : StoreField(n, w)
  \/ \E d \in 0 .. 49710 : ShowDate(d, 0)
  \/ \E d \in {0, 49710}, r \in {59, 60, 3599, 3600, 23295, 86399} : ShowDate(d, r)
  \/ \E b \in Blocks : AddMemory(b)

Init == ConversionsInit /\ LoaderHistoryInit

\* The two share no state: the conversions are made before anything is loaded.
Next ==
  \/ call = NoCall /\ ran = {} /\ Converts /\ UNCHANGED allLoaderVars
  \/ GoOn /\ UNCHANGED allLoaderVars
  \/ call = NoCall /\ LoaderNext /\ UNCHANGED call

Spec == Init /\ [][Next]_<<call, allLoaderVars>>
=============================================================================
