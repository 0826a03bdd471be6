----------------------------- MODULE StorageProofs -----------------------------
(***************************************************************************)
(* For every archive, sector count and fault bound.  First, the archive in *)
(* memory: every walk over it ends, tarGetEnd, tarFind and tarList are     *)
(* what the blocks it visits say, and every operation leaves an archive    *)
(* and does what it would to a list of files.  Then, the disk: at the      *)
(* prompt the buffer is what is on disk, wherever the power went, unless a *)
(* drive has timed out; a cut command disturbs no file in front of its     *)
(* own; a touch is all or nothing; what a listing shows is on disk.        *)
(***************************************************************************)
EXTENDS StorageHistory, SequenceTheorems, WellFoundedInduction, TLAPS

-----------------------------------------------------------------------------
(* Induction over numbers, with sets for predicates *)

LEMMA LeastNatural ==
  ASSUME NEW S \in SUBSET Nat, S # {}
  PROVE  \E m \in S : \A k \in S : m <= k
<1> DEFINE R == OpToRel(<, Nat)
<1>1. IsWellFoundedOn(R, Nat)
  BY NatLessThanWellFounded
<1>2. \A x, y \in Nat : x < y => <<x, y>> \in R
  BY DEF OpToRel
<1> HIDE DEF R
<1>3. PICK x \in S : \A y \in S : ~(<<y, x>> \in R)
  BY <1>1, WFMin
<1>4. \A y \in S : ~(y < x)
  BY <1>2, <1>3
<1> QED BY <1>4

LEMMA Induction ==
  ASSUME NEW S, 0 \in S, \A n \in Nat : n \in S => n + 1 \in S
  PROVE  Nat \subseteq S
<1> DEFINE T == {n \in Nat : n \notin S}
<1>1. SUFFICES ASSUME T # {} PROVE FALSE
  OBVIOUS
<1>2. PICK m \in T : \A k \in T : m <= k
  BY <1>1, LeastNatural
<1>3. m # 0 /\ m - 1 \in Nat /\ m - 1 \notin T
  BY <1>2
<1> QED BY <1>3

\* From some number on all are in S, and one is if all above it are.
LEMMA DownwardInduction ==
  ASSUME NEW S, NEW m \in Nat, \A c \in Nat : c >= m => c \in S,
         \A c \in Nat : (\A d \in Nat : d > c => d \in S) => c \in S
  PROVE  Nat \subseteq S
<1> DEFINE T == {k \in Nat : k <= m /\ m - k \notin S}
<1>1. SUFFICES ASSUME NEW c0 \in Nat, c0 \notin S PROVE FALSE
  OBVIOUS
<1>2. m - c0 \in T
  BY <1>1
<1>3. PICK k \in T : \A j \in T : k <= j
  BY <1>2, LeastNatural
<1>4. m - k \in Nat /\ m - k \notin S
  BY <1>3
<1>5. \A d \in Nat : d > m - k => d \in S
  <2> SUFFICES ASSUME NEW d \in Nat, d > m - k, d \notin S PROVE FALSE
    OBVIOUS
  <2>1. d < m
    OBVIOUS
  <2>2. m - d \in T /\ m - d < k
    BY <2>1
  <2> QED BY <1>3, <2>2
<1> QED BY <1>4, <1>5

Recurs(f, valid, nx, step, last) ==
  \A c \in Nat : f[c] = IF c \in valid THEN step[c][f[nx[c]]] ELSE last[c]

\* A function may be defined at each number from its value further on, as long
\* as that ends.
LEMMA RecursionDown ==
  ASSUME NEW V, NEW valid \in SUBSET Nat, NEW m \in Nat, \A c \in valid : c < m,
         NEW nx \in [valid -> Nat], \A c \in valid : nx[c] > c,
         NEW last \in [Nat -> V], NEW step \in [valid -> [V -> V]]
  PROVE  \E f \in [Nat -> V] : Recurs(f, valid, nx, step, last)
<1> DEFINE Holds(f, c) == f[c] = IF c \in valid THEN step[c][f[nx[c]]] ELSE last[c]
           S == {n \in Nat : \E f \in [Nat -> V] : \A c \in Nat : c + n >= m => Holds(f, c)}
<1>1. 0 \in S
  <2>1. \A c \in Nat : c + 0 >= m => Holds(last, c)
    OBVIOUS
  <2> QED BY <2>1
<1>2. ASSUME NEW n \in Nat, n \in S PROVE n + 1 \in S
  <2>1. PICK f \in [Nat -> V] : \A c \in Nat : c + n >= m => Holds(f, c)
    BY <1>2
  <2> DEFINE c0 == m - (n + 1)
  <2>2. CASE c0 \notin valid
    <3> DEFINE g == [c \in Nat |-> IF c = c0 THEN last[c] ELSE f[c]]
    <3>1. g \in [Nat -> V]
      OBVIOUS
    <3>2. ASSUME NEW c \in Nat, c + (n + 1) >= m PROVE Holds(g, c)
      <4>1. CASE c = c0
        BY <2>2, <4>1
      <4>2. CASE c # c0
        <5>1. c + n >= m /\ Holds(f, c) /\ c > c0
          BY <2>1, <3>2, <4>2
        <5>2. c \in valid => nx[c] # c0 /\ nx[c] \in Nat
          BY <5>1
        <5> QED BY <4>2, <5>1, <5>2
      <4> QED BY <4>1, <4>2
    <3> HIDE DEF g, Holds
    <3> QED BY <3>1, <3>2
  <2>3. CASE c0 \in valid
    <3> DEFINE g == [c \in Nat |-> IF c = c0 THEN step[c0][f[nx[c0]]] ELSE f[c]]
    <3>1. g \in [Nat -> V]
      BY <2>3
    <3>2. ASSUME NEW c \in Nat, c + (n + 1) >= m PROVE Holds(g, c)
      <4>1. CASE c = c0
        <5>1. nx[c] # c0 /\ nx[c] \in Nat
          BY <2>3, <4>1
        <5> QED BY <2>3, <4>1, <5>1
      <4>2. CASE c # c0
        <5>1. c + n >= m /\ Holds(f, c) /\ c > c0
          BY <2>1, <3>2, <4>2
        <5>2. c \in valid => nx[c] # c0 /\ nx[c] \in Nat
          BY <5>1
        <5> QED BY <4>2, <5>1, <5>2
      <4> QED BY <4>1, <4>2
    <3> HIDE DEF g, Holds
    <3> QED BY <3>1, <3>2
  <2> QED BY <2>2, <2>3
<1>3. m \in S
  <2> HIDE DEF S
  <2> QED BY <1>1, <1>2, Induction
<1>4. PICK f \in [Nat -> V] : \A c \in Nat : c + m >= m => Holds(f, c)
  BY <1>3
<1>5. \A c \in Nat : Holds(f, c)
  BY <1>4
<1> QED BY <1>5 DEF Recurs

-----------------------------------------------------------------------------
(* The functions that tarGetEnd, tarFind, tarList and the chain of headers *)
(* are the values of, and the equations they satisfy                       *)

EndFrom(b) ==
  CHOOSE f : f = [curr \in Nat |-> IF tarValid(b, curr) THEN f[tarNext(b, curr)] ELSE curr]

FindFrom(b, fname) ==
  CHOOSE f : f = [curr \in Nat |->
                    IF ~tarValid(b, curr) THEN NULL
                    ELSE IF b[curr].name = fname THEN curr
                    ELSE f[tarNext(b, curr)]]

ListFrom(b) ==
  CHOOSE f : f = [curr \in Nat |->
                    IF ~tarValid(b, curr) THEN <<>>
                    ELSE <<b[curr].name>> \o f[tarNext(b, curr)]]

ChainFrom(b) ==
  CHOOSE f : f = [curr \in Nat |->
                    IF ~tarValid(b, curr) THEN <<>>
                    ELSE <<curr>> \o f[tarNext(b, curr)]]

LEMMA WalksAre ==
  ASSUME NEW b
  PROVE  /\ tarGetEnd(b) = EndFrom(b)[0]
         /\ \A fname : tarFind(b, fname) = FindFrom(b, fname)[0]
         /\ tarList(b) = ListFrom(b)[0]
         /\ Chain(b) = ChainFrom(b)[0]
BY Zenon DEF tarGetEnd, tarFind, tarList, Chain, EndFrom, FindFrom, ListFrom, ChainFrom

\* A buffer: what headers say is a size.
Buffer(b) ==
  /\ b = [i \in Blocks |-> b[i]]
  /\ \A i \in Blocks : b[i].kind = "header" => b[i].size \in Nat

Headers(b) == {i \in Blocks : b[i].kind = "header"}

LEMMA CeilDivNat ==
  ASSUME NEW size \in Nat PROVE ceilDiv(size, SECTOR) \in Nat
BY UstarAssumption DEF ceilDiv

LEMMA NoBlocks == ceilDiv(0, SECTOR) = 0
BY UstarAssumption DEF ceilDiv

\* A header is in the buffer and the next one lies behind it.
LEMMA NextIsBehind ==
  ASSUME NEW b, Buffer(b), NEW c \in Nat, tarValid(b, c)
  PROVE  /\ c \in Headers(b) /\ c \in Blocks /\ c < TAR_MAX_SECTORS
         /\ tarNext(b, c) \in Nat /\ tarNext(b, c) > c
<1>1. c \in Blocks /\ c \in Headers(b) /\ b[c].size \in Nat
  BY DEF tarValid, Headers, Buffer
<1>2. ceilDiv(b[c].size, SECTOR) \in Nat
  BY <1>1, CeilDivNat
<1> QED BY <1>1, <1>2, UstarAssumption DEF tarNext, Blocks

\* RecursionDown for the steps of a walk
Walks(f, b, step, last) ==
  \A c \in Nat : f[c] = IF tarValid(b, c) THEN step[c][f[tarNext(b, c)]] ELSE last[c]

LEMMA WalkRecursion ==
  ASSUME NEW b, Buffer(b), NEW V, NEW last \in [Nat -> V], NEW step \in [Headers(b) -> [V -> V]]
  PROVE  \E f \in [Nat -> V] : Walks(f, b, step, last)
<1> DEFINE nx == [c \in Headers(b) |-> tarNext(b, c)]
<1>1. \A c \in Nat : c \in Headers(b) <=> tarValid(b, c)
  BY DEF Headers, tarValid, Blocks
<1>2. Headers(b) \in SUBSET Nat /\ TAR_MAX_SECTORS \in Nat
  BY UstarAssumption DEF Headers, Blocks
<1>3. /\ \A c \in Headers(b) : c < TAR_MAX_SECTORS
      /\ \A c \in Headers(b) : nx[c] \in Nat
      /\ \A c \in Headers(b) : nx[c] > c
  BY <1>1, <1>2, NextIsBehind
<1>4. nx \in [Headers(b) -> Nat]
  BY <1>3
<1> HIDE DEF nx
<1>5. PICK f \in [Nat -> V] : Recurs(f, Headers(b), nx, step, last)
  BY <1>2, <1>3, <1>4, RecursionDown
<1>6. \A c \in Headers(b) : nx[c] = tarNext(b, c)
  BY DEF nx
<1>7. Walks(f, b, step, last)
  BY <1>1, <1>5, <1>6 DEF Recurs, Walks
<1> QED BY <1>7

LEMMA EndEquation ==
  ASSUME NEW b, Buffer(b)
  PROVE  \A c \in Nat : EndFrom(b)[c] = IF tarValid(b, c) THEN EndFrom(b)[tarNext(b, c)] ELSE c
<1> DEFINE last == [c \in Nat |-> c]
           step == [c \in Headers(b) |-> [v \in Nat |-> v]]
<1>1. last \in [Nat -> Nat] /\ step \in [Headers(b) -> [Nat -> Nat]]
  OBVIOUS
<1> HIDE DEF last, step
<1>2. PICK f \in [Nat -> Nat] : Walks(f, b, step, last)
  BY <1>1, WalkRecursion
<1>3. f = [curr \in Nat |-> IF tarValid(b, curr) THEN f[tarNext(b, curr)] ELSE curr]
  <2>1. ASSUME NEW c \in Nat
        PROVE  f[c] = IF tarValid(b, c) THEN f[tarNext(b, c)] ELSE c
    <3>1. CASE tarValid(b, c)
      <4>1. c \in Headers(b) /\ tarNext(b, c) \in Nat
        BY <3>1, NextIsBehind
      <4> QED BY <1>2, <3>1, <4>1 DEF step, Walks
    <3>2. CASE ~tarValid(b, c)
      BY <1>2, <3>2 DEF last, Walks
    <3> QED BY <3>1, <3>2
  <2> QED BY <2>1
<1>4. EndFrom(b) = [curr \in Nat |->
                      IF tarValid(b, curr) THEN EndFrom(b)[tarNext(b, curr)] ELSE curr]
  BY <1>3, Zenon DEF EndFrom
<1> QED BY <1>4

LEMMA FindEquation ==
  ASSUME NEW b, Buffer(b), NEW fname
  PROVE  \A c \in Nat : FindFrom(b, fname)[c] =
           IF ~tarValid(b, c) THEN NULL
           ELSE IF b[c].name = fname THEN c
           ELSE FindFrom(b, fname)[tarNext(b, c)]
<1> DEFINE V == Nat \cup {NULL}
           last == [c \in Nat |-> NULL]
           step == [c \in Headers(b) |-> [v \in V |-> IF b[c].name = fname THEN c ELSE v]]
<1>1. last \in [Nat -> V] /\ step \in [Headers(b) -> [V -> V]]
  <2>1. Headers(b) \subseteq Nat
    BY UstarAssumption DEF Headers, Blocks
  <2> QED BY <2>1
<1> HIDE DEF last, step, V
<1>2. PICK f \in [Nat -> V] : Walks(f, b, step, last)
  BY <1>1, WalkRecursion
<1>3. f = [curr \in Nat |-> IF ~tarValid(b, curr) THEN NULL
                            ELSE IF b[curr].name = fname THEN curr
                            ELSE f[tarNext(b, curr)]]
  <2>1. ASSUME NEW c \in Nat
        PROVE  f[c] = IF ~tarValid(b, c) THEN NULL
                      ELSE IF b[c].name = fname THEN c ELSE f[tarNext(b, c)]
    <3>1. CASE tarValid(b, c)
      <4>1. c \in Headers(b) /\ tarNext(b, c) \in Nat
        BY <3>1, NextIsBehind
      <4>2. f[c] = step[c][f[tarNext(b, c)]] /\ f[tarNext(b, c)] \in V
        BY <1>2, <3>1, <4>1 DEF Walks
      <4> QED BY <3>1, <4>1, <4>2 DEF step
    <3>2. CASE ~tarValid(b, c)
      BY <1>2, <3>2 DEF last, Walks
    <3> QED BY <3>1, <3>2
  <2> QED BY <2>1
<1>4. FindFrom(b, fname) = [curr \in Nat |->
                              IF ~tarValid(b, curr) THEN NULL
                              ELSE IF b[curr].name = fname THEN curr
                              ELSE FindFrom(b, fname)[tarNext(b, curr)]]
  BY <1>3, Zenon DEF FindFrom
<1> QED BY <1>4

\* A word in front of a sequence
LEMMA InFrontOf ==
  ASSUME NEW T, NEW x \in T, NEW s \in Seq(T)
  PROVE  /\ <<x>> \o s \in Seq(T)
         /\ Len(<<x>> \o s) = Len(s) + 1
         /\ (<<x>> \o s)[1] = x
         /\ \A i \in 1 .. Len(s) : (<<x>> \o s)[i + 1] = s[i]
<1>1. <<x>> \in Seq(T) /\ Len(<<x>>) = 1 /\ <<x>>[1] = x
  OBVIOUS
<1>2. /\ <<x>> \o s \in Seq(T) /\ Len(<<x>> \o s) = 1 + Len(s)
      /\ \A i \in 1 .. 1 + Len(s) :
           (<<x>> \o s)[i] = IF i <= 1 THEN <<x>>[i] ELSE s[i - 1]
  BY <1>1, ConcatProperties
<1>3. Len(s) \in Nat
  OBVIOUS
<1>4. (<<x>> \o s)[1] = x
  BY <1>1, <1>2, <1>3
<1>5. \A i \in 1 .. Len(s) : i + 1 \in 1 .. 1 + Len(s) /\ ~(i + 1 <= 1) /\ (i + 1) - 1 = i
  BY <1>3
<1> QED BY <1>2, <1>3, <1>4, <1>5

LEMMA ListEquation ==
  ASSUME NEW b, Buffer(b)
  PROVE  \A c \in Nat : ListFrom(b)[c] = IF ~tarValid(b, c) THEN <<>>
                                         ELSE <<b[c].name>> \o ListFrom(b)[tarNext(b, c)]
<1> DEFINE N == {b[i].name : i \in Headers(b)}
           V == Seq(N)
           last == [c \in Nat |-> <<>>]
           step == [c \in Headers(b) |-> [v \in V |-> <<b[c].name>> \o v]]
<1>1. last \in [Nat -> V] /\ step \in [Headers(b) -> [V -> V]]
  <2>1. \A c \in Headers(b) : \A v \in V : <<b[c].name>> \o v \in V
    <3>1. \A c \in Headers(b) : b[c].name \in N
      OBVIOUS
    <3> HIDE DEF N
    <3> QED BY <3>1, InFrontOf
  <2>2. <<>> \in V
    OBVIOUS
  <2> HIDE DEF V
  <2> QED BY <2>1, <2>2
<1> HIDE DEF last, step, V
<1>2. PICK f \in [Nat -> V] : Walks(f, b, step, last)
  BY <1>1, WalkRecursion
<1>3. f = [curr \in Nat |-> IF ~tarValid(b, curr) THEN <<>>
                            ELSE <<b[curr].name>> \o f[tarNext(b, curr)]]
  <2>1. ASSUME NEW c \in Nat
        PROVE  f[c] = IF ~tarValid(b, c) THEN <<>> ELSE <<b[c].name>> \o f[tarNext(b, c)]
    <3>1. CASE tarValid(b, c)
      <4>1. c \in Headers(b) /\ tarNext(b, c) \in Nat
        BY <3>1, NextIsBehind
      <4>2. f[c] = step[c][f[tarNext(b, c)]] /\ f[tarNext(b, c)] \in V
        BY <1>2, <3>1, <4>1 DEF Walks
      <4> QED BY <3>1, <4>1, <4>2 DEF step
    <3>2. CASE ~tarValid(b, c)
      BY <1>2, <3>2 DEF last, Walks
    <3> QED BY <3>1, <3>2
  <2> QED BY <2>1
<1>4. ListFrom(b) = [curr \in Nat |-> IF ~tarValid(b, curr) THEN <<>>
                                      ELSE <<b[curr].name>> \o ListFrom(b)[tarNext(b, curr)]]
  BY <1>3, Zenon DEF ListFrom
<1> QED BY <1>4

LEMMA ChainEquation ==
  ASSUME NEW b, Buffer(b)
  PROVE  \A c \in Nat : ChainFrom(b)[c] = IF ~tarValid(b, c) THEN <<>>
                                          ELSE <<c>> \o ChainFrom(b)[tarNext(b, c)]
<1> DEFINE V == Seq(Nat)
           last == [c \in Nat |-> <<>>]
           step == [c \in Headers(b) |-> [v \in V |-> <<c>> \o v]]
<1>1. last \in [Nat -> V] /\ step \in [Headers(b) -> [V -> V]]
  <2>1. \A c \in Headers(b) : \A v \in V : <<c>> \o v \in V
    <3>1. \A c \in Headers(b) : c \in Nat
      BY UstarAssumption DEF Headers, Blocks
    <3> QED BY <3>1, InFrontOf
  <2>2. <<>> \in V
    OBVIOUS
  <2> HIDE DEF V
  <2> QED BY <2>1, <2>2
<1> HIDE DEF last, step, V
<1>2. PICK f \in [Nat -> V] : Walks(f, b, step, last)
  BY <1>1, WalkRecursion
<1>3. f = [curr \in Nat |-> IF ~tarValid(b, curr) THEN <<>>
                            ELSE <<curr>> \o f[tarNext(b, curr)]]
  <2>1. ASSUME NEW c \in Nat
        PROVE  f[c] = IF ~tarValid(b, c) THEN <<>> ELSE <<c>> \o f[tarNext(b, c)]
    <3>1. CASE tarValid(b, c)
      <4>1. c \in Headers(b) /\ tarNext(b, c) \in Nat
        BY <3>1, NextIsBehind
      <4>2. f[c] = step[c][f[tarNext(b, c)]] /\ f[tarNext(b, c)] \in V
        BY <1>2, <3>1, <4>1 DEF Walks
      <4> QED BY <3>1, <4>1, <4>2 DEF step
    <3>2. CASE ~tarValid(b, c)
      BY <1>2, <3>2 DEF last, Walks
    <3> QED BY <3>1, <3>2
  <2> QED BY <2>1
<1>4. ChainFrom(b) = [curr \in Nat |-> IF ~tarValid(b, curr) THEN <<>>
                                       ELSE <<curr>> \o ChainFrom(b)[tarNext(b, curr)]]
  BY <1>3, Zenon DEF ChainFrom
<1> QED BY <1>4

-----------------------------------------------------------------------------
(* What a walk sees: from c it visits the headers W and stops at e.        *)

IsWalk(b, c, W, e) ==
  /\ W \in SUBSET Nat /\ e \in Nat /\ ~tarValid(b, e)
  /\ c \in W \cup {e} /\ c <= e
  /\ \A h \in W : c <= h /\ tarValid(b, h) /\ tarNext(b, h) \in W \cup {e} /\ tarNext(b, h) <= e
  /\ \A h, k \in W : h < k => tarNext(b, h) <= k

\* Without its first header it is the walk from the next one.
LEMMA WalkOn ==
  ASSUME NEW b, Buffer(b), NEW c \in Nat, NEW W, NEW e, IsWalk(b, c, W, e), tarValid(b, c)
  PROVE  /\ c \in W /\ tarNext(b, c) \in Nat /\ tarNext(b, c) > c
         /\ IsWalk(b, tarNext(b, c), W \ {c}, e)
<1>1. c \in W /\ tarValid(b, c)
  BY DEF IsWalk
<1>2. tarNext(b, c) \in Nat /\ tarNext(b, c) > c
  BY <1>1, NextIsBehind
<1> DEFINE n == tarNext(b, c)
<1>3. n \in (W \ {c}) \cup {e} /\ n <= e
  BY <1>1, <1>2 DEF IsWalk
<1>4. ASSUME NEW h \in W \ {c}
      PROVE  n <= h /\ tarValid(b, h) /\ tarNext(b, h) \in (W \ {c}) \cup {e} /\ tarNext(b, h) <= e
  <2>1. c < h /\ h \in Nat /\ tarValid(b, h)
    BY DEF IsWalk
  <2>2. n <= h
    BY <1>1, <2>1 DEF IsWalk
  <2>3. tarNext(b, h) \in Nat /\ tarNext(b, h) > h
    BY <2>1, NextIsBehind
  <2>4. tarNext(b, h) # c
    BY <2>1, <2>3
  <2> QED BY <2>1, <2>2, <2>4 DEF IsWalk
<1>5. \A h, k \in W \ {c} : h < k => tarNext(b, h) <= k
  BY DEF IsWalk
<1> QED BY <1>1, <1>2, <1>3, <1>4, <1>5 DEF IsWalk

LEMMA WalkEnds ==
  ASSUME NEW b, Buffer(b), NEW e, NEW W, IsWalk(b, e, W, e)
  PROVE  W = {}
<1> SUFFICES ASSUME NEW h \in W PROVE FALSE
  OBVIOUS
<1>1. tarValid(b, h) /\ h \in Nat /\ e <= h /\ tarNext(b, h) <= e /\ e \in Nat
  BY DEF IsWalk
<1>2. tarNext(b, h) > h /\ tarNext(b, h) \in Nat
  BY <1>1, NextIsBehind
<1> QED BY <1>1, <1>2

\* Induction along the walk: S holds everything if it holds what is no header
\* and each header with the one behind it.
LEMMA WalkInduction ==
  ASSUME NEW b, Buffer(b), NEW S, \A c \in Nat : ~tarValid(b, c) => c \in S,
         \A c \in Nat : tarValid(b, c) /\ tarNext(b, c) \in S => c \in S
  PROVE  Nat \subseteq S
<1>1. \A c \in Nat : c >= TAR_MAX_SECTORS => c \in S
  BY UstarAssumption DEF tarValid, Blocks
<1>2. ASSUME NEW c \in Nat, \A d \in Nat : d > c => d \in S PROVE c \in S
  BY <1>2, NextIsBehind
<1>3. \A c \in Nat : (\A d \in Nat : d > c => d \in S) => c \in S
  BY <1>2
<1>4. PICK m \in Nat : m = TAR_MAX_SECTORS
  BY UstarAssumption
<1>5. \A c \in Nat : c >= m => c \in S
  BY <1>1, <1>4
<1> QED BY <1>3, <1>5, DownwardInduction

\* Every walk ends, whatever the buffer holds.
LEMMA WalkExists ==
  ASSUME NEW b, Buffer(b)
  PROVE  \A c \in Nat : \E W, e : IsWalk(b, c, W, e)
<1> DEFINE S == {c \in Nat : \E W, e : IsWalk(b, c, W, e)}
<1>1. ASSUME NEW c \in Nat, ~tarValid(b, c) PROVE c \in S
  <2>1. IsWalk(b, c, {}, c)
    BY <1>1 DEF IsWalk
  <2> QED BY <2>1
<1>2. ASSUME NEW c \in Nat, tarValid(b, c), tarNext(b, c) \in S PROVE c \in S
  <2> DEFINE n == tarNext(b, c)
  <2>1. n \in Nat /\ n > c
    BY <1>2, NextIsBehind
  <2>2. PICK W, e : IsWalk(b, n, W, e)
    BY <1>2
  <2>3. IsWalk(b, c, W \cup {c}, e)
    BY <1>2, <2>1, <2>2 DEF IsWalk
  <2> QED BY <2>3
<1> HIDE DEF S
<1>3. Nat \subseteq S
  BY <1>1, <1>2, WalkInduction
<1> QED BY <1>3 DEF S

\* tarGetEnd gives where the walk stops.
LEMMA EndOfWalk ==
  ASSUME NEW b, Buffer(b)
  PROVE  \A c \in Nat : \A W, e : IsWalk(b, c, W, e) => EndFrom(b)[c] = e
<1> DEFINE S == {c \in Nat : \A W, e : IsWalk(b, c, W, e) => EndFrom(b)[c] = e}
<1>1. ASSUME NEW c \in Nat, ~tarValid(b, c) PROVE c \in S
  BY <1>1, EndEquation DEF IsWalk
<1>2. ASSUME NEW c \in Nat, tarValid(b, c), tarNext(b, c) \in S PROVE c \in S
  <2>1. ASSUME NEW W, NEW e, IsWalk(b, c, W, e) PROVE EndFrom(b)[c] = e
    <3>1. IsWalk(b, tarNext(b, c), W \ {c}, e)
      BY <1>2, <2>1, WalkOn
    <3> QED BY <1>2, <3>1, EndEquation
  <2> QED BY <2>1
<1> HIDE DEF S
<1>3. Nat \subseteq S
  BY <1>1, <1>2, WalkInduction
<1> QED BY <1>3 DEF S

\* tarFind gives the first visited header with the name.
FoundIn(b, W, fname, th) ==
  IF \E h \in W : b[h].name = fname
  THEN th \in W /\ b[th].name = fname /\ \A h \in W : b[h].name = fname => th <= h
  ELSE th = NULL

LEMMA FindInWalk ==
  ASSUME NEW b, Buffer(b), NEW fname
  PROVE  \A c \in Nat : \A W, e : IsWalk(b, c, W, e) => FoundIn(b, W, fname, FindFrom(b, fname)[c])
<1> DEFINE S == {c \in Nat : \A W, e : IsWalk(b, c, W, e)
                                => FoundIn(b, W, fname, FindFrom(b, fname)[c])}
<1>1. ASSUME NEW c \in Nat, ~tarValid(b, c) PROVE c \in S
  <2>1. FindFrom(b, fname)[c] = NULL
    BY <1>1, FindEquation
  <2>2. ASSUME NEW W, NEW e, IsWalk(b, c, W, e) PROVE FoundIn(b, W, fname, NULL)
    <3>1. c = e
      BY <1>1, <2>2 DEF IsWalk
    <3>2. W = {}
      BY <2>2, <3>1, WalkEnds
    <3> QED BY <3>2 DEF FoundIn
  <2> QED BY <2>1, <2>2
<1>2. ASSUME NEW c \in Nat, tarValid(b, c), tarNext(b, c) \in S PROVE c \in S
  <2> DEFINE th == FindFrom(b, fname)[c]
  <2>1. th = IF b[c].name = fname THEN c ELSE FindFrom(b, fname)[tarNext(b, c)]
    BY <1>2, FindEquation
  <2> HIDE DEF th
  <2>2. ASSUME NEW W, NEW e, IsWalk(b, c, W, e) PROVE FoundIn(b, W, fname, th)
    <3>1. IsWalk(b, tarNext(b, c), W \ {c}, e) /\ c \in W
      BY <1>2, <2>2, WalkOn
    <3>2. FoundIn(b, W \ {c}, fname, FindFrom(b, fname)[tarNext(b, c)])
      BY <1>2, <3>1
    <3>3. \A h \in W : c <= h
      BY <2>2 DEF IsWalk
    <3> QED BY <2>1, <3>1, <3>2, <3>3 DEF FoundIn
  <2> QED BY <2>2 DEF th
<1> HIDE DEF S
<1>3. Nat \subseteq S
  BY <1>1, <1>2, WalkInduction
<1> QED BY <1>3 DEF S

\* A sequence of numbers lists a set if it holds its elements in order.
Lists(s, W) ==
  /\ s \in Seq(Nat)
  /\ \A i, j \in 1 .. Len(s) : i < j => s[i] < s[j]
  /\ \A i \in 1 .. Len(s) : s[i] \in W
  /\ \A x \in W : \E i \in 1 .. Len(s) : s[i] = x

LEMMA ChainListsWalk ==
  ASSUME NEW b, Buffer(b)
  PROVE  \A c \in Nat : \A W, e : IsWalk(b, c, W, e) => Lists(ChainFrom(b)[c], W)
<1> DEFINE S == {c \in Nat : \A W, e : IsWalk(b, c, W, e) => Lists(ChainFrom(b)[c], W)}
<1>1. ASSUME NEW c \in Nat, ~tarValid(b, c) PROVE c \in S
  <2>1. ChainFrom(b)[c] = <<>>
    BY <1>1, ChainEquation
  <2>2. ASSUME NEW W, NEW e, IsWalk(b, c, W, e) PROVE Lists(<<>>, W)
    <3>1. c = e
      BY <1>1, <2>2 DEF IsWalk
    <3>2. W = {}
      BY <2>2, <3>1, WalkEnds
    <3> QED BY <3>2 DEF Lists
  <2> QED BY <2>1, <2>2
<1>2. ASSUME NEW c \in Nat, tarValid(b, c), tarNext(b, c) \in S PROVE c \in S
  <2> DEFINE s == ChainFrom(b)[tarNext(b, c)]
             t == ChainFrom(b)[c]
  <2>1. t = <<c>> \o s
    BY <1>2, ChainEquation
  <2> HIDE DEF t
  <2>2. ASSUME NEW W, NEW e, IsWalk(b, c, W, e) PROVE Lists(t, W)
    <3>1. IsWalk(b, tarNext(b, c), W \ {c}, e) /\ c \in W
      BY <1>2, <2>2, WalkOn
    <3>2. Lists(s, W \ {c})
      BY <1>2, <3>1
    <3>3. \A h \in W \ {c} : c < h /\ h \in Nat
      BY <2>2 DEF IsWalk
    <3> HIDE DEF s
    <3>4. s \in Seq(Nat) /\ Len(s) \in Nat
      BY <3>2 DEF Lists
    <3>5. /\ t \in Seq(Nat) /\ Len(t) = Len(s) + 1 /\ t[1] = c
          /\ \A i \in 1 .. Len(s) : t[i + 1] = s[i]
      BY <2>1, <3>4, InFrontOf
    <3>6. ASSUME NEW i \in 1 .. Len(t), i # 1
          PROVE  i - 1 \in 1 .. Len(s) /\ t[i] = s[i - 1]
      <4>1. i - 1 \in 1 .. Len(s) /\ (i - 1) + 1 = i
        BY <3>4, <3>5, <3>6
      <4>2. t[(i - 1) + 1] = s[i - 1]
        BY <3>5, <4>1
      <4> QED BY <4>1, <4>2
    <3>7. \A i \in 1 .. Len(t) : t[i] \in W
      BY <3>1, <3>2, <3>5, <3>6 DEF Lists
    <3>8. ASSUME NEW i \in 1 .. Len(t), NEW j \in 1 .. Len(t), i < j PROVE t[i] < t[j]
      <4>1. j - 1 \in 1 .. Len(s) /\ t[j] = s[j - 1]
        BY <3>4, <3>6, <3>8
      <4>2. CASE i = 1
        <5>1. s[j - 1] \in W \ {c}
          BY <3>2, <4>1 DEF Lists
        <5> QED BY <3>3, <3>5, <4>1, <4>2, <5>1
      <4>3. CASE i # 1
        <5>1. i - 1 \in 1 .. Len(s) /\ t[i] = s[i - 1] /\ i - 1 < j - 1
          BY <3>4, <3>6, <3>8, <4>3
        <5> QED BY <3>2, <4>1, <5>1 DEF Lists
      <4> QED BY <4>2, <4>3
    <3>9. ASSUME NEW x \in W PROVE \E i \in 1 .. Len(t) : t[i] = x
      <4>1. CASE x = c
        <5>1. 1 \in 1 .. Len(t)
          BY <3>4, <3>5
        <5> QED BY <3>5, <4>1, <5>1
      <4>2. CASE x # c
        <5>1. PICK i \in 1 .. Len(s) : s[i] = x
          BY <3>2, <4>2 DEF Lists
        <5>2. i + 1 \in 1 .. Len(t)
          BY <3>4, <3>5
        <5> QED BY <3>5, <5>1, <5>2
      <4> QED BY <4>1, <4>2
    <3> QED BY <3>5, <3>7, <3>8, <3>9 DEF Lists
  <2> QED BY <2>2 DEF t
<1> HIDE DEF S
<1>3. Nat \subseteq S
  BY <1>1, <1>2, WalkInduction
<1> QED BY <1>3 DEF S

\* tarList prints the names of the headers of the chain.
LEMMA ListNamesChain ==
  ASSUME NEW b, Buffer(b)
  PROVE  \A c \in Nat :
           /\ ChainFrom(b)[c] \in Seq(Nat)
           /\ ListFrom(b)[c] = [k \in 1 .. Len(ChainFrom(b)[c]) |-> b[ChainFrom(b)[c][k]].name]
<1> DEFINE Names_(s) == [k \in 1 .. Len(s) |-> b[s[k]].name]
           S == {c \in Nat : /\ ChainFrom(b)[c] \in Seq(Nat)
                             /\ ListFrom(b)[c] = Names_(ChainFrom(b)[c])}
<1>1. ASSUME NEW c \in Nat, ~tarValid(b, c) PROVE c \in S
  <2>1. ChainFrom(b)[c] = <<>> /\ ListFrom(b)[c] = <<>>
    BY <1>1, ChainEquation, ListEquation
  <2>2. Names_(<<>>) = <<>>
    OBVIOUS
  <2> QED BY <2>1, <2>2
<1>2. ASSUME NEW c \in Nat, tarValid(b, c), tarNext(b, c) \in S PROVE c \in S
  <2> DEFINE s == ChainFrom(b)[tarNext(b, c)]
             l == ListFrom(b)[tarNext(b, c)]
             N == {b[i].name : i \in Nat}
  <2>1. ChainFrom(b)[c] = <<c>> \o s /\ ListFrom(b)[c] = <<b[c].name>> \o l
    BY <1>2, ChainEquation, ListEquation
  <2>2. s \in Seq(Nat) /\ l = Names_(s)
    BY <1>2
  <2> HIDE DEF s, l
  <2>3. /\ <<c>> \o s \in Seq(Nat) /\ Len(<<c>> \o s) = Len(s) + 1 /\ (<<c>> \o s)[1] = c
        /\ \A i \in 1 .. Len(s) : (<<c>> \o s)[i + 1] = s[i]
    BY <2>2, InFrontOf
  <2>4. l \in Seq(N) /\ Len(l) = Len(s) /\ \A i \in 1 .. Len(s) : l[i] = b[s[i]].name
    <3>1. \A i \in 1 .. Len(s) : b[s[i]].name \in N /\ Len(s) \in Nat
      BY <2>2
    <3> HIDE DEF N
    <3> QED BY <2>2, <3>1
  <2>5. b[c].name \in N
    OBVIOUS
  <2> HIDE DEF N
  <2>6. /\ <<b[c].name>> \o l \in Seq(N) /\ Len(<<b[c].name>> \o l) = Len(l) + 1
        /\ (<<b[c].name>> \o l)[1] = b[c].name
        /\ \A i \in 1 .. Len(l) : (<<b[c].name>> \o l)[i + 1] = l[i]
    BY <2>4, <2>5, InFrontOf
  <2>7. Names_(<<c>> \o s) = <<b[c].name>> \o l
    <3> DEFINE u == <<c>> \o s
               v == <<b[c].name>> \o l
    <3>1. Len(s) \in Nat /\ Len(u) = Len(s) + 1 /\ Len(v) = Len(s) + 1 /\ v \in Seq(N)
      BY <2>2, <2>3, <2>4, <2>6
    <3>2. ASSUME NEW i \in 1 .. Len(s) + 1 PROVE b[u[i]].name = v[i]
      <4>1. CASE i = 1
        BY <2>3, <2>6, <4>1
      <4>2. CASE i # 1
        <5>1. i - 1 \in 1 .. Len(s) /\ i - 1 \in 1 .. Len(l) /\ (i - 1) + 1 = i
          BY <2>4, <3>1, <4>2
        <5>2. u[(i - 1) + 1] = s[i - 1] /\ v[(i - 1) + 1] = l[i - 1] /\ l[i - 1] = b[s[i - 1]].name
          BY <2>3, <2>4, <2>6, <5>1
        <5> QED BY <5>1, <5>2
      <4> QED BY <4>1, <4>2
    <3> HIDE DEF u, v
    <3>3. v = [i \in 1 .. Len(s) + 1 |-> v[i]]
      BY <3>1
    <3>4. Names_(u) = v
      BY <3>1, <3>2, <3>3
    <3> QED BY <3>4 DEF u, v
  <2> QED BY <2>1, <2>3, <2>7
<1> HIDE DEF S
<1>3. Nat \subseteq S
  BY <1>1, <1>2, WalkInduction
<1> QED BY <1>3 DEF S

LEMMA ListsType ==
  ASSUME NEW W, NEW s, Lists(s, W)
  PROVE  s \in Seq(Nat) /\ Len(s) \in Nat /\ \A i \in 1 .. Len(s) : s[i] \in Nat
<1>1. s \in Seq(Nat)
  BY DEF Lists
<1> QED BY <1>1

\* A set of numbers is listed in one way only.
LEMMA OneListing ==
  ASSUME NEW W, NEW s, NEW t, Lists(s, W), Lists(t, W)
  PROVE  s = t
<1>1. /\ s \in Seq(Nat) /\ t \in Seq(Nat) /\ Len(s) \in Nat /\ Len(t) \in Nat
      /\ \A i \in 1 .. Len(s) : s[i] \in Nat
      /\ \A i \in 1 .. Len(t) : t[i] \in Nat
  BY ListsType
\* Where one listing goes on, the other does, and with nothing greater.
<1>2. ASSUME NEW p, NEW q, Lists(p, W), Lists(q, W), NEW k \in Nat, k \in 1 .. Len(p),
             \A i \in 1 .. k - 1 : i \in 1 .. Len(q) /\ p[i] = q[i]
      PROVE  k \in 1 .. Len(q) /\ q[k] <= p[k]
  <2>1. /\ p \in Seq(Nat) /\ q \in Seq(Nat) /\ Len(p) \in Nat /\ Len(q) \in Nat
        /\ \A i \in 1 .. Len(p) : p[i] \in Nat
        /\ \A i \in 1 .. Len(q) : q[i] \in Nat
    BY <1>2, ListsType
  <2>2. PICK j \in 1 .. Len(q) : q[j] = p[k]
    BY <1>2 DEF Lists
  <2>3. ~(j < k)
    <3> SUFFICES ASSUME j < k PROVE FALSE
      OBVIOUS
    <3>1. j \in 1 .. k - 1 /\ j \in 1 .. Len(p)
      BY <1>2, <2>1
    <3>2. p[j] = q[j] /\ p[j] < p[k]
      BY <1>2, <3>1 DEF Lists
    <3> QED BY <2>1, <2>2, <3>1, <3>2
  <2>4. k \in 1 .. Len(q)
    BY <1>2, <2>1, <2>2, <2>3
  <2>5. k = j \/ q[k] < q[j]
    BY <1>2, <2>1, <2>2, <2>3, <2>4 DEF Lists
  <2> QED BY <2>1, <2>2, <2>4, <2>5
<1>3. ASSUME NEW p, NEW q, Lists(p, W), Lists(q, W)
      PROVE  \A k \in 1 .. Len(p) : k \in 1 .. Len(q) /\ p[k] = q[k]
  <2> DEFINE Same(k) == k \in 1 .. Len(q) /\ p[k] = q[k]
             T == {k \in 1 .. Len(p) : ~Same(k)}
  <2>1. SUFFICES ASSUME T # {} PROVE FALSE
    OBVIOUS
  <2>2. Len(p) \in Nat /\ Len(q) \in Nat
    BY <1>3 DEF Lists
  <2>3. PICK k \in T : \A j \in T : k <= j
    <3>1. T \in SUBSET Nat
      BY <2>2
    <3> HIDE DEF T
    <3> QED BY <2>1, <3>1, LeastNatural
  <2>4. k \in Nat /\ k \in 1 .. Len(p) /\ \A i \in 1 .. k - 1 : i \in 1 .. Len(q) /\ p[i] = q[i]
    BY <2>2, <2>3
  <2>5. k \in 1 .. Len(q) /\ q[k] <= p[k]
    BY <1>2, <1>3, <2>4
  <2>6. \A i \in 1 .. k - 1 : i \in 1 .. Len(p) /\ q[i] = p[i]
    BY <2>2, <2>4
  <2>7. p[k] <= q[k]
    BY <1>2, <1>3, <2>4, <2>5, <2>6
  <2>8. p[k] \in Nat /\ q[k] \in Nat
    BY <1>3, <2>4, <2>5, ListsType
  <2> QED BY <2>3, <2>5, <2>7, <2>8
<1>4. Len(s) = Len(t) /\ \A k \in 1 .. Len(s) : s[k] = t[k]
  <2>1. /\ \A k \in 1 .. Len(s) : k \in 1 .. Len(t) /\ s[k] = t[k]
        /\ \A k \in 1 .. Len(t) : k \in 1 .. Len(s)
    BY <1>3
  <2>2. Len(s) = Len(t)
    BY <1>1, <2>1
  <2> QED BY <2>1, <2>2
<1> QED BY <1>1, <1>4, SeqEqual

\* What the functions of ustar.c say of the walk from the first block
LEMMA WalkMeans ==
  ASSUME NEW b, Buffer(b), NEW W, NEW e, IsWalk(b, 0, W, e)
  PROVE  /\ tarGetEnd(b) = e
         /\ \A f : FoundIn(b, W, f, tarFind(b, f))
         /\ Lists(Chain(b), W)
         /\ tarList(b) = [k \in 1 .. Len(Chain(b)) |-> b[Chain(b)[k]].name]
<1>1. EndFrom(b)[0] = e
  BY EndOfWalk
<1>2. \A f : FoundIn(b, W, f, FindFrom(b, f)[0])
  BY FindInWalk
<1>3. Lists(ChainFrom(b)[0], W)
  BY ChainListsWalk
<1>4. ListFrom(b)[0] = [k \in 1 .. Len(ChainFrom(b)[0]) |-> b[ChainFrom(b)[0][k]].name]
  BY ListNamesChain
<1> QED BY <1>1, <1>2, <1>3, <1>4, WalksAre

-----------------------------------------------------------------------------
(* What tar makes and every operation leaves: the headers are those of the *)
(* walk, no two have a name, and zeros follow the last file.               *)
Archive(b) ==
  /\ Buffer(b)
  /\ IsWalk(b, 0, Headers(b), tarGetEnd(b)) /\ tarGetEnd(b) <= TAR_MAX_SECTORS
  /\ \A i \in Blocks : i >= tarGetEnd(b) => b[i] = Zero
  /\ \A h, k \in Headers(b) : b[h].name = b[k].name => h = k

LEMMA ArchiveBy ==
  ASSUME NEW b, Buffer(b), NEW e \in Nat, e <= TAR_MAX_SECTORS, IsWalk(b, 0, Headers(b), e),
         \A i \in Blocks : i >= e => b[i] = Zero,
         \A h, k \in Headers(b) : b[h].name = b[k].name => h = k
  PROVE  Archive(b) /\ tarGetEnd(b) = e
BY WalkMeans DEF Archive

LEMMA ArchiveFinds ==
  ASSUME NEW b, Archive(b), NEW f
  PROVE  /\ tarFind(b, f) = NULL <=> \A h \in Headers(b) : b[h].name # f
         /\ tarFind(b, f) # NULL => tarFind(b, f) \in Headers(b) /\ b[tarFind(b, f)].name = f
         /\ \A h \in Headers(b) : b[h].name = f => tarFind(b, f) = h
<1>1. FoundIn(b, Headers(b), f, tarFind(b, f))
  BY WalkMeans DEF Archive
<1>2. \A h \in Headers(b) : h # NULL
  BY UstarAssumption DEF Headers, Blocks, NULL
<1> QED BY <1>1, <1>2 DEF FoundIn, Archive

LEMMA BlocksType ==
  /\ TAR_MAX_SECTORS \in Nat /\ TAR_MAX_SECTORS > 0
  /\ \A i : i \in Blocks <=> i \in Nat /\ i < TAR_MAX_SECTORS
BY UstarAssumption DEF Blocks

LEMMA HeaderFields ==
  ASSUME NEW f, NEW size
  PROVE  /\ Header(f, size).kind = "header" /\ Header(f, size).name = f
         /\ Header(f, size).size = size
         /\ Zero.kind # "header"
BY DEF Header, Zero

\* tarTouch of a new name: the file begins where the archive ended.
LEMMA TouchKeepsArchive ==
  ASSUME NEW b, Archive(b), NEW f, tarFind(b, f) = NULL, tarGetEnd(b) \in Blocks
  PROVE  LET e == tarGetEnd(b)
             d == Touched(b, f)
         IN  /\ Archive(d) /\ Headers(d) = Headers(b) \cup {e} /\ tarGetEnd(d) = e + 1
             /\ d[e] = Header(f, 0) /\ \A i \in Blocks : i # e => d[i] = b[i]
             /\ e \notin Headers(b) /\ e = tarFind(d, f)
<1> DEFINE e == tarGetEnd(b)
           d == Touched(b, f)
<1>1. d = [b EXCEPT ![e] = Header(f, 0)]
  BY DEF Touched
<1>2. Buffer(b) /\ e \in Blocks /\ e \in Nat /\ b = [i \in Blocks |-> b[i]]
  BY BlocksType DEF Archive, Buffer
<1> HIDE DEF e, d
<1>3. /\ d = [i \in Blocks |-> d[i]] /\ d[e] = Header(f, 0)
      /\ \A i \in Blocks : i # e => d[i] = b[i]
  BY <1>1, <1>2
<1>4. Buffer(d)
  <2>1. \A i \in Blocks : d[i].kind = "header" => d[i].size \in Nat
    BY <1>2, <1>3, HeaderFields DEF Buffer
  <2> QED BY <1>3, <2>1 DEF Buffer
<1>5. e \notin Headers(b) /\ ~tarValid(b, e)
  BY <1>2 DEF Archive, IsWalk, Headers, tarValid, e
<1>6. Headers(d) = Headers(b) \cup {e}
  BY <1>2, <1>3, HeaderFields DEF Headers
<1>7. IsWalk(d, 0, Headers(d), e + 1)
  <2>1. ~tarValid(d, e + 1)
    <3>1. CASE e + 1 \in Blocks
      <4>1. b[e + 1] = Zero
        BY <1>2, <3>1, BlocksType DEF Archive, e
      <4>2. d[e + 1] = Zero
        BY <1>2, <1>3, <3>1, <4>1
      <4> QED BY <4>2, HeaderFields DEF tarValid
    <3>2. CASE e + 1 \notin Blocks
      BY <3>2 DEF tarValid
    <3> QED BY <3>1, <3>2
  <2>2. tarValid(d, e) /\ tarNext(d, e) = e + 1
    BY <1>2, <1>3, HeaderFields, NoBlocks DEF tarValid, tarNext
  <2>3. \A h \in Headers(b) : /\ tarValid(b, h) /\ tarValid(d, h) /\ tarNext(d, h) = tarNext(b, h)
                              /\ h # e /\ h \in Nat
    BY <1>2, <1>3, <1>5, BlocksType DEF Headers, tarValid, tarNext
  <2>4. /\ Headers(b) \in SUBSET Nat /\ 0 \in Headers(b) \cup {e}
        /\ \A h \in Headers(b) : tarNext(b, h) \in Headers(b) \cup {e} /\ tarNext(b, h) <= e
        /\ \A h, k \in Headers(b) : h < k => tarNext(b, h) <= k
    BY DEF Archive, IsWalk, e
  <2>5. \A h \in Headers(b) : h < e /\ tarNext(b, h) \in Nat
    BY <1>2, <2>3, <2>4, NextIsBehind
  <2>6. \A h \in Headers(d) : /\ 0 <= h /\ tarValid(d, h) /\ tarNext(d, h) <= e + 1
                              /\ tarNext(d, h) \in Headers(d) \cup {e + 1}
    BY <1>2, <1>6, <2>2, <2>3, <2>4, <2>5
  <2>7. \A h, k \in Headers(d) : h < k => tarNext(d, h) <= k
    BY <1>2, <1>6, <2>2, <2>3, <2>4, <2>5
  <2> QED BY <1>2, <1>6, <2>1, <2>4, <2>6, <2>7 DEF IsWalk
<1>8. \A i \in Blocks : i >= e + 1 => d[i] = Zero
  BY <1>2, <1>3, BlocksType DEF Archive, e
<1>9. \A h, k \in Headers(d) : d[h].name = d[k].name => h = k
  <2>1. \A h \in Headers(b) : b[h].name # f /\ d[h] = b[h]
    BY <1>3, <1>5, ArchiveFinds DEF Headers
  <2>2. d[e].name = f
    BY <1>3, HeaderFields
  <2>3. \A h, k \in Headers(b) : b[h].name = b[k].name => h = k
    BY DEF Archive
  <2> QED BY <1>6, <2>1, <2>2, <2>3
<1>10. e + 1 \in Nat /\ e + 1 <= TAR_MAX_SECTORS
  BY <1>2, BlocksType
<1>11. Archive(d) /\ tarGetEnd(d) = e + 1
  BY <1>4, <1>7, <1>8, <1>9, <1>10, ArchiveBy
<1>12. tarFind(d, f) = e
  BY <1>3, <1>6, <1>11, ArchiveFinds, HeaderFields
<1> QED BY <1>3, <1>5, <1>6, <1>11, <1>12 DEF e, d

\* The blocks a file takes, its header with them
FileBlocks(b, th) == ceilDiv(b[th].size, SECTOR) + 1

\* tarRm: what lies behind the file is found as many blocks further down.
LEMMA RemoveKeepsArchive ==
  ASSUME NEW b, Archive(b), NEW f, tarFind(b, f) # NULL
  PROVE  LET t == tarFind(b, f)
             n == FileBlocks(b, t)
             d == Removed(b, f)
         IN  /\ t \in Headers(b) /\ n \in Nat /\ n > 0 /\ tarNext(b, t) = t + n
             /\ Archive(d) /\ tarGetEnd(d) = tarGetEnd(b) - n
             /\ tarGetEnd(d) \in Blocks /\ t <= tarGetEnd(d)
             /\ Headers(d) = {h \in Headers(b) : h < t} \cup {h - n : h \in {k \in Headers(b) : k > t}}
             /\ \A i \in Blocks : i < t => d[i] = b[i]
             /\ \A i \in Blocks : i >= t /\ i < tarGetEnd(d) => i + n \in Blocks /\ d[i] = b[i + n]
             /\ tarFind(d, f) = NULL
<1> DEFINE t == tarFind(b, f)
           n == FileBlocks(b, t)
           d == Removed(b, f)
           e == tarGetEnd(b)
<1>1. /\ Buffer(b) /\ t \in Headers(b) /\ t \in Blocks /\ t \in Nat /\ tarValid(b, t) /\ b[t].name = f
      /\ e \in Nat /\ e <= TAR_MAX_SECTORS /\ TAR_MAX_SECTORS \in Nat
  BY ArchiveFinds, BlocksType DEF Archive, IsWalk, Headers, tarValid
<1>2. n \in Nat /\ n > 0 /\ tarNext(b, t) = t + n
  <2>1. b[t].size \in Nat
    BY <1>1 DEF Buffer, Headers
  <2>2. ceilDiv(b[t].size, SECTOR) \in Nat
    BY <2>1, CeilDivNat
  <2> QED BY <1>1, <2>2 DEF tarNext, FileBlocks
<1>3. t + n <= e
  BY <1>1, <1>2 DEF Archive, IsWalk
<1>4. d = [i \in Blocks |-> IF i >= TAR_MAX_SECTORS - n THEN Zero
                            ELSE IF i < t THEN b[i] ELSE b[i + n]]
  BY DEF Removed, FileBlocks
<1>5. \A i \in Blocks : i >= e => b[i] = Zero
  BY DEF Archive
<1> HIDE DEF t, n, d, e
<1> DEFINE m == e - n
<1>6. m \in Nat /\ m < e /\ t <= m /\ m < TAR_MAX_SECTORS /\ m \in Blocks
  BY <1>1, <1>2, <1>3, BlocksType
<1>7. /\ \A i \in Blocks : i < t => d[i] = b[i]
      /\ \A i \in Blocks : i >= t /\ i < m => i + n \in Blocks /\ d[i] = b[i + n]
      /\ \A i \in Blocks : i >= m => d[i] = Zero
  <2>1. ASSUME NEW i \in Blocks
        PROVE  d[i] = IF i >= TAR_MAX_SECTORS - n THEN Zero
                      ELSE IF i < t THEN b[i] ELSE b[i + n]
    BY <1>4
  <2>2. ASSUME NEW i \in Blocks, i < t PROVE d[i] = b[i]
    BY <1>1, <1>2, <1>3, <2>1, <2>2, BlocksType
  <2>3. ASSUME NEW i \in Blocks, i >= t, i < m PROVE i + n \in Blocks /\ d[i] = b[i + n]
    BY <1>1, <1>2, <1>3, <2>1, <2>3, BlocksType
  <2>4. ASSUME NEW i \in Blocks, i >= m PROVE d[i] = Zero
    <3>1. CASE i >= TAR_MAX_SECTORS - n
      BY <2>1, <3>1
    <3>2. CASE ~(i >= TAR_MAX_SECTORS - n)
      <4>1. i + n \in Blocks /\ i + n >= e /\ ~(i < t)
        BY <1>1, <1>2, <1>3, <2>4, <3>2, BlocksType
      <4> QED BY <1>5, <2>1, <3>2, <4>1
    <3> QED BY <3>1, <3>2
  <2> QED BY <2>2, <2>3, <2>4
<1>8. Buffer(d)
  <2>1. d = [i \in Blocks |-> d[i]]
    BY <1>4
  <2>2. ASSUME NEW i \in Blocks, d[i].kind = "header" PROVE d[i].size \in Nat
    <3>1. i < m
      BY <1>6, <1>7, <2>2, BlocksType, HeaderFields
    <3>2. d[i] = b[i] \/ (i + n \in Blocks /\ d[i] = b[i + n])
      BY <1>1, <1>7, <3>1, BlocksType
    <3> QED BY <1>1, <2>2, <3>2 DEF Buffer
  <2> QED BY <2>1, <2>2 DEF Buffer
\* Headers stand where they stood, or n blocks further up before.
<1> DEFINE Low == {h \in Headers(b) : h < t}
           High == {k \in Headers(b) : k > t}
<1>9. /\ \A h \in Headers(b) : /\ h \in Blocks /\ h \in Nat /\ tarValid(b, h)
                               /\ tarNext(b, h) \in Nat /\ tarNext(b, h) > h
                               /\ tarNext(b, h) \in Headers(b) \cup {e} /\ tarNext(b, h) <= e
      /\ \A h, k \in Headers(b) : h < k => tarNext(b, h) <= k
      /\ 0 \in Headers(b) \cup {e}
  <2>1. \A h \in Headers(b) : h \in Blocks /\ h \in Nat /\ tarValid(b, h)
    BY BlocksType DEF Headers, tarValid
  <2> QED BY <1>1, <2>1, NextIsBehind DEF Archive, IsWalk, e
<1>10. \A h \in High : h - n \in Nat /\ h - n >= t /\ h - n < m /\ h - n \in Blocks /\ (h - n) + n = h
  BY <1>1, <1>2, <1>6, <1>9, BlocksType
<1>11. \A h \in Low : h \in Nat /\ h < t /\ h \in Blocks /\ h \in Headers(b)
  BY <1>9
<1>12. Headers(d) = Low \cup {h - n : h \in High}
  <2>1. ASSUME NEW i \in Headers(d) PROVE i \in Low \/ \E h \in High : i = h - n
    <3>1. i \in Blocks /\ i \in Nat /\ d[i].kind = "header"
      BY BlocksType DEF Headers
    <3>2. i < m
      BY <1>6, <1>7, <3>1, HeaderFields
    <3>3. CASE i < t
      BY <1>7, <3>1, <3>3 DEF Headers
    <3>4. CASE ~(i < t)
      <4>1. i + n \in Headers(b) /\ i + n > t /\ i = (i + n) - n
        BY <1>1, <1>2, <1>7, <3>1, <3>2, <3>4 DEF Headers
      <4> QED BY <4>1
    <3> QED BY <3>3, <3>4
  <2>2. ASSUME NEW i \in Low PROVE i \in Headers(d)
    BY <1>7, <1>11, <2>2 DEF Headers
  <2>3. ASSUME NEW h \in High PROVE h - n \in Headers(d)
    <3>1. d[h - n] = b[h] /\ b[h].kind = "header"
      BY <1>7, <1>10 DEF Headers
    <3> QED BY <1>10, <3>1 DEF Headers
  <2> QED BY <2>1, <2>2, <2>3
<1>13. /\ \A h \in Low : tarValid(d, h) /\ tarNext(d, h) = tarNext(b, h) /\ tarNext(d, h) <= t
       /\ \A h \in High : tarValid(d, h - n) /\ tarNext(d, h - n) = tarNext(b, h) - n
  <2>1. ASSUME NEW h \in Low
        PROVE  tarValid(d, h) /\ tarNext(d, h) = tarNext(b, h) /\ tarNext(d, h) <= t
    <3>1. d[h] = b[h] /\ tarValid(b, h)
      BY <1>7, <1>9, <1>11
    <3>2. tarNext(b, h) <= t
      BY <1>1, <1>9, <1>11
    <3> QED BY <1>11, <3>1, <3>2 DEF tarValid, tarNext
  <2>2. ASSUME NEW h \in High
        PROVE  tarValid(d, h - n) /\ tarNext(d, h - n) = tarNext(b, h) - n
    <3>1. d[h - n] = b[h] /\ tarValid(b, h) /\ h - n \in Blocks /\ h \in Nat
      BY <1>7, <1>9, <1>10
    <3>2. ceilDiv(b[h].size, SECTOR) \in Nat
      <4>1. b[h].size \in Nat
        BY <1>1, <1>9, <3>1 DEF Buffer, tarValid
      <4> QED BY <4>1, CeilDivNat
    <3> QED BY <1>2, <3>1, <3>2 DEF tarValid, tarNext
  <2> QED BY <2>1, <2>2
\* Where the walk goes from each of them
<1>14. /\ \A h \in Low : tarNext(b, h) < t => tarNext(b, h) \in Low
       /\ \A h \in High : tarNext(b, h) < e => tarNext(b, h) \in High
       /\ t + n = e \/ t + n \in High
       /\ 0 \in Low \/ t = 0
  BY <1>1, <1>2, <1>3, <1>9
<1> HIDE DEF m, Low, High
<1> DEFINE H == Headers(d)
<1>15. t \in H \cup {m}
  <2>1. CASE t + n = e
    BY <1>1, <1>2, <2>1 DEF m
  <2>2. CASE t + n \in High
    <3>1. t = (t + n) - n
      BY <1>1, <1>2
    <3> QED BY <1>12, <2>2, <3>1
  <2> QED BY <1>14, <2>1, <2>2
<1>16. IsWalk(d, 0, H, m)
  <2>1. ~tarValid(d, m)
    BY <1>6, <1>7, HeaderFields DEF tarValid
  <2>2. H \in SUBSET Nat /\ m \in Nat
    BY <1>6, BlocksType DEF Headers
  <2>3. 0 \in H \cup {m} /\ 0 <= m
    BY <1>6, <1>12, <1>14, <1>15
  <2>4. ASSUME NEW h \in H
        PROVE  tarValid(d, h) /\ tarNext(d, h) \in H \cup {m} /\ tarNext(d, h) <= m
    <3>1. CASE h \in Low
      <4>1. h \in Headers(b) /\ tarNext(b, h) \in Nat
        BY <1>9, <1>11, <3>1
      <4>2. tarNext(b, h) = t \/ tarNext(b, h) < t
        BY <1>1, <1>13, <3>1, <4>1
      <4> QED BY <1>1, <1>6, <1>12, <1>13, <1>14, <1>15, <3>1, <4>1, <4>2
    <3>2. CASE \E k \in High : h = k - n
      <4>1. PICK k \in High : h = k - n
        BY <3>2
      <4>2. k \in Headers(b) /\ tarNext(b, k) \in Nat /\ tarNext(b, k) <= e
        BY <1>9 DEF High
      <4>3. tarNext(d, h) = tarNext(b, k) - n /\ tarValid(d, h)
        BY <1>13, <4>1
      <4>4. CASE tarNext(b, k) < e
        <5>1. tarNext(b, k) \in High
          BY <1>14, <4>4
        <5> QED BY <1>1, <1>2, <1>12, <4>2, <4>3, <5>1 DEF m
      <4>5. CASE tarNext(b, k) = e
        BY <1>1, <1>2, <4>2, <4>3, <4>5 DEF m
      <4> QED BY <1>1, <4>2, <4>4, <4>5
    <3> QED BY <1>12, <3>1, <3>2
  <2>5. ASSUME NEW h \in H, NEW k \in H, h < k PROVE tarNext(d, h) <= k
    <3>1. CASE h \in Low /\ k \in Low
      BY <1>9, <1>11, <1>13, <2>5, <3>1
    <3>2. CASE h \in Low /\ \E j \in High : k = j - n
      <4>1. PICK j \in High : k = j - n
        BY <3>2
      <4>2. k \in Nat /\ k >= t /\ tarNext(d, h) <= t /\ tarNext(d, h) \in Nat
        BY <1>9, <1>10, <1>11, <1>13, <3>2, <4>1 DEF High
      <4> QED BY <1>1, <4>2
    <3>3. CASE k \in Low /\ \E j \in High : h = j - n
      <4>1. PICK j \in High : h = j - n
        BY <3>3
      <4>2. h \in Nat /\ h >= t /\ k < t /\ k \in Nat
        BY <1>10, <1>11, <3>3, <4>1 DEF High
      <4> QED BY <1>1, <2>5, <4>2
    <3>4. CASE (\E j \in High : h = j - n) /\ (\E j \in High : k = j - n)
      <4>1. PICK i \in High, j \in High : h = i - n /\ k = j - n
        BY <3>4
      <4>2. i \in Nat /\ j \in Nat /\ i \in Headers(b) /\ j \in Headers(b) /\ tarNext(b, i) \in Nat
        BY <1>9 DEF High
      <4>3. i < j
        BY <1>2, <2>5, <4>1, <4>2
      <4>4. tarNext(b, i) <= j /\ tarNext(d, h) = tarNext(b, i) - n
        BY <1>9, <1>13, <4>1, <4>2, <4>3
      <4> QED BY <1>2, <4>1, <4>2, <4>4
    <3> QED BY <1>12, <3>1, <3>2, <3>3, <3>4
  <2> QED BY <2>1, <2>2, <2>3, <2>4, <2>5 DEF IsWalk
<1>17. /\ \A h \in Low : d[h] = b[h] /\ h \in Headers(b)
       /\ \A h \in High : d[h - n] = b[h] /\ h \in Headers(b)
       /\ t \notin Low /\ t \notin High
  BY <1>1, <1>7, <1>10, <1>11 DEF Low, High
<1>18. \A h, k \in H : d[h].name = d[k].name => h = k
  <2>1. \A h, k \in Headers(b) : b[h].name = b[k].name => h = k
    BY DEF Archive
  <2>2. \A h \in Low, k \in High : h # k
    BY <1>1, <1>9 DEF Low, High
  <2> QED BY <1>12, <1>17, <2>1, <2>2
<1>19. Archive(d) /\ tarGetEnd(d) = m
  BY <1>1, <1>6, <1>7, <1>8, <1>16, <1>18, ArchiveBy
<1>20. tarFind(d, f) = NULL
  <2>1. \A h \in Headers(b) : b[h].name = f => h = t
    BY <1>1 DEF Archive
  <2>2. \A h \in H : d[h].name # f
    BY <1>12, <1>17, <2>1
  <2> QED BY <1>19, <2>2, ArchiveFinds
<1> QED BY <1>1, <1>2, <1>6, <1>7, <1>12, <1>19, <1>20 DEF t, n, d, e, m, Low, High

\* tarEdit of a file that exists removes it and makes it again, empty, at the
\* end: it always returns before the writing (ustar.c:260).
LEMMA EditKeepsArchive ==
  ASSUME NEW b, Archive(b), NEW f, NEW size, tarFind(b, f) # NULL
  PROVE  /\ Edited(b, f, size) = Touched(Removed(b, f), f)
         /\ Archive(Edited(b, f, size))
<1> DEFINE r == Removed(b, f)
<1>1. Archive(r) /\ tarGetEnd(r) \in Blocks /\ tarFind(r, f) = NULL
  BY RemoveKeepsArchive
<1> HIDE DEF r
<1>2. touchMakes(r, f)
  BY <1>1 DEF touchMakes, tarRead, NULL
<1>3. Archive(Touched(r, f))
  BY <1>1, TouchKeepsArchive
<1>4. Edited(b, f, size) = Touched(r, f)
  BY <1>2 DEF Edited, r
<1> QED BY <1>3, <1>4 DEF r

-----------------------------------------------------------------------------
(* The archives tar makes *)

Climbs(f, n, x0, step) == f[0] = x0 /\ \A k \in 1 .. n : f[k] = step[k][f[k - 1]]

\* A function on 0 .. n may be defined at each number from the one before.
LEMMA RecursionUp ==
  ASSUME NEW V, NEW n \in Nat, NEW x0 \in V, NEW step \in [1 .. n -> [V -> V]]
  PROVE  \E f \in [0 .. n -> V] : Climbs(f, n, x0, step)
<1> DEFINE Good(f, m) == f[0] = x0 /\ \A k \in 1 .. m : f[k] = step[k][f[k - 1]]
           S == {m \in Nat : m <= n => \E f \in [0 .. n -> V] : Good(f, m)}
<1>1. 0 \in S
  <2> DEFINE g == [k \in 0 .. n |-> x0]
  <2>1. g \in [0 .. n -> V] /\ Good(g, 0)
    OBVIOUS
  <2> QED BY <2>1
<1>2. ASSUME NEW m \in Nat, m \in S PROVE m + 1 \in S
  <2>1. CASE m + 1 <= n
    <3>1. PICK f \in [0 .. n -> V] : Good(f, m)
      BY <1>2, <2>1
    <3> DEFINE g == [k \in 0 .. n |-> IF k = m + 1 THEN step[m + 1][f[m]] ELSE f[k]]
    <3>2. f[m] \in V /\ step[m + 1] \in [V -> V]
      BY <2>1
    <3>3. step[m + 1][f[m]] \in V
      BY <3>2
    <3>4. g \in [0 .. n -> V]
      BY <3>3
    <3>5. g[0] = x0
      BY <3>1
    <3>6. ASSUME NEW k \in 1 .. m + 1 PROVE g[k] = step[k][g[k - 1]]
      <4>1. k \in 0 .. n /\ k - 1 \in 0 .. n /\ k - 1 # m + 1
        BY <2>1
      <4>2. g[k - 1] = f[k - 1]
        BY <4>1
      <4>3. CASE k = m + 1
        BY <4>1, <4>2, <4>3
      <4>4. CASE k # m + 1
        BY <3>1, <4>1, <4>2, <4>4
      <4> QED BY <4>3, <4>4
    <3> HIDE DEF g
    <3> QED BY <3>4, <3>5, <3>6
  <2>2. CASE ~(m + 1 <= n)
    BY <2>2
  <2> QED BY <2>1, <2>2
<1>3. n \in S
  <2> HIDE DEF S
  <2> QED BY <1>1, <1>2, Induction
<1>4. PICK f \in [0 .. n -> V] : Good(f, n)
  BY <1>3
<1>5. Climbs(f, n, x0, step)
  BY <1>4 DEF Climbs
<1> QED BY <1>5

\* One file more: its header, and as many blocks as hold its bytes
FileLaid(s, file) ==
  s \o <<Header(file.name, file.size)>>
    \o [i \in 1 .. ceilDiv(file.size, SECTOR) |-> Data(file.name, i)]

FileFollows(T, s, file, r) ==
  /\ ceilDiv(file.size, SECTOR) \in Nat /\ r \in Seq(T)
  /\ Len(r) = Len(s) + 1 + ceilDiv(file.size, SECTOR)
  /\ \A i \in 1 .. Len(s) : r[i] = s[i]
  /\ r[Len(s) + 1] = Header(file.name, file.size)
  /\ \A i \in Len(s) + 2 .. Len(r) : r[i] = Data(file.name, i - Len(s) - 1)

LEMMA FileLaidIs ==
  ASSUME NEW T, NEW s \in Seq(T), NEW file, file.size \in Nat,
         Header(file.name, file.size) \in T, \A i \in Nat : Data(file.name, i) \in T
  PROVE  FileFollows(T, s, file, FileLaid(s, file))
<1> DEFINE c == ceilDiv(file.size, SECTOR)
           h == Header(file.name, file.size)
           d == [i \in 1 .. c |-> Data(file.name, i)]
           p == s \o <<h>>
<1>1. c \in Nat
  BY CeilDivNat
<1> HIDE DEF c
<1>2. d \in Seq(T) /\ Len(d) = c /\ \A i \in 1 .. c : d[i] = Data(file.name, i)
  BY <1>1
<1>3. <<h>> \in Seq(T) /\ Len(<<h>>) = 1 /\ <<h>>[1] = h
  OBVIOUS
<1> HIDE DEF h, d
<1>4. /\ p \in Seq(T) /\ Len(p) = Len(s) + 1
      /\ \A i \in 1 .. Len(s) + 1 : p[i] = IF i <= Len(s) THEN s[i] ELSE <<h>>[i - Len(s)]
  BY <1>3, ConcatProperties
<1> HIDE DEF p
<1>5. /\ p \o d \in Seq(T) /\ Len(p \o d) = Len(p) + c
      /\ \A i \in 1 .. Len(p) + c : (p \o d)[i] = IF i <= Len(p) THEN p[i] ELSE d[i - Len(p)]
  BY <1>2, <1>4, ConcatProperties
<1>6. FileLaid(s, file) = p \o d
  BY DEF FileLaid, p, d, h, c
<1> DEFINE r == p \o d
<1>7. Len(s) \in Nat /\ Len(p) \in Nat
  BY <1>4
<1>8. r[Len(s) + 1] = h
  BY <1>1, <1>3, <1>4, <1>5, <1>7
<1>9. \A i \in 1 .. Len(s) : r[i] = s[i]
  BY <1>1, <1>4, <1>5, <1>7
<1>10. \A i \in Len(s) + 2 .. Len(r) : r[i] = Data(file.name, i - Len(s) - 1)
  BY <1>1, <1>2, <1>4, <1>5, <1>7
<1> QED BY <1>1, <1>4, <1>5, <1>6, <1>8, <1>9, <1>10 DEF h, c, FileFollows

\* The headers of a sequence of blocks, numbered from 0 as a buffer's are
LaidHeaders(s) == {i \in 0 .. Len(s) - 1 : s[i + 1].kind = "header"}
LaidNext(s, h) == h + ceilDiv(s[h + 1].size, SECTOR) + 1

\* What Layout keeps from file to file: the blocks after k files
LaidWell(s, files, k) ==
  /\ \A h \in LaidHeaders(s) : /\ s[h + 1].size \in Nat
                               /\ LaidNext(s, h) \in LaidHeaders(s) \cup {Len(s)}
                               /\ \E j \in 1 .. k : s[h + 1].name = files[j].name
  /\ 0 \in LaidHeaders(s) \cup {Len(s)}
  /\ \A h, i \in LaidHeaders(s) : h < i => LaidNext(s, h) <= i
  /\ \A h, i \in LaidHeaders(s) : s[h + 1].name = s[i + 1].name => h = i

LEMMA LaidStep ==
  ASSUME NEW T, NEW s \in Seq(T), NEW files, NEW k \in Nat, LaidWell(s, files, k),
         NEW file, file = files[k + 1], file.size \in Nat,
         Header(file.name, file.size) \in T, \A i \in Nat : Data(file.name, i) \in T,
         \A j \in 1 .. k : files[j].name # files[k + 1].name
  PROVE  FileLaid(s, file) \in Seq(T) /\ LaidWell(FileLaid(s, file), files, k + 1)
<1> DEFINE c == ceilDiv(file.size, SECTOR)
           r == FileLaid(s, file)
           l == Len(s)
<1>1. /\ c \in Nat /\ r \in Seq(T) /\ Len(r) = l + 1 + c
      /\ \A i \in 1 .. l : r[i] = s[i]
      /\ r[l + 1] = Header(file.name, file.size)
      /\ \A i \in l + 2 .. Len(r) : r[i] = Data(file.name, i - l - 1)
  <2>1. FileFollows(T, s, file, FileLaid(s, file))
    BY FileLaidIs
  <2> QED BY <2>1 DEF FileFollows
<1>2. l \in Nat
  OBVIOUS
<1> HIDE DEF r, l, c
<1>3. r[l + 1].kind = "header" /\ r[l + 1].name = file.name /\ r[l + 1].size = file.size
  BY <1>1, HeaderFields
<1>4. \A f, i : Data(f, i).kind # "header"
  BY DEF Data
<1>5. /\ LaidHeaders(r) = LaidHeaders(s) \cup {l} /\ l \notin LaidHeaders(s)
      /\ \A h \in LaidHeaders(s) : h \in Nat /\ h < l /\ r[h + 1] = s[h + 1]
  <2>1. \A h \in LaidHeaders(s) : h \in Nat /\ h < l /\ h + 1 \in 1 .. l /\ s[h + 1].kind = "header"
    BY <1>2 DEF LaidHeaders, l
  <2>2. \A h \in LaidHeaders(s) : r[h + 1] = s[h + 1]
    BY <1>1, <2>1
  <2>3. \A h \in LaidHeaders(s) : h \in LaidHeaders(r)
    BY <1>1, <1>2, <2>1, <2>2 DEF LaidHeaders
  <2>4. l \in LaidHeaders(r)
    BY <1>1, <1>2, <1>3 DEF LaidHeaders
  <2>5. ASSUME NEW i \in LaidHeaders(r), i # l PROVE i \in LaidHeaders(s)
    <3>1. i \in Nat /\ i < l + 1 + c /\ r[i + 1].kind = "header"
      BY <1>1, <1>2 DEF LaidHeaders
    <3>2. ASSUME i > l PROVE FALSE
      <4>1. i + 1 \in l + 2 .. Len(r)
        BY <1>1, <1>2, <3>1, <3>2
      <4> QED BY <1>1, <1>4, <3>1, <4>1
    <3>3. i < l /\ i + 1 \in 1 .. l
      BY <1>2, <2>5, <3>1, <3>2
    <3> QED BY <1>1, <1>2, <3>1, <3>3 DEF LaidHeaders, l
  <2> QED BY <2>1, <2>2, <2>3, <2>4, <2>5
<1>6. /\ \A h \in LaidHeaders(s) : LaidNext(r, h) = LaidNext(s, h)
      /\ LaidNext(r, l) = Len(r)
  <2>1. \A h \in LaidHeaders(s) : LaidNext(r, h) = LaidNext(s, h)
    BY <1>5 DEF LaidNext
  <2>2. LaidNext(r, l) = l + c + 1
    BY <1>3 DEF LaidNext, c
  <2> QED BY <1>1, <1>2, <2>1, <2>2
<1>7. /\ \A h \in LaidHeaders(s) : /\ s[h + 1].size \in Nat
                                   /\ LaidNext(s, h) \in LaidHeaders(s) \cup {l}
                                   /\ \E j \in 1 .. k : s[h + 1].name = files[j].name
      /\ 0 \in LaidHeaders(s) \cup {l}
      /\ \A h, i \in LaidHeaders(s) : h < i => LaidNext(s, h) <= i
      /\ \A h, i \in LaidHeaders(s) : s[h + 1].name = s[i + 1].name => h = i
  BY DEF LaidWell, l
<1>8. \A h \in LaidHeaders(r) : /\ r[h + 1].size \in Nat
                                /\ LaidNext(r, h) \in LaidHeaders(r) \cup {Len(r)}
                                /\ \E j \in 1 .. k + 1 : r[h + 1].name = files[j].name
  <2>1. ASSUME NEW h \in LaidHeaders(s)
        PROVE  /\ r[h + 1].size \in Nat /\ LaidNext(r, h) \in LaidHeaders(r)
               /\ \E j \in 1 .. k + 1 : r[h + 1].name = files[j].name
    <3>1. PICK j \in 1 .. k : s[h + 1].name = files[j].name
      BY <1>7
    <3>2. j \in 1 .. k + 1 /\ r[h + 1].name = files[j].name
      BY <1>5, <3>1
    <3> QED BY <1>5, <1>6, <1>7, <3>2
  <2>2. r[l + 1].name = files[k + 1].name /\ k + 1 \in 1 .. k + 1
    BY <1>3
  <2> QED BY <1>3, <1>5, <1>6, <2>1, <2>2
<1>9. 0 \in LaidHeaders(r)
  BY <1>5, <1>7
<1>10. \A h, i \in LaidHeaders(r) : h < i => LaidNext(r, h) <= i
  <2>1. ASSUME NEW h \in LaidHeaders(s) PROVE LaidNext(s, h) <= l
    <3>1. PICK x : x = LaidNext(s, h)
      OBVIOUS
    <3>2. x \in LaidHeaders(s) \/ x = l
      BY <1>7, <3>1
    <3>3. x \in Nat /\ x <= l
      BY <1>2, <1>5, <3>2
    <3> QED BY <3>1, <3>3
  <2> QED BY <1>2, <1>5, <1>6, <1>7, <2>1
<1>11. \A h, i \in LaidHeaders(r) : r[h + 1].name = r[i + 1].name => h = i
  <2>1. \A h \in LaidHeaders(s) : r[h + 1].name # r[l + 1].name
    BY <1>3, <1>5, <1>7
  <2> QED BY <1>5, <1>7, <2>1
<1>12. LaidWell(r, files, k + 1)
  BY <1>8, <1>9, <1>10, <1>11 DEF LaidWell
<1> QED BY <1>1, <1>12 DEF r

\* The blocks tar lays
LaidBlocks == {Header(f, size) : f \in Names, size \in Nat} \cup {Data(f, i) : f \in Names, i \in Nat}

LEMMA LayoutIsLaidWell ==
  ASSUME NEW files, NEW n \in Nat, files \in [1 .. n -> [name : Names, size : Sizes]],
         DistinctNames(files)
  PROVE  Layout(files) \in Seq(LaidBlocks) /\ LaidWell(Layout(files), files, n)
<1> DEFINE T == LaidBlocks
           V == Seq(T)
           step == [k \in 1 .. n |-> [s \in V |-> FileLaid(s, files[k])]]
           laid == CHOOSE laid : laid = [k \in 0 .. Len(files) |->
                     IF k = 0 THEN <<>>
                     ELSE laid[k - 1] \o <<Header(files[k].name, files[k].size)>>
                            \o [i \in 1 .. ceilDiv(files[k].size, SECTOR) |->
                                  Data(files[k].name, i)]]
<1>1. Layout(files) = laid[Len(files)]
  BY Zenon DEF Layout
<1>2. Len(files) = n /\ DOMAIN files = 1 .. n
  OBVIOUS
<1>3. \A k \in 1 .. n : /\ files[k].size \in Nat
                        /\ Header(files[k].name, files[k].size) \in T
                        /\ \A i \in Nat : Data(files[k].name, i) \in T
  BY UstarAssumption DEF LaidBlocks
<1>4. <<>> \in V
  OBVIOUS
<1> HIDE DEF T
<1>5. \A k \in 1 .. n : \A s \in V : FileLaid(s, files[k]) \in V
  <2>1. ASSUME NEW k \in 1 .. n, NEW s \in V PROVE FileFollows(T, s, files[k], FileLaid(s, files[k]))
    BY <1>3, FileLaidIs
  <2> QED BY <2>1 DEF FileFollows
<1>6. step \in [1 .. n -> [V -> V]]
  BY <1>5
<1> HIDE DEF V, step
<1>7. PICK f \in [0 .. n -> V] : Climbs(f, n, <<>>, step)
  BY <1>4, <1>6, RecursionUp
<1>8. \A k \in 1 .. n : k # 0 /\ f[k - 1] \in V /\ f[k] = FileLaid(f[k - 1], files[k])
  <2>1. \A k \in 1 .. n : k # 0 /\ f[k - 1] \in V /\ f[k] = step[k][f[k - 1]]
    BY <1>7 DEF Climbs
  <2> QED BY <2>1 DEF step
<1>9. f = [k \in 0 .. n |-> IF k = 0 THEN <<>> ELSE FileLaid(f[k - 1], files[k])]
  <2>1. \A k \in 0 .. n : k = 0 \/ k \in 1 .. n
    OBVIOUS
  <2>2. \A k \in 0 .. n : f[k] = IF k = 0 THEN <<>> ELSE FileLaid(f[k - 1], files[k])
    BY <1>7, <1>8, <2>1 DEF Climbs
  <2> QED BY <1>7, <2>2
<1>10. f = [k \in 0 .. Len(files) |->
                     IF k = 0 THEN <<>>
                     ELSE f[k - 1] \o <<Header(files[k].name, files[k].size)>>
                            \o [i \in 1 .. ceilDiv(files[k].size, SECTOR) |->
                                  Data(files[k].name, i)]]
  BY <1>2, <1>9, Zenon DEF FileLaid
<1>11. laid = [k \in 0 .. n |-> IF k = 0 THEN <<>> ELSE FileLaid(laid[k - 1], files[k])]
  BY <1>2, <1>10, Zenon DEF FileLaid
<1> HIDE DEF laid
<1> DEFINE S == {k \in Nat : k <= n => laid[k] \in V /\ LaidWell(laid[k], files, k)}
<1>12. 0 \in S
  <2>1. laid[0] = <<>>
    BY <1>11
  <2>2. LaidHeaders(<<>>) = {} /\ Len(<<>>) = 0
    BY DEF LaidHeaders
  <2> QED BY <1>4, <2>1, <2>2 DEF LaidWell
<1>13. ASSUME NEW k \in Nat, k \in S PROVE k + 1 \in S
  <2>1. CASE k + 1 <= n
    <3>1. laid[k] \in V /\ LaidWell(laid[k], files, k) /\ k + 1 \in 1 .. n /\ k + 1 # 0 /\ (k + 1) - 1 = k
      BY <1>13, <2>1
    <3>2. laid[k + 1] = FileLaid(laid[k], files[k + 1])
      BY <1>11, <3>1
    <3>3. \A j \in 1 .. k : files[j].name # files[k + 1].name
      BY <1>2, <3>1 DEF DistinctNames
    <3>4. /\ files[k + 1].size \in Nat
          /\ Header(files[k + 1].name, files[k + 1].size) \in T
          /\ \A i \in Nat : Data(files[k + 1].name, i) \in T
      BY <1>3, <3>1
    <3>5. FileLaid(laid[k], files[k + 1]) \in V /\ LaidWell(FileLaid(laid[k], files[k + 1]), files, k + 1)
      BY <3>1, <3>3, <3>4, LaidStep DEF V
    <3> QED BY <3>2, <3>5
  <2>2. CASE ~(k + 1 <= n)
    BY <2>2
  <2> QED BY <2>1, <2>2
<1>14. n \in S
  <2> HIDE DEF S
  <2> QED BY <1>12, <1>13, Induction
<1>15. Layout(files) \in Seq(T) /\ LaidWell(Layout(files), files, n)
  BY <1>1, <1>2, <1>14 DEF V
<1> QED BY <1>15 DEF T

\* The buffer that holds a well laid sequence of blocks, zeros after it
InBuffer(s) == [i \in Blocks |-> IF i < Len(s) THEN s[i + 1] ELSE Zero]

LEMMA LaidIsArchive ==
  ASSUME NEW T, NEW s \in Seq(T), NEW files, NEW n, LaidWell(s, files, n), Len(s) <= TAR_MAX_SECTORS
  PROVE  Archive(InBuffer(s)) /\ tarGetEnd(InBuffer(s)) = Len(s)
<1> DEFINE b == InBuffer(s)
           l == Len(s)
<1>1. l \in Nat /\ l <= TAR_MAX_SECTORS
  OBVIOUS
<1>2. /\ b = [i \in Blocks |-> b[i]]
      /\ \A i \in Blocks : b[i] = IF i < l THEN s[i + 1] ELSE Zero
  BY DEF InBuffer
<1>3. /\ \A h \in LaidHeaders(s) : /\ s[h + 1].size \in Nat
                                   /\ LaidNext(s, h) \in LaidHeaders(s) \cup {l}
      /\ 0 \in LaidHeaders(s) \cup {l}
      /\ \A h, i \in LaidHeaders(s) : h < i => LaidNext(s, h) <= i
      /\ \A h, i \in LaidHeaders(s) : s[h + 1].name = s[i + 1].name => h = i
      /\ \A h : h \in LaidHeaders(s) <=> h \in 0 .. l - 1 /\ s[h + 1].kind = "header"
  BY DEF LaidWell, LaidHeaders
<1> HIDE DEF b, l
<1>4. /\ Headers(b) = LaidHeaders(s)
      /\ \A h \in Headers(b) : /\ h \in Nat /\ h < l /\ h \in Blocks /\ b[h] = s[h + 1]
                               /\ tarValid(b, h) /\ tarNext(b, h) = LaidNext(s, h)
  <2>1. ASSUME NEW h \in LaidHeaders(s)
        PROVE  /\ h \in Nat /\ h < l /\ h \in Blocks /\ b[h] = s[h + 1] /\ h \in Headers(b)
               /\ tarValid(b, h) /\ tarNext(b, h) = LaidNext(s, h)
    <3>1. h \in Nat /\ h < l /\ h \in Blocks /\ s[h + 1].kind = "header"
      BY <1>1, <1>3, BlocksType
    <3>2. b[h] = s[h + 1]
      BY <1>2, <3>1
    <3> QED BY <3>1, <3>2 DEF Headers, tarValid, tarNext, LaidNext
  <2>2. ASSUME NEW h \in Headers(b) PROVE h \in LaidHeaders(s)
    <3>1. h \in Blocks /\ h \in Nat /\ b[h].kind = "header"
      BY BlocksType DEF Headers
    <3>2. h < l
      BY <1>2, <3>1, HeaderFields
    <3> QED BY <1>1, <1>2, <1>3, <3>1, <3>2
  <2> QED BY <2>1, <2>2
<1>5. Buffer(b)
  BY <1>2, <1>3, <1>4 DEF Buffer, Headers
<1>6. IsWalk(b, 0, Headers(b), l)
  <2>1. ~tarValid(b, l)
    BY <1>2, <1>1, HeaderFields DEF tarValid
  <2>2. \A h \in Headers(b) : tarNext(b, h) <= l
    BY <1>1, <1>3, <1>4
  <2> QED BY <1>1, <1>3, <1>4, <2>1, <2>2 DEF IsWalk
<1>7. \A i \in Blocks : i >= l => b[i] = Zero
  BY <1>1, <1>2, BlocksType
<1>8. \A h, k \in Headers(b) : b[h].name = b[k].name => h = k
  BY <1>3, <1>4
<1>9. Archive(b) /\ tarGetEnd(b) = l
  BY <1>1, <1>5, <1>6, <1>7, <1>8, ArchiveBy
<1> QED BY <1>9 DEF b, l

\* Whatever tar has made of files with different names that fit the buffer
LEMMA ArchivesAreArchives ==
  ASSUME NEW files \in Archives
  PROVE  Archive(InBuffer(Layout(files)))
<1>1. PICK n \in Nat : files \in [1 .. n -> [name : Names, size : Sizes]]
  BY DEF Archives
<1>2. DistinctNames(files) /\ Len(Layout(files)) <= TAR_MAX_SECTORS
  BY DEF Archives
<1>3. Layout(files) \in Seq(LaidBlocks) /\ LaidWell(Layout(files), files, n)
  BY <1>1, <1>2, LayoutIsLaidWell
<1> QED BY <1>2, <1>3, LaidIsArchive

LEMMA InitialArchive ==
  ASSUME UstarInit PROVE Archive(tarBuf)
<1>1. PICK files \in Archives : tarBuf = InBuffer(Layout(files))
  BY DEF UstarInit, InBuffer
<1> QED BY <1>1, ArchivesAreArchives

-----------------------------------------------------------------------------
\* The steps of UstarNext that change the buffer, and what they make of it
LEMMA ArchiveSteps ==
  ASSUME Archive(tarBuf), [UstarNext]_ustarVars
  PROVE  Archive(tarBuf')
<1>1. ASSUME NEW f \in Names, RoomToTouch, Touch(f) PROVE Archive(tarBuf')
  <2>1. CASE touchMakes(tarBuf, f)
    <3>1. tarFind(tarBuf, f) = NULL
      <4>1. SUFFICES ASSUME tarFind(tarBuf, f) # NULL PROVE FALSE
        OBVIOUS
      <4>2. tarFind(tarBuf, f) \in Headers(tarBuf)
        BY <4>1, ArchiveFinds
      <4>3. tarBuf[tarFind(tarBuf, f)].size \in Nat
        BY <4>2 DEF Archive, Buffer, Headers
      <4> QED BY <2>1, <4>1, <4>3 DEF touchMakes, tarRead
    <3> QED BY <1>1, <2>1, <3>1, TouchKeepsArchive DEF Touch, RoomToTouch
  <2>2. CASE ~touchMakes(tarBuf, f)
    BY <1>1, <2>2 DEF Touch
  <2> QED BY <2>1, <2>2
<1>2. ASSUME NEW f \in Names, Rm(f) PROVE Archive(tarBuf')
  <2>1. CASE tarRead(tarBuf, f) < 0
    BY <1>2, <2>1 DEF Rm
  <2>2. CASE ~(tarRead(tarBuf, f) < 0)
    <3>1. tarFind(tarBuf, f) # NULL
      BY <2>2 DEF tarRead
    <3> QED BY <1>2, <2>2, <3>1, RemoveKeepsArchive DEF Rm
  <2> QED BY <2>1, <2>2
<1>3. ASSUME NEW f \in Names, NEW size \in Sizes, Edit(f, size) PROVE Archive(tarBuf')
  BY <1>3, EditKeepsArchive DEF Edit
<1>4. CASE Look
  BY <1>4 DEF Look
<1>5. CASE UNCHANGED ustarVars
  BY <1>5 DEF ustarVars
<1> QED BY <1>1, <1>2, <1>3, <1>4, <1>5 DEF UstarNext

(* Whatever is touched, removed or edited, in any order, tarBuf holds an   *)
(* archive: the walk from block 0 meets every header there is, no two      *)
(* files have a name, and zeros follow the last file (ustar.c:200-266).    *)
THEOREM BufferIsArchive == UstarSpec => []Archive(tarBuf)
<1>1. UstarInit => Archive(tarBuf)
  BY InitialArchive
<1>2. Archive(tarBuf) /\ [UstarNext]_ustarVars => Archive(tarBuf)'
  BY ArchiveSteps DEF Archive, Buffer, IsWalk, Headers
<1> QED BY <1>1, <1>2, PTL DEF UstarSpec

LEMMA ChainOfArchive ==
  ASSUME NEW b, Archive(b)
  PROVE  /\ Lists(Chain(b), Headers(b))
         /\ tarList(b) = [k \in 1 .. Len(Chain(b)) |-> b[Chain(b)[k]].name]
         /\ Chain(b) \in Seq(Nat) /\ Len(Chain(b)) \in Nat /\ DOMAIN Chain(b) = 1 .. Len(Chain(b))
         /\ \A k \in DOMAIN Chain(b) : Chain(b)[k] \in Headers(b)
<1>1. Lists(Chain(b), Headers(b)) /\ tarList(b) = [k \in 1 .. Len(Chain(b)) |-> b[Chain(b)[k]].name]
  BY WalkMeans DEF Archive
<1>2. Chain(b) \in Seq(Nat) /\ Len(Chain(b)) \in Nat
  BY <1>1, ListsType
<1>3. DOMAIN Chain(b) = 1 .. Len(Chain(b))
  BY <1>2
<1> QED BY <1>1, <1>2, <1>3 DEF Lists

(* No operation leaves a header or data behind that a later, longer walk   *)
(* would take for a file (ustar.c:130, 228).                               *)
THEOREM NothingIsBehindTheEnd == UstarSpec => []NothingBehindTheEnd
<1>1. Archive(tarBuf) => NothingBehindTheEnd
  <2> SUFFICES ASSUME Archive(tarBuf) PROVE NothingBehindTheEnd
    OBVIOUS
  <2>1. \A i \in Blocks : i >= tarGetEnd(tarBuf) => tarBuf[i] = Zero
    BY DEF Archive
  <2>2. \A h \in Headers(tarBuf) : \E k \in DOMAIN Chain(tarBuf) : Chain(tarBuf)[k] = h
    BY ChainOfArchive DEF Lists
  <2>3. \A i \in Blocks : tarBuf[i].kind = "header" =>
                            \E k \in DOMAIN Chain(tarBuf) : Chain(tarBuf)[k] = i
    BY <2>2 DEF Headers
  <2> QED BY <2>1, <2>3 DEF NothingBehindTheEnd
<1> QED BY <1>1, BufferIsArchive, PTL

-----------------------------------------------------------------------------
(* The archive as a list of files *)

\* A file's blocks lie before the next header and before the end.
LEMMA FilesAreApart ==
  ASSUME NEW b, Archive(b), NEW h \in Headers(b)
  PROVE  /\ h \in Nat /\ h \in Blocks /\ b[h].size \in Nat /\ ceilDiv(b[h].size, SECTOR) \in Nat
         /\ h < tarGetEnd(b) /\ h + ceilDiv(b[h].size, SECTOR) < tarGetEnd(b)
         /\ \A k \in Headers(b) : h < k => h + ceilDiv(b[h].size, SECTOR) < k
<1>1. h \in Nat /\ h \in Blocks /\ b[h].size \in Nat
  BY BlocksType DEF Archive, Buffer, Headers
<1>2. ceilDiv(b[h].size, SECTOR) \in Nat
  BY <1>1, CeilDivNat
<1>3. /\ tarNext(b, h) <= tarGetEnd(b) /\ \A k \in Headers(b) : h < k => tarNext(b, h) <= k
      /\ tarGetEnd(b) \in Nat
  BY DEF Archive, IsWalk
<1>4. \A k \in Headers(b) : k \in Nat
  BY BlocksType DEF Headers
<1>5. tarNext(b, h) = h + ceilDiv(b[h].size, SECTOR) + 1
  BY DEF tarNext
<1> QED BY <1>1, <1>2, <1>3, <1>4, <1>5

\* Files are the same where their blocks are, shifted or not.
LEMMA SameFile ==
  ASSUME NEW b, NEW d, NEW h, NEW k, d[k] = b[h],
         \A i \in 1 .. ceilDiv(b[h].size, SECTOR) : d[k + i] = b[h + i]
  PROVE  FileAt(d, k) = FileAt(b, h)
BY DEF FileAt

LEMMA AppendIs ==
  ASSUME NEW T, NEW s \in Seq(T), NEW x \in T
  PROVE  Append(s, x) = [k \in 1 .. Len(s) + 1 |-> IF k = Len(s) + 1 THEN x ELSE s[k]]
<1> DEFINE t == [k \in 1 .. Len(s) + 1 |-> IF k = Len(s) + 1 THEN x ELSE s[k]]
<1>1. t \in Seq(T) /\ Len(t) = Len(s) + 1
  <2>1. \A k \in 1 .. Len(s) + 1 : t[k] \in T
    OBVIOUS
  <2> QED BY <2>1
<1>2. \A k \in 1 .. Len(s) + 1 : Append(s, x)[k] = t[k]
  OBVIOUS
<1>3. Append(s, x) \in Seq(T) /\ Len(Append(s, x)) = Len(s) + 1
  BY AppendProperties
<1> HIDE DEF t
<1>4. Append(s, x) = t
  BY <1>1, <1>2, <1>3, SeqEqual
<1> QED BY <1>4 DEF t

LEMMA TouchAppendsFile ==
  ASSUME NEW b, Archive(b), NEW f, tarFind(b, f) = NULL, tarGetEnd(b) \in Blocks
  PROVE  /\ Chain(Touched(b, f)) = Append(Chain(b), tarGetEnd(b))
         /\ FilesOf(Touched(b, f)) = Append(FilesOf(b), [name |-> f, size |-> 0, data |-> <<>>])
<1> DEFINE d == Touched(b, f)
           e == tarGetEnd(b)
           c == Chain(b)
           n == Len(Chain(b))
<1>1. /\ Archive(d) /\ Headers(d) = Headers(b) \cup {e} /\ d[e] = Header(f, 0)
      /\ \A i \in Blocks : i # e => d[i] = b[i]
      /\ e \notin Headers(b)
  BY TouchKeepsArchive
<1>2. /\ Lists(c, Headers(b)) /\ c \in Seq(Nat) /\ n \in Nat /\ DOMAIN c = 1 .. n
      /\ \A k \in 1 .. n : c[k] \in Headers(b)
  BY ChainOfArchive
<1>3. e \in Nat
  BY BlocksType
<1>4. \A h \in Headers(b) : /\ h \in Nat /\ h \in Blocks /\ h < e
                            /\ \A i \in 1 .. ceilDiv(b[h].size, SECTOR) : h + i \in Blocks /\ h + i # e
  <2> TAKE h \in Headers(b)
  <2>1. /\ h \in Nat /\ h \in Blocks /\ h < e /\ ceilDiv(b[h].size, SECTOR) \in Nat
        /\ h + ceilDiv(b[h].size, SECTOR) < e
    BY FilesAreApart
  <2>2. \A i \in 1 .. ceilDiv(b[h].size, SECTOR) : h + i \in Nat /\ h + i < e
    BY <1>3, <2>1
  <2> QED BY <1>3, <2>1, <2>2, BlocksType
<1> DEFINE a == Append(c, e)
<1> HIDE DEF d, e, c, n
<1>5. /\ a \in Seq(Nat) /\ Len(a) = n + 1 /\ DOMAIN a = 1 .. n + 1
      /\ \A k \in 1 .. n : a[k] = c[k]
      /\ a[n + 1] = e
  BY <1>2, <1>3 DEF n, c
<1> HIDE DEF a
<1>6. Lists(a, Headers(d))
  <2>1. /\ \A i, j \in 1 .. n : i < j => c[i] < c[j]
        /\ \A x \in Headers(b) : \E i \in 1 .. n : c[i] = x
    BY <1>2 DEF Lists, n, c
  <2>2. ASSUME NEW i \in 1 .. Len(a), NEW j \in 1 .. Len(a), i < j PROVE a[i] < a[j]
    <3>1. i \in 1 .. n /\ a[i] = c[i] /\ c[i] \in Headers(b)
      BY <1>2, <1>5, <2>2
    <3>2. CASE j = n + 1
      BY <1>4, <1>5, <3>1, <3>2
    <3>3. CASE j # n + 1
      <4>1. j \in 1 .. n /\ a[j] = c[j]
        BY <1>2, <1>5, <3>3
      <4> QED BY <2>1, <2>2, <3>1, <4>1
    <3> QED BY <3>2, <3>3
  <2>3. \A i \in 1 .. Len(a) : a[i] \in Headers(d)
    BY <1>1, <1>2, <1>5
  <2>4. \A x \in Headers(d) : \E i \in 1 .. Len(a) : a[i] = x
    <3>1. n + 1 \in 1 .. Len(a)
      BY <1>2, <1>5
    <3>2. \A i \in 1 .. n : i \in 1 .. Len(a)
      BY <1>2, <1>5
    <3> QED BY <1>1, <1>5, <2>1, <3>1, <3>2
  <2> QED BY <1>5, <2>2, <2>3, <2>4 DEF Lists
<1>7. Chain(d) = a
  BY <1>1, <1>6, ChainOfArchive, OneListing
<1>8. ASSUME NEW k \in 1 .. n PROVE FileAt(d, a[k]) = FileAt(b, c[k])
  <2>1. c[k] \in Headers(b) /\ a[k] = c[k]
    BY <1>2, <1>5
  <2>2. d[c[k]] = b[c[k]]
    BY <1>1, <1>4, <2>1
  <2>3. \A i \in 1 .. ceilDiv(b[c[k]].size, SECTOR) : d[c[k] + i] = b[c[k] + i]
    BY <1>1, <1>4, <2>1
  <2> QED BY <2>1, <2>2, <2>3, SameFile
<1> DEFINE x == [name |-> f, size |-> 0, data |-> <<>>]
<1>9. FileAt(d, a[n + 1]) = x
  <2>1. ceilDiv(d[e].size, SECTOR) = 0 /\ d[e].name = f /\ d[e].size = 0
    BY <1>1, HeaderFields, NoBlocks
  <2>2. [i \in 1 .. 0 |-> d[e + i]] = <<>>
    OBVIOUS
  <2> QED BY <1>5, <2>1, <2>2 DEF FileAt
<1>10. FilesOf(d) = [k \in 1 .. n + 1 |-> FileAt(d, a[k])] /\ FilesOf(b) = [k \in 1 .. n |-> FileAt(b, c[k])]
  BY <1>2, <1>5, <1>7, Zenon DEF FilesOf, c
<1> HIDE DEF x
<1>11. \A k \in 1 .. n + 1 : k = n + 1 \/ k \in 1 .. n
  BY <1>2
<1>12. [k \in 1 .. n + 1 |-> FileAt(d, a[k])] = Append([k \in 1 .. n |-> FileAt(b, c[k])], x)
  <2> DEFINE s == [k \in 1 .. n |-> FileAt(b, c[k])]
             t == [k \in 1 .. n + 1 |-> FileAt(d, a[k])]
             S == {FileAt(b, c[k]) : k \in 1 .. n} \cup {x}
  <2>1. s \in Seq(S) /\ Len(s) = n
    BY <1>2
  <2>2. x \in S
    OBVIOUS
  <2> HIDE DEF S
  <2>3. Append(s, x) = [k \in 1 .. n + 1 |-> IF k = n + 1 THEN x ELSE s[k]]
    <3> HIDE DEF s
    <3> QED BY <2>1, <2>2, AppendIs
  <2>4. \A k \in 1 .. n + 1 : t[k] = IF k = n + 1 THEN x ELSE s[k]
    BY <1>8, <1>9, <1>11
  <2> QED BY <2>3, <2>4
<1> QED BY <1>7, <1>10, <1>12 DEF d, e, c, x, a

\* The p-th element taken out of a sequence of n
Dropped(s, n, p) == [j \in 1 .. n - 1 |-> s[IF j < p THEN j ELSE j + 1]]

LEMMA RemoveDropsFile ==
  ASSUME NEW b, Archive(b), NEW f, tarFind(b, f) # NULL
  PROVE  LET n == Len(Chain(b)) IN
         \E p \in 1 .. n : /\ n \in Nat /\ DOMAIN Chain(b) = 1 .. n /\ Chain(b)[p] = tarFind(b, f)
                           /\ FilesOf(Removed(b, f)) = Dropped(FilesOf(b), n, p)
<1> DEFINE d == Removed(b, f)
           t == tarFind(b, f)
           m == FileBlocks(b, t)
           e == tarGetEnd(b)
           c == Chain(b)
           n == Len(Chain(b))
<1>1. /\ t \in Headers(b) /\ m \in Nat /\ m > 0 /\ tarNext(b, t) = t + m
      /\ Archive(d) /\ tarGetEnd(d) = e - m
      /\ e - m \in Blocks /\ t <= e - m
      /\ Headers(d) = {h \in Headers(b) : h < t} \cup {h - m : h \in {k \in Headers(b) : k > t}}
      /\ \A i \in Blocks : i < t => d[i] = b[i]
      /\ \A i \in Blocks : i >= t /\ i < e - m => d[i] = b[i + m]
  BY RemoveKeepsArchive
<1>2. /\ Lists(c, Headers(b)) /\ c \in Seq(Nat) /\ n \in Nat /\ DOMAIN c = 1 .. n
      /\ \A k \in 1 .. n : c[k] \in Headers(b)
  BY ChainOfArchive
<1>3. /\ \A i, j \in 1 .. n : i < j => c[i] < c[j]
      /\ \A x \in Headers(b) : \E i \in 1 .. n : c[i] = x
  BY <1>2 DEF Lists
<1>4. e \in Nat /\ t \in Nat
  BY <1>1, BlocksType DEF Archive, IsWalk, Headers
<1>5. \A h \in Headers(b) : /\ h \in Nat /\ h \in Blocks
                            /\ ceilDiv(b[h].size, SECTOR) \in Nat
                            /\ h + ceilDiv(b[h].size, SECTOR) < e
                            /\ h < t => h + ceilDiv(b[h].size, SECTOR) < t
                            /\ h > t => h >= t + m
  <2> TAKE h \in Headers(b)
  <2>1. h > t => tarNext(b, t) <= h
    BY <1>1 DEF Archive, IsWalk
  <2>2. /\ h \in Nat /\ h \in Blocks /\ ceilDiv(b[h].size, SECTOR) \in Nat
        /\ h + ceilDiv(b[h].size, SECTOR) < e
    BY FilesAreApart
  <2>3. h < t => h + ceilDiv(b[h].size, SECTOR) < t
    BY <1>1, FilesAreApart
  <2> QED BY <1>1, <1>4, <2>1, <2>2, <2>3
<1>6. PICK p \in 1 .. n : c[p] = t
  BY <1>1, <1>3
<1> DEFINE a == [j \in 1 .. n - 1 |-> IF j < p THEN c[j] ELSE c[j + 1] - m]
<1> HIDE DEF d, t, m, e, c, n
<1>7. \A j \in 1 .. n - 1 : /\ j \in 1 .. n /\ j + 1 \in 1 .. n
                            /\ j < p => c[j] < t /\ c[j] \in Headers(b) /\ a[j] = c[j]
                            /\ ~(j < p) => c[j + 1] > t /\ c[j + 1] \in Headers(b) /\ a[j] = c[j + 1] - m
  <2> TAKE j \in 1 .. n - 1
  <2>1. j \in 1 .. n /\ j + 1 \in 1 .. n
    BY <1>2
  <2>2. j < p => c[j] < t /\ c[j] \in Headers(b)
    BY <1>2, <1>3, <1>6, <2>1
  <2>3. ~(j < p) => p < j + 1
    BY <1>2, <1>6
  <2>4. ~(j < p) => c[p] < c[j + 1] /\ c[j + 1] \in Headers(b)
    BY <1>2, <1>3, <1>6, <2>1, <2>3
  <2>5. c[p] < c[j + 1] => c[j + 1] > t
    BY <1>4, <1>5, <1>6, <2>1, <1>2
  <2> QED BY <2>1, <2>2, <2>4, <2>5
<1> HIDE DEF a
<1>8. \A j \in 1 .. n - 1 : a[j] \in Nat
  <2> TAKE j \in 1 .. n - 1
  <2>1. CASE j < p
    BY <1>5, <1>7, <2>1
  <2>2. CASE ~(j < p)
    <3>1. c[j + 1] \in Headers(b) /\ c[j + 1] > t /\ a[j] = c[j + 1] - m
      BY <1>7, <2>2
    <3>2. c[j + 1] \in Nat /\ c[j + 1] >= t + m
      BY <1>5, <3>1
    <3> QED BY <1>1, <1>4, <3>1, <3>2
  <2> QED BY <2>1, <2>2
<1>9. a \in Seq(Nat) /\ Len(a) = n - 1 /\ DOMAIN a = 1 .. n - 1
  <2>1. n - 1 \in Nat
    BY <1>2, <1>6
  <2>2. a \in [1 .. n - 1 -> Nat]
    BY <1>8 DEF a
  <2>3. DOMAIN a = 1 .. n - 1
    BY DEF a
  <2> QED BY <2>1, <2>2, <2>3
<1>10. Lists(a, Headers(d))
  <2>1. ASSUME NEW i \in 1 .. n - 1, NEW j \in 1 .. n - 1, i < j PROVE a[i] < a[j]
    <3>1. c[i] < c[j] /\ c[i + 1] < c[j + 1]
      BY <1>2, <1>3, <1>7, <2>1
    <3>2. /\ i \in 1 .. n /\ j \in 1 .. n /\ i + 1 \in 1 .. n /\ j + 1 \in 1 .. n
      BY <1>7
    <3>3. c[i] \in Nat /\ c[j] \in Nat /\ c[i + 1] \in Nat /\ c[j + 1] \in Nat
      BY <1>2, <1>5, <3>2
    <3>4. CASE j < p
      BY <1>6, <1>7, <2>1, <3>1, <3>4
    <3>5. CASE ~(j < p) /\ i < p
      <4>1. a[i] = c[i] /\ c[i] < t /\ c[j + 1] >= t + m /\ a[j] = c[j + 1] - m
        BY <1>5, <1>7, <3>5
      <4> QED BY <1>1, <1>4, <3>3, <4>1
    <3>6. CASE ~(j < p) /\ ~(i < p)
      BY <1>1, <1>7, <3>1, <3>3, <3>6
    <3> QED BY <3>4, <3>5, <3>6
  <2>2. ASSUME NEW i \in 1 .. n - 1 PROVE a[i] \in Headers(d)
    BY <1>1, <1>7
  <2>3. ASSUME NEW x \in Headers(d) PROVE \E i \in 1 .. n - 1 : a[i] = x
    <3>1. CASE x \in Headers(b) /\ x < t
      <4>1. PICK i \in 1 .. n : c[i] = x
        BY <1>3, <3>1
      <4>2. i < p
        <5>1. p < i => c[p] < c[i]
          BY <1>3, <1>6
        <5>2. x \in Nat /\ t \in Nat /\ i \in Nat /\ p \in Nat
          BY <1>2, <1>4, <1>5, <3>1
        <5>3. i # p /\ ~(c[p] < c[i])
          BY <1>6, <3>1, <4>1, <5>2
        <5> QED BY <5>1, <5>2, <5>3
      <4>3. i \in 1 .. n - 1
        BY <1>2, <1>6, <4>2
      <4> QED BY <1>7, <4>1, <4>2, <4>3
    <3>2. CASE \E h \in Headers(b) : h > t /\ x = h - m
      <4>1. PICK h \in Headers(b) : h > t /\ x = h - m
        BY <3>2
      <4>2. PICK i \in 1 .. n : c[i] = h
        BY <1>3
      <4>3. p < i
        <5>1. i < p => c[i] < c[p]
          BY <1>3, <1>6
        <5>2. h \in Nat /\ t \in Nat /\ i \in Nat /\ p \in Nat
          BY <1>2, <1>4, <1>5, <4>1
        <5>3. i # p /\ ~(c[i] < c[p])
          BY <1>6, <4>1, <4>2, <5>2
        <5> QED BY <5>1, <5>2, <5>3
      <4>4. i - 1 \in 1 .. n - 1 /\ ~(i - 1 < p) /\ (i - 1) + 1 = i
        BY <1>2, <1>6, <4>3
      <4>5. a[i - 1] = x
        BY <1>7, <4>1, <4>2, <4>4
      <4> QED BY <4>4, <4>5
    <3> QED BY <1>1, <3>1, <3>2
  <2> QED BY <1>9, <2>1, <2>2, <2>3 DEF Lists
<1>11. Chain(d) = a
  BY <1>1, <1>10, ChainOfArchive, OneListing
<1>12. ASSUME NEW j \in 1 .. n - 1
       PROVE  FileAt(d, a[j]) = FileAt(b, c[IF j < p THEN j ELSE j + 1])
  <2>1. CASE j < p
    <3> DEFINE h == c[j]
    <3>1. h \in Headers(b) /\ h < t /\ a[j] = h
      BY <1>7, <2>1
    <3> HIDE DEF h
    <3>2. d[h] = b[h]
      BY <1>1, <1>5, <3>1
    <3>3. ASSUME NEW i \in 1 .. ceilDiv(b[h].size, SECTOR) PROVE d[h + i] = b[h + i]
      <4>1. h \in Nat /\ ceilDiv(b[h].size, SECTOR) \in Nat /\ h + ceilDiv(b[h].size, SECTOR) < t
        BY <1>5, <3>1
      <4>2. h + i \in Nat /\ h + i < t
        BY <1>4, <4>1
      <4>3. h + i \in Blocks
        BY <1>1, <1>4, <4>2, BlocksType
      <4> QED BY <1>1, <4>2, <4>3
    <3>4. FileAt(d, h) = FileAt(b, h)
      BY <3>2, <3>3, SameFile
    <3> QED BY <2>1, <3>1, <3>4 DEF h
  <2>2. CASE ~(j < p)
    <3> DEFINE h == c[j + 1]
    <3>1. h \in Headers(b) /\ h > t /\ a[j] = h - m
      BY <1>7, <2>2
    <3> HIDE DEF h
    <3>2. /\ h \in Nat /\ ceilDiv(b[h].size, SECTOR) \in Nat /\ h >= t + m
          /\ h + ceilDiv(b[h].size, SECTOR) < e
      BY <1>5, <3>1
    <3>3. ASSUME NEW i \in 0 .. ceilDiv(b[h].size, SECTOR) PROVE d[(h - m) + i] = b[h + i]
      <4> DEFINE q == (h - m) + i
      <4>1. q \in Nat /\ q >= t /\ q < e - m /\ q + m = h + i
        BY <1>1, <1>4, <3>2
      <4> HIDE DEF q
      <4>2. q \in Blocks
        BY <1>1, <1>4, <4>1, BlocksType
      <4>3. d[q] = b[q + m]
        BY <1>1, <4>1, <4>2
      <4> QED BY <4>1, <4>3 DEF q
    <3>4. d[h - m] = b[h]
      <4>1. 0 \in 0 .. ceilDiv(b[h].size, SECTOR) /\ (h - m) + 0 = h - m /\ h + 0 = h
        BY <1>1, <3>2
      <4> QED BY <3>3, <4>1
    <3>5. \A i \in 1 .. ceilDiv(b[h].size, SECTOR) : d[(h - m) + i] = b[h + i]
      BY <3>2, <3>3
    <3>6. FileAt(d, h - m) = FileAt(b, h)
      BY <3>4, <3>5, SameFile
    <3> QED BY <2>2, <3>1, <3>6 DEF h
  <2> QED BY <2>1, <2>2
<1>13. FilesOf(d) = [j \in 1 .. n - 1 |-> FileAt(d, a[j])] /\ FilesOf(b) = [k \in 1 .. n |-> FileAt(b, c[k])]
  BY <1>2, <1>9, <1>11, Zenon DEF FilesOf, c
<1>14. FilesOf(d) = Dropped(FilesOf(b), n, p)
  <2>1. \A j \in 1 .. n - 1 : (IF j < p THEN j ELSE j + 1) \in 1 .. n
    BY <1>7
  <2> QED BY <1>12, <1>13, <2>1 DEF Dropped
<1> QED BY <1>2, <1>6, <1>14 DEF d, t, c, n

\* What the list of files knows of a name is what tarFind finds.
LEMMA FileListFinds ==
  ASSUME NEW b, Archive(b), NEW f
  PROVE  /\ DOMAIN FilesOf(b) = 1 .. Len(Chain(b))
         /\ \A k \in DOMAIN FilesOf(b) : FilesOf(b)[k].name = f => Chain(b)[k] = tarFind(b, f)
         /\ (\E k \in DOMAIN FilesOf(b) : FilesOf(b)[k].name = f) <=> tarFind(b, f) # NULL
         /\ \A k \in DOMAIN FilesOf(b) : Chain(b)[k] = tarFind(b, f) => FilesOf(b)[k].name = f
         /\ \A k \in DOMAIN FilesOf(b) : /\ FilesOf(b)[k].name = b[Chain(b)[k]].name
                                         /\ FilesOf(b)[k].size = b[Chain(b)[k]].size
<1> DEFINE c == Chain(b)
           n == Len(Chain(b))
           t == tarFind(b, f)
<1>1. /\ Lists(c, Headers(b)) /\ DOMAIN c = 1 .. n /\ \A k \in 1 .. n : c[k] \in Headers(b)
      /\ \A x \in Headers(b) : \E i \in 1 .. n : c[i] = x
  BY ChainOfArchive DEF Lists
<1>2. /\ t = NULL <=> \A h \in Headers(b) : b[h].name # f
      /\ t # NULL => t \in Headers(b) /\ b[t].name = f
      /\ \A h \in Headers(b) : b[h].name = f => t = h
      /\ NULL \notin Headers(b)
  BY ArchiveFinds, BlocksType DEF Headers, NULL
<1> HIDE DEF c, n, t
<1>3. FilesOf(b) = [k \in 1 .. n |-> FileAt(b, c[k])]
  BY <1>1, Zenon DEF FilesOf, c
<1>4. DOMAIN FilesOf(b) = 1 .. n
  BY <1>3
<1>5. \A k \in 1 .. n : FilesOf(b)[k].name = b[c[k]].name /\ FilesOf(b)[k].size = b[c[k]].size
  BY <1>3 DEF FileAt
<1>6. \A k \in 1 .. n : FilesOf(b)[k].name = f <=> c[k] = t
  BY <1>1, <1>2, <1>5
<1>7. (\E k \in 1 .. n : FilesOf(b)[k].name = f) <=> t # NULL
  BY <1>1, <1>2, <1>6
<1> QED BY <1>4, <1>5, <1>6, <1>7 DEF c, n, t

LEMMA ListedFiles ==
  ASSUME NEW b, Archive(b)
  PROVE  /\ tarList(b) = [k \in DOMAIN FilesOf(b) |-> FilesOf(b)[k].name]
         /\ \A i, j \in DOMAIN FilesOf(b) : FilesOf(b)[i].name = FilesOf(b)[j].name => i = j
<1> DEFINE c == Chain(b)
           n == Len(Chain(b))
<1>1. /\ Lists(c, Headers(b)) /\ n \in Nat /\ \A k \in 1 .. n : c[k] \in Headers(b)
      /\ \A i, j \in 1 .. n : i < j => c[i] < c[j]
      /\ tarList(b) = [k \in 1 .. n |-> b[c[k]].name]
  BY ChainOfArchive DEF Lists
<1>2. DOMAIN FilesOf(b) = 1 .. n /\ \A k \in 1 .. n : FilesOf(b)[k].name = b[c[k]].name
  BY FileListFinds
<1>3. \A h \in Headers(b) : h \in Nat
  BY BlocksType DEF Headers
<1>4. \A h, k \in Headers(b) : b[h].name = b[k].name => h = k
  BY DEF Archive
<1> HIDE DEF c, n
<1>5. ASSUME NEW i \in 1 .. n, NEW j \in 1 .. n, b[c[i]].name = b[c[j]].name PROVE i = j
  <2>1. c[i] = c[j] /\ c[i] \in Nat /\ c[j] \in Nat
    BY <1>1, <1>3, <1>4, <1>5
  <2> QED BY <1>1, <2>1
<1> QED BY <1>1, <1>2, <1>5

\* A file that exists is read, one that does not is made.
LEMMA ReadsSize ==
  ASSUME NEW b, Archive(b), NEW f
  PROVE  /\ touchMakes(b, f) <=> tarFind(b, f) = NULL
         /\ tarFind(b, f) # NULL => tarRead(b, f) = b[tarFind(b, f)].size
         /\ tarFind(b, f) = NULL => tarRead(b, f) = -1
<1>1. tarFind(b, f) # NULL => b[tarFind(b, f)].size \in Nat
  BY ArchiveFinds DEF Archive, Buffer, Headers
<1> QED BY <1>1 DEF touchMakes, tarRead

\* The list's own words for the archive's
LEMMA ListWords ==
  ASSUME Archive(tarBuf), NEW f
  PROVE  /\ Directory!Exists(f) <=> tarFind(tarBuf, f) # NULL
         /\ \A k \in Directory!Position(f) : Files[k].size = tarBuf[tarFind(tarBuf, f)].size
         /\ tarFind(tarBuf, f) = NULL => Directory!Without(f) = Files
         /\ tarFind(tarBuf, f) # NULL => Directory!Without(f) = FilesOf(Removed(tarBuf, f))
<1>1. Files = FilesOf(tarBuf)
  BY DEF Files
<1> DEFINE t == tarFind(tarBuf, f)
           n == Len(Chain(tarBuf))
<1>2. /\ DOMAIN Files = 1 .. n
      /\ \A k \in 1 .. n : Files[k].name = f <=> Chain(tarBuf)[k] = t
      /\ (\E k \in 1 .. n : Files[k].name = f) <=> t # NULL
      /\ \A k \in 1 .. n : Files[k].size = tarBuf[Chain(tarBuf)[k]].size
  BY <1>1, FileListFinds
<1>3. Directory!Position(f) = {k \in 1 .. n : Chain(tarBuf)[k] = t}
  BY <1>2 DEF Directory!Position
<1>4. Directory!Exists(f) <=> t # NULL
  BY <1>2, <1>3 DEF Directory!Exists
<1>5. \A k \in Directory!Position(f) : Files[k].size = tarBuf[t].size
  BY <1>2, <1>3
<1>6. t = NULL => Directory!Without(f) = Files
  BY <1>4 DEF Directory!Without
<1>7. ASSUME t # NULL PROVE Directory!Without(f) = FilesOf(Removed(tarBuf, f))
  <2>1. PICK p \in 1 .. n : /\ Chain(tarBuf)[p] = t
                            /\ n \in Nat
                            /\ FilesOf(Removed(tarBuf, f)) = Dropped(FilesOf(tarBuf), n, p)
    BY <1>7, RemoveDropsFile
  <2>2. Directory!Position(f) = {p}
    <3>1. \A i, j \in 1 .. n : Files[i].name = Files[j].name => i = j
      BY <1>1, <1>2, ListedFiles
    <3>2. \A k \in Directory!Position(f) : k \in 1 .. n /\ Files[k].name = f
      BY <1>2, <1>3
    <3>3. p \in Directory!Position(f)
      BY <1>3, <2>1
    <3> QED BY <3>1, <3>2, <3>3
  <2>3. (CHOOSE k \in Directory!Position(f) : TRUE) = p
    BY <2>2
  <2>4. Len(Files) = n
    <3>1. Files = [k \in 1 .. n |-> Files[k]]
      <4>1. Files = [k \in DOMAIN Chain(tarBuf) |-> FileAt(tarBuf, Chain(tarBuf)[k])]
        BY DEF Files, FilesOf
      <4> QED BY <1>2, <4>1
    <3> QED BY <2>1, <3>1
  <2>5. Directory!Without(f) = [j \in 1 .. n - 1 |-> Files[IF j < p THEN j ELSE j + 1]]
    BY <1>4, <1>7, <2>3, <2>4, Zenon DEF Directory!Without
  <2> QED BY <1>1, <2>1, <2>5 DEF Dropped
<1> QED BY <1>4, <1>5, <1>6, <1>7

\* Each step of the archive is one of the list's, or none.
LEMMA ListSteps ==
  ASSUME Archive(tarBuf), [UstarNext]_ustarVars
  PROVE  [Directory!Next]_<<Files, ret, listed>>
<1>0. Files = FilesOf(tarBuf) /\ Files' = FilesOf(tarBuf')
  BY DEF Files
<1>1. ASSUME NEW f \in Names, RoomToTouch, Touch(f) PROVE Directory!Touch(f)
  <2>1. CASE tarFind(tarBuf, f) = NULL
    <3>1. tarBuf' = Touched(tarBuf, f) /\ ret' = 1 /\ listed' = listed
      BY <1>1, <2>1, ReadsSize DEF Touch
    <3>2. Files' = Append(Files, Directory!Empty(f))
      BY <1>0, <1>1, <2>1, <3>1, TouchAppendsFile DEF RoomToTouch, Directory!Empty
    <3> QED BY <2>1, <3>1, <3>2, ListWords DEF Directory!Touch
  <2>2. CASE tarFind(tarBuf, f) # NULL
    <3>1. tarBuf' = tarBuf /\ ret' = 0 /\ listed' = listed
      BY <1>1, <2>2, ReadsSize DEF Touch
    <3> QED BY <1>0, <2>2, <3>1, ListWords DEF Directory!Touch
  <2> QED BY <2>1, <2>2
<1>2. ASSUME NEW f \in Names, Rm(f) PROVE Directory!Rm(f)
  <2>1. CASE tarFind(tarBuf, f) = NULL
    <3>1. tarBuf' = tarBuf /\ ret' = 0 /\ listed' = listed
      BY <1>2, <2>1, ReadsSize DEF Rm
    <3> QED BY <1>0, <2>1, <3>1, ListWords DEF Directory!Rm
  <2>2. CASE tarFind(tarBuf, f) # NULL
    <3>1. ~(tarRead(tarBuf, f) < 0)
      BY <2>2, ReadsSize DEF touchMakes
    <3>2. tarBuf' = Removed(tarBuf, f) /\ ret' = 1 /\ listed' = listed
      BY <1>2, <3>1 DEF Rm
    <3> QED BY <1>0, <2>2, <3>2, ListWords DEF Directory!Rm
  <2> QED BY <2>1, <2>2
<1>3. ASSUME NEW f \in Names, NEW size \in Sizes, Edit(f, size) PROVE Directory!Edit(f)
  <2>1. CASE tarFind(tarBuf, f) = NULL
    <3>1. tarBuf' = tarBuf /\ ret' = 1 /\ listed' = listed
      BY <1>3, <2>1 DEF Edit
    <3> QED BY <1>0, <2>1, <3>1, ListWords DEF Directory!Edit
  <2>2. CASE tarFind(tarBuf, f) # NULL
    <3> DEFINE r == Removed(tarBuf, f)
    <3>1. tarBuf' = Touched(r, f) /\ ret' = 1 /\ listed' = listed
      BY <1>3, <2>2, EditKeepsArchive DEF Edit
    <3>2. Archive(r) /\ tarGetEnd(r) \in Blocks /\ tarFind(r, f) = NULL
      BY <2>2, RemoveKeepsArchive
    <3>3. FilesOf(r) = Directory!Without(f)
      BY <2>2, ListWords
    <3> HIDE DEF r
    <3>4. FilesOf(Touched(r, f)) = Append(FilesOf(r), Directory!Empty(f))
      BY <3>2, TouchAppendsFile DEF Directory!Empty
    <3> QED BY <1>0, <2>2, <3>1, <3>3, <3>4, ListWords DEF Directory!Edit
  <2> QED BY <2>1, <2>2
<1>4. ASSUME Look PROVE Directory!List \/ \E f \in Names : Directory!Size(f)
  <2>1. tarBuf' = tarBuf /\ Files' = Files
    BY <1>0, <1>4 DEF Look
  <2>2. CASE listed' = tarList(tarBuf) /\ ret' = ret
    BY <1>0, <2>1, <2>2, ListedFiles DEF Directory!List
  <2>3. ASSUME NEW f \in Names, ret' = tarRead(tarBuf, f), listed' = listed
        PROVE  Directory!Size(f)
    <3>1. CASE tarFind(tarBuf, f) = NULL
      BY <2>1, <2>3, <3>1, ListWords, ReadsSize DEF Directory!Size
    <3>2. CASE tarFind(tarBuf, f) # NULL
      <4>1. ret' = tarBuf[tarFind(tarBuf, f)].size
        BY <2>3, <3>2, ReadsSize
      <4>2. \E k \in Directory!Position(f) : Files[k].size = tarBuf[tarFind(tarBuf, f)].size
        <5>1. Directory!Position(f) # {}
          BY <3>2, ListWords DEF Directory!Exists
        <5> QED BY <5>1, ListWords
      <4>3. \E k \in Directory!Position(f) : ret' = Files[k].size
        BY <4>1, <4>2
      <4> QED BY <2>1, <2>3, <3>2, <4>3, ListWords DEF Directory!Size
    <3> QED BY <3>1, <3>2
  <2> QED BY <1>4, <2>2, <2>3 DEF Look
<1>5. CASE UNCHANGED ustarVars
  BY <1>0, <1>5 DEF ustarVars
<1> QED BY <1>1, <1>2, <1>3, <1>4, <1>5 DEF UstarNext, Directory!Next

(* The archive that is edited in place by moving blocks is, for its users, *)
(* a list of files: a touch appends, a removal takes one file out and      *)
(* changes no other, an edit leaves the file empty at the end, sizes and   *)
(* listings are those of the list (ustar.c:118-266).                       *)
THEOREM ArchiveIsFileList == UstarSpec => ImplementsFileList
<1>1. UstarInit => Directory!Init
  <2> SUFFICES ASSUME UstarInit PROVE Directory!Init
    OBVIOUS
  <2>1. Archive(tarBuf)
    BY InitialArchive
  <2>2. Directory!DistinctNames
    BY <2>1, ListedFiles DEF Directory!DistinctNames, Files
  <2> QED BY <2>2 DEF UstarInit, Directory!Init
<1>2. Archive(tarBuf) /\ [UstarNext]_ustarVars => [Directory!Next]_<<Files, ret, listed>>
  BY ListSteps
<1> QED BY <1>1, <1>2, BufferIsArchive, PTL DEF UstarSpec, ImplementsFileList, Directory!Spec

-----------------------------------------------------------------------------
(* Buffers that are no archives, as a flush cut half-way leaves them       *)

LEMMA FoundIsHeader ==
  ASSUME NEW b, Buffer(b), NEW f, tarFind(b, f) # NULL
  PROVE  /\ tarFind(b, f) \in Headers(b) /\ tarFind(b, f) \in Blocks /\ tarFind(b, f) \in Nat
         /\ b[tarFind(b, f)].name = f /\ b[tarFind(b, f)].size \in Nat
         /\ tarValid(b, tarFind(b, f))
<1>1. PICK W, e : IsWalk(b, 0, W, e)
  BY WalkExists
<1>2. FoundIn(b, W, f, tarFind(b, f))
  BY <1>1, WalkMeans
<1>3. tarFind(b, f) \in W /\ b[tarFind(b, f)].name = f
  BY <1>2 DEF FoundIn
<1>4. tarValid(b, tarFind(b, f)) /\ tarFind(b, f) \in Nat
  BY <1>1, <1>3 DEF IsWalk
<1> QED BY <1>3, <1>4 DEF tarValid, Headers, Buffer

\* A file is made if it is not there.
LEMMA MakesAbsent ==
  ASSUME NEW b, Buffer(b), NEW f
  PROVE  touchMakes(b, f) <=> tarFind(b, f) = NULL
<1>1. tarFind(b, f) # NULL => b[tarFind(b, f)].size \in Nat
  BY FoundIsHeader
<1> QED BY <1>1 DEF touchMakes, tarRead

\* Every edit leaves a buffer.
LEMMA EditsKeepBuffers ==
  ASSUME NEW b, Buffer(b), NEW f, NEW size \in Nat
  PROVE  /\ Buffer(Touched(b, f))
         /\ tarFind(b, f) # NULL => Buffer(Removed(b, f)) /\ Buffer(Edited(b, f, size))
<1>1. ASSUME NEW c, Buffer(c) PROVE Buffer(Touched(c, f))
  <2>1. CASE tarGetEnd(c) \in Blocks
    <3> DEFINE e == tarGetEnd(c)
               d == Touched(c, f)
    <3>1. d = [c EXCEPT ![e] = Header(f, 0)]
      BY <2>1 DEF Touched
    <3>2. c = [i \in Blocks |-> c[i]] /\ \A i \in Blocks : c[i].kind = "header" => c[i].size \in Nat
      BY <1>1 DEF Buffer
    <3> HIDE DEF e, d
    <3>3. d = [i \in Blocks |-> d[i]] /\ \A i \in Blocks : d[i] = c[i] \/ d[i] = Header(f, 0)
      BY <3>1, <3>2
    <3>4. \A i \in Blocks : d[i].kind = "header" => d[i].size \in Nat
      BY <3>2, <3>3, HeaderFields
    <3>5. Buffer(d)
      BY <3>3, <3>4 DEF Buffer
    <3> QED BY <3>5 DEF d
  <2>2. CASE tarGetEnd(c) \notin Blocks
    BY <1>1, <2>2 DEF Touched
  <2> QED BY <2>1, <2>2
<1>2. ASSUME tarFind(b, f) # NULL PROVE Buffer(Removed(b, f))
  <2> DEFINE t == tarFind(b, f)
             n == FileBlocks(b, t)
             d == Removed(b, f)
  <2>1. t \in Nat /\ b[t].size \in Nat
    BY <1>2, FoundIsHeader
  <2>2. n \in Nat
    BY <2>1, CeilDivNat DEF FileBlocks
  <2>3. d = [i \in Blocks |-> IF i >= TAR_MAX_SECTORS - n THEN Zero
                              ELSE IF i < t THEN b[i] ELSE b[i + n]]
    BY DEF Removed, FileBlocks
  <2> HIDE DEF t, n, d
  <2>4. d = [i \in Blocks |-> d[i]]
    BY <2>3
  <2>5. ASSUME NEW i \in Blocks PROVE d[i] = Zero \/ \E k \in Blocks : d[i] = b[k]
    <3>1. CASE i >= TAR_MAX_SECTORS - n
      BY <2>3, <3>1
    <3>2. CASE ~(i >= TAR_MAX_SECTORS - n)
      <4>1. i + n \in Blocks
        BY <2>2, <3>2, BlocksType
      <4> QED BY <2>3, <3>2, <4>1
    <3> QED BY <3>1, <3>2
  <2>6. \A i \in Blocks : d[i].kind = "header" => d[i].size \in Nat
    BY <2>5, HeaderFields DEF Buffer
  <2>7. Buffer(d)
    BY <2>4, <2>6 DEF Buffer
  <2> QED BY <2>7 DEF d
<1>3. ASSUME NEW c, Buffer(c) PROVE Buffer(Written(c, f, size))
  <2> DEFINE d == Written(c, f, size)
  <2>1. d = [i \in Blocks |-> d[i]]
    BY DEF Written
  <2>2. \A i \in Blocks : \/ d[i] = Header(f, size) \/ d[i] = c[i]
                          \/ \E k : d[i] = Data(f, k)
    BY DEF Written
  <2> HIDE DEF d
  <2>3. \A k : Data(f, k).kind # "header"
    BY DEF Data
  <2>4. \A i \in Blocks : d[i].kind = "header" => d[i].size \in Nat
    BY <1>3, <2>2, <2>3, HeaderFields DEF Buffer
  <2>5. Buffer(d)
    BY <2>1, <2>4 DEF Buffer
  <2> QED BY <2>5 DEF d
<1> QED BY <1>1, <1>2, <1>3 DEF Edited

\* Where two buffers have the same blocks below p, walks visit the same headers
\* below p, and if one comes by p so does the other.
LEMMA WalksAgree ==
  ASSUME NEW b, NEW d, Buffer(b), Buffer(d), NEW p \in Nat,
         \A i \in Blocks : i < p => d[i] = b[i]
  PROVE  \A c \in Nat : \A W, e, X, x :
           IsWalk(b, c, W, e) /\ IsWalk(d, c, X, x) =>
             /\ \A h \in Nat : h < p => (h \in W <=> h \in X)
             /\ c <= p /\ p \in W \cup {e} => p \in X \cup {x}
<1> DEFINE Agree(c, W, e, X, x) == /\ \A h \in Nat : h < p => (h \in W <=> h \in X)
                                   /\ c <= p /\ p \in W \cup {e} => p \in X \cup {x}
           S == {c \in Nat : \A W, e, X, x :
                   IsWalk(b, c, W, e) /\ IsWalk(d, c, X, x) => Agree(c, W, e, X, x)}
<1>0. ASSUME NEW c \in Nat, c >= p, NEW W, NEW e, NEW X, NEW x, IsWalk(b, c, W, e), IsWalk(d, c, X, x)
      PROVE  Agree(c, W, e, X, x)
  <2>1. /\ \A h \in W : h >= c
        /\ \A h \in X : h >= c
        /\ c \in X \cup {x}
    BY <1>0 DEF IsWalk
  <2> QED BY <1>0, <2>1
<1>1. ASSUME NEW c \in Nat, ~tarValid(b, c) PROVE c \in S
  <2> SUFFICES ASSUME NEW W, NEW e, NEW X, NEW x, IsWalk(b, c, W, e), IsWalk(d, c, X, x), c < p
               PROVE  Agree(c, W, e, X, x)
    BY <1>0
  <2>1. ~tarValid(d, c)
    BY <1>1 DEF tarValid
  <2>2. c = e /\ c = x
    BY <1>1, <2>1 DEF IsWalk
  <2>3. W = {} /\ X = {}
    BY <2>2, WalkEnds
  <2> QED BY <2>2, <2>3
<1>2. ASSUME NEW c \in Nat, tarValid(b, c), tarNext(b, c) \in S PROVE c \in S
  <2> SUFFICES ASSUME NEW W, NEW e, NEW X, NEW x, IsWalk(b, c, W, e), IsWalk(d, c, X, x), c < p
               PROVE  Agree(c, W, e, X, x)
    BY <1>0
  <2>1. d[c] = b[c] /\ tarValid(d, c) /\ tarNext(d, c) = tarNext(b, c)
    BY <1>2 DEF tarValid, tarNext
  <2>2. /\ c \in W /\ tarNext(b, c) \in Nat /\ tarNext(b, c) > c
        /\ IsWalk(b, tarNext(b, c), W \ {c}, e)
    BY <1>2, WalkOn
  <2>3. c \in X /\ IsWalk(d, tarNext(b, c), X \ {c}, x)
    <3>1. c \in X /\ IsWalk(d, tarNext(d, c), X \ {c}, x)
      BY <2>1, WalkOn
    <3> QED BY <2>1, <3>1
  <2>4. Agree(tarNext(b, c), W \ {c}, e, X \ {c}, x)
    BY <1>2, <2>2, <2>3
  <2>5. c \in Nat /\ c # p /\ c < p /\ tarNext(b, c) \in Nat
    BY <2>2
  <2>6. p \in W \cup {e} => tarNext(b, c) <= p
    <3>1. /\ e \in Nat /\ tarNext(b, c) <= e
          /\ \A k \in W \ {c} : tarNext(b, c) <= k
      BY <2>2 DEF IsWalk
    <3> QED BY <2>5, <3>1
  <2>7. \A h \in Nat : h < p => (h \in W <=> h \in X)
    BY <2>2, <2>3, <2>4
  <2>8. p \in W \cup {e} => p \in X \cup {x}
    BY <2>4, <2>5, <2>6
  <2> QED BY <2>7, <2>8
<1>3. Nat \subseteq S
  <2> HIDE DEF S
  <2> QED BY <1>1, <1>2, WalkInduction
<1> QED BY <1>3

-----------------------------------------------------------------------------
(* The archive on disk *)

\* What the commands, and close, leave to do, and what is left of it later
Todos == {<<>>, <<"load">>, <<"list">>, <<"load", "list">>, <<"flush">>,
          <<"flush", "load", "list">>, <<"edit", "flush">>,
          <<"load", "edit", "flush">>}

IsBuffer(b) == b = [i \in Blocks |-> b[i]]

\* A loop has done the sectors below its index; outside one all are the same.
Looping == InPhase("load") \/ InPhase("flush")

Agreement ==
  lost + misread = 0 =>
    /\ Looping => \A i \in Blocks : i < sector => tarBuf[i] = disk[i]
    /\ ~Looping => tarBuf = disk

(* The inductive invariant *)
IInv ==
  /\ IsBuffer(tarBuf) /\ IsBuffer(disk)
  /\ todo \in Todos
  /\ sector \in Blocks /\ (~Looping => sector = 0)
  /\ lost \in Nat /\ misread \in Nat
  /\ Agreement

-----------------------------------------------------------------------------
\* The phases that can follow each phase.
LEMMA Phases ==
  /\ \A t \in Todos : t # <<>> => Tail(t) \in Todos
  /\ \A t \in Todos : t # <<>> /\ Head(t) = "edit" => Tail(t) = <<"flush">>
  /\ \A t \in Todos : t # <<>> /\ Head(t) = "list" => Tail(t) = <<>>
  /\ \A t \in Todos : t # <<>> => Head(t) \in {"load", "list", "flush", "edit"}
BY DEF Todos

\* Two buffers with the same blocks are the same.
LEMMA SameBlocks ==
  ASSUME NEW b, NEW d, IsBuffer(b), IsBuffer(d), \A i \in Blocks : b[i] = d[i]
  PROVE  b = d
BY DEF IsBuffer

\* Changing a block leaves a buffer.
LEMMA OneBlock ==
  ASSUME NEW b, IsBuffer(b), NEW k \in Blocks, NEW x
  PROVE  /\ IsBuffer([b EXCEPT ![k] = x])
         /\ \A i \in Blocks : [b EXCEPT ![k] = x][i] = IF i = k THEN x ELSE b[i]
BY DEF IsBuffer

\* Every edit of the archive leaves a buffer (ustar.c:212-266).
LEMMA EditsAreBuffers ==
  ASSUME NEW b, IsBuffer(b), NEW f, NEW size
  PROVE  IsBuffer(Touched(b, f)) /\ IsBuffer(Removed(b, f)) /\ IsBuffer(Edited(b, f, size))
<1>1. \A c : IsBuffer(c) => IsBuffer(Touched(c, f))
  BY OneBlock DEF Touched
<1>2. \A c : IsBuffer(Removed(c, f))
  BY DEF Removed, IsBuffer
<1>3. \A c : IsBuffer(Written(c, f, size))
  BY DEF Written, IsBuffer
<1> QED
  BY <1>1, <1>2, <1>3 DEF Edited

\* tarFlush and tarLoad: a sector in step is one more below the index, and the
\* last one leaves the two the same (ustar.c:200-206).
LEMMA SectorStep ==
  ASSUME IInv, Looping, NextSector,
         IsBuffer(tarBuf'), IsBuffer(disk'), lost' \in Nat, misread' \in Nat,
         lost' + misread' = 0 =>
           /\ lost + misread = 0
           /\ tarBuf'[sector] = disk'[sector]
           /\ \A i \in Blocks : i < sector => tarBuf'[i] = tarBuf[i] /\ disk'[i] = disk[i]
  PROVE  IInv'
<1>0. todo # <<>> /\ todo \in Todos /\ sector \in Blocks /\ TAR_MAX_SECTORS \in Nat \ {0}
  BY UstarAssumption DEF IInv, Looping, InPhase
<1>1. todo' \in Todos /\ sector' \in Blocks
  <2>1. sector' \in Blocks
    BY <1>0 DEF NextSector, Blocks
  <2>2. todo' = todo \/ todo' = Tail(todo)
    BY DEF NextSector
  <2> QED
    BY <1>0, <2>1, <2>2, Phases
<1>2. lost' + misread' = 0 =>
        \A i \in Blocks : i <= sector => tarBuf'[i] = disk'[i]
  BY <1>0 DEF IInv, Agreement, Blocks
<1>3. CASE sector + 1 < TAR_MAX_SECTORS
  <2>1. Looping' /\ sector' = sector + 1
    BY <1>3 DEF NextSector, Looping, InPhase
  <2>2. Agreement'
    BY <1>0, <1>2, <2>1 DEF Agreement, Blocks
  <2> QED
    BY <1>1, <2>1, <2>2 DEF IInv
<1>4. CASE ~(sector + 1 < TAR_MAX_SECTORS)
  <2>1. sector' = 0
    BY <1>4 DEF NextSector
  <2>2. \A i \in Blocks : i <= sector
    BY <1>0, <1>4 DEF Blocks
  <2>3. lost' + misread' = 0 => tarBuf' = disk'
    BY <1>2, <2>2, SameBlocks
  <2>4. Agreement'
    BY <2>1, <2>3 DEF Agreement, Blocks
  <2> QED
    BY <1>1, <2>1, <2>4 DEF IInv
<1> QED
  BY <1>3, <1>4

\* Each of the drive's four answers.
LEMMA DriveStep ==
  ASSUME IInv, Sectors
  PROVE  IInv'
<1>0. /\ IsBuffer(tarBuf) /\ IsBuffer(disk) /\ sector \in Blocks
      /\ lost \in Nat /\ misread \in Nat
  BY DEF IInv
<1>1. CASE WriteSector
  <2>1. Looping /\ NextSector /\ UNCHANGED <<tarBuf, lost, misread>>
        /\ disk' = [disk EXCEPT ![sector] = tarBuf[sector]]
    BY <1>1 DEF WriteSector, Looping, ustarVars
  <2>2. /\ IsBuffer([disk EXCEPT ![sector] = tarBuf[sector]])
        /\ \A i \in Blocks : [disk EXCEPT ![sector] = tarBuf[sector]][i]
                             = IF i = sector THEN tarBuf[sector] ELSE disk[i]
    BY <1>0, OneBlock
  <2>3. /\ IsBuffer(disk')
        /\ \A i \in Blocks : disk'[i] = IF i = sector THEN tarBuf[i] ELSE disk[i]
    BY <2>1, <2>2
  <2> QED
    BY <1>0, <2>1, <2>3, SectorStep DEF Blocks
<1>2. CASE WriteTimedOut
  <2>1. Looping /\ NextSector /\ UNCHANGED <<tarBuf, disk, misread>> /\ lost' = lost + 1
    BY <1>2 DEF WriteTimedOut, Looping, ustarVars
  <2> QED
    BY <1>0, <2>1, SectorStep
<1>3. CASE ReadSector
  <2>1. Looping /\ NextSector /\ UNCHANGED <<disk, lost, misread>>
        /\ tarBuf' = [tarBuf EXCEPT ![sector] = disk[sector]]
    BY <1>3 DEF ReadSector, Looping, diskVars
  <2>2. /\ IsBuffer([tarBuf EXCEPT ![sector] = disk[sector]])
        /\ \A i \in Blocks : [tarBuf EXCEPT ![sector] = disk[sector]][i]
                             = IF i = sector THEN disk[sector] ELSE tarBuf[i]
    BY <1>0 DEF IsBuffer
  <2>3. /\ IsBuffer(tarBuf')
        /\ \A i \in Blocks : tarBuf'[i] = IF i = sector THEN disk[i] ELSE tarBuf[i]
    BY <2>1, <2>2
  <2> QED
    BY <1>0, <2>1, <2>3, SectorStep DEF Blocks
<1>4. CASE ReadTimedOut
  <2>1. Looping /\ NextSector /\ UNCHANGED <<disk, lost>> /\ misread' = misread + 1
        /\ tarBuf' = [tarBuf EXCEPT ![sector] = Junk]
    BY <1>4 DEF ReadTimedOut, Looping
  <2>2. IsBuffer([tarBuf EXCEPT ![sector] = Junk])
    BY <1>0, OneBlock
  <2> QED
    BY <1>0, <2>1, <2>2, SectorStep
<1> QED
  BY <1>1, <1>2, <1>3, <1>4 DEF Sectors

-----------------------------------------------------------------------------
\* The shell's commands start from the prompt and end where a loop begins.
LEMMA CommandStep ==
  ASSUME IInv, NEW f,
         ShTouch(f) \/ ShRm(f) \/ ShLook \/ \E size \in Sizes : ShWrite(f, size)
  PROVE  IInv'
<1> USE DEF Todos
<1>1. /\ todo = <<>> /\ ~Looping /\ sector = 0 /\ sector \in Blocks
      /\ IsBuffer(tarBuf) /\ IsBuffer(disk) /\ lost \in Nat /\ misread \in Nat
      /\ lost + misread = 0 => tarBuf = disk
  BY DEF IInv, ShTouch, ShRm, ShLook, ShWrite, Prompt, Looping, InPhase, Agreement
<1>2. UNCHANGED <<disk, lost, misread, sector>>
  BY DEF ShTouch, ShRm, ShLook, ShWrite, Begin, diskVars, storageVars
<1>3. IsBuffer(tarBuf')
  BY <1>1, EditsAreBuffers
  DEF ShTouch, ShRm, ShLook, ShWrite, Touch, Rm, ustarVars
<1>4. \/ todo' = <<>> /\ tarBuf' = tarBuf
      \/ todo' \in Todos /\ Looping'
  <2>1. CASE ShTouch(f)
    BY <2>1 DEF ShTouch, Begin, Looping, InPhase
  <2>2. CASE ShRm(f)
    BY <1>1, <2>2 DEF ShRm, Rm, Begin, storageVars, Looping, InPhase
  <2>3. CASE ShLook
    BY <2>3 DEF ShLook, Looping, InPhase
  <2>4. CASE \E size \in Sizes : ShWrite(f, size)
    BY <2>4 DEF ShWrite, Looping, InPhase
  <2> QED
    BY <2>1, <2>2, <2>3, <2>4
<1>5. Agreement'
  BY <1>1, <1>2, <1>4 DEF Agreement, Looping, InPhase, Blocks
<1> QED
  BY <1>1, <1>2, <1>3, <1>4, <1>5 DEF IInv

\* The phases between loops, and a restart.
LEMMA OtherStep ==
  ASSUME IInv, EditPhase \/ ListPhase \/ Reboot \/ PowerLoss
  PROVE  IInv'
<1>0. /\ IsBuffer(tarBuf) /\ IsBuffer(disk) /\ sector \in Blocks /\ todo \in Todos
      /\ lost \in Nat /\ misread \in Nat
  BY DEF IInv
<1>1. CASE EditPhase
  <2>1. todo # <<>> /\ Head(todo) = "edit" /\ sector = 0
    BY <1>1 DEF EditPhase, InPhase, IInv, Looping
  <2>2. todo' = <<"flush">> /\ sector' = 0 /\ UNCHANGED <<disk, lost, misread>>
    BY <1>0, <1>1, <2>1, Phases DEF EditPhase, diskVars
  <2>3. IsBuffer(tarBuf')
    BY <1>0, <1>1, EditsAreBuffers DEF EditPhase, Edit
  <2>4. Looping' /\ Agreement'
    BY <2>2 DEF Looping, InPhase, Agreement, Blocks
  <2> QED
    BY <1>0, <2>1, <2>2, <2>3, <2>4 DEF IInv, Todos
<1>2. CASE ListPhase
  <2>1. todo # <<>> /\ Head(todo) = "list" /\ ~Looping /\ sector = 0
    BY <1>2 DEF ListPhase, InPhase, IInv, Looping
  <2>2. todo' = <<>> /\ sector' = 0 /\ UNCHANGED <<tarBuf, disk, lost, misread>>
    BY <1>0, <1>2, <2>1, Phases DEF ListPhase, diskVars
  <2>3. ~Looping' /\ Agreement'
    BY <2>1, <2>2 DEF Looping, InPhase, Agreement, IInv
  <2> QED
    BY <1>0, <2>1, <2>2, <2>3 DEF IInv, Todos
<1>3. CASE Reboot \/ PowerLoss
  <2>1. /\ tarBuf' = [i \in Blocks |-> Zero] /\ todo' = <<"load">> /\ sector' = 0
        /\ UNCHANGED <<disk, lost, misread>>
    BY <1>3 DEF Reboot, PowerLoss, Restart
  <2>2. IsBuffer(tarBuf')
    BY <2>1 DEF IsBuffer
  <2>3. Looping' /\ Agreement' /\ sector' \in Blocks
    BY <2>1, UstarAssumption DEF Looping, InPhase, Agreement, Blocks
  <2> QED
    BY <1>0, <2>1, <2>2, <2>3 DEF IInv, Todos
<1> QED
  BY <1>1, <1>2, <1>3

\* kmain starts with what the disk holds.
LEMMA InvInit == Init => IInv
<1> SUFFICES ASSUME Init PROVE IInv
  OBVIOUS
<1>1. IsBuffer(tarBuf) /\ disk = tarBuf
  BY DEF Init, StorageInit, UstarInit, IsBuffer
<1>2. todo = <<>> /\ sector = 0 /\ lost = 0 /\ misread = 0
  BY DEF Init, StorageInit
<1>3. 0 \in Blocks
  BY UstarAssumption DEF Blocks
<1> QED
  BY <1>1, <1>2, <1>3 DEF IInv, Todos, Agreement, Looping, InPhase

\* The loops' invariant is inductive.
THEOREM LoopInvariant == Spec => []IInv
<1>1. IInv /\ [Next]_allVars => IInv'
  <2> SUFFICES ASSUME IInv, [Next]_allVars PROVE IInv'
    OBVIOUS
  <2>1. CASE Sectors
    BY <2>1, DriveStep
  <2>2. CASE EditPhase \/ ListPhase \/ Reboot \/ PowerLoss
    BY <2>2, OtherStep
  <2>3. CASE \E f : ShTouch(f) \/ ShRm(f) \/ ShLook \/ \E size \in Sizes : ShWrite(f, size)
    BY <2>3, CommandStep
  <2>4. CASE UNCHANGED allVars
    BY <2>4 DEF allVars, vars, ustarVars, storageVars, IInv, Agreement, Looping, InPhase
  <2> QED
    BY <2>1, <2>2, <2>3, <2>4 DEF Next
<1> QED
  BY <1>1, InvInit, PTL DEF Spec

\* Whatever was edited and wherever the power went, the prompt finds the
\* buffer and the disk the same unless a drive has timed out (ustar.c:200-206).
THEOREM PromptInStep == Spec => []InStep
<1>1. IInv => InStep
  BY DEF IInv, InStep, Agreement, Prompt, Looping, InPhase
<1> QED
  BY <1>1, LoopInvariant, PTL

-----------------------------------------------------------------------------
(* What a command cannot reach: the blocks in front of its file, or of the *)
(* archive's end when there is no such file                                *)
Front(b, f) == IF tarFind(b, f) = NULL THEN tarGetEnd(b) ELSE tarFind(b, f)

\* d has the blocks of b below p.
SameUpTo(b, d, p) == \A i \in Blocks : i < p => d[i] = b[i]

\* A walk comes by the front, and meets no file of that name before.
LEMMA FrontIsSeen ==
  ASSUME NEW b, Buffer(b), NEW f, NEW W, NEW e, IsWalk(b, 0, W, e)
  PROVE  /\ Front(b, f) \in Nat /\ Front(b, f) \in W \cup {e} /\ Front(b, f) <= e
         /\ \A h \in W : h \in Nat /\ (b[h].name = f => h >= Front(b, f))
<1>1. tarGetEnd(b) = e /\ FoundIn(b, W, f, tarFind(b, f))
  BY WalkMeans
<1>2. e \in Nat /\ W \in SUBSET Nat /\ \A h \in W : tarValid(b, h) /\ tarNext(b, h) <= e
  BY DEF IsWalk
<1>3. \A h \in W : h \in Nat /\ h < e
  <2> TAKE h \in W
  <2>1. h \in Nat /\ tarNext(b, h) \in Nat /\ tarNext(b, h) > h
    BY <1>2, NextIsBehind
  <2> QED BY <1>2, <2>1
<1>4. \A h \in W : h # NULL
  BY <1>2 DEF NULL
<1>5. CASE tarFind(b, f) = NULL
  <2>1. \A h \in W : b[h].name # f
    BY <1>1, <1>4, <1>5 DEF FoundIn
  <2> QED BY <1>1, <1>2, <1>3, <1>5, <2>1 DEF Front
<1>6. CASE tarFind(b, f) # NULL
  <2>1. tarFind(b, f) \in W /\ \A h \in W : b[h].name = f => tarFind(b, f) <= h
    BY <1>1, <1>6 DEF FoundIn
  <2>2. tarFind(b, f) \in Nat /\ tarFind(b, f) < e
    BY <1>3, <2>1
  <2> QED BY <1>2, <1>3, <1>6, <2>1, <2>2 DEF Front
<1> QED BY <1>5, <1>6

\* In a buffer that is the same up to the front, the files before it are found
\* where they were (ustar.c:134).
LEMMA FrontFound ==
  ASSUME NEW b, NEW d, Buffer(b), Buffer(d), FilesFit(b), NEW g, NEW f,
         SameUpTo(b, d, Front(b, g)), InFront(b, f, g)
  PROVE  tarFind(d, f) = tarFind(b, f) /\ OnDisk(d, f) = OnDisk(b, f)
<1>1. PICK W, e : IsWalk(b, 0, W, e)
  BY WalkExists
<1>2. PICK X, x : IsWalk(d, 0, X, x)
  BY WalkExists
<1> DEFINE p == Front(b, g)
           h == tarFind(b, f)
<1>3. /\ p \in Nat /\ p \in W \cup {e} /\ p <= e
  BY <1>1, FrontIsSeen
<1>4. /\ h \in W /\ b[h].name = f /\ \A k \in W : b[k].name = f => h <= k
  BY <1>1, WalkMeans DEF FoundIn, InFront
<1>5. /\ \A k \in W : /\ k \in Nat /\ k \in Blocks /\ tarNext(b, k) \in Nat /\ tarNext(b, k) > k
                      /\ k < p => tarNext(b, k) <= p
      /\ \A k \in X : k \in Nat /\ k \in Blocks
  <2>1. /\ \A k \in W : k \in Nat /\ tarValid(b, k) /\ tarNext(b, k) <= e
        /\ \A j, k \in W : j < k => tarNext(b, j) <= k
        /\ \A k \in X : k \in Nat /\ tarValid(d, k)
    BY <1>1, <1>2 DEF IsWalk
  <2>2. \A k \in W : k \in Blocks /\ tarNext(b, k) \in Nat /\ tarNext(b, k) > k
    BY <2>1, NextIsBehind
  <2> QED BY <1>3, <2>1, <2>2 DEF tarValid
<1>6. h < p
  <2>1. CASE tarFind(b, g) = NULL
    <3>1. p = e
      BY <1>1, <2>1, WalkMeans DEF Front
    <3>2. tarNext(b, h) <= e
      BY <1>1, <1>4 DEF IsWalk
    <3> QED BY <1>3, <1>4, <1>5, <3>1, <3>2
  <2>2. CASE tarFind(b, g) # NULL
    BY <2>2 DEF Front, InFront
  <2> QED BY <2>1, <2>2
<1>7. \A i \in Blocks : i < p => d[i] = b[i]
  BY DEF SameUpTo
<1>8. \A k \in Nat : k < p => (k \in W <=> k \in X)
  <2> HIDE DEF p
  <2> QED BY <1>1, <1>2, <1>3, <1>7, WalksAgree
<1>9. FoundIn(d, X, f, tarFind(d, f))
  BY <1>2, WalkMeans
<1>10. tarValid(b, h) /\ tarNext(b, h) <= TAR_MAX_SECTORS
  BY <1>1, <1>4, <1>5 DEF IsWalk, FilesFit
<1>11. b[h].size \in Nat
  BY <1>5, <1>10 DEF tarValid, Buffer
<1> HIDE DEF p, h
<1>12. h \in X /\ d[h].name = f
  BY <1>4, <1>5, <1>6, <1>7, <1>8
<1>13. tarFind(d, f) \in X /\ d[tarFind(d, f)].name = f /\ tarFind(d, f) <= h
  BY <1>9, <1>12 DEF FoundIn
<1>14. tarFind(d, f) = h
  <2> DEFINE k == tarFind(d, f)
  <2> HIDE DEF k
  <2>1. k \in X /\ d[k].name = f /\ k <= h /\ k \in Nat /\ h \in Nat /\ k < p
    BY <1>3, <1>4, <1>5, <1>6, <1>13 DEF k
  <2>2. k \in W /\ b[k].name = f
    BY <1>5, <1>7, <1>8, <2>1
  <2>3. h <= k
    BY <1>4, <2>2
  <2> QED BY <2>1, <2>3 DEF k
<1>15. FileAt(d, h) = FileAt(b, h)
  <2>1. d[h] = b[h] /\ h \in Nat
    BY <1>4, <1>5, <1>6, <1>7
  <2>2. ASSUME NEW i \in 1 .. ceilDiv(b[h].size, SECTOR) PROVE d[h + i] = b[h + i]
    <3>1. ceilDiv(b[h].size, SECTOR) \in Nat
      BY <1>11, CeilDivNat
    <3>2. h + i < tarNext(b, h) /\ h + i \in Nat
      BY <2>1, <3>1 DEF tarNext
    <3>3. h + i < p /\ h + i < TAR_MAX_SECTORS
      BY <1>3, <1>4, <1>5, <1>6, <1>10, <3>2, BlocksType
    <3>4. h + i \in Blocks
      BY <3>2, <3>3, BlocksType
    <3> QED BY <1>7, <3>3, <3>4
  <2> QED BY <2>1, <2>2, SameFile
<1> QED BY <1>14, <1>15 DEF OnDisk, h

\* No edit changes a block in front of its file (ustar.c:212-266).
LEMMA EditsKeepFront ==
  ASSUME NEW b, Buffer(b), NEW f, NEW size \in Nat
  PROVE  /\ tarFind(b, f) = NULL => SameUpTo(b, Touched(b, f), Front(b, f))
         /\ tarFind(b, f) # NULL /\ FilesFit(b) =>
              /\ SameUpTo(b, Removed(b, f), Front(b, f))
              /\ SameUpTo(b, Edited(b, f, size), Front(b, f))
<1>1. ASSUME NEW c, Buffer(c), NEW p \in Nat, tarGetEnd(c) \in Nat, p <= tarGetEnd(c)
      PROVE  SameUpTo(c, Touched(c, f), p)
  <2>1. CASE tarGetEnd(c) \in Blocks
    <3> DEFINE e == tarGetEnd(c)
               d == Touched(c, f)
    <3>1. d = [c EXCEPT ![e] = Header(f, 0)]
      BY <2>1 DEF Touched
    <3>2. c = [i \in Blocks |-> c[i]] /\ e \in Nat /\ p <= e
      BY <1>1 DEF Buffer
    <3> HIDE DEF e, d
    <3>3. \A i \in Blocks : i # e => d[i] = c[i]
      BY <3>1, <3>2
    <3>4. \A i \in Blocks : i < p => i # e
      BY <3>2, BlocksType
    <3> QED BY <3>3, <3>4 DEF SameUpTo, d
  <2>2. CASE tarGetEnd(c) \notin Blocks
    BY <2>2 DEF Touched, SameUpTo
  <2> QED BY <2>1, <2>2
<1>2. PICK W, e : IsWalk(b, 0, W, e)
  BY WalkExists
<1> DEFINE p == Front(b, f)
<1>3. /\ p \in Nat /\ p \in W \cup {e} /\ p <= e /\ e \in Nat /\ tarGetEnd(b) = e
      /\ \A h \in W : h \in Nat /\ (b[h].name = f => h >= p)
  BY <1>2, FrontIsSeen, WalkMeans DEF IsWalk
<1>4. SameUpTo(b, Touched(b, f), p)
  BY <1>1, <1>3
<1>5. ASSUME tarFind(b, f) # NULL, FilesFit(b)
      PROVE  SameUpTo(b, Removed(b, f), p) /\ SameUpTo(b, Edited(b, f, size), p)
  <2> DEFINE r == Removed(b, f)
             n == FileBlocks(b, p)
  <2>1. p = tarFind(b, f) /\ p \in Nat /\ p \in Blocks /\ b[p].size \in Nat /\ tarValid(b, p)
    BY <1>5, FoundIsHeader DEF Front
  <2>2. n \in Nat /\ p + n <= TAR_MAX_SECTORS
    <3>1. tarNext(b, p) <= TAR_MAX_SECTORS /\ ceilDiv(b[p].size, SECTOR) \in Nat
      BY <1>5, <2>1, CeilDivNat DEF FilesFit
    <3> QED BY <2>1, <3>1 DEF FileBlocks, tarNext
  <2>3. r = [i \in Blocks |-> IF i >= TAR_MAX_SECTORS - n THEN Zero
                              ELSE IF i < p THEN b[i] ELSE b[i + n]]
    BY <2>1 DEF Removed, FileBlocks
  <2>4. Buffer(r)
    BY <1>5, EditsKeepBuffers
  <2> HIDE DEF p, n, r
  <2>5. \A i \in Blocks : i < p => r[i] = b[i]
    <3>1. \A i \in Blocks : i < p => ~(i >= TAR_MAX_SECTORS - n)
      BY <2>1, <2>2, BlocksType
    <3> QED BY <2>3, <3>1
  <2>6. PICK X, x : IsWalk(r, 0, X, x)
    BY <2>4, WalkExists
  <2>7. /\ \A h \in Nat : h < p => (h \in W <=> h \in X)
        /\ 0 <= p /\ p \in W \cup {e} => p \in X \cup {x}
    BY <1>2, <2>1, <2>4, <2>5, <2>6, WalksAgree
  <2>8. p <= x /\ x \in Nat /\ tarGetEnd(r) = x /\ FoundIn(r, X, f, tarFind(r, f))
        /\ X \in SUBSET Nat
    <3>1. tarGetEnd(r) = x /\ FoundIn(r, X, f, tarFind(r, f))
      BY <2>4, <2>6, WalkMeans
    <3>2. x \in Nat /\ X \in SUBSET Nat /\ \A h \in X : tarValid(r, h) /\ tarNext(r, h) <= x
      BY <2>6 DEF IsWalk
    <3>3. \A h \in X : h < x
      <4> TAKE h \in X
      <4>1. h \in Nat /\ tarNext(r, h) \in Nat /\ tarNext(r, h) > h /\ tarNext(r, h) <= x
        BY <2>4, <3>2, NextIsBehind
      <4> QED BY <3>2, <4>1
    <3> QED BY <1>3, <2>1, <2>7, <3>1, <3>2, <3>3
  <2>9. SameUpTo(r, Touched(r, f), p)
    BY <1>1, <2>1, <2>4, <2>8
  <2>10. ASSUME tarFind(r, f) # NULL PROVE SameUpTo(r, Written(r, f, size), p)
    <3> DEFINE t == tarFind(r, f)
               d == Written(r, f, size)
    <3>1. d = [i \in Blocks |-> IF i = t THEN Header(f, size)
                                ELSE IF i \in t + 1 .. t + ceilDiv(size, SECTOR)
                                     THEN Data(f, i - t)
                                ELSE r[i]]
      BY DEF Written
    <3>2. t \in X /\ r[t].name = f /\ t \in Nat /\ t \in Blocks
      BY <2>4, <2>8, <2>10, FoundIsHeader DEF FoundIn
    <3>3. ceilDiv(size, SECTOR) \in Nat
      BY CeilDivNat
    <3> HIDE DEF t, d
    <3>4. p <= t
      <4>1. SUFFICES ASSUME t < p PROVE FALSE
        BY <2>1, <3>2
      <4>2. t \in W /\ b[t].name = f
        BY <2>5, <2>7, <3>2, <4>1
      <4> QED BY <1>3, <2>1, <3>2, <4>1, <4>2 DEF p
    <3>5. ASSUME NEW i \in Blocks, i < p PROVE d[i] = r[i]
      <4>1. i # t /\ i \notin t + 1 .. t + ceilDiv(size, SECTOR)
        BY <2>1, <3>2, <3>3, <3>4, <3>5, BlocksType
      <4> QED BY <3>1, <4>1
    <3> QED BY <3>5 DEF SameUpTo, d
  <2>11. SameUpTo(b, r, p)
    BY <2>5 DEF SameUpTo
  <2>12. SameUpTo(b, Touched(r, f), p)
    BY <2>9, <2>11 DEF SameUpTo
  <2>13. touchMakes(r, f) <=> tarFind(r, f) = NULL
    BY <2>4, MakesAbsent
  <2>14. SameUpTo(b, Edited(b, f, size), p)
    <3>1. CASE tarFind(r, f) = NULL
      <4>1. Edited(b, f, size) = Touched(r, f)
        BY <2>13, <3>1 DEF Edited, r
      <4> QED BY <2>12, <4>1
    <3>2. CASE tarFind(r, f) # NULL
      <4>1. Edited(b, f, size) = Written(r, f, size)
        BY <2>13, <3>2 DEF Edited, r
      <4>2. SameUpTo(r, Written(r, f, size), p)
        BY <2>10, <3>2
      <4> QED BY <2>11, <4>1, <4>2 DEF SameUpTo
    <3> QED BY <3>1, <3>2
  <2> QED BY <2>11, <2>14 DEF r, p
<1> QED BY <1>4, <1>5

-----------------------------------------------------------------------------
(* What the steps do to the buffer, the disk and the command kept          *)

Noting(cmd, f) ==
  txn' = [cmd |-> cmd, name |-> f, old |-> disk, base |-> tarBuf] /\ disk' = disk

Commanded ==
  /\ arg'.size \in Nat
  /\ \E f : \/ Noting("touch", f) /\ tarBuf' = IF touchMakes(tarBuf, f) THEN Touched(tarBuf, f) ELSE tarBuf
            \/ Noting("rm", f) /\ tarBuf' = IF touchMakes(tarBuf, f) THEN tarBuf ELSE Removed(tarBuf, f)
            \/ /\ Noting("edit", f)
               /\ tarBuf' = IF tarFind(tarBuf, f) = NULL THEN tarBuf ELSE Edited(tarBuf, f, arg.size)

Flushing ==
  /\ InPhase("flush") /\ tarBuf' = tarBuf /\ txn' = txn /\ arg' = arg
  /\ disk' = disk \/ disk' = [disk EXCEPT ![sector] = tarBuf[sector]]

Loading ==
  /\ ~InPhase("flush")' /\ disk' = disk /\ txn' = txn /\ arg' = arg
  /\ tarBuf' = [tarBuf EXCEPT ![sector] = disk[sector]] \/ tarBuf' = [tarBuf EXCEPT ![sector] = Junk]

Aside ==
  /\ ~InPhase("flush")' /\ disk' = disk /\ txn' = txn /\ arg'.size \in Nat
  /\ tarBuf' = tarBuf \/ tarBuf' = [i \in Blocks |-> Zero]

\* A loop comes back to its phase with the next sector, or is through; only an
\* edit comes right before a flush, only a load before a listing.
LEMMA LoopPhases ==
  ASSUME IInv, Looping, NextSector
  PROVE  /\ InPhase("flush")' => InPhase("flush")
         /\ InPhase("list")' => InPhase("load") /\ ~(sector + 1 < TAR_MAX_SECTORS)
         /\ InPhase("load")' => sector' = 0 \/ (InPhase("load") /\ sector' = sector + 1)
<1>1. todo \in Todos /\ todo # <<>> /\ Head(todo) \in {"load", "flush"}
  BY DEF IInv, Looping, InPhase
<1>2. CASE sector + 1 < TAR_MAX_SECTORS
  BY <1>1, <1>2 DEF NextSector, InPhase
<1>3. CASE ~(sector + 1 < TAR_MAX_SECTORS)
  <2>1. todo' = Tail(todo) /\ sector' = 0
    BY <1>3 DEF NextSector
  <2>2. /\ \A t \in Todos : t # <<>> /\ Tail(t) # <<>> /\ Head(Tail(t)) = "flush" => Head(t) = "edit"
        /\ \A t \in Todos : t # <<>> /\ Tail(t) # <<>> /\ Head(Tail(t)) = "list" => Head(t) = "load"
    BY DEF Todos
  <2> QED BY <1>1, <1>3, <2>1, <2>2 DEF InPhase
<1> QED BY <1>2, <1>3

LEMMA StepShapes ==
  ASSUME IInv, arg.size \in Nat, [Next]_allVars
  PROVE  Commanded \/ Flushing \/ Loading \/ Aside \/ UNCHANGED allVars
<1>1. CASE Sectors /\ txn' = txn
  <2>1. CASE WriteSector \/ WriteTimedOut
    BY <1>1, <2>1 DEF WriteSector, WriteTimedOut, ustarVars, Flushing
  <2>2. CASE ReadSector \/ ReadTimedOut
    <3>1. Looping /\ InPhase("load") /\ NextSector
      BY <2>2 DEF ReadSector, ReadTimedOut, Looping
    <3>2. ~InPhase("flush")'
      BY <3>1, LoopPhases DEF InPhase
    <3> QED BY <1>1, <2>2, <3>2 DEF ReadSector, ReadTimedOut, diskVars, Loading
  <2> QED BY <1>1, <2>1, <2>2 DEF Sectors
<1>2. CASE (ListPhase \/ ShLook \/ Reboot \/ PowerLoss) /\ txn' = txn
  <2>1. CASE ListPhase
    <3>1. todo' = <<>>
      BY <2>1, Phases DEF ListPhase, InPhase, IInv
    <3> QED BY <1>2, <2>1, <3>1 DEF ListPhase, diskVars, Aside, InPhase
  <2>2. CASE ShLook
    BY <1>2, <2>2 DEF ShLook, ustarVars, diskVars, Aside, InPhase
  <2>3. CASE Reboot \/ PowerLoss
    BY <1>2, <2>3 DEF Reboot, PowerLoss, Restart, Aside, InPhase, NoArg
  <2> QED BY <1>2, <2>1, <2>2, <2>3
<1>3. CASE EditPhase /\ Noted("edit", arg.name)
  <2>1. Noting("edit", arg.name) /\ arg'.size \in Nat
    BY <1>3 DEF EditPhase, Noted, Noting, diskVars, NoArg
  <2>2. tarBuf' = IF tarFind(tarBuf, arg.name) = NULL THEN tarBuf ELSE Edited(tarBuf, arg.name, arg.size)
    BY <1>3 DEF EditPhase, Edit
  <2> QED BY <2>1, <2>2 DEF Commanded
<1>4. ASSUME NEW f \in Names, ShTouch(f) /\ Noted("touch", f) PROVE Commanded
  <2>1. Noting("touch", f) /\ arg'.size \in Nat
    BY <1>4 DEF ShTouch, Begin, diskVars, Noted, Noting
  <2>2. tarBuf' = IF touchMakes(tarBuf, f) THEN Touched(tarBuf, f) ELSE tarBuf
    BY <1>4 DEF ShTouch, Touch
  <2> QED BY <2>1, <2>2 DEF Commanded
<1>5. ASSUME NEW f \in Names, ShRm(f) /\ Noted("rm", f) PROVE Commanded
  <2>1. Noting("rm", f) /\ arg'.size \in Nat
    BY <1>5 DEF ShRm, Begin, diskVars, storageVars, Noted, Noting
  <2>2. tarBuf' = IF touchMakes(tarBuf, f) THEN tarBuf ELSE Removed(tarBuf, f)
    BY <1>5 DEF ShRm, Rm, touchMakes
  <2> QED BY <2>1, <2>2 DEF Commanded
<1>6. ASSUME NEW f \in Names, NEW size \in Sizes, ShWrite(f, size), txn' = txn PROVE Aside
  BY <1>6, UstarAssumption DEF ShWrite, ustarVars, diskVars, Aside, InPhase
<1> QED BY <1>1, <1>2, <1>3, <1>4, <1>5, <1>6 DEF Next

-----------------------------------------------------------------------------
(* What is kept of the last command: buffers, and in front of its file the *)
(* disk as it was, with nothing else waiting in the buffer to be flushed   *)
Buffers == Buffer(tarBuf) /\ Buffer(disk) /\ Buffer(txn.old) /\ Buffer(txn.base) /\ arg.size \in Nat

FrontKept ==
  txn.cmd # "none" /\ txn.base = txn.old /\ FilesFit(txn.old) =>
    /\ SameUpTo(txn.old, disk, Front(txn.old, txn.name))
    /\ InPhase("flush") => SameUpTo(txn.old, tarBuf, Front(txn.old, txn.name))

\* What a touch is to leave: the buffer with the file, or as it is.
AfterTouch(b, f) == IF touchMakes(b, f) THEN Touched(b, f) ELSE b

TouchKept ==
  txn.cmd = "touch" /\ txn.base = txn.old =>
    /\ disk \in {txn.old, AfterTouch(txn.old, txn.name)}
    /\ InPhase("flush") => tarBuf = AfterTouch(txn.old, txn.name)

HInv == Buffers /\ FrontKept /\ TouchKept

\* One block of a buffer replaced by one of another buffer's
LEMMA BlockFrom ==
  ASSUME NEW b, NEW d, Buffer(b), NEW k \in Blocks, NEW x, x.kind = "header" => x.size \in Nat
  PROVE  /\ Buffer([b EXCEPT ![k] = x])
         /\ \A i \in Blocks : [b EXCEPT ![k] = x][i] = IF i = k THEN x ELSE b[i]
<1> DEFINE r == [b EXCEPT ![k] = x]
<1>1. b = [i \in Blocks |-> b[i]] /\ \A i \in Blocks : b[i].kind = "header" => b[i].size \in Nat
  BY DEF Buffer
<1>2. r = [i \in Blocks |-> r[i]] /\ \A i \in Blocks : r[i] = IF i = k THEN x ELSE b[i]
  BY <1>1
<1> HIDE DEF r
<1>3. \A i \in Blocks : r[i].kind = "header" => r[i].size \in Nat
  BY <1>1, <1>2
<1>4. Buffer(r)
  BY <1>2, <1>3 DEF Buffer
<1> QED BY <1>2, <1>4 DEF r

LEMMA BuffersStep ==
  ASSUME IInv, Buffers, [Next]_allVars
  PROVE  Buffers'
<1>0. Buffer(tarBuf) /\ Buffer(disk) /\ arg.size \in Nat /\ sector \in Blocks
  BY DEF Buffers, IInv
<1>1. CASE Commanded
  <2>1. PICK f : \/ Noting("touch", f) /\ tarBuf' = IF touchMakes(tarBuf, f) THEN Touched(tarBuf, f) ELSE tarBuf
                 \/ Noting("rm", f) /\ tarBuf' = IF touchMakes(tarBuf, f) THEN tarBuf ELSE Removed(tarBuf, f)
                 \/ /\ Noting("edit", f)
                    /\ tarBuf' = IF tarFind(tarBuf, f) = NULL THEN tarBuf ELSE Edited(tarBuf, f, arg.size)
    BY <1>1 DEF Commanded
  <2>2. Buffer(tarBuf')
    BY <1>0, <2>1, EditsKeepBuffers, MakesAbsent
  <2>3. disk' = disk /\ txn'.old = disk /\ txn'.base = tarBuf /\ arg'.size \in Nat
    BY <1>1, <2>1 DEF Noting, Commanded
  <2> QED BY <1>0, <2>2, <2>3 DEF Buffers
<1>2. CASE Flushing
  <2>1. Buffer(disk')
    <3>1. tarBuf[sector].kind = "header" => tarBuf[sector].size \in Nat
      BY <1>0 DEF Buffer
    <3>2. Buffer([disk EXCEPT ![sector] = tarBuf[sector]])
      BY <1>0, <3>1, BlockFrom
    <3> QED BY <1>0, <1>2, <3>2 DEF Flushing
  <2> QED BY <1>2, <2>1 DEF Buffers, Flushing
<1>3. CASE Loading
  <2>1. Buffer(tarBuf')
    <3>1. disk[sector].kind = "header" => disk[sector].size \in Nat
      BY <1>0 DEF Buffer
    <3>2. Buffer([tarBuf EXCEPT ![sector] = disk[sector]])
      BY <1>0, <3>1, BlockFrom
    <3>3. Junk.kind # "header"
      BY DEF Junk
    <3>4. Buffer([tarBuf EXCEPT ![sector] = Junk])
      BY <1>0, <3>3, BlockFrom
    <3> QED BY <1>3, <3>2, <3>4 DEF Loading
  <2> QED BY <1>3, <2>1 DEF Buffers, Loading
<1>4. CASE Aside
  <2>1. Buffer([i \in Blocks |-> Zero])
    BY HeaderFields DEF Buffer
  <2> QED BY <1>4, <2>1 DEF Buffers, Aside
<1>5. CASE UNCHANGED allVars
  BY <1>5 DEF allVars, vars, ustarVars, storageVars, Buffers
<1> QED BY <1>0, <1>1, <1>2, <1>3, <1>4, <1>5, StepShapes

LEMMA CommandShape ==
  ASSUME Commanded
  PROVE  \E cmd, f :
           /\ txn' = [cmd |-> cmd, name |-> f, old |-> disk, base |-> tarBuf] /\ disk' = disk
           /\ \/ cmd = "touch" /\ tarBuf' = AfterTouch(tarBuf, f)
              \/ cmd = "rm" /\ tarBuf' = IF touchMakes(tarBuf, f) THEN tarBuf ELSE Removed(tarBuf, f)
              \/ /\ cmd = "edit"
                 /\ tarBuf' = IF tarFind(tarBuf, f) = NULL THEN tarBuf ELSE Edited(tarBuf, f, arg.size)
BY DEF Commanded, Noting, AfterTouch

LEMMA FrontStep ==
  ASSUME IInv, Buffers, FrontKept, [Next]_allVars
  PROVE  FrontKept'
<1>0. Buffer(tarBuf) /\ Buffer(disk) /\ arg.size \in Nat /\ sector \in Blocks
  BY DEF Buffers, IInv
<1>1. CASE Commanded
  <2>1. PICK cmd, f :
           /\ txn' = [cmd |-> cmd, name |-> f, old |-> disk, base |-> tarBuf] /\ disk' = disk
           /\ \/ cmd = "touch" /\ tarBuf' = AfterTouch(tarBuf, f)
              \/ cmd = "rm" /\ tarBuf' = IF touchMakes(tarBuf, f) THEN tarBuf ELSE Removed(tarBuf, f)
              \/ /\ cmd = "edit"
                 /\ tarBuf' = IF tarFind(tarBuf, f) = NULL THEN tarBuf ELSE Edited(tarBuf, f, arg.size)
    BY <1>1, CommandShape
  <2>2. txn'.old = disk /\ txn'.base = tarBuf /\ txn'.name = f
    BY <2>1
  <2>3. SameUpTo(disk, disk', Front(disk, f))
    BY <2>1 DEF SameUpTo
  <2>4. ASSUME tarBuf = disk, FilesFit(disk) PROVE SameUpTo(disk, tarBuf', Front(disk, f))
    <3>1. touchMakes(tarBuf, f) <=> tarFind(tarBuf, f) = NULL
      BY <1>0, MakesAbsent
    <3>2. SameUpTo(disk, tarBuf, Front(disk, f))
      BY <2>4 DEF SameUpTo
    <3>3. /\ tarFind(disk, f) = NULL => SameUpTo(disk, Touched(disk, f), Front(disk, f))
          /\ tarFind(disk, f) # NULL =>
               /\ SameUpTo(disk, Removed(disk, f), Front(disk, f))
               /\ SameUpTo(disk, Edited(disk, f, arg.size), Front(disk, f))
      BY <1>0, <2>4, EditsKeepFront
    <3> QED BY <2>1, <2>4, <3>1, <3>2, <3>3 DEF AfterTouch
  <2> QED BY <2>2, <2>3, <2>4 DEF FrontKept
<1>2. CASE Flushing
  <2>1. ASSUME txn.cmd # "none", txn.base = txn.old, FilesFit(txn.old)
        PROVE  SameUpTo(txn.old, disk', Front(txn.old, txn.name))
    <3>1. /\ SameUpTo(txn.old, disk, Front(txn.old, txn.name))
          /\ SameUpTo(txn.old, tarBuf, Front(txn.old, txn.name))
      BY <1>2, <2>1 DEF FrontKept, Flushing
    <3>2. disk = [i \in Blocks |-> disk[i]]
      BY <1>0 DEF Buffer
    <3>3. \A i \in Blocks : disk'[i] = disk[i] \/ disk'[i] = tarBuf[i]
      BY <1>0, <1>2, <3>2 DEF Flushing
    <3> QED BY <3>1, <3>3 DEF SameUpTo
  <2> QED BY <1>2, <2>1 DEF FrontKept, Flushing
<1>3. CASE Loading \/ Aside
  BY <1>3 DEF Loading, Aside, FrontKept
<1>4. CASE UNCHANGED allVars
  BY <1>4 DEF allVars, vars, ustarVars, storageVars, FrontKept, InPhase
<1> QED BY <1>0, <1>1, <1>2, <1>3, <1>4, StepShapes

\* A buffer that gets one block of another differing from it in one block is
\* one of the two.
LEMMA OneOfTwo ==
  ASSUME NEW b, NEW d, Buffer(b), Buffer(d), NEW e, \A i \in Blocks : i # e => d[i] = b[i],
         NEW k \in Blocks
  PROVE  [b EXCEPT ![k] = d[k]] \in {b, d}
<1>1. b = [i \in Blocks |-> b[i]] /\ d = [i \in Blocks |-> d[i]]
  BY DEF Buffer
<1> DEFINE r == [b EXCEPT ![k] = d[k]]
<1>2. r = [i \in Blocks |-> r[i]] /\ \A i \in Blocks : r[i] = IF i = k THEN d[k] ELSE b[i]
  BY <1>1
<1> HIDE DEF r
<1>3. CASE k = e
  <2>1. \A i \in Blocks : r[i] = d[i]
    BY <1>2, <1>3
  <2>2. r = d
    BY <1>1, <1>2, <2>1
  <2> QED BY <2>2 DEF r
<1>4. CASE k # e
  <2>1. \A i \in Blocks : r[i] = b[i]
    BY <1>2, <1>4
  <2>2. r = b
    BY <1>1, <1>2, <2>1
  <2> QED BY <2>2 DEF r
<1> QED BY <1>3, <1>4

LEMMA TouchStep ==
  ASSUME IInv, Buffers, TouchKept, [Next]_allVars
  PROVE  TouchKept'
<1>0. Buffer(tarBuf) /\ Buffer(disk) /\ Buffer(txn.old) /\ arg.size \in Nat /\ sector \in Blocks
  BY DEF Buffers, IInv
<1>1. CASE Commanded
  <2>1. PICK cmd, f :
           /\ txn' = [cmd |-> cmd, name |-> f, old |-> disk, base |-> tarBuf] /\ disk' = disk
           /\ \/ cmd = "touch" /\ tarBuf' = AfterTouch(tarBuf, f)
              \/ cmd = "rm" /\ tarBuf' = IF touchMakes(tarBuf, f) THEN tarBuf ELSE Removed(tarBuf, f)
              \/ /\ cmd = "edit"
                 /\ tarBuf' = IF tarFind(tarBuf, f) = NULL THEN tarBuf ELSE Edited(tarBuf, f, arg.size)
    BY <1>1, CommandShape
  <2>2. txn'.old = disk /\ txn'.base = tarBuf /\ txn'.name = f /\ txn'.cmd = cmd
    BY <2>1
  <2> QED BY <2>1, <2>2 DEF TouchKept
<1>2. CASE Flushing
  <2>1. ASSUME txn.cmd = "touch", txn.base = txn.old
        PROVE  disk' \in {txn.old, AfterTouch(txn.old, txn.name)}
    <3> DEFINE o == txn.old
               n == AfterTouch(o, txn.name)
    <3>1. disk \in {o, n} /\ tarBuf = n
      BY <1>2, <2>1 DEF TouchKept, Flushing
    <3>2. \E e : \A i \in Blocks : i # e => n[i] = o[i]
      <4>1. CASE n = Touched(o, txn.name) /\ tarGetEnd(o) \in Blocks
        <5>1. n = [o EXCEPT ![tarGetEnd(o)] = Header(txn.name, 0)]
          BY <4>1 DEF Touched
        <5>2. o = [i \in Blocks |-> o[i]]
          BY <1>0 DEF Buffer
        <5> HIDE DEF n, o
        <5>3. \A i \in Blocks : i # tarGetEnd(o) => n[i] = o[i]
          BY <4>1, <5>1, <5>2
        <5> QED BY <5>3
      <4>2. CASE ~(n = Touched(o, txn.name) /\ tarGetEnd(o) \in Blocks)
        BY <4>2 DEF AfterTouch, Touched
      <4> QED BY <4>1, <4>2
    <3>3. Buffer(n) /\ Buffer(o)
      BY <1>0, EditsKeepBuffers DEF AfterTouch
    <3> HIDE DEF o, n
    <3>4. [o EXCEPT ![sector] = n[sector]] \in {o, n}
      BY <1>0, <3>2, <3>3, OneOfTwo
    <3>5. [n EXCEPT ![sector] = n[sector]] = n
      BY <3>3 DEF Buffer
    <3>6. disk' \in {o, n}
      BY <1>2, <3>1, <3>4, <3>5 DEF Flushing
    <3> QED BY <3>6 DEF o, n
  <2> QED BY <1>2, <2>1 DEF TouchKept, Flushing
<1>3. CASE Loading \/ Aside
  BY <1>3 DEF Loading, Aside, TouchKept
<1>4. CASE UNCHANGED allVars
  BY <1>4 DEF allVars, vars, ustarVars, storageVars, TouchKept, InPhase
<1> QED BY <1>0, <1>1, <1>2, <1>3, <1>4, StepShapes

\* kmain starts before any command, with an archive.
LEMMA HistoryInit == Init => HInv
<1> SUFFICES ASSUME Init PROVE HInv
  OBVIOUS
<1>1. Archive(tarBuf) /\ disk = tarBuf /\ arg.size = 0
  BY InitialArchive DEF Init, StorageInit, NoArg
<1>2. txn.cmd = "none" /\ txn.old = disk /\ txn.base = tarBuf
  BY DEF Init
<1> QED BY <1>1, <1>2 DEF HInv, Buffers, FrontKept, TouchKept, Archive

\* What a command can still reach on disk: the inductive invariant of its cuts.
THEOREM HistoryInvariant == Spec => []HInv
<1>1. IInv /\ HInv /\ [Next]_allVars => HInv'
  BY BuffersStep, FrontStep, TouchStep DEF HInv
<1> QED BY <1>1, HistoryInit, LoopInvariant, PTL DEF Spec

(* Wherever the flush of a command is cut, and whichever of its sectors    *)
(* are lost, the files in front of the command's are on disk as they were, *)
(* unless a file reached past the buffer (ustar.c:200-231).                *)
THEOREM FrontSurvives == Spec => []FrontFilesSurvive
<1>1. HInv => FrontFilesSurvive
  <2> SUFFICES ASSUME Buffers, FrontKept, txn.cmd # "none", txn.base = txn.old, FilesFit(txn.old),
                      NEW f \in Names, InFront(txn.old, f, txn.name)
               PROVE  tarFind(disk, f) = tarFind(txn.old, f) /\ OnDisk(disk, f) = OnDisk(txn.old, f)
    BY DEF HInv, FrontFilesSurvive
  <2>1. SameUpTo(txn.old, disk, Front(txn.old, txn.name))
    BY DEF FrontKept
  <2> QED BY <2>1, FrontFound DEF Buffers
<1> QED BY <1>1, HistoryInvariant, PTL

(* Wherever its flush is cut, a touch has made its file or changed nothing *)
(* (ustar.c:234-253, sh.c:145).                                            *)
THEOREM TouchAllOrNothing == Spec => []TouchIsAtomic
<1>1. HInv => TouchIsAtomic
  <2> SUFFICES ASSUME Buffers, TouchKept, txn.cmd = "touch", txn.base = txn.old,
                      FilesOf(disk) # FilesOf(txn.old)
               PROVE  /\ tarFind(txn.old, txn.name) = NULL
                      /\ FilesOf(disk) = FilesOf(Touched(txn.old, txn.name))
    BY DEF HInv, TouchIsAtomic
  <2>1. disk = AfterTouch(txn.old, txn.name) /\ disk # txn.old
    BY DEF TouchKept
  <2>2. touchMakes(txn.old, txn.name) <=> tarFind(txn.old, txn.name) = NULL
    BY MakesAbsent DEF Buffers
  <2> QED BY <2>1, <2>2 DEF AfterTouch
<1> QED BY <1>1, HistoryInvariant, PTL

-----------------------------------------------------------------------------
(* What a listing shows: unless a sector was read before it was ready, a   *)
(* load has the disk's sectors below its index, and a listing has all.     *)
LoadKept ==
  misread = 0 =>
    /\ InPhase("load") => SameUpTo(disk, tarBuf, sector)
    /\ InPhase("list") => tarBuf = disk

LEMMA LoadStep ==
  ASSUME IInv, LoadKept, [Next]_allVars
  PROVE  LoadKept'
<1>0. /\ IsBuffer(tarBuf) /\ IsBuffer(disk) /\ sector \in Blocks /\ sector \in Nat
      /\ todo \in Todos /\ misread \in Nat
  BY BlocksType DEF IInv
<1>1. CASE WriteSector \/ WriteTimedOut
  <2>1. InPhase("flush") /\ ~InPhase("load") /\ Looping /\ NextSector
    BY <1>1 DEF WriteSector, WriteTimedOut, InPhase, Looping
  <2>2. ~InPhase("list")' /\ (InPhase("load")' => sector' = 0)
    BY <1>0, <2>1, LoopPhases
  <2> QED BY <2>2, BlocksType DEF LoadKept, SameUpTo
<1>2. CASE ReadSector
  <2>1. /\ InPhase("load") /\ Looping /\ NextSector /\ disk' = disk /\ misread' = misread
        /\ tarBuf' = [tarBuf EXCEPT ![sector] = disk[sector]]
    BY <1>2 DEF ReadSector, Looping, diskVars
  <2>a. /\ IsBuffer([tarBuf EXCEPT ![sector] = disk[sector]])
        /\ \A i \in Blocks : [tarBuf EXCEPT ![sector] = disk[sector]][i]
                               = IF i = sector THEN disk[sector] ELSE tarBuf[i]
    BY ONLY <1>0, OneBlock
  <2>2. /\ IsBuffer(tarBuf')
        /\ \A i \in Blocks : tarBuf'[i] = IF i = sector THEN disk[sector] ELSE tarBuf[i]
    BY ONLY <2>1, <2>a
  <2>3. ASSUME misread = 0 PROVE \A i \in Blocks : i < sector + 1 => tarBuf'[i] = disk[i]
    BY <1>0, <2>1, <2>2, <2>3, BlocksType DEF LoadKept, SameUpTo
  <2>4. ASSUME misread = 0, InPhase("load")' PROVE SameUpTo(disk, tarBuf', sector')
    BY <1>0, <2>1, <2>3, <2>4, LoopPhases, BlocksType DEF SameUpTo
  <2>5. ASSUME misread = 0, InPhase("list")' PROVE tarBuf' = disk
    <3>1. \A i \in Blocks : i < sector + 1
      BY <1>0, <2>1, <2>5, LoopPhases, BlocksType
    <3> QED BY <1>0, <2>2, <2>3, <2>5, <3>1, SameBlocks
  <2> QED BY <2>1, <2>4, <2>5 DEF LoadKept
<1>3. CASE ReadTimedOut
  BY <1>0, <1>3 DEF ReadTimedOut, LoadKept
<1>4. CASE ListPhase
  BY <1>0, <1>4, Phases DEF ListPhase, LoadKept, InPhase
<1>5. CASE EditPhase
  <2>1. todo # <<>> /\ Head(todo) = "edit" /\ todo' = Tail(todo)
    BY <1>5 DEF EditPhase, InPhase
  <2>2. todo' = <<"flush">>
    BY <1>0, <2>1, Phases
  <2>3. ~InPhase("load")' /\ ~InPhase("list")'
    BY <2>2 DEF InPhase
  <2> QED BY <2>3 DEF LoadKept
<1>6. CASE ShLook \/ Reboot \/ PowerLoss \/ \E f, size : ShWrite(f, size)
  <2>1. InPhase("load")' /\ ~InPhase("list")'
    BY <1>6 DEF ShLook, Reboot, PowerLoss, Restart, ShWrite, InPhase
  <2>2. sector' = 0
    BY <1>6 DEF ShLook, Reboot, PowerLoss, Restart, ShWrite, IInv, Prompt, Looping, InPhase
  <2> QED BY <2>1, <2>2, BlocksType DEF LoadKept, SameUpTo
<1>7. CASE \E f : ShTouch(f) \/ ShRm(f)
  <2>1. ~InPhase("load")' /\ ~InPhase("list")'
    BY <1>7 DEF ShTouch, ShRm, Begin, storageVars, Prompt, InPhase
  <2> QED BY <2>1 DEF LoadKept
<1>8. CASE UNCHANGED allVars
  BY <1>8 DEF allVars, vars, ustarVars, storageVars, LoadKept, InPhase
<1> QED BY <1>1, <1>2, <1>3, <1>4, <1>5, <1>6, <1>7, <1>8 DEF Next, Sectors

(* The listing that ends ls and rm is of the files on disk: the shell loads *)
(* them again first (sh.c:118, ustar.c:200).                               *)
THEOREM ListingFromDisk == Spec => ListingIsOfTheDisk
<1>1. Init => LoadKept
  BY DEF Init, StorageInit, LoadKept, InPhase
<1>2. IInv /\ LoadKept /\ [Next]_allVars => LoadKept'
  BY LoadStep
<1>3. LoadKept /\ [Next]_allVars => [ListPhase /\ misread = 0 => listed' = tarList(disk)]_allVars
  BY DEF LoadKept, ListPhase
<1> QED BY <1>1, <1>2, <1>3, LoopInvariant, PTL DEF Spec, ListingIsOfTheDisk

=============================================================================
