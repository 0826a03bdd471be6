------------------------------ MODULE ShellProofs ------------------------------
(***************************************************************************)
(* For every length of input, number of slots, set of commands and of      *)
(* lines: what tokenize leaves in input and tokens (src/src/sh.c:17) are   *)
(* the words of the line, a command finds those and nothing that was not   *)
(* typed or left by clear, and only the rest of a text is run as a line.   *)
(***************************************************************************)
EXTENDS ShellHistory, FiniteSetTheorems, WellFoundedInduction, TLAPS

-----------------------------------------------------------------------------
(* Numbers in order *)

LEMMA LeastNatural ==
  ASSUME NEW S \in SUBSET Nat, S # {}
  PROVE  Min(S) \in S /\ \A k \in S : Min(S) <= k
<1> DEFINE R == OpToRel(<, Nat)
<1>1. IsWellFoundedOn(R, Nat)
  BY NatLessThanWellFounded
<1>2. \A x, y \in Nat : x < y => <<x, y>> \in R
  BY DEF OpToRel
<1> HIDE DEF R
<1>3. PICK x \in S : \A y \in S : ~(<<y, x>> \in R)
  BY <1>1, WFMin
<1>4. \A y \in S : ~(y < x)
  BY <1>2, <1>3
<1>5. \A y \in S : x <= y
  BY <1>4
<1> QED BY <1>5 DEF Min

\* Whoever counts the members below each member counts from 0 up, without gaps.
Below(S, i) == {j \in S : j < i}

LEMMA Ranks ==
  ASSUME NEW S \in SUBSET Nat, IsFiniteSet(S)
  PROVE  /\ \A i \in S : Cardinality(Below(S, i)) \in 0 .. Cardinality(S) - 1
         /\ \A i, j \in S : Cardinality(Below(S, i)) = Cardinality(Below(S, j)) => i = j
         /\ \A k \in 0 .. Cardinality(S) - 1 : \E i \in S : Cardinality(Below(S, i)) = k
<1> DEFINE n == Cardinality(S)
           rank == [i \in S |-> Cardinality(Below(S, i))]
<1>1. n \in Nat
  BY FS_CardinalityType
<1>2. \A i \in S : Below(S, i) \in SUBSET S /\ i \notin Below(S, i)
  BY DEF Below
<1>3. ASSUME NEW i \in S
      PROVE  /\ IsFiniteSet(Below(S, i)) /\ Cardinality(Below(S, i)) \in Nat
             /\ Cardinality(Below(S, i)) < n
  <2>1. IsFiniteSet(Below(S, i)) /\ Cardinality(Below(S, i)) <= n /\ Below(S, i) # S
    BY <1>2, FS_Subset
  <2>2. Cardinality(Below(S, i)) # n
    BY <1>2, <2>1, FS_Subset
  <2> QED BY <1>1, <2>1, <2>2, FS_CardinalityType
<1>4. ASSUME NEW i \in S, NEW j \in S, i < j
      PROVE  Cardinality(Below(S, i)) < Cardinality(Below(S, j))
  <2> i \in Nat /\ j \in Nat /\ \A k \in S : k \in Nat
    OBVIOUS
  <2>1. (\A k \in Below(S, i) : k \in Below(S, j)) /\ i \in Below(S, j) /\ i \notin Below(S, i)
    BY <1>4 DEF Below
  <2>2. Cardinality(Below(S, i)) <= Cardinality(Below(S, j))
    BY <1>3, <2>1, FS_Subset
  <2>3. Cardinality(Below(S, i)) # Cardinality(Below(S, j))
    BY <1>3, <2>1, FS_Subset
  <2> QED BY <1>3, <2>2, <2>3
<1>5. ASSUME NEW i \in S, NEW j \in S, Cardinality(Below(S, i)) = Cardinality(Below(S, j))
      PROVE  i = j
  <2>1. i \in Nat /\ j \in Nat
    OBVIOUS
  <2>2. CASE i < j
    BY <1>3, <1>4, <1>5, <2>2
  <2>3. CASE j < i
    BY <1>3, <1>4, <1>5, <2>3
  <2> QED BY <2>1, <2>2, <2>3
<1>6. rank \in Injection(S, 0 .. n - 1)
  BY <1>1, <1>3, <1>5 DEF Injection, IsInjective
<1> HIDE DEF n
<1>7. IsFiniteSet(0 .. n - 1) /\ Cardinality(0 .. n - 1) = n
  <2>1. 0 \in Int /\ n - 1 \in Int /\ (0 > n - 1 => n = 0) /\ n - 1 - 0 + 1 = n
    BY <1>1
  <2> QED BY <2>1, FS_Interval
<1> USE DEF n
<1>8. rank \in Surjection(S, 0 .. n - 1)
  BY <1>6, <1>7, FS_Injection
<1>9. \A k \in 0 .. n - 1 : \E i \in S : Cardinality(Below(S, i)) = k
  BY <1>8 DEF Surjection
<1> QED BY <1>1, <1>3, <1>5, <1>9

-----------------------------------------------------------------------------
(* Strings in arrays *)

\* A string of a that begins at p or before it ends.
Ends(a, p) == \E i \in Cells : i >= p /\ a[i] = NUL

LEMMA EndOf ==
  ASSUME NEW a, NEW p \in Cells, Ends(a, p)
  PROVE  /\ End(a, p) \in Cells /\ p <= End(a, p) /\ a[End(a, p)] = NUL
         /\ \A i \in Cells : p <= i /\ i < End(a, p) => a[i] # NUL
         /\ \A e \in Cells : p <= e /\ a[e] = NUL /\ (\A i \in Cells : p <= i /\ i < e => a[i] # NUL)
              => End(a, p) = e
<1> DEFINE S == {i \in Cells : i >= p /\ a[i] = NUL}
<1>1. S \in SUBSET Nat /\ S # {}
  BY ShellAssumption DEF Ends, Cells
<1>2. Min(S) \in S /\ \A k \in S : Min(S) <= k
  BY <1>1, LeastNatural
<1>3. End(a, p) = Min(S)
  BY DEF End
<1> DEFINE m == Min(S)
<1>4. m \in Cells /\ p <= m /\ a[m] = NUL /\ m \in Int
  BY <1>1, <1>2
<1>5. \A i \in Cells : p <= i /\ i < m => a[i] # NUL
  <2> SUFFICES ASSUME NEW i \in Cells, p <= i, i < m, a[i] = NUL PROVE FALSE
    OBVIOUS
  <2>1. i \in S /\ i \in Int
    BY DEF Cells
  <2> QED BY <1>2, <1>4, <2>1
<1>6. ASSUME NEW e \in Cells, p <= e, a[e] = NUL,
             \A i \in Cells : p <= i /\ i < e => a[i] # NUL
      PROVE  m = e
  <2>1. e \in S /\ e \in Int
    BY <1>6 DEF Cells
  <2>2. m <= e
    BY <1>2, <2>1
  <2>3. ~(m < e)
    BY <1>4, <1>6
  <2> HIDE DEF m
  <2> QED BY <1>4, <2>1, <2>2, <2>3
<1> HIDE DEF m
<1>7. End(a, p) = m
  BY <1>3 DEF m
<1> QED BY <1>4, <1>5, <1>6, <1>7

\* The line in an array, character by character
LEMMA LineOf ==
  ASSUME NEW a, Ends(a, 0)
  PROVE  /\ End(a, 0) \in Cells /\ a[End(a, 0)] = NUL /\ End(a, 0) \in Nat
         /\ StringAt(a, 0) \in Seq(UNION {{a[i]} : i \in Cells})
         /\ Len(StringAt(a, 0)) = End(a, 0)
         /\ \A i \in 1 .. End(a, 0) : StringAt(a, 0)[i] = a[i - 1]
         /\ \A i \in Cells : i < End(a, 0) => a[i] # NUL
<1> DEFINE e == End(a, 0)
<1>1. 0 \in Cells
  BY ShellAssumption DEF Cells
<1>2. e \in Cells /\ a[e] = NUL /\ \A i \in Cells : i < e => a[i] # NUL
  <2>1. \A i \in Cells : 0 <= i
    BY DEF Cells
  <2> QED BY <1>1, <2>1, EndOf
<1>3. e \in Nat /\ \A i \in 1 .. e : i - 1 \in Cells
  BY <1>2, ShellAssumption DEF Cells
<1>4. StringAt(a, 0) = [i \in 1 .. e - 0 |-> a[0 + i - 1]]
  BY DEF StringAt
<1> HIDE DEF e
<1>5. e - 0 = e /\ \A i \in 1 .. e : 0 + i - 1 = i - 1
  BY <1>3
<1>6. StringAt(a, 0) = [i \in 1 .. e |-> a[i - 1]]
  BY <1>4, <1>5
<1>7. \A i \in 1 .. e : a[i - 1] \in UNION {{a[j]} : j \in Cells}
  BY <1>3
<1>8. StringAt(a, 0) \in [1 .. e -> UNION {{a[i]} : i \in Cells}]
  BY <1>6, <1>7
<1>9. StringAt(a, 0) \in Seq(UNION {{a[i]} : i \in Cells}) /\ Len(StringAt(a, 0)) = e
  BY <1>3, <1>8
<1> QED BY <1>2, <1>3, <1>6, <1>9 DEF e

-----------------------------------------------------------------------------
(* Words *)

\* A word has one end, ...
LEMMA RunIsItsStart ==
  ASSUME NEW l, Len(l) \in Nat, NEW r \in Runs(l), NEW q \in Runs(l), r[1] = q[1]
  PROVE  r = q
<1>1. /\ r = <<r[1], r[2]>> /\ q = <<q[1], q[2]>>
      /\ r[1] \in Nat /\ r[2] \in Nat /\ q[2] \in Nat
      /\ r[2] <= Len(l) /\ q[2] <= Len(l) /\ r[1] <= r[2] /\ r[1] <= q[2]
  BY DEF Runs
<1>2. /\ \A k \in r[1] .. r[2] : l[k] # SP
      /\ \A k \in r[1] .. q[2] : l[k] # SP
      /\ r[2] = Len(l) \/ l[r[2] + 1] = SP
      /\ q[2] = Len(l) \/ l[q[2] + 1] = SP
  BY DEF Runs
<1> DEFINE f == r[1]  x == r[2]  y == q[2]
<1>3. x = y
  <2> HIDE DEF f, x, y
  <2>1. /\ f \in Nat /\ x \in Nat /\ y \in Nat /\ x <= Len(l) /\ y <= Len(l) /\ f <= x /\ f <= y
        /\ \A k \in f .. x : l[k] # SP
        /\ \A k \in f .. y : l[k] # SP
        /\ x = Len(l) \/ l[x + 1] = SP
        /\ y = Len(l) \/ l[y + 1] = SP
    BY <1>1, <1>2 DEF f, x, y
  <2>2. CASE x < y
    <3>1. x + 1 \in f .. y
      BY <2>1, <2>2
    <3> QED BY <2>1, <2>2, <3>1
  <2>3. CASE y < x
    <3>1. y + 1 \in f .. x
      BY <2>1, <2>3
    <3> QED BY <2>1, <2>3, <3>1
  <2> QED BY <2>1, <2>2, <2>3
<1> QED BY <1>1, <1>3

\* ... begins where tokenize sees one begin, ...
LEMMA RunStarts ==
  ASSUME NEW a, Ends(a, 0), NEW r \in Runs(StringAt(a, 0))
  PROVE  r[1] - 1 \in Starts(a)
<1> DEFINE l == StringAt(a, 0)  e == End(a, 0)  f == r[1]
<1>1. /\ e \in Nat /\ Len(l) = e /\ \A i \in 1 .. e : l[i] = a[i - 1]
  BY LineOf
<1>2. r \in Runs(l)
  OBVIOUS
<1> HIDE DEF l, e
<1>3. /\ f \in 1 .. Len(l) /\ r[2] \in 1 .. Len(l) /\ f <= r[2]
      /\ \A k \in f .. r[2] : l[k] # SP
      /\ f = 1 \/ l[f - 1] = SP
  BY <1>2 DEF Runs
<1> HIDE DEF f
<1>4. l[f] # SP /\ f \in 1 .. e
  BY <1>1, <1>3
<1>5. f - 1 \in 0 .. e - 1 /\ a[f - 1] # SP
  BY <1>1, <1>4
<1>6. f - 1 = 0 \/ a[f - 1 - 1] = SP
  <2>1. CASE f # 1
    <3>1. f - 1 \in 1 .. e
      BY <1>1, <1>4, <2>1
    <3> QED BY <1>1, <1>3, <2>1, <3>1
  <2>2. CASE f = 1
    BY <2>2
  <2> QED BY <2>1, <2>2
<1> QED BY <1>5, <1>6 DEF Starts, e, f

\* ... and one does at each of these.
LEMMA StartsRun ==
  ASSUME NEW a, Ends(a, 0), NEW i \in Starts(a)
  PROVE  \E r \in Runs(StringAt(a, 0)) : r[1] = i + 1
<1> DEFINE l == StringAt(a, 0)  e == End(a, 0)
<1>1. /\ e \in Nat /\ Len(l) = e /\ \A k \in 1 .. e : l[k] = a[k - 1]
  BY LineOf
<1>2. i \in 0 .. e - 1 /\ a[i] # SP /\ (i = 0 \/ a[i - 1] = SP)
  BY DEF Starts
<1> HIDE DEF l, e
<1> DEFINE S == {k \in i + 1 .. e : k = e \/ l[k + 1] = SP}
           m == Min(S)
<1>3. S \in SUBSET Nat /\ S # {}
  <2>1. e \in i + 1 .. e /\ \A k \in i + 1 .. e : k \in Nat
    BY <1>1, <1>2
  <2> QED BY <2>1
<1>4. m \in S /\ \A k \in S : m <= k
  BY <1>3, LeastNatural
<1> HIDE DEF m
<1>5. m \in i + 1 .. e /\ (m = e \/ l[m + 1] = SP)
  BY <1>4
<1>6. ASSUME NEW k \in i + 1 .. m PROVE l[k] # SP
  <2>1. CASE k = i + 1
    <3>1. k \in 1 .. e /\ k - 1 = i
      BY <1>1, <1>2, <2>1
    <3> QED BY <1>1, <1>2, <3>1
  <2>2. CASE k # i + 1
    <3>1. k - 1 \in i + 1 .. e /\ k - 1 < m /\ k - 1 \in Int /\ m \in Int /\ k - 1 + 1 = k
      BY <1>1, <1>2, <1>5, <1>6, <2>2
    <3>2. k - 1 \notin S
      BY <1>4, <3>1
    <3> QED BY <3>1, <3>2
  <2> QED BY <2>1, <2>2
<1>7. i + 1 \in 1 .. Len(l) /\ m \in 1 .. Len(l) /\ i + 1 <= m
  BY <1>1, <1>2, <1>5
<1>8. i = 0 \/ l[i] = SP
  <2>1. CASE i # 0
    <3>1. i \in 1 .. e
      BY <1>1, <1>2, <2>1
    <3> QED BY <1>1, <1>2, <2>1, <3>1
  <2> QED BY <2>1
<1> PICK j : j = i + 1
  OBVIOUS
<1>9. j \in Int /\ j = i + 1 /\ j - 1 = i /\ (i = 0 <=> j = 1)
  BY <1>1, <1>2
<1>10. /\ j <= m /\ \A k \in j .. m : l[k] # SP
       /\ j = 1 \/ l[j - 1] = SP
       /\ m = Len(l) \/ l[m + 1] = SP
       /\ j \in 1 .. Len(l) /\ m \in 1 .. Len(l)
  BY ONLY <1>1, <1>5, <1>6, <1>7, <1>8, <1>9
<1>11. PICK r \in (1 .. Len(l)) \X (1 .. Len(l)) : r[1] = j /\ r[2] = m
  <2>1. <<j, m>> \in (1 .. Len(l)) \X (1 .. Len(l))
    BY <1>10
  <2> QED BY <2>1
<1>12. r \in Runs(l)
  BY <1>10, <1>11 DEF Runs
<1> QED BY <1>9, <1>11, <1>12 DEF l

\* tokenize's count when it comes to a cell
CountAt(a, i) == Cardinality({j \in Starts(a) : j < i})

\* A word's rank among the words is tokenize's count where it begins.
RunsBefore(l, r) == {q \in Runs(l) : q[1] < r[1]}

LEMMA RunsAreCounted ==
  ASSUME NEW a, Ends(a, 0)
  PROVE  /\ IsFiniteSet(Starts(a)) /\ Starts(a) \in SUBSET Nat
         /\ Cardinality(Runs(StringAt(a, 0))) = Cardinality(Starts(a))
         /\ \A r \in Runs(StringAt(a, 0)) :
              Cardinality(RunsBefore(StringAt(a, 0), r)) = CountAt(a, r[1] - 1)
<1> DEFINE l == StringAt(a, 0)  R == Runs(l)  S == Starts(a)
           f == [r \in R |-> r[1] - 1]
<1>1. Len(l) \in Nat /\ End(a, 0) \in Nat
  BY LineOf
<1>2. S \in SUBSET Nat /\ \A i \in S : i <= End(a, 0)
  BY <1>1 DEF Starts
<1>3. IsFiniteSet(S)
  BY <1>1, <1>2, FS_BoundedSetOfNaturals
<1>4. \A r \in R : r[1] \in Nat /\ r[1] - 1 \in S
  BY <1>1, RunStarts DEF Runs
<1>5. \A i \in S : \E r \in R : r[1] = i + 1
  BY StartsRun
<1>6. \A r, q \in R : r[1] = q[1] => r = q
  BY <1>1, RunIsItsStart
<1> HIDE DEF R, S, l
<1>7. ASSUME NEW A \in SUBSET R, NEW B \in SUBSET S,
             \A r \in A : r[1] - 1 \in B,
             \A i \in B : \A r \in R : r[1] = i + 1 => r \in A
      PROVE  Cardinality(A) = Cardinality(B)
  <2> DEFINE g == [r \in A |-> r[1] - 1]
  <2>1. \A r, q \in A : r[1] - 1 = q[1] - 1 => r = q
    BY <1>4, <1>6
  <2>2. g \in Injection(A, B)
    BY <1>7, <2>1 DEF Injection, IsInjective
  <2>3. IsFiniteSet(B)
    BY <1>3, FS_Subset
  <2>4. ASSUME NEW i \in B PROVE \E r \in A : g[r] = i
    <3>1. i \in Nat
      BY <1>2
    <3>2. PICK r \in R : r[1] = i + 1
      BY <1>5
    <3>3. r \in A
      BY <1>7, <3>2
    <3> QED BY <3>1, <3>2, <3>3
  <2>5. g \in Surjection(A, B)
    BY <1>7, <2>4 DEF Surjection
  <2> QED BY <2>2, <2>3, <2>5, FS_Injection
<1>8. Cardinality(R) = Cardinality(S)
  BY <1>4, <1>7
<1>9. ASSUME NEW r \in R
      PROVE  Cardinality({q \in R : q[1] < r[1]}) = Cardinality({i \in S : i < r[1] - 1})
  <2> DEFINE A == {q \in R : q[1] < r[1]}  B == {i \in S : i < r[1] - 1}
  <2>1. A \in SUBSET R /\ B \in SUBSET S
    OBVIOUS
  <2>2. \A q \in A : q[1] - 1 \in B
    BY <1>4
  <2>3. \A i \in B : \A q \in R : q[1] = i + 1 => q \in A
    <3> SUFFICES ASSUME NEW i \in B, NEW q \in R, q[1] = i + 1 PROVE q[1] < r[1]
      OBVIOUS
    <3>1. i \in Nat /\ i < r[1] - 1 /\ r[1] \in Nat
      BY <1>2, <1>4
    <3> QED BY <3>1
  <2> HIDE DEF A, B
  <2>4. Cardinality(A) = Cardinality(B)
    BY <1>7, <2>1, <2>2, <2>3
  <2> QED BY <2>4 DEF A, B
<1> QED BY <1>2, <1>3, <1>8, <1>9 DEF R, S, l, RunsBefore, CountAt

\* tokenize leaves the words of its string, and nothing in the other slots.
Live(a, p) == p \in Cells /\ Ends(a, p)

LEMMA CutEndsWords ==
  ASSUME NEW a, Ends(a, 0), NEW r \in Runs(StringAt(a, 0))
  PROVE  /\ Live(Cut(a), r[1] - 1)
         /\ StringAt(Cut(a), r[1] - 1) = SubSeq(StringAt(a, 0), r[1], r[2])
<1> DEFINE l == StringAt(a, 0)  e == End(a, 0)  b == Cut(a)  f == r[1]  m == r[2]
<1>1. /\ e \in Nat /\ e \in Cells /\ Len(l) = e /\ a[e] = NUL
      /\ \A k \in 1 .. e : l[k] = a[k - 1]
      /\ \A k \in Cells : k < e => a[k] # NUL
  BY LineOf
<1>2. \A k \in Cells : b[k] = IF k < e /\ a[k] = SP THEN NUL ELSE a[k]
  BY DEF Cut
<1>3. /\ f \in 1 .. e /\ m \in 1 .. e /\ f <= m
      /\ \A k \in f .. m : l[k] # SP
      /\ m = e \/ l[m + 1] = SP
  BY <1>1 DEF Runs
<1>4. \A k \in 0 .. e : k \in Cells
  BY <1>1, ShellAssumption DEF Cells
<1> HIDE DEF l, e, b, f, m
<1>5. ASSUME NEW k \in Cells, f - 1 <= k, k < m
      PROVE  k + 1 \in f .. m /\ b[k] = a[k] /\ a[k] = l[k + 1] /\ b[k] # NUL
  <2>1. k \in Int
    BY DEF Cells
  <2>2. k + 1 \in f .. m /\ k + 1 \in 1 .. e /\ k < e /\ k + 1 - 1 = k
    BY <1>1, <1>3, <1>5, <2>1
  <2> QED BY <1>1, <1>2, <1>3, <2>2
<1>6. b[m] = NUL /\ m \in Cells /\ f - 1 \in Cells /\ f - 1 <= m
  <2>1. f - 1 \in 0 .. e /\ m \in 0 .. e /\ f - 1 <= m
    BY <1>1, <1>3
  <2>2. CASE m = e
    BY <1>1, <1>2, <1>4, <2>1, <2>2 DEF SP, NUL
  <2>3. CASE m # e
    <3>1. m + 1 \in 1 .. e /\ m + 1 - 1 = m /\ m < e
      BY <1>1, <1>3, <2>3
    <3> QED BY <1>1, <1>2, <1>3, <1>4, <2>1, <2>3, <3>1
  <2> QED BY <1>4, <2>1, <2>2, <2>3
<1>7. Ends(b, f - 1) /\ End(b, f - 1) = m
  <2>1. Ends(b, f - 1)
    BY <1>3, <1>6 DEF Ends
  <2>2. \A k \in Cells : f - 1 <= k /\ k < m => b[k] # NUL
    BY <1>5
  <2> QED BY <1>6, <2>1, <2>2, EndOf
<1>8. StringAt(b, f - 1) = [k \in 1 .. m - (f - 1) |-> b[f - 1 + k - 1]]
  BY <1>7 DEF StringAt
<1>9. SubSeq(l, f, m) = [k \in 1 .. m - (f - 1) |-> l[f + k - 1]]
  <2>1. 1 .. m - f + 1 = 1 .. m - (f - 1)
    BY <1>3
  <2>2. SubSeq(l, f, m) = [k \in 1 .. m - f + 1 |-> l[f + k - 1]]
    BY <1>1, <1>3
  <2> QED BY <2>1, <2>2
<1>10. \A k \in 1 .. m - (f - 1) : b[f - 1 + k - 1] = l[f + k - 1]
  <2> TAKE k \in 1 .. m - (f - 1)
  <2>1. f - 1 + k - 1 \in Cells /\ f - 1 <= f - 1 + k - 1 /\ f - 1 + k - 1 < m
        /\ f - 1 + k - 1 + 1 = f + k - 1
    <3>1. f - 1 + k - 1 \in 0 .. e /\ f - 1 <= f - 1 + k - 1 /\ f - 1 + k - 1 < m
        /\ f - 1 + k - 1 + 1 = f + k - 1
      BY <1>1, <1>3
    <3> QED BY <1>4, <3>1
  <2> QED BY <1>5, <2>1
<1> QED BY <1>6, <1>7, <1>8, <1>9, <1>10 DEF Live, l, b, f, m

\* The tokens that tokenize stores are those of its string (sh.c:17).
TokensOf(a, old, k) ==
  LET p == Pointers(a, old)[k]
      w == Words(StringAt(a, 0))
  IN IF k < Len(w)
     THEN Live(Cut(a), p) /\ StringAt(Cut(a), p) = w[k + 1]
     ELSE p = old[k]

LEMMA TokenizeFindsWords ==
  ASSUME NEW a, Ends(a, 0), NEW old, NEW k \in Slots
  PROVE  TokensOf(a, old, k)
<1> DEFINE l == StringAt(a, 0)  S == Starts(a)  R == Runs(l)
           Nth(n) == CHOOSE r \in R : Cardinality(RunsBefore(l, r)) = n - 1
           p == Pointers(a, old)[k]
<1>1. /\ S \in SUBSET Nat /\ IsFiniteSet(S) /\ Cardinality(R) = Cardinality(S)
      /\ \A r \in R : Cardinality(RunsBefore(l, r)) = CountAt(a, r[1] - 1)
  BY RunsAreCounted
<1>2. Cardinality(S) \in Nat /\ k \in Nat
  BY <1>1, FS_CardinalityType DEF Slots
<1>3. \A i : CountAt(a, i) = Cardinality(Below(S, i))
  BY DEF CountAt, Below
<1>4. /\ \A i \in S : CountAt(a, i) \in 0 .. Cardinality(S) - 1
      /\ \A i, j \in S : CountAt(a, i) = CountAt(a, j) => i = j
      /\ \A n \in 0 .. Cardinality(S) - 1 : \E i \in S : CountAt(a, i) = n
  BY <1>1, <1>3, Ranks
<1>5. Words(l) = [n \in 1 .. Cardinality(R) |-> SubSeq(l, Nth(n)[1], Nth(n)[2])]
  BY DEF Words, RunsBefore
<1>6. Len(Words(l)) = Cardinality(S)
  BY <1>1, <1>2, <1>5
<1>7. p = IF \E i \in S : CountAt(a, i) = k
          THEN CHOOSE i \in S : CountAt(a, i) = k ELSE old[k]
  BY DEF Pointers, CountAt
<1>8. CASE k < Cardinality(S)
  <2>1. k \in 0 .. Cardinality(S) - 1 /\ k + 1 \in 1 .. Cardinality(R) /\ k + 1 - 1 = k
    BY <1>1, <1>2, <1>8
  <2>2. p \in S /\ CountAt(a, p) = k
    BY <1>4, <1>7, <2>1
  <2>3. PICK r \in R : r[1] = p + 1
    BY <2>2, StartsRun
  <2>4. p \in Nat /\ r[1] - 1 = p
    BY <1>1, <2>2, <2>3
  <2> DEFINE q == CHOOSE r1 \in R : Cardinality(RunsBefore(l, r1)) = k
  <2>5. q \in R /\ Cardinality(RunsBefore(l, q)) = k
    <3>1. Cardinality(RunsBefore(l, r)) = k
      BY <1>1, <2>2, <2>4
    <3> QED BY <3>1
  <2> HIDE DEF q
  <2>6. q[1] - 1 \in S /\ CountAt(a, q[1] - 1) = k
    BY <1>1, <2>5, RunStarts
  <2>7. q[1] - 1 = p
    BY <1>4, <2>2, <2>6
  <2>8. Nth(k + 1) = q
    BY <2>1 DEF q
  <2>9. Words(l)[k + 1] = SubSeq(l, q[1], q[2])
    BY <1>5, <2>1, <2>8
  <2>10. Live(Cut(a), p) /\ StringAt(Cut(a), p) = SubSeq(l, q[1], q[2])
    BY <2>5, <2>7, CutEndsWords
  <2> QED BY <1>6, <1>8, <2>9, <2>10 DEF TokensOf
<1>9. CASE ~(k < Cardinality(S))
  <2>1. \A i \in S : CountAt(a, i) # k
    BY <1>2, <1>4, <1>9
  <2> QED BY <1>6, <1>7, <1>9, <2>1 DEF TokensOf
<1> QED BY <1>8, <1>9

-----------------------------------------------------------------------------
(* Lines *)

Chars == STRING \cup {NL}

\* What the user has typed up to an Enter
IsLine(s) ==
  /\ s \in Seq(Chars) /\ Len(s) \in 1 .. SIZE /\ s[Len(s)] = NL
  /\ \A i \in 1 .. Len(s) - 1 : s[i] \notin {NL, NUL}

LEMMA UpToFirst ==
  ASSUME NEW T, NEW s \in Seq(T), NEW c
  PROVE  \E n \in 0 .. Len(s) :
           /\ UpTo(s, c) = SubSeq(s, 1, n)
           /\ \A i \in 1 .. n : s[i] # c
           /\ n < Len(s) => s[n + 1] = c
<1>1. CASE c \in ToSet(s)
  <2> DEFINE I == {i \in 1 .. Len(s) : s[i] = c}  m == Min(I)
  <2>1. I \in SUBSET Nat /\ I # {}
    BY <1>1 DEF ToSet
  <2>2. m \in I /\ \A i \in I : m <= i
    BY <2>1, LeastNatural
  <2>3. SelectInSeq(s, LAMBDA x : x = c) = m
    BY <2>1 DEF SelectInSeq
  <2>4. UpTo(s, c) = SubSeq(s, 1, m - 1)
    BY <1>1, <2>3 DEF UpTo
  <2> HIDE DEF m
  <2>5. m \in 1 .. Len(s) /\ s[m] = c
    BY <2>2
  <2>6. ASSUME NEW i \in 1 .. m - 1 PROVE s[i] # c
    <3>1. i \in 1 .. Len(s) /\ i < m
      BY <2>5
    <3>2. i \notin I
      BY <2>2, <2>5, <3>1
    <3> QED BY <3>1, <3>2
  <2>7. m - 1 \in 0 .. Len(s) /\ m - 1 + 1 = m
    BY <2>5
  <2> QED BY <2>4, <2>5, <2>6, <2>7
<1>2. CASE c \notin ToSet(s)
  <2>1. UpTo(s, c) = s
    BY <1>2 DEF UpTo
  <2>2. SubSeq(s, 1, Len(s)) = s
    OBVIOUS
  <2>3. \A i \in 1 .. Len(s) : s[i] # c
    BY <1>2 DEF ToSet
  <2>4. Len(s) \in 0 .. Len(s) /\ ~(Len(s) < Len(s))
    OBVIOUS
  <2> QED BY <2>1, <2>2, <2>3, <2>4
<1> QED BY <1>1, <1>2

LEMMA LineBeforeEnter ==
  ASSUME NEW s, IsLine(s)
  PROVE  /\ UpTo(s, NL) = SubSeq(s, 1, Len(s) - 1)
         /\ Head(s) = NL <=> Len(s) = 1
<1>1. s \in Seq(Chars) /\ Len(s) \in Nat /\ Len(s) >= 1 /\ s[Len(s)] = NL
  BY ShellAssumption DEF IsLine
<1>2. PICK n \in 0 .. Len(s) :
           /\ UpTo(s, NL) = SubSeq(s, 1, n)
           /\ \A i \in 1 .. n : s[i] # NL
           /\ n < Len(s) => s[n + 1] = NL
  BY <1>1, UpToFirst
<1>3. n # Len(s)
  BY <1>1, <1>2
<1>4. ~(n < Len(s) - 1)
  <2> SUFFICES ASSUME n < Len(s) - 1 PROVE FALSE
    OBVIOUS
  <2>1. n + 1 \in 1 .. Len(s) - 1 /\ n < Len(s)
    BY <1>1, <1>2
  <2> QED BY <1>2, <2>1 DEF IsLine
<1>5. n = Len(s) - 1
  BY <1>1, <1>2, <1>3, <1>4
<1>6. Head(s) = NL <=> Len(s) = 1
  <2>1. Head(s) = s[1]
    BY <1>1
  <2>2. \A k \in Nat : k >= 1 /\ k # 1 => 1 \in 1 .. k - 1
    OBVIOUS
  <2> QED BY <1>1, <2>1, <2>2 DEF IsLine
<1> QED BY <1>2, <1>5, <1>6

\* scanf leaves the line in input, or the line before when it is empty, and
\* every string that had an end still has one.
LEMMA ScannedLine ==
  ASSUME NEW a, Ends(a, 0), NEW s, IsLine(s)
  PROVE  LET x == Scanned(a, UpTo(s, NL))
         IN /\ Ends(x, 0)
            /\ StringAt(x, 0) = IF Head(s) = NL THEN StringAt(a, 0) ELSE UpTo(s, NL)
            /\ \A p \in Cells : Ends(a, p) => Ends(x, p)
<1> DEFINE l == UpTo(s, NL)  x == Scanned(a, l)  n == Len(s) - 1
<1>1. l = SubSeq(s, 1, n) /\ s \in Seq(Chars) /\ n \in 0 .. SIZE - 1 /\ (Head(s) = NL <=> n = 0)
  <2>1. Len(s) \in 1 .. SIZE /\ s \in Seq(Chars)
    BY DEF IsLine
  <2> QED BY <2>1, LineBeforeEnter, ShellAssumption
<1>2. l \in Seq(Chars) /\ Len(l) = n /\ \A i \in 1 .. n : l[i] = s[i]
  <2>1. n \in Nat /\ n <= Len(s)
    BY <1>1, ShellAssumption
  <2> HIDE DEF n, l
  <2>2. \A i \in 1 .. n : s[i] \in Chars
    BY <1>1, <2>1
  <2>3. l = [i \in 1 .. n |-> s[i]]
    BY <1>1, <2>1
  <2> QED BY <2>1, <2>2, <2>3
<1>3. \A i \in Cells : x[i] = IF l = <<>> \/ i > n THEN a[i] ELSE IF i = n THEN NUL ELSE l[i + 1]
  BY <1>2 DEF Scanned
<1>4. l = <<>> <=> n = 0
  BY <1>2
<1>5. \A i \in 1 .. n : l[i] # NUL
  BY <1>2 DEF IsLine
<1> HIDE DEF x, l, n
<1>6. n \in Nat /\ n \in Cells /\ 0 \in Cells /\ \A i \in Cells : i \in Int /\ 0 <= i
  BY <1>1, ShellAssumption DEF Cells
<1>7. ASSUME NEW p \in Cells, Ends(a, p) PROVE Ends(x, p)
  <2>1. PICK i \in Cells : i >= p /\ a[i] = NUL
    BY <1>7 DEF Ends
  <2>2. CASE n = 0 \/ i > n
    BY <1>3, <1>4, <2>1, <2>2 DEF Ends
  <2>3. CASE n # 0 /\ ~(i > n)
    <3>1. x[n] = NUL /\ n >= p
      BY <1>3, <1>4, <1>6, <2>1, <2>3
    <3> QED BY <1>6, <3>1 DEF Ends
  <2> QED BY <2>2, <2>3
<1>8. Ends(x, 0)
  BY <1>6, <1>7
<1>9. CASE n = 0
  <2>1. \A i \in Cells : x[i] = a[i]
    BY <1>3, <1>4, <1>9
  <2>2. StringAt(x, 0) = StringAt(a, 0)
    <3>1. End(x, 0) = End(a, 0)
      BY <2>1 DEF End
    <3>2. End(a, 0) \in Nat /\ \A i \in 1 .. End(a, 0) : i - 1 \in Cells
      <4>1. End(a, 0) \in Cells /\ End(a, 0) \in Nat
        BY LineOf
      <4> QED BY <4>1, ShellAssumption DEF Cells
    <3>3. \A i \in 1 .. End(a, 0) - 0 : x[0 + i - 1] = a[0 + i - 1]
      <4>1. \A i \in 1 .. End(a, 0) - 0 : i \in 1 .. End(a, 0) /\ 0 + i - 1 = i - 1
        BY <3>2
      <4> QED BY <2>1, <3>2, <4>1
    <3> QED BY <3>1, <3>3 DEF StringAt
  <2> QED BY <1>1, <1>7, <1>8, <1>9, <2>2 DEF x, l
<1>10. CASE n # 0
  <2>1. x[n] = NUL
    BY <1>3, <1>4, <1>6, <1>10
  <2>2. ASSUME NEW i \in Cells, i < n PROVE x[i] = l[i + 1] /\ i + 1 \in 1 .. n
    <3>1. i \in Int /\ 0 <= i /\ ~(i > n) /\ i # n /\ i + 1 \in 1 .. n
      BY <1>6, <2>2
    <3> QED BY <1>3, <1>4, <1>10, <3>1
  <2>3. \A i \in Cells : 0 <= i /\ i < n => x[i] # NUL
    BY <1>5, <2>2
  <2>4. End(x, 0) = n
    BY <1>6, <1>8, <2>1, <2>3, EndOf
  <2>5. /\ StringAt(x, 0) \in Seq(UNION {{x[i]} : i \in Cells}) /\ Len(StringAt(x, 0)) = n
        /\ \A i \in 1 .. n : StringAt(x, 0)[i] = x[i - 1]
    BY <1>8, <2>4, LineOf
  <2>6. ASSUME NEW i \in 1 .. n PROVE StringAt(x, 0)[i] = l[i]
    <3>1. i - 1 \in Cells /\ i - 1 < n /\ i - 1 + 1 = i
      BY <1>1, <1>6, ShellAssumption DEF Cells
    <3> QED BY <2>2, <2>5, <3>1
  <2>7. StringAt(x, 0) = l
    BY <1>2, <2>5, <2>6
  <2> QED BY <1>1, <1>7, <1>8, <1>10, <2>7 DEF x, l
<1> QED BY <1>9, <1>10

\* So does cutting.
LEMMA CutKeepsEnds ==
  ASSUME NEW a, NEW p, Ends(a, p)
  PROVE  Ends(Cut(a), p)
BY DEF Ends, Cut

-----------------------------------------------------------------------------
(* The invariant *)

\* A slot that no word of the line was stored in
Stale(k) ==
  \/ tokens[k] = NULL
  \/ unreset /\ (tokens[k] = WILD \/ Live(input, tokens[k]))

\* The words of the line stand in the first slots.
Found(k) ==
  LET w == Words(line)
  IN IF k < Len(w)
     THEN Live(input, tokens[k]) /\ StringAt(input, tokens[k]) = w[k + 1]
     ELSE Stale(k)

(* The inductive invariant: input holds a string, stdin is read empty by   *)
(* every command line, and what is in the slots.                           *)
SInv ==
  /\ pc \in {"prompt", "run", "data"}
  /\ Ends(input, 0)
  /\ stdin = <<>> \/ (pc = "prompt" /\ wrote /\ IsLine(stdin))
  /\ \A k \in Slots : IF pc = "prompt" THEN Stale(k) ELSE Found(k)

LEMMA SInvInit == Init => SInv
<1> SUFFICES ASSUME Init PROVE SInv
  OBVIOUS
<1>1. pc = "prompt" /\ stdin = <<>> /\ unreset /\ input \in StackCells /\ tokens \in StackPointers
  BY DEF Init, ShellInit
<1>2. SIZE - 1 \in Cells /\ SIZE - 1 >= 0
  BY ShellAssumption DEF Cells
<1>3. input[SIZE - 1] = NUL
  BY <1>1, <1>2 DEF StackCells
<1>4. \A k \in Slots : tokens[k] \in {NULL, WILD}
  BY <1>1 DEF StackPointers
<1> QED BY <1>1, <1>2, <1>3, <1>4 DEF SInv, Ends, Stale

\* A line and its Enter
LEMMA Entered ==
  ASSUME NEW l \in Seq(STRING)
  PROVE  /\ Append(l, NL) \in Seq(Chars) /\ Len(Append(l, NL)) = Len(l) + 1
         /\ Append(l, NL)[Len(l) + 1] = NL
         /\ \A i \in 1 .. Len(l) : Append(l, NL)[i] = l[i]
<1>1. l \in Seq(Chars) /\ NL \in Chars
  BY DEF Chars
<1> QED BY <1>1

\* What the user types, and what stdin still holds, is a line.
LEMMA WaitingIsALine ==
  ASSUME SInv, NEW typed \in Waiting
  PROVE  IsLine(typed)
<1>1. CASE stdin # <<>>
  BY <1>1 DEF Waiting, SInv
<1>2. CASE stdin = <<>>
  <2>1. PICK l \in Lines : typed = Append(l, NL)
    BY <1>2 DEF Waiting
  <2>2. l \in Seq(STRING) /\ Len(l) < SIZE /\ \A i \in 1 .. Len(l) : l[i] \notin {NL, NUL}
    BY ShellAssumption
  <2>3. Append(l, NL) \in Seq(Chars) /\ Len(Append(l, NL)) = Len(l) + 1
        /\ Append(l, NL)[Len(l) + 1] = NL
        /\ \A i \in 1 .. Len(l) : Append(l, NL)[i] = l[i]
    BY <2>2, Entered
  <2>4. Len(l) + 1 \in 1 .. SIZE /\ Len(l) + 1 - 1 = Len(l)
    BY <2>2, ShellAssumption
  <2> QED BY <2>1, <2>2, <2>3, <2>4 DEF IsLine
<1> QED BY <1>1, <1>2

LEMMA ReadKeeps ==
  ASSUME SInv, NEW typed \in Waiting, ReadCommand(typed), Noted(typed),
         UNCHANGED <<unreset, wrote>>
  PROVE  SInv'
<1> DEFINE a == Scanned(input, UpTo(typed, NL))
<1>1. IsLine(typed)
  BY WaitingIsALine
<1>2. /\ pc = "prompt" /\ stdin' = <<>> /\ input' = Cut(a) /\ tokens' = Pointers(a, tokens)
      /\ tokenCount' = Min({MAX_TOKENS, Cardinality(Starts(a))})
      /\ pc' = IF tokenCount' = 0 THEN "prompt" ELSE "run"
      /\ unreset' = unreset
  BY DEF ReadCommand, Flushed
<1>3. /\ Ends(a, 0)
      /\ StringAt(a, 0) = IF Head(typed) = NL THEN StringAt(input, 0) ELSE UpTo(typed, NL)
      /\ \A p \in Cells : Ends(input, p) => Ends(a, p)
  <2>1. Ends(input, 0)
    BY DEF SInv
  <2> QED BY <1>1, <2>1, ScannedLine
<1>4. line' = StringAt(a, 0)
  BY <1>3 DEF Noted
<1> HIDE DEF a
<1>5. \A p \in Cells : Ends(input, p) => Ends(input', p)
  BY <1>2, <1>3, CutKeepsEnds
<1>6. Ends(input', 0)
  BY <1>2, <1>3, CutKeepsEnds
<1>7. \A k \in Slots : Stale(k)
  BY <1>2 DEF SInv
<1>8. \A k \in Slots : tokens'[k] = tokens[k] => Stale(k)'
  BY <1>2, <1>5, <1>7 DEF Stale, Live
<1>9. \A k \in Slots : TokensOf(a, tokens, k)
  BY <1>3, TokenizeFindsWords
<1>10. \A k \in Slots : Found(k)'
  <2> TAKE k \in Slots
  <2>1. CASE k < Len(Words(StringAt(a, 0)))
    BY <1>2, <1>4, <1>9, <2>1 DEF Found, TokensOf
  <2>2. CASE ~(k < Len(Words(StringAt(a, 0))))
    BY <1>2, <1>4, <1>8, <1>9, <2>2 DEF Found, TokensOf
  <2> QED BY <2>1, <2>2
<1>11. ASSUME pc' = "prompt" PROVE \A k \in Slots : Stale(k)'
  <2>1. tokenCount' = 0
    BY <1>2, <1>11
  <2>2. Starts(a) = {}
    <3>1. IsFiniteSet(Starts(a)) /\ Cardinality(Starts(a)) \in Nat
      BY <1>3, RunsAreCounted, FS_CardinalityType
    <3>2. {MAX_TOKENS, Cardinality(Starts(a))} \in SUBSET Nat
      BY <3>1, ShellAssumption
    <3>3. Min({MAX_TOKENS, Cardinality(Starts(a))}) \in {MAX_TOKENS, Cardinality(Starts(a))}
      BY <3>2, LeastNatural
    <3>4. Cardinality(Starts(a)) = 0
      BY <1>2, <2>1, <3>3, ShellAssumption
    <3> QED BY <3>1, <3>4, FS_EmptySet
  <2>3. \A k \in Slots : tokens'[k] = tokens[k]
    BY <1>2, <2>2 DEF Pointers
  <2> QED BY <1>8, <2>3
<1>12. pc' \in {"prompt", "run", "data"}
  BY <1>2
<1> QED BY <1>2, <1>6, <1>10, <1>11, <1>12 DEF SInv

\* What is behind the word that ReadData takes is a line.
LEMMA RestIsALine ==
  ASSUME NEW l \in Lines, ReadData(l)
  PROVE  IsLine(stdin')
<1> DEFINE I == {i \in 1 .. Len(l) : l[i] # SP}
           start == Min(I)
           tail == SubSeq(l, start, Len(l))
           word == UpTo(tail, SP)
           s == Append(l, NL)
           f == start + Len(word)
<1>1. l \in Seq(STRING) /\ Len(l) < SIZE /\ Len(l) \in Nat
      /\ \A i \in 1 .. Len(l) : l[i] \notin {NL, NUL}
  BY ShellAssumption
<1>2. start \in 1 .. Len(l)
  <2>1. I \in SUBSET Nat /\ I # {}
    BY <1>1 DEF ReadData
  <2> QED BY <2>1, LeastNatural
<1>3. stdin' = SubSeq(s, f, Len(l) + 1)
  BY DEF ReadData
<1> HIDE DEF start
<1>4. tail \in Seq(STRING) /\ Len(tail) = Len(l) - start + 1
  BY <1>1, <1>2
<1>5. Len(word) \in Nat /\ Len(word) <= Len(tail)
  <2>1. PICK n \in 0 .. Len(tail) : word = SubSeq(tail, 1, n)
    BY <1>4, UpToFirst
  <2> HIDE DEF word, tail
  <2>2. Len(word) = n
    BY <1>4, <2>1
  <2> QED BY <1>4, <2>1, <2>2
<1> HIDE DEF word, tail
<1>6. f \in 1 .. Len(l) + 1
  BY <1>1, <1>2, <1>4, <1>5
<1>7. s \in Seq(Chars) /\ Len(s) = Len(l) + 1 /\ s[Len(l) + 1] = NL
      /\ \A i \in 1 .. Len(l) : s[i] = l[i]
  BY <1>1, Entered
<1> HIDE DEF f, s
<1> DEFINE n == Len(l) + 2 - f
<1>8. n \in 1 .. SIZE /\ f + n - 1 = Len(l) + 1
  BY <1>1, <1>6, ShellAssumption
<1>9. stdin' \in Seq(Chars) /\ Len(stdin') = n /\ \A i \in 1 .. n : stdin'[i] = s[f + i - 1]
  BY <1>1, <1>3, <1>6, <1>7
<1>10. \A i \in 1 .. n - 1 : f + i - 1 \in 1 .. Len(l) /\ i \in 1 .. n
  BY <1>1, <1>6
<1>11. n \in 1 .. n
  BY <1>8, ShellAssumption
<1> HIDE DEF n
<1>12. stdin'[n] = NL
  BY <1>7, <1>8, <1>9, <1>11
<1>13. ASSUME NEW i \in 1 .. n - 1 PROVE stdin'[i] \notin {NL, NUL}
  <2>1. PICK j : j = f + i - 1
    OBVIOUS
  <2>2. j \in 1 .. Len(l) /\ stdin'[i] = s[j]
    BY <1>9, <1>10, <2>1
  <2> QED BY <1>1, <1>7, <2>2
<1> QED BY <1>8, <1>9, <1>12, <1>13 DEF IsLine

LEMMA SInvNext ==
  ASSUME SInv, [Next]_allVars
  PROVE  SInv'
<1> USE DEF SInv
<1>1. ASSUME NEW typed \in Waiting, ReadCommand(typed), Noted(typed), UNCHANGED <<unreset, wrote>>
      PROVE  SInv'
  BY <1>1, ReadKeeps
<1>2. CASE Clear /\ unreset' = TRUE /\ wrote' = FALSE /\ line' = line
  BY <1>2 DEF Clear, Begins, Found, Stale
<1>3. ASSUME EndOfLoop, stdin' = <<>> \/ (wrote' /\ IsLine(stdin'))
      PROVE  SInv'
  BY <1>3 DEF EndOfLoop, Stale
<1>4. CASE (RunCommand \/ Shown \/ NoProgram) /\ unreset' = FALSE /\ wrote' = FALSE /\ line' = line
  BY <1>3, <1>4 DEF RunCommand, Shown, NoProgram, Begins, IsProgram
<1>5. CASE Redirected /\ UNCHANGED <<line, unreset, wrote>>
  BY <1>5 DEF Redirected, Begins, Found, Stale
<1>6. ASSUME NEW l \in Lines, ReadData(l), wrote' = TRUE
      PROVE  SInv'
  BY <1>3, <1>6, RestIsALine DEF ReadData
<1>7. CASE RunProgram /\ unreset' = TRUE /\ wrote' = FALSE /\ line' = line
  <2>1. pc' = "prompt" /\ stdin' = <<>> /\ input' \in StackCells /\ tokens' \in StackPointers
        /\ unreset'
    BY <1>7 DEF RunProgram, IsProgram
  <2>2. SIZE - 1 \in Cells /\ SIZE - 1 >= 0
    BY ShellAssumption DEF Cells
  <2>3. input'[SIZE - 1] = NUL
    BY <2>1, <2>2 DEF StackCells
  <2>4. \A k \in Slots : tokens'[k] \in {NULL, WILD}
    BY <2>1 DEF StackPointers
  <2> QED BY <2>1, <2>2, <2>3, <2>4 DEF Ends, Stale
<1>8. CASE UNCHANGED allVars
  BY <1>8 DEF allVars, shellVars, Found, Stale
<1> QED BY <1>1, <1>2, <1>4, <1>5, <1>6, <1>7, <1>8 DEF Next

-----------------------------------------------------------------------------
(* The shell always is where the invariant says: from a command's first    *)
(* look at its tokens to its last, the words of the line stand in the      *)
(* first slots (sh.c:44-160).                                              *)
THEOREM ShellInvariant == Spec => []SInv
<1>1. Init => SInv
  BY SInvInit
<1>2. SInv /\ [Next]_allVars => SInv'
  BY SInvNext
<1> QED BY <1>1, <1>2, PTL DEF Spec

(* A command finds the words of its line, and behind them nothing, or what *)
(* the stack or clear left there, which is a string within input.          *)
THEOREM CommandsSeeTheirLine == Spec => []TokensAreTheLine
<1>1. SInv => TokensAreTheLine
  BY DEF SInv, TokensAreTheLine, Found, Stale, Live, Ends, Is, Text
<1> QED BY <1>1, ShellInvariant, PTL

(* Nothing that was typed is left on stdin but the rest of a text.         *)
THEOREM OnlyTextIsRun == Spec => []OnlyTextIsLeftOver
<1>1. SInv => OnlyTextIsLeftOver
  BY DEF SInv, OnlyTextIsLeftOver
<1> QED BY <1>1, ShellInvariant, PTL

=============================================================================
