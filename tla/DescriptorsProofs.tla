--------------------------- MODULE DescriptorsProofs ---------------------------
(***************************************************************************)
(* For every number of descriptors, files and sectors, where no file is    *)
(* moved while a descriptor is open: a descriptor's pointer stays behind   *)
(* the header of its file, what reads and writes through it do is what     *)
(* they would do to the file's bytes, and what differs from the disk is    *)
(* what a dirty descriptor or an open has changed.                         *)
(***************************************************************************)
EXTENDS Descriptors, StorageProofs

-----------------------------------------------------------------------------
(* Bytes of blocks *)

LEMMA DivModOf ==
  ASSUME NEW S \in Nat \ {0}, NEW x \in Nat
  PROVE  /\ x \div S \in Nat /\ x % S \in 0 .. S - 1
         /\ x = S * (x \div S) + (x % S)
OBVIOUS

\* A quotient and a remainder are those of one number only.
LEMMA DivModUnique ==
  ASSUME NEW S \in Nat \ {0}, NEW a \in Nat, NEW r \in 0 .. S - 1
  PROVE  (S * a + r) \div S = a /\ (S * a + r) % S = r
<1> DEFINE x == S * a + r
           q == x \div S
           m == x % S
<1>1. S * a \in Nat
  OBVIOUS
<1>2. x \in Nat
  BY <1>1
<1> HIDE DEF x
<1>3. q \in Nat /\ m \in 0 .. S - 1 /\ x = S * q + m
  BY <1>2, DivModOf
<1> HIDE DEF q, m
<1>4. S * a + r = S * q + m
  BY <1>3 DEF x
<1>5. ~(q < a)
  <2> SUFFICES ASSUME q < a PROVE FALSE
    OBVIOUS
  <2>1. S * (q + 1) <= S * a
    BY <1>3
  <2>2. S * (q + 1) = S * q + S
    BY <1>3
  <2> QED BY <1>1, <1>3, <1>4, <2>1, <2>2
<1>6. ~(a < q)
  <2> SUFFICES ASSUME a < q PROVE FALSE
    OBVIOUS
  <2>1. S * (a + 1) <= S * q
    BY <1>3
  <2>2. S * (a + 1) = S * a + S
    OBVIOUS
  <2>3. S * q \in Nat
    BY <1>3
  <2> QED BY <1>1, <1>3, <1>4, <2>1, <2>2, <2>3
<1>7. q = a
  BY <1>3, <1>5, <1>6
<1>8. m = r
  BY <1>1, <1>3, <1>4, <1>7
<1> QED BY <1>7, <1>8 DEF q, m, x

\* The byte q of what begins at block k
LEMMA ByteOfBlock ==
  ASSUME NEW k \in Nat, NEW q \in Nat
  PROVE  /\ (k * SECTOR + q) \div SECTOR = k + q \div SECTOR
         /\ (k * SECTOR + q) % SECTOR = q % SECTOR
         /\ q \div SECTOR \in Nat /\ q % SECTOR \in 0 .. SECTOR - 1
         /\ k * SECTOR + q \in Nat
<1>1. SECTOR \in Nat \ {0}
  BY UstarAssumption
<1> DEFINE c == q \div SECTOR
           m == q % SECTOR
<1>2. c \in Nat /\ m \in 0 .. SECTOR - 1 /\ q = SECTOR * c + m
  BY <1>1, DivModOf
<1> HIDE DEF c, m
<1>3. /\ (SECTOR * (k + c) + m) \div SECTOR = k + c
      /\ (SECTOR * (k + c) + m) % SECTOR = m
  <2>1. k + c \in Nat
    BY <1>2
  <2> QED BY <1>1, <1>2, <2>1, DivModUnique
<1>4. SECTOR * (k + c) + m = k * SECTOR + q
  <2>1. SECTOR * (k + c) = k * SECTOR + SECTOR * c
    BY <1>1, <1>2
  <2>2. k * SECTOR \in Nat /\ SECTOR * c \in Nat
    BY <1>1, <1>2
  <2> QED BY <1>1, <1>2, <2>1, <2>2
<1>5. k * SECTOR \in Nat
  BY <1>1
<1>6. k * SECTOR + q \in Nat
  BY <1>5
<1> QED BY <1>2, <1>3, <1>4, <1>6 DEF c, m

\* A byte of a file lies in one of its blocks.
LEMMA ByteOfFile ==
  ASSUME NEW size \in Nat, NEW q \in Nat, q < size
  PROVE  q \div SECTOR < ceilDiv(size, SECTOR)
<1>1. SECTOR \in Nat \ {0}
  BY UstarAssumption
<1> DEFINE c == q \div SECTOR
           m == q % SECTOR
           e == size \div SECTOR
           r == size % SECTOR
<1>2. c \in Nat /\ m \in 0 .. SECTOR - 1 /\ q = SECTOR * c + m
  BY <1>1, DivModOf
<1>3. e \in Nat /\ r \in 0 .. SECTOR - 1 /\ size = SECTOR * e + r
  BY <1>1, DivModOf
<1>4. ceilDiv(size, SECTOR) = e + IF r # 0 THEN 1 ELSE 0
  BY DEF ceilDiv
<1> HIDE DEF c, m, e, r
<1>5. ~(e < c)
  <2> SUFFICES ASSUME e < c PROVE FALSE
    OBVIOUS
  <2>1. SECTOR * (e + 1) <= SECTOR * c
    BY <1>1, <1>2, <1>3
  <2>2. SECTOR * (e + 1) = SECTOR * e + SECTOR
    BY <1>1, <1>3
  <2>3. SECTOR * e \in Nat /\ SECTOR * c \in Nat
    BY <1>1, <1>2, <1>3
  <2> QED BY <1>1, <1>2, <1>3, <2>1, <2>2, <2>3
<1>6. r = 0 => c # e
  <2> SUFFICES ASSUME r = 0, c = e PROVE FALSE
    OBVIOUS
  <2>1. SECTOR * e \in Nat
    BY <1>1, <1>3
  <2> QED BY <1>1, <1>2, <1>3, <2>1
<1>7. c < ceilDiv(size, SECTOR)
  BY <1>2, <1>3, <1>4, <1>5, <1>6
<1> QED BY <1>7 DEF c

-----------------------------------------------------------------------------
(* Archives whose files hold bytes *)

IsData(x) ==
  /\ x = [kind |-> "data", of |-> x.of, index |-> x.index, bytes |-> x.bytes]
  /\ x.bytes \in [0 .. SECTOR - 1 -> Nat]

\* Up to its end an archive is headers and blocks of bytes.
Whole(b) ==
  /\ Archive(b)
  /\ \A i \in Blocks : i < tarGetEnd(b) /\ i \notin Headers(b) => IsData(b[i])

\* Block k of the file at h, the one with its byte q
BlockOf(h, q) == h + 1 + q \div SECTOR

LEMMA FilesHoldBytes ==
  ASSUME NEW b, Whole(b), NEW h \in Headers(b), NEW q \in Nat, q < b[h].size
  PROVE  LET k == BlockOf(h, q)
         IN  /\ h \in Nat /\ b[h].size \in Nat
             /\ k \in Blocks /\ k \in Nat /\ k \notin Headers(b) /\ IsData(b[k])
             /\ h < k /\ k <= h + ceilDiv(b[h].size, SECTOR)
             /\ q % SECTOR \in 0 .. SECTOR - 1 /\ b[k].bytes[q % SECTOR] \in Nat
             /\ ByteAt(b, (h + 1) * SECTOR + q) = b[k].bytes[q % SECTOR]
<1> DEFINE k == BlockOf(h, q)
           c == ceilDiv(b[h].size, SECTOR)
           j == q % SECTOR
           o == q \div SECTOR
           e == tarGetEnd(b)
<1>1. Archive(b)
  BY DEF Whole
<1>2. /\ h \in Nat /\ b[h].size \in Nat /\ c \in Nat /\ h + c < e
      /\ \A i \in Headers(b) : h < i => h + c < i
  BY <1>1, FilesAreApart
<1>3. e \in Nat /\ e <= TAR_MAX_SECTORS
  BY <1>1 DEF Archive, IsWalk
<1>4. o < c
  BY <1>2, ByteOfFile
<1>5. /\ ((h + 1) * SECTOR + q) \div SECTOR = h + 1 + o
      /\ ((h + 1) * SECTOR + q) % SECTOR = j
      /\ o \in Nat /\ j \in 0 .. SECTOR - 1
  <2>1. h + 1 \in Nat
    BY <1>2
  <2> QED BY <2>1, ByteOfBlock
<1>6. k = h + 1 + o
  BY DEF BlockOf
<1> HIDE DEF k, c, j, o, e
<1>7. k \in Nat /\ h < k /\ k <= h + c /\ k < e
  BY <1>2, <1>3, <1>4, <1>5, <1>6
<1>8. k \in Blocks
  BY <1>3, <1>7, BlocksType
<1>9. k \notin Headers(b)
  BY <1>2, <1>3, <1>7
<1>10. IsData(b[k])
  BY <1>7, <1>8, <1>9 DEF Whole, e
<1>11. b[k].bytes[j] \in Nat
  BY <1>5, <1>10 DEF IsData
<1>12. ByteAt(b, (h + 1) * SECTOR + q) = b[k].bytes[j]
  BY <1>5, <1>6 DEF ByteAt
<1> QED BY <1>2, <1>5, <1>7, <1>8, <1>9, <1>10, <1>11, <1>12 DEF k, c, j

\* The bytes of a file found are numbers; no file is Absent.
LEMMA BytesAre ==
  ASSUME NEW b, Whole(b), NEW f
  PROVE  /\ tarFind(b, f) = NULL => BytesOf(b, f) = Absent
         /\ tarFind(b, f) # NULL =>
              LET h == tarFind(b, f)
              IN  /\ h \in Headers(b) /\ b[h].name = f /\ b[h].size \in Nat
                  /\ BytesOf(b, f) = [p \in 1 .. b[h].size |-> ByteAt(b, (h + 1) * SECTOR + (p - 1))]
                  /\ BytesOf(b, f) \in [1 .. b[h].size -> Nat]
                  /\ BytesOf(b, f) # Absent
<1>1. Archive(b)
  BY DEF Whole
<1>2. ASSUME tarFind(b, f) = NULL PROVE BytesOf(b, f) = Absent
  BY <1>2 DEF BytesOf
<1>3. ASSUME tarFind(b, f) # NULL
      PROVE  LET h == tarFind(b, f)
             IN  /\ h \in Headers(b) /\ b[h].name = f /\ b[h].size \in Nat
                 /\ BytesOf(b, f) = [p \in 1 .. b[h].size |-> ByteAt(b, (h + 1) * SECTOR + (p - 1))]
                 /\ BytesOf(b, f) \in [1 .. b[h].size -> Nat]
                 /\ BytesOf(b, f) # Absent
  <2> DEFINE h == tarFind(b, f)
             n == b[h].size
             y == [p \in 1 .. n |-> ByteAt(b, (h + 1) * SECTOR + (p - 1))]
  <2>1. h \in Headers(b) /\ b[h].name = f
    BY <1>1, <1>3, ArchiveFinds
  <2>2. h \in Nat /\ n \in Nat /\ h \in Blocks
    BY <1>1, <2>1, FilesAreApart
  <2>3. BytesOf(b, f) = y
    <3>1. \A p \in 1 .. n : (h + 1) * SECTOR + p - 1 = (h + 1) * SECTOR + (p - 1)
      <4>1. (h + 1) * SECTOR \in Nat
        BY <2>2, UstarAssumption
      <4> QED BY <2>2, <4>1
    <3> QED BY <1>3, <3>1 DEF BytesOf
  <2> HIDE DEF h
  <2>4. \A p \in 1 .. n : ByteAt(b, (h + 1) * SECTOR + (p - 1)) \in Nat
    <3> SUFFICES ASSUME NEW p \in 1 .. n PROVE ByteAt(b, (h + 1) * SECTOR + (p - 1)) \in Nat
      OBVIOUS
    <3>1. p - 1 \in Nat /\ p - 1 < b[h].size
      BY <2>2
    <3> QED BY <2>1, <3>1, FilesHoldBytes
  <2>5. y \in [1 .. n -> Nat]
    BY <2>4
  <2> HIDE DEF y, n
  <2>6. y # Absent
    <3>1. DOMAIN Absent = 1 .. 1 /\ Absent[1] = -1
      BY DEF Absent
    <3>2. CASE 1 \in 1 .. n
      BY <2>5, <3>1, <3>2
    <3>3. CASE 1 \notin 1 .. n
      <4>1. DOMAIN y = 1 .. n /\ 1 \in 1 .. 1
        BY <2>5
      <4> QED BY <3>1, <3>3, <4>1
    <3> QED BY <3>2, <3>3
  <2> QED BY <2>1, <2>2, <2>3, <2>5, <2>6 DEF h, n, y
<1> QED BY <1>2, <1>3

\* What the file of a list holds
FileBytes(file) ==
  [p \in 1 .. file.size |-> file.data[1 + (p - 1) \div SECTOR].bytes[(p - 1) % SECTOR]]

\* The bytes of a name are those of the file that has it.
LEMMA BytesInFiles ==
  ASSUME NEW b, Whole(b), NEW k \in DOMAIN FilesOf(b)
  PROVE  BytesOf(b, FilesOf(b)[k].name) = FileBytes(FilesOf(b)[k])
<1> DEFINE f == FilesOf(b)[k].name
           h == tarFind(b, f)
           c == ceilDiv(b[h].size, SECTOR)
<1>1. Archive(b)
  BY DEF Whole
<1>2. Chain(b)[k] = h /\ h # NULL
  BY <1>1, FileListFinds
<1>3. FilesOf(b)[k] = FileAt(b, h)
  BY <1>1, <1>2, ChainOfArchive DEF FilesOf
<1>4. h \in Headers(b) /\ h \in Nat /\ b[h].size \in Nat
  BY <1>1, <1>2, ArchiveFinds, FilesAreApart
<1>5. BytesOf(b, f) = [p \in 1 .. b[h].size |-> ByteAt(b, (h + 1) * SECTOR + (p - 1))]
  BY <1>2, BytesAre
<1>6. /\ FileAt(b, h).size = b[h].size
      /\ FileAt(b, h).data = [i \in 1 .. c |-> b[h + i]]
  BY DEF FileAt
<1> HIDE DEF h, f
<1>7. ASSUME NEW p \in 1 .. b[h].size
      PROVE  ByteAt(b, (h + 1) * SECTOR + (p - 1))
               = FileAt(b, h).data[1 + (p - 1) \div SECTOR].bytes[(p - 1) % SECTOR]
  <2> DEFINE q == p - 1
             o == q \div SECTOR
  <2>1. q \in Nat /\ q < b[h].size
    BY <1>4
  <2> HIDE DEF q
  <2>2. ByteAt(b, (h + 1) * SECTOR + q) = b[BlockOf(h, q)].bytes[q % SECTOR]
    BY <1>4, <2>1, FilesHoldBytes
  <2>3. BlockOf(h, q) = h + 1 + o
    BY DEF BlockOf
  <2>4. o < c
    BY <1>4, <2>1, ByteOfFile
  <2>5. o \in Nat
    BY <2>1, ByteOfBlock
  <2> HIDE DEF o
  <2>6. c \in Nat
    BY <1>4, CeilDivNat
  <2> HIDE DEF c
  <2>7. 1 + o \in 1 .. c /\ h + (1 + o) = h + 1 + o
    BY <1>4, <2>4, <2>5, <2>6
  <2>8. FileAt(b, h).data[1 + o] = b[h + 1 + o]
    BY <1>6, <2>7
  <2> QED BY <2>2, <2>3, <2>8 DEF q, o
<1>8. FileBytes(FileAt(b, h)) = BytesOf(b, f)
  BY <1>5, <1>6, <1>7 DEF FileBytes
<1> QED BY <1>3, <1>8 DEF f

\* Archives that have the same file of a name, or none, have its bytes.
SameFileOf(b, d, g) ==
  /\ \A k \in DOMAIN FilesOf(b) : FilesOf(b)[k].name = g =>
       \E j \in DOMAIN FilesOf(d) : FilesOf(d)[j] = FilesOf(b)[k]
  /\ \A j \in DOMAIN FilesOf(d) : FilesOf(d)[j].name = g =>
       \E k \in DOMAIN FilesOf(b) : FilesOf(b)[k] = FilesOf(d)[j]

LEMMA SameBytes ==
  ASSUME NEW b, NEW d, Whole(b), Whole(d), NEW g, SameFileOf(b, d, g)
  PROVE  BytesOf(d, g) = BytesOf(b, g)
<1>1. Archive(b) /\ Archive(d)
  BY DEF Whole
<1>2. CASE \E k \in DOMAIN FilesOf(b) : FilesOf(b)[k].name = g
  <2>1. PICK k \in DOMAIN FilesOf(b) : FilesOf(b)[k].name = g
    BY <1>2
  <2>2. PICK j \in DOMAIN FilesOf(d) : FilesOf(d)[j] = FilesOf(b)[k]
    BY <2>1 DEF SameFileOf
  <2>3. BytesOf(b, g) = FileBytes(FilesOf(b)[k])
    BY <2>1, BytesInFiles
  <2>4. BytesOf(d, g) = FileBytes(FilesOf(d)[j])
    BY <2>1, <2>2, BytesInFiles
  <2> QED BY <2>2, <2>3, <2>4
<1>3. CASE ~\E k \in DOMAIN FilesOf(b) : FilesOf(b)[k].name = g
  <2>1. ~\E j \in DOMAIN FilesOf(d) : FilesOf(d)[j].name = g
    BY <1>3 DEF SameFileOf
  <2>2. tarFind(b, g) = NULL /\ tarFind(d, g) = NULL
    BY <1>1, <1>3, <2>1, FileListFinds
  <2> QED BY <2>2 DEF BytesOf
<1> QED BY <1>2, <1>3

\* A new file is empty and no other file's bytes change.
LEMMA TouchKeepsBytes ==
  ASSUME NEW b, Whole(b), NEW f, tarFind(b, f) = NULL, tarGetEnd(b) \in Blocks
  PROVE  LET d == Touched(b, f)
         IN  /\ Whole(d) /\ tarFind(d, f) # NULL /\ BytesOf(d, f) = <<>>
             /\ d[tarFind(d, f)].size = 0
             /\ \A g : g # f => BytesOf(d, g) = BytesOf(b, g)
             /\ \A h \in Headers(b) : h \in Headers(d) /\ d[h] = b[h]
<1> DEFINE d == Touched(b, f)
           e == tarGetEnd(b)
           m == [name |-> f, size |-> 0, data |-> <<>>]
<1>1. Archive(b)
  BY DEF Whole
<1>2. /\ Archive(d) /\ Headers(d) = Headers(b) \cup {e} /\ tarGetEnd(d) = e + 1
      /\ d[e] = Header(f, 0) /\ \A i \in Blocks : i # e => d[i] = b[i]
      /\ e \notin Headers(b) /\ e = tarFind(d, f)
  BY <1>1, TouchKeepsArchive
<1>3. FilesOf(d) = Append(FilesOf(b), m)
  BY <1>1, TouchAppendsFile
<1>4. \A h \in Headers(b) : h \in Blocks
  BY DEF Headers
<1>5. e \in Nat /\ e # NULL
  BY BlocksType DEF NULL
<1> HIDE DEF d, e
<1>6. Whole(d)
  <2> SUFFICES ASSUME NEW i \in Blocks, i < e + 1, i \notin Headers(d) PROVE IsData(d[i])
    BY <1>2 DEF Whole
  <2>1. i # e /\ i < e /\ i \notin Headers(b)
    BY <1>2, <1>5, BlocksType
  <2>2. IsData(b[i])
    BY <2>1 DEF Whole, e
  <2> QED BY <1>2, <2>1, <2>2
<1>7. d[e].size = 0
  BY <1>2, HeaderFields
<1>8. BytesOf(d, f) = <<>>
  <2>1. BytesOf(d, f) = [p \in 1 .. 0 |-> ByteAt(d, (e + 1) * SECTOR + (p - 1))]
    BY <1>2, <1>5, <1>6, <1>7, BytesAre
  <2> QED BY <2>1
<1>9. ASSUME NEW g, g # f PROVE SameFileOf(b, d, g)
  <2> DEFINE s == FilesOf(b)
             n == Len(Chain(b))
             T == {FileAt(b, h) : h \in Headers(b)} \cup {m}
  <2>1. n \in Nat /\ DOMAIN s = 1 .. n
    BY <1>1, FileListFinds, ChainOfArchive
  <2>2. s \in Seq(T) /\ Len(s) = n
    <3>1. \A k \in 1 .. n : s[k] = FileAt(b, Chain(b)[k]) /\ Chain(b)[k] \in Headers(b)
      BY <1>1, ChainOfArchive DEF FilesOf
    <3>2. \A k \in 1 .. n : s[k] \in T
      BY <3>1
    <3>3. s = [k \in 1 .. n |-> s[k]]
      BY <2>1 DEF FilesOf
    <3> HIDE DEF s, n, T
    <3> QED BY <2>1, <3>2, <3>3
  <2>3. m \in T /\ m.name = f
    OBVIOUS
  <2> HIDE DEF s, n, T, m
  <2>4. Append(s, m) = [k \in 1 .. n + 1 |-> IF k = n + 1 THEN m ELSE s[k]]
    BY <2>2, <2>3, AppendIs
  <2>5. FilesOf(d) = [k \in 1 .. n + 1 |-> IF k = n + 1 THEN m ELSE s[k]]
    BY <1>3, <2>4 DEF s
  <2>6. \A k \in 1 .. n : k \in 1 .. n + 1 /\ k # n + 1
    BY <2>1
  <2>7. \A k \in 1 .. n + 1 : k = n + 1 \/ k \in 1 .. n
    BY <2>1
  <2>8. \A k \in DOMAIN s : k \in DOMAIN FilesOf(d) /\ FilesOf(d)[k] = s[k]
    BY <2>1, <2>5, <2>6
  <2>9. \A j \in DOMAIN FilesOf(d) : FilesOf(d)[j].name = g => j \in DOMAIN s /\ FilesOf(d)[j] = s[j]
    BY <1>9, <2>1, <2>3, <2>5, <2>7
  <2> QED BY <2>8, <2>9 DEF SameFileOf, s
<1>10. \A g : g # f => BytesOf(d, g) = BytesOf(b, g)
  BY <1>6, <1>9, SameBytes
<1> QED BY <1>2, <1>4, <1>5, <1>6, <1>7, <1>8, <1>10 DEF d, e

\* No other file's bytes change when a file is removed.
LEMMA RemoveKeepsBytes ==
  ASSUME NEW b, Whole(b), NEW f, tarFind(b, f) # NULL
  PROVE  LET d == Removed(b, f)
         IN  /\ Whole(d) /\ tarFind(d, f) = NULL /\ tarGetEnd(d) \in Blocks
             /\ \A g : g # f => BytesOf(d, g) = BytesOf(b, g)
<1> DEFINE d == Removed(b, f)
           t == tarFind(b, f)
           n == FileBlocks(b, t)
<1>1. Archive(b)
  BY DEF Whole
<1>2. /\ t \in Headers(b) /\ n \in Nat /\ n > 0
      /\ Archive(d) /\ tarGetEnd(d) = tarGetEnd(b) - n
      /\ tarGetEnd(d) \in Blocks /\ t <= tarGetEnd(d)
      /\ Headers(d) = {h \in Headers(b) : h < t} \cup {h - n : h \in {k \in Headers(b) : k > t}}
      /\ \A i \in Blocks : i < t => d[i] = b[i]
      /\ \A i \in Blocks : i >= t /\ i < tarGetEnd(d) => i + n \in Blocks /\ d[i] = b[i + n]
      /\ tarFind(d, f) = NULL
  BY <1>1, RemoveKeepsArchive
<1> HIDE DEF d, n, t
<1>3. t \in Nat /\ tarGetEnd(d) \in Nat /\ tarGetEnd(b) \in Nat
  BY <1>1, <1>2, BlocksType DEF Headers, Archive, IsWalk
<1>4. Whole(d)
  <2> SUFFICES ASSUME NEW i \in Blocks, i < tarGetEnd(d), i \notin Headers(d) PROVE IsData(d[i])
    BY <1>2 DEF Whole
  <2>1. i \in Nat
    BY BlocksType
  <2>2. CASE i < t
    <3>1. i < tarGetEnd(b) /\ d[i] = b[i] /\ i \notin Headers(b)
      BY <1>2, <1>3, <2>1, <2>2
    <3> QED BY <3>1 DEF Whole
  <2>3. CASE i >= t
    <3>1. i + n \in Blocks /\ d[i] = b[i + n] /\ i + n < tarGetEnd(b)
      BY <1>2, <1>3, <2>1, <2>3
    <3>2. i + n \notin Headers(b)
      <4> SUFFICES ASSUME i + n \in Headers(b) PROVE FALSE
        OBVIOUS
      <4>1. i + n > t /\ (i + n) - n = i
        BY <1>2, <1>3, <2>1, <2>3
      <4> QED BY <1>2, <4>1
    <3> QED BY <3>1, <3>2 DEF Whole
  <2> QED BY <1>3, <2>1, <2>2, <2>3
<1>5. ASSUME NEW g, g # f PROVE SameFileOf(b, d, g)
  <2> DEFINE s == FilesOf(b)
             l == Len(Chain(b))
  <2>1. PICK p \in 1 .. l : /\ l \in Nat /\ DOMAIN Chain(b) = 1 .. l /\ Chain(b)[p] = t
                            /\ FilesOf(d) = Dropped(s, l, p)
    BY <1>1, <1>2, RemoveDropsFile DEF t, d
  <2>2. DOMAIN s = 1 .. l /\ s[p].name = f
    BY <1>1, <2>1, FileListFinds DEF t
  <2> HIDE DEF s, l
  <2>3. FilesOf(d) = [j \in 1 .. l - 1 |-> s[IF j < p THEN j ELSE j + 1]]
    BY <2>1 DEF Dropped
  <2>4. ASSUME NEW k \in 1 .. l, s[k].name = g
        PROVE  \E j \in DOMAIN FilesOf(d) : FilesOf(d)[j] = s[k]
    <3>1. k # p
      BY <1>5, <2>2, <2>4
    <3>2. CASE k < p
      <4>1. k \in 1 .. l - 1
        BY <2>1, <3>2
      <4>2. FilesOf(d)[k] = s[k]
        BY <2>3, <3>2, <4>1
      <4> QED BY <2>3, <4>1, <4>2
    <3>3. CASE k > p
      <4>1. k - 1 \in 1 .. l - 1 /\ ~(k - 1 < p) /\ (k - 1) + 1 = k
        BY <2>1, <3>3
      <4>2. FilesOf(d)[k - 1] = s[k]
        BY <2>3, <4>1
      <4> QED BY <2>3, <4>1, <4>2
    <3> QED BY <2>1, <3>1, <3>2, <3>3
  <2>5. ASSUME NEW j \in DOMAIN FilesOf(d)
        PROVE  \E k \in DOMAIN s : s[k] = FilesOf(d)[j]
    <3>1. j \in 1 .. l - 1
      BY <2>3
    <3>2. (IF j < p THEN j ELSE j + 1) \in 1 .. l
      BY <2>1, <3>1
    <3> QED BY <2>2, <2>3, <3>1, <3>2
  <2> QED BY <2>2, <2>4, <2>5 DEF SameFileOf, s
<1>6. \A g : g # f => BytesOf(d, g) = BytesOf(b, g)
  BY <1>4, <1>5, SameBytes
<1> QED BY <1>2, <1>4, <1>6 DEF d

\* An edit leaves the file empty and every other file's bytes as they were.
LEMMA EditKeepsBytes ==
  ASSUME NEW b, Whole(b), NEW f, tarFind(b, f) # NULL, NEW size
  PROVE  LET d == Edited(b, f, size)
         IN  /\ Whole(d) /\ tarFind(d, f) # NULL /\ BytesOf(d, f) = <<>>
             /\ d[tarFind(d, f)].size = 0
             /\ \A g : g # f => BytesOf(d, g) = BytesOf(b, g)
<1> DEFINE r == Removed(b, f)
<1>1. Edited(b, f, size) = Touched(r, f)
  BY EditKeepsArchive DEF Whole
<1>2. /\ Whole(r) /\ tarFind(r, f) = NULL /\ tarGetEnd(r) \in Blocks
      /\ \A g : g # f => BytesOf(r, g) = BytesOf(b, g)
  BY RemoveKeepsBytes
<1> HIDE DEF r
<1>3. /\ Whole(Touched(r, f)) /\ tarFind(Touched(r, f), f) # NULL /\ BytesOf(Touched(r, f), f) = <<>>
      /\ Touched(r, f)[tarFind(Touched(r, f), f)].size = 0
      /\ \A g : g # f => BytesOf(Touched(r, f), g) = BytesOf(r, g)
  BY <1>2, TouchKeepsBytes
<1> QED BY <1>1, <1>2, <1>3

-----------------------------------------------------------------------------
(* Writing through a descriptor *)

\* A pointer behind the header of the file it was opened on
FdAt(b, fd) ==
  /\ fd.data \in Nat /\ fd.data - 1 \in Headers(b)
  /\ b[fd.data - 1].name = fd.name /\ b[fd.data - 1].size = fd.size
  /\ fd.rwPos \in Nat /\ fd.rwPos <= fd.size

\* What the walk sees is the same.
SameHeaders(b, d) == Headers(d) = Headers(b) /\ \A h \in Headers(b) : d[h] = b[h]

LEMMA SameHeadersSameWalk ==
  ASSUME NEW b, NEW d, Archive(b), Buffer(d), SameHeaders(b, d),
         \A i \in Blocks : i >= tarGetEnd(b) => d[i] = Zero
  PROVE  Archive(d) /\ tarGetEnd(d) = tarGetEnd(b) /\ \A f : tarFind(d, f) = tarFind(b, f)
<1> DEFINE e == tarGetEnd(b)
<1>1. /\ IsWalk(b, 0, Headers(b), e) /\ e <= TAR_MAX_SECTORS /\ e \in Nat
      /\ \A h, k \in Headers(b) : b[h].name = b[k].name => h = k
  BY DEF Archive, IsWalk
<1>2. Headers(d) = Headers(b) /\ \A h \in Headers(b) : d[h] = b[h]
  BY DEF SameHeaders
<1>3. \A c : tarValid(d, c) <=> tarValid(b, c)
  BY <1>2 DEF tarValid, Headers
<1>4. \A h \in Headers(b) : tarNext(d, h) = tarNext(b, h)
  BY <1>2 DEF tarNext
<1> HIDE DEF e
<1>5. IsWalk(d, 0, Headers(d), e)
  BY <1>1, <1>2, <1>3, <1>4 DEF IsWalk
<1>6. \A h, k \in Headers(d) : d[h].name = d[k].name => h = k
  BY <1>1, <1>2
<1>7. \A i \in Blocks : i >= e => d[i] = Zero
  BY DEF e
<1>8. Archive(d) /\ tarGetEnd(d) = e
  BY <1>1, <1>5, <1>6, <1>7, ArchiveBy
<1>9. ASSUME NEW f PROVE tarFind(d, f) = tarFind(b, f)
  <2>1. /\ tarFind(b, f) = NULL <=> \A h \in Headers(b) : b[h].name # f
        /\ tarFind(b, f) # NULL => tarFind(b, f) \in Headers(b) /\ b[tarFind(b, f)].name = f
    BY ArchiveFinds
  <2>2. /\ tarFind(d, f) = NULL <=> \A h \in Headers(d) : d[h].name # f
        /\ \A h \in Headers(d) : d[h].name = f => tarFind(d, f) = h
    BY <1>8, ArchiveFinds
  <2> QED BY <1>2, <2>1, <2>2
<1> QED BY <1>8, <1>9 DEF e

\* The blocks a write of n bytes reaches
Reaches(fd, n, k) == \E i \in 0 .. n - 1 : Address(fd, i) \div SECTOR = k

LEMMA AddressIs ==
  ASSUME NEW b, Whole(b), NEW fd, FdAt(b, fd), NEW i \in Nat, fd.rwPos + i < fd.size
  PROVE  LET h == fd.data - 1
             q == fd.rwPos + i
         IN  /\ Address(fd, i) = (h + 1) * SECTOR + q
             /\ Address(fd, i) \div SECTOR = BlockOf(h, q)
             /\ q \in Nat /\ q < b[h].size /\ h \in Headers(b) /\ h \in Nat
<1> DEFINE h == fd.data - 1
           q == fd.rwPos + i
<1>1. /\ fd.data \in Nat /\ h \in Headers(b) /\ b[h].size = fd.size
      /\ fd.rwPos \in Nat /\ h + 1 = fd.data
  BY DEF FdAt
<1>2. h \in Nat /\ q \in Nat
  BY <1>1, BlocksType DEF Headers
<1>3. Address(fd, i) = (h + 1) * SECTOR + q
  <2>1. fd.data * SECTOR \in Nat
    BY <1>1, UstarAssumption
  <2>2. Address(fd, i) = fd.data * SECTOR + fd.rwPos + i
    BY DEF Address
  <2>3. fd.data * SECTOR + fd.rwPos + i = fd.data * SECTOR + q
    BY <1>1, <2>1
  <2> QED BY <1>1, <2>2, <2>3
<1> HIDE DEF h, q
<1>4. ((h + 1) * SECTOR + q) \div SECTOR = h + 1 + q \div SECTOR
  <2>1. h + 1 \in Nat
    BY <1>2
  <2> QED BY <1>2, <2>1, ByteOfBlock
<1>5. Address(fd, i) \div SECTOR = BlockOf(h, q)
  BY <1>3, <1>4 DEF BlockOf
<1>6. q < b[h].size
  BY <1>1 DEF q
<1> QED BY <1>1, <1>2, <1>3, <1>5, <1>6 DEF h, q

\* The blocks a write reaches are of its file; the others stay.
LEMMA StoredBlocks ==
  ASSUME NEW b, Whole(b), NEW fd, FdAt(b, fd), NEW n \in Nat, fd.rwPos + n <= fd.size,
         NEW v \in Nat
  PROVE  LET d == Stored(b, fd, n, v)
             h == fd.data - 1
         IN  /\ d = [k \in Blocks |-> d[k]]
             /\ \A k \in Blocks : ~Reaches(fd, n, k) => d[k] = b[k]
             /\ \A k : Reaches(fd, n, k) =>
                  /\ k \in Blocks /\ k \in Nat /\ k \notin Headers(b)
                  /\ h < k /\ k <= h + ceilDiv(b[h].size, SECTOR)
                  /\ IsData(b[k]) /\ IsData(d[k])
                  /\ \A j \in 0 .. SECTOR - 1 :
                       d[k].bytes[j] = IF \E i \in 0 .. n - 1 : Address(fd, i) = k * SECTOR + j
                                       THEN v ELSE b[k].bytes[j]
<1> DEFINE d == Stored(b, fd, n, v)
           h == fd.data - 1
           c == ceilDiv(b[h].size, SECTOR)
           y(k) == [j \in 0 .. SECTOR - 1 |->
                      IF \E i \in 0 .. n - 1 : Address(fd, i) = k * SECTOR + j
                      THEN v ELSE b[k].bytes[j]]
<1>1. d = [k \in Blocks |-> IF Reaches(fd, n, k) THEN [b[k] EXCEPT !.bytes = y(k)] ELSE b[k]]
  BY DEF Stored, Reaches
<1>2. d = [k \in Blocks |-> d[k]] /\ \A k \in Blocks : ~Reaches(fd, n, k) => d[k] = b[k]
  BY <1>1
<1>3. ASSUME NEW k, Reaches(fd, n, k)
      PROVE  /\ k \in Blocks /\ k \in Nat /\ k \notin Headers(b)
             /\ h < k /\ k <= h + c
             /\ IsData(b[k]) /\ IsData(d[k])
             /\ \A j \in 0 .. SECTOR - 1 : d[k].bytes[j] = y(k)[j]
  <2>1. PICK i \in 0 .. n - 1 : Address(fd, i) \div SECTOR = k
    BY <1>3 DEF Reaches
  <2> DEFINE q == fd.rwPos + i
  <2>2. fd.rwPos \in Nat /\ fd.size \in Nat
    <3>1. Archive(b) /\ fd.data - 1 \in Headers(b) /\ b[fd.data - 1].size = fd.size
      BY DEF FdAt, Whole
    <3> QED BY <3>1, FilesAreApart DEF FdAt
  <2>3. i \in Nat /\ fd.rwPos + i < fd.size
    BY <2>2
  <2>4. k = BlockOf(h, q) /\ q \in Nat /\ q < b[h].size /\ h \in Headers(b)
    BY <2>1, <2>3, AddressIs
  <2> HIDE DEF q, h
  <2>5. /\ k \in Blocks /\ k \in Nat /\ k \notin Headers(b) /\ IsData(b[k])
        /\ h < k /\ k <= h + ceilDiv(b[h].size, SECTOR)
    BY <2>4, FilesHoldBytes
  <2>6. d[k] = [b[k] EXCEPT !.bytes = y(k)]
    BY <1>1, <1>3, <2>5
  <2>7. /\ b[k] = [kind |-> "data", of |-> b[k].of, index |-> b[k].index, bytes |-> b[k].bytes]
        /\ b[k].bytes \in [0 .. SECTOR - 1 -> Nat]
    BY <2>5 DEF IsData
  <2>8. y(k) \in [0 .. SECTOR - 1 -> Nat]
    BY <2>7
  <2> HIDE DEF y, d
  <2>9. d[k] = [kind |-> "data", of |-> b[k].of, index |-> b[k].index, bytes |-> y(k)]
    BY <2>6, <2>7
  <2>10. d[k].bytes = y(k) /\ d[k].of = b[k].of /\ d[k].index = b[k].index
    BY <2>9
  <2>11. IsData(d[k])
    BY <2>8, <2>9, <2>10 DEF IsData
  <2> QED BY <2>5, <2>10, <2>11
<1> HIDE DEF d
<1> QED BY <1>2, <1>3 DEF d

\* A write leaves the headers, and so the archive, as they were.
LEMMA StoreKeepsHeaders ==
  ASSUME NEW b, Whole(b), NEW fd, FdAt(b, fd), NEW n \in Nat, fd.rwPos + n <= fd.size,
         NEW v \in Nat
  PROVE  LET d == Stored(b, fd, n, v)
         IN  /\ Whole(d) /\ SameHeaders(b, d) /\ tarGetEnd(d) = tarGetEnd(b)
             /\ \A f : tarFind(d, f) = tarFind(b, f)
<1> DEFINE d == Stored(b, fd, n, v)
           h == fd.data - 1
           c == ceilDiv(b[h].size, SECTOR)
           e == tarGetEnd(b)
<1>1. /\ d = [k \in Blocks |-> d[k]]
      /\ \A k \in Blocks : ~Reaches(fd, n, k) => d[k] = b[k]
      /\ \A k : Reaches(fd, n, k) => k \in Blocks /\ k \in Nat /\ k \notin Headers(b) /\ k <= h + c
                                     /\ IsData(b[k]) /\ IsData(d[k])
  BY StoredBlocks
<1>2. Archive(b) /\ Buffer(b) /\ h \in Headers(b)
  BY DEF Whole, FdAt, Archive
<1> HIDE DEF d, h
<1>3. h \in Nat /\ c \in Nat /\ h + c < e /\ e \in Nat
  BY <1>2, FilesAreApart DEF Archive, IsWalk
<1> HIDE DEF c, e
<1>4. \A x : IsData(x) => x.kind # "header" /\ x # Zero
  <2> SUFFICES ASSUME NEW x, IsData(x) PROVE x.kind = "data"
    BY DEF Zero
  <2> QED BY DEF IsData
<1>5. SameHeaders(b, d)
  BY <1>1, <1>4 DEF SameHeaders, Headers
<1>6. Buffer(d)
  BY <1>1, <1>2, <1>5 DEF Buffer, SameHeaders, Headers
<1>7. \A i \in Blocks : i >= e => d[i] = Zero
  <2> SUFFICES ASSUME NEW i \in Blocks, i >= e PROVE d[i] = Zero
    OBVIOUS
  <2>1. ~Reaches(fd, n, i)
    <3>1. i \in Nat
      BY BlocksType
    <3> QED BY <1>1, <1>3, <3>1
  <2> QED BY <1>1, <1>2, <2>1 DEF Archive, e
<1>8. Archive(d) /\ tarGetEnd(d) = e /\ \A f : tarFind(d, f) = tarFind(b, f)
  BY <1>2, <1>5, <1>6, <1>7, SameHeadersSameWalk DEF e
<1>9. Whole(d)
  <2> SUFFICES ASSUME NEW i \in Blocks, i < tarGetEnd(d), i \notin Headers(d) PROVE IsData(d[i])
    BY <1>8 DEF Whole
  <2>1. IsData(b[i])
    BY <1>5, <1>8 DEF Whole, SameHeaders, e
  <2> QED BY <1>1, <2>1
<1> QED BY <1>5, <1>8, <1>9 DEF d, e

\* It changes the bytes from rwPos on, of that file alone.
LEMMA StoreWritesBytes ==
  ASSUME NEW b, Whole(b), NEW fd, FdAt(b, fd), NEW n \in Nat, fd.rwPos + n <= fd.size,
         NEW v \in Nat, NEW g \in Headers(b), NEW q \in Nat, q < b[g].size
  PROVE  ByteAt(Stored(b, fd, n, v), (g + 1) * SECTOR + q)
           = IF g = fd.data - 1 /\ fd.rwPos <= q /\ q < fd.rwPos + n THEN v
             ELSE ByteAt(b, (g + 1) * SECTOR + q)
<1> DEFINE d == Stored(b, fd, n, v)
           h == fd.data - 1
           k == BlockOf(g, q)
           j == q % SECTOR
<1>1. /\ \A i \in Blocks : ~Reaches(fd, n, i) => d[i] = b[i]
      /\ \A i : Reaches(fd, n, i) =>
                  /\ h < i /\ i <= h + ceilDiv(b[h].size, SECTOR)
                  /\ \A m \in 0 .. SECTOR - 1 :
                       d[i].bytes[m] = IF \E l \in 0 .. n - 1 : Address(fd, l) = i * SECTOR + m
                                       THEN v ELSE b[i].bytes[m]
  BY StoredBlocks
<1>2. Whole(d) /\ g \in Headers(d) /\ d[g] = b[g]
  BY StoreKeepsHeaders DEF SameHeaders
<1>3. /\ h \in Headers(b) /\ b[h].size = fd.size /\ fd.rwPos \in Nat /\ h + 1 = fd.data /\ h \in Nat
      /\ fd.size \in Nat
  <2>1. h \in Headers(b) /\ b[h].size = fd.size /\ fd.rwPos \in Nat /\ h + 1 = fd.data
    BY DEF FdAt
  <2> QED BY <2>1, FilesAreApart DEF Whole
<1> HIDE DEF d, h
<1>4. /\ g \in Nat /\ k \in Blocks /\ k \in Nat /\ g < k /\ k <= g + ceilDiv(b[g].size, SECTOR)
      /\ j \in 0 .. SECTOR - 1
      /\ ByteAt(b, (g + 1) * SECTOR + q) = b[k].bytes[j]
  BY FilesHoldBytes
<1>5. ByteAt(d, (g + 1) * SECTOR + q) = d[k].bytes[j]
  BY <1>2, FilesHoldBytes
<1>6. k * SECTOR + j = (g + 1) * SECTOR + q
  <2> DEFINE o == q \div SECTOR
  <2>1. SECTOR \in Nat \ {0}
    BY UstarAssumption
  <2>2. o \in Nat /\ q = SECTOR * o + j
    BY <2>1, DivModOf
  <2>3. k = g + 1 + o
    BY DEF BlockOf
  <2> HIDE DEF o, j, k
  <2>4. (g + 1 + o) * SECTOR = (g + 1) * SECTOR + SECTOR * o
    BY <1>4, <2>1, <2>2
  <2>5. (g + 1) * SECTOR \in Nat /\ SECTOR * o \in Nat /\ j \in Nat
    BY <1>4, <2>1, <2>2
  <2> QED BY <2>2, <2>3, <2>4, <2>5
<1>7. \A i \in 0 .. n - 1 : /\ Address(fd, i) = (h + 1) * SECTOR + (fd.rwPos + i)
                            /\ Address(fd, i) \div SECTOR = BlockOf(h, fd.rwPos + i)
  <2> SUFFICES ASSUME NEW i \in 0 .. n - 1
               PROVE  /\ Address(fd, i) = (h + 1) * SECTOR + (fd.rwPos + i)
                      /\ Address(fd, i) \div SECTOR = BlockOf(h, fd.rwPos + i)
    OBVIOUS
  <2>1. i \in Nat /\ fd.rwPos + i < fd.size
    BY <1>3
  <2> QED BY <2>1, AddressIs DEF h
<1>8. CASE Reaches(fd, n, k)
  <2>1. d[k].bytes[j] = IF \E i \in 0 .. n - 1 : Address(fd, i) = k * SECTOR + j
                        THEN v ELSE b[k].bytes[j]
    BY <1>1, <1>4, <1>8
  <2>2. h = g
    <3> DEFINE c == ceilDiv(b[h].size, SECTOR)
               a == ceilDiv(b[g].size, SECTOR)
    <3>1. /\ c \in Nat /\ \A i \in Headers(b) : h < i => h + c < i
          /\ a \in Nat /\ \A i \in Headers(b) : g < i => g + a < i
      BY <1>3, FilesAreApart DEF Whole
    <3>2. h < k /\ k <= h + c /\ g < k /\ k <= g + a
      BY <1>1, <1>4, <1>8
    <3> HIDE DEF c, a, k
    <3> QED BY <1>3, <1>4, <3>1, <3>2
  <2>3. ASSUME NEW i \in 0 .. n - 1
        PROVE  Address(fd, i) = k * SECTOR + j <=> fd.rwPos + i = q
    <3>1. (h + 1) * SECTOR \in Nat
      BY <1>3, UstarAssumption
    <3>2. Address(fd, i) = (h + 1) * SECTOR + (fd.rwPos + i)
      BY <1>7
    <3> HIDE DEF k, j
    <3> QED BY <1>3, <1>6, <2>2, <3>1, <3>2
  <2>4. (\E i \in 0 .. n - 1 : Address(fd, i) = k * SECTOR + j)
          <=> fd.rwPos <= q /\ q < fd.rwPos + n
    <3>1. ASSUME fd.rwPos <= q, q < fd.rwPos + n
          PROVE  q - fd.rwPos \in 0 .. n - 1 /\ fd.rwPos + (q - fd.rwPos) = q
      BY <1>3, <3>1
    <3>2. ASSUME NEW i \in 0 .. n - 1, fd.rwPos + i = q PROVE fd.rwPos <= q /\ q < fd.rwPos + n
      BY <1>3, <3>2
    <3> HIDE DEF k, j
    <3> QED BY <2>3, <3>1, <3>2
  <2> QED BY <1>4, <1>5, <2>1, <2>2, <2>4 DEF d, h
<1>9. CASE ~Reaches(fd, n, k)
  <2>1. d[k] = b[k]
    BY <1>1, <1>4, <1>9
  <2>2. ~(g = h /\ fd.rwPos <= q /\ q < fd.rwPos + n)
    <3> SUFFICES ASSUME g = h, fd.rwPos <= q, q < fd.rwPos + n PROVE FALSE
      OBVIOUS
    <3>1. q - fd.rwPos \in 0 .. n - 1 /\ fd.rwPos + (q - fd.rwPos) = q
      BY <1>3
    <3>2. Address(fd, q - fd.rwPos) \div SECTOR = k
      BY <1>7, <3>1
    <3> QED BY <1>9, <3>1, <3>2 DEF Reaches
  <2> QED BY <1>4, <1>5, <2>1, <2>2 DEF d, h
<1> QED BY <1>8, <1>9

\* The file a descriptor points at is the one found by its name.
LEMMA FdFinds ==
  ASSUME NEW b, Whole(b), NEW fd, FdAt(b, fd)
  PROVE  /\ tarFind(b, fd.name) = fd.data - 1 /\ tarFind(b, fd.name) # NULL
         /\ fd.size \in Nat /\ fd.data - 1 \in Nat
         /\ BytesOf(b, fd.name) = [p \in 1 .. fd.size |-> ByteAt(b, fd.data * SECTOR + (p - 1))]
         /\ BytesOf(b, fd.name) \in [1 .. fd.size -> Nat]
         /\ BytesOf(b, fd.name) # Absent
<1>1. /\ fd.data \in Nat /\ fd.data - 1 \in Headers(b) /\ b[fd.data - 1].name = fd.name
      /\ b[fd.data - 1].size = fd.size
  BY DEF FdAt
<1>2. tarFind(b, fd.name) = fd.data - 1
  BY <1>1, ArchiveFinds DEF Whole
<1>3. fd.data - 1 \in Nat /\ fd.size \in Nat
  BY <1>1, FilesAreApart DEF Whole
<1>4. tarFind(b, fd.name) # NULL /\ (fd.data - 1) + 1 = fd.data
  BY <1>1, <1>2, <1>3 DEF NULL
<1> QED BY <1>1, <1>2, <1>3, <1>4, BytesAre

\* A string with n bytes from p on set to v
Overwritten(y, p, n, v) == [i \in DOMAIN y |-> IF i \in p + 1 .. p + n THEN v ELSE y[i]]

LEMMA StoreOnBytes ==
  ASSUME NEW b, Whole(b), NEW fd, FdAt(b, fd), NEW n \in Nat, fd.rwPos + n <= fd.size,
         NEW v \in Nat
  PROVE  LET d == Stored(b, fd, n, v)
             y == BytesOf(b, fd.name)
         IN  /\ \A g : g # fd.name => BytesOf(d, g) = BytesOf(b, g)
             /\ BytesOf(d, fd.name) = Overwritten(y, fd.rwPos, n, v)
<1> DEFINE d == Stored(b, fd, n, v)
<1>1. /\ Whole(d) /\ \A f : tarFind(d, f) = tarFind(b, f)
      /\ \A h \in Headers(b) : h \in Headers(d) /\ d[h] = b[h]
  BY StoreKeepsHeaders DEF SameHeaders
<1>2. \A h \in Headers(b), q \in Nat : q < b[h].size =>
        ByteAt(d, (h + 1) * SECTOR + q)
           = IF h = fd.data - 1 /\ fd.rwPos <= q /\ q < fd.rwPos + n THEN v
             ELSE ByteAt(b, (h + 1) * SECTOR + q)
  BY StoreWritesBytes
<1> HIDE DEF d
<1>3. ASSUME NEW f, tarFind(b, f) # NULL
      PROVE  LET h == tarFind(b, f)
             IN  /\ h \in Headers(b) /\ b[h].name = f /\ b[h].size \in Nat
                 /\ BytesOf(b, f) = [p \in 1 .. b[h].size |-> ByteAt(b, (h + 1) * SECTOR + (p - 1))]
                 /\ BytesOf(d, f) = [p \in 1 .. b[h].size |-> ByteAt(d, (h + 1) * SECTOR + (p - 1))]
  <2>1. /\ tarFind(b, f) \in Headers(b) /\ b[tarFind(b, f)].name = f /\ b[tarFind(b, f)].size \in Nat
        /\ BytesOf(b, f) = [p \in 1 .. b[tarFind(b, f)].size |->
                              ByteAt(b, (tarFind(b, f) + 1) * SECTOR + (p - 1))]
    BY <1>3, BytesAre
  <2>2. BytesOf(d, f) = [p \in 1 .. d[tarFind(d, f)].size |->
                           ByteAt(d, (tarFind(d, f) + 1) * SECTOR + (p - 1))]
    BY <1>1, <1>3, BytesAre
  <2>3. tarFind(d, f) = tarFind(b, f) /\ d[tarFind(b, f)] = b[tarFind(b, f)]
    BY <1>1, <2>1
  <2> QED BY <2>1, <2>2, <2>3
<1>4. ASSUME NEW g, g # fd.name PROVE BytesOf(d, g) = BytesOf(b, g)
  <2>1. CASE tarFind(b, g) = NULL
    BY <1>1, <2>1 DEF BytesOf
  <2>2. CASE tarFind(b, g) # NULL
    <3> DEFINE h == tarFind(b, g)
    <3>1. /\ h \in Headers(b) /\ b[h].name = g /\ b[h].size \in Nat
          /\ BytesOf(b, g) = [p \in 1 .. b[h].size |-> ByteAt(b, (h + 1) * SECTOR + (p - 1))]
          /\ BytesOf(d, g) = [p \in 1 .. b[h].size |-> ByteAt(d, (h + 1) * SECTOR + (p - 1))]
      BY <1>3, <2>2
    <3>2. h # fd.data - 1
      BY <1>4, <3>1 DEF FdAt
    <3> HIDE DEF h
    <3>3. \A p \in 1 .. b[h].size : p - 1 \in Nat /\ p - 1 < b[h].size
      BY <3>1
    <3>4. \A p \in 1 .. b[h].size : ByteAt(d, (h + 1) * SECTOR + (p - 1)) = ByteAt(b, (h + 1) * SECTOR + (p - 1))
      BY <1>2, <3>1, <3>2, <3>3
    <3> QED BY <3>1, <3>4
  <2> QED BY <2>1, <2>2
<1>5. BytesOf(d, fd.name) = Overwritten(BytesOf(b, fd.name), fd.rwPos, n, v)
  <2> DEFINE h == fd.data - 1
             y == BytesOf(b, fd.name)
  <2>1. tarFind(b, fd.name) = h /\ h # NULL
    BY FdFinds
  <2>2. /\ h \in Headers(b) /\ b[h].size \in Nat
        /\ y = [p \in 1 .. b[h].size |-> ByteAt(b, (h + 1) * SECTOR + (p - 1))]
        /\ BytesOf(d, fd.name) = [p \in 1 .. b[h].size |-> ByteAt(d, (h + 1) * SECTOR + (p - 1))]
    <3>1. tarFind(b, fd.name) # NULL
      BY <2>1
    <3>2. LET g == tarFind(b, fd.name)
          IN  /\ g \in Headers(b) /\ b[g].size \in Nat
              /\ BytesOf(b, fd.name) = [p \in 1 .. b[g].size |-> ByteAt(b, (g + 1) * SECTOR + (p - 1))]
              /\ BytesOf(d, fd.name) = [p \in 1 .. b[g].size |-> ByteAt(d, (g + 1) * SECTOR + (p - 1))]
      BY ONLY <1>3, <3>1, Zenon
    <3>3. y = BytesOf(b, fd.name)
      OBVIOUS
    <3> HIDE DEF h, y
    <3> QED BY ONLY <2>1, <3>2, <3>3, Zenon
  <2>3. fd.rwPos \in Nat
    BY DEF FdAt
  <2>4. \A p \in 1 .. b[h].size : /\ p - 1 \in Nat /\ p - 1 < b[h].size
                                  /\ fd.rwPos <= p - 1 /\ p - 1 < fd.rwPos + n
                                       <=> p \in fd.rwPos + 1 .. fd.rwPos + n
    BY <2>2, <2>3
  <2>5. \A p \in 1 .. b[h].size : ByteAt(d, (h + 1) * SECTOR + (p - 1))
           = IF fd.rwPos <= p - 1 /\ p - 1 < fd.rwPos + n THEN v
             ELSE ByteAt(b, (h + 1) * SECTOR + (p - 1))
    BY <1>2, <2>2, <2>4
  <2> HIDE DEF h, y
  <2>6. \A p \in 1 .. b[h].size : ByteAt(d, (h + 1) * SECTOR + (p - 1))
           = IF p \in fd.rwPos + 1 .. fd.rwPos + n THEN v ELSE y[p]
    BY <2>2, <2>4, <2>5
  <2>7. DOMAIN y = 1 .. b[h].size
    BY <2>2
  <2>8. BytesOf(d, fd.name) = Overwritten(y, fd.rwPos, n, v)
    BY <2>2, <2>6, <2>7 DEF Overwritten
  <2> QED BY <2>8 DEF y
<1> QED BY <1>4, <1>5 DEF d

\* Reading through the pointer is reading the file from rwPos on.
LEMMA PointerReads ==
  ASSUME NEW b, Whole(b), NEW fd, FdAt(b, fd), NEW n \in Nat, fd.rwPos + n <= fd.size
  PROVE  \A i \in 1 .. n : /\ fd.rwPos + i \in 1 .. fd.size
                           /\ ByteAt(b, Address(fd, i - 1)) = BytesOf(b, fd.name)[fd.rwPos + i]
<1> SUFFICES ASSUME NEW i \in 1 .. n
             PROVE  /\ fd.rwPos + i \in 1 .. fd.size
                    /\ ByteAt(b, Address(fd, i - 1)) = BytesOf(b, fd.name)[fd.rwPos + i]
  OBVIOUS
<1>1. fd.rwPos \in Nat /\ fd.size \in Nat /\ fd.data \in Nat
  BY FdFinds DEF FdAt
<1>2. i - 1 \in Nat /\ fd.rwPos + (i - 1) < fd.size /\ fd.rwPos + i \in 1 .. fd.size
  BY <1>1
<1>3. Address(fd, i - 1) = ((fd.data - 1) + 1) * SECTOR + (fd.rwPos + (i - 1))
  BY <1>2, AddressIs
<1>4. (fd.data - 1) + 1 = fd.data /\ fd.rwPos + (i - 1) = (fd.rwPos + i) - 1
  BY <1>1
<1>5. BytesOf(b, fd.name)[fd.rwPos + i] = ByteAt(b, fd.data * SECTOR + ((fd.rwPos + i) - 1))
  <2>1. BytesOf(b, fd.name) = [p \in 1 .. fd.size |-> ByteAt(b, fd.data * SECTOR + (p - 1))]
    BY FdFinds
  <2>2. \A p \in 1 .. fd.size : BytesOf(b, fd.name)[p] = ByteAt(b, fd.data * SECTOR + (p - 1))
    BY ONLY <2>1
  <2> QED BY <1>2, <2>2
<1> QED BY <1>2, <1>3, <1>4, <1>5

-----------------------------------------------------------------------------
(* The inductive invariant *)

FdSlots == [isInUse : BOOLEAN, dirty : BOOLEAN, data : Int, size : Nat, rwPos : Nat,
            name : Names \cup {""}]

DTypes ==
  /\ todo \in Todos /\ sector \in Blocks /\ arg.size \in Nat
  /\ Buffer(tarBuf) /\ Buffer(disk)
  /\ fdTable \in [Slots -> FdSlots]

\* A loop has done the sectors below its index; each buffer is whole but while
\* it is copied into.
Copies ==
  /\ ~InPhase("load") /\ ~InPhase("flush") => sector = 0
  /\ IF InPhase("load") THEN SameUpTo(disk, tarBuf, sector) ELSE Whole(tarBuf)
  /\ IF InPhase("flush") THEN SameUpTo(tarBuf, disk, sector) ELSE Whole(disk)
  /\ InPhase("list") => tarBuf = disk

\* The shell's commands run between programs, an edit between descriptors.
Turns ==
  /\ running => todo \in {<<>>, <<"flush">>}
  /\ todo \in {<<"edit", "flush">>, <<"load", "edit", "flush">>} => InUse = {}

\* While the archive is loaded again the pointers are right on disk.
FdsPoint ==
  \A s \in InUse : FdAt(IF InPhase("load") THEN disk ELSE tarBuf, fdTable[s])

\* What only writes have changed since the last flush has the disk's headers.
Saved == Prompt /\ unsaved = {} => SameHeaders(tarBuf, disk)

DInv == DTypes /\ Copies /\ Turns /\ FdsPoint /\ Saved /\ DirtyTracksDifferences

\* The phases that can follow each phase
LEMMA PhasesOf ==
  ASSUME todo \in Todos
  PROVE  /\ Prompt <=> todo = <<>>
         /\ InPhase("flush") <=> todo \in {<<"flush">>, <<"flush", "load", "list">>}
         /\ InPhase("load") <=> todo \in {<<"load">>, <<"load", "list">>, <<"load", "edit", "flush">>}
         /\ InPhase("list") <=> todo = <<"list">>
         /\ InPhase("edit") <=> todo = <<"edit", "flush">>
BY DEF Todos, Prompt, InPhase

LEMMA NextPhases ==
  /\ \A t \in {<<"flush">>, <<"load">>, <<"list">>} : Tail(t) = <<>>
  /\ Tail(<<"flush", "load", "list">>) = <<"load", "list">>
  /\ Tail(<<"load", "list">>) = <<"list">>
  /\ Tail(<<"load", "edit", "flush">>) = <<"edit", "flush">>
  /\ Tail(<<"edit", "flush">>) = <<"flush">>
OBVIOUS

\* A loop goes on to the next sector, or has done them all.
LEMMA SectorSteps ==
  ASSUME sector \in Blocks, NextSector
  PROVE  /\ sector \in Nat
         /\ \/ sector' \in Blocks /\ sector' = sector + 1 /\ todo' = todo
            \/ /\ sector' = 0 /\ sector' \in Blocks /\ todo' = Tail(todo)
               /\ \A i \in Blocks : i < sector + 1
<1>1. sector \in Nat /\ sector < TAR_MAX_SECTORS /\ 0 \in Blocks
  BY BlocksType
<1>2. CASE sector + 1 < TAR_MAX_SECTORS
  BY <1>1, <1>2, BlocksType DEF NextSector
<1>3. CASE ~(sector + 1 < TAR_MAX_SECTORS)
  <2>1. sector + 1 = TAR_MAX_SECTORS
    BY <1>1, <1>3, BlocksType
  <2> QED BY <1>1, <1>3, <2>1, BlocksType DEF NextSector
<1> QED BY <1>2, <1>3

\* A buffer into which a sector of another is copied
LEMMA CopySector ==
  ASSUME NEW b, NEW d, Buffer(b), Buffer(d), NEW k \in Blocks, SameUpTo(b, d, k)
  PROVE  LET c == [d EXCEPT ![k] = b[k]]
         IN  /\ Buffer(c) /\ SameUpTo(b, c, k + 1)
             /\ (\A i \in Blocks : i < k + 1) => c = b
<1> DEFINE c == [d EXCEPT ![k] = b[k]]
<1>1. d = [i \in Blocks |-> d[i]] /\ b = [i \in Blocks |-> b[i]]
  BY DEF Buffer
<1>2. c = [i \in Blocks |-> IF i = k THEN b[k] ELSE d[i]]
  BY <1>1
<1>3. c = [i \in Blocks |-> c[i]] /\ \A i \in Blocks : c[i] = IF i = k THEN b[k] ELSE d[i]
  BY <1>2
<1> HIDE DEF c
<1>4. Buffer(c)
  BY <1>3 DEF Buffer
<1>5. SameUpTo(b, c, k + 1)
  BY <1>3, BlocksType DEF SameUpTo
<1>6. (\A i \in Blocks : i < k + 1) => c = b
  BY <1>1, <1>3, <1>5 DEF SameUpTo
<1> QED BY <1>4, <1>5, <1>6 DEF c

LEMMA NotAtPrompt ==
  ASSUME todo' # <<>> PROVE Saved' /\ DirtyTracksDifferences'
BY DEF Saved, DirtyTracksDifferences, Prompt

\* Where buffer and disk are the same, nothing is unsaved.
LEMMA SameSaved ==
  ASSUME tarBuf' = disk' PROVE Saved' /\ DirtyTracksDifferences'
BY DEF Saved, DirtyTracksDifferences, SameHeaders

LEMMA FlushKeeps ==
  ASSUME DInv, WriteSector, UNCHANGED <<fdTable, running>>
  PROVE  DInv'
<1>1. /\ InPhase("flush") /\ NextSector /\ tarBuf' = tarBuf /\ arg' = arg
      /\ disk' = [disk EXCEPT ![sector] = tarBuf[sector]] /\ fdTable' = fdTable /\ running' = running
  BY DEF WriteSector, ustarVars
<1>2. /\ todo \in Todos /\ sector \in Blocks /\ arg.size \in Nat /\ Buffer(tarBuf) /\ Buffer(disk)
      /\ fdTable \in [Slots -> FdSlots]
  BY DEF DInv, DTypes
<1>3. todo \in {<<"flush">>, <<"flush", "load", "list">>} /\ ~InPhase("load")
  BY <1>1, <1>2, PhasesOf
<1>4. Whole(tarBuf) /\ SameUpTo(tarBuf, disk, sector)
  BY <1>1, <1>3 DEF DInv, Copies
<1>5. /\ Buffer(disk') /\ SameUpTo(tarBuf, disk', sector + 1)
      /\ (\A i \in Blocks : i < sector + 1) => disk' = tarBuf
  BY <1>1, <1>2, <1>4, CopySector
<1>6. InUse' = InUse /\ \A s \in InUse : FdAt(tarBuf, fdTable[s])
  BY <1>1, <1>3 DEF DInv, FdsPoint, InUse
<1>7. running => todo = <<"flush">>
  BY <1>3 DEF DInv, Turns
<1>8. CASE sector' \in Blocks /\ sector' = sector + 1 /\ todo' = todo
  <2>1. DTypes'
    BY <1>1, <1>2, <1>5, <1>8 DEF DTypes
  <2>2. InPhase("flush")' /\ ~InPhase("load")' /\ ~InPhase("list")' /\ todo' # <<>>
    BY <1>3, <1>8 DEF InPhase
  <2>3. Copies'
    BY <1>1, <1>4, <1>5, <1>8, <2>2 DEF Copies
  <2>4. Turns'
    BY <1>1, <1>3, <1>7, <1>8 DEF Turns
  <2>5. FdsPoint'
    BY <1>1, <1>6, <2>2 DEF FdsPoint
  <2> QED BY <2>1, <2>2, <2>3, <2>4, <2>5, NotAtPrompt DEF DInv
<1>9. CASE sector' = 0 /\ sector' \in Blocks /\ todo' = Tail(todo) /\ \A i \in Blocks : i < sector + 1
  <2>1. disk' = tarBuf /\ todo' \in {<<>>, <<"load", "list">>}
    BY <1>3, <1>5, <1>9, NextPhases
  <2>2. DTypes'
    BY <1>1, <1>2, <1>5, <1>9, <2>1 DEF DTypes, Todos
  <2>3. ~InPhase("flush")' /\ ~InPhase("list")'
    BY <2>1 DEF InPhase
  <2>4. SameUpTo(disk', tarBuf', sector')
    BY <1>1, <2>1 DEF SameUpTo
  <2>5. Copies'
    BY <1>1, <1>4, <1>9, <2>1, <2>3, <2>4 DEF Copies
  <2>6. Turns'
    BY <1>1, <1>7, <1>9, <2>1, NextPhases DEF Turns
  <2>7. FdsPoint'
    BY <1>1, <1>6, <2>1 DEF FdsPoint
  <2> QED BY <1>1, <2>1, <2>2, <2>5, <2>6, <2>7, SameSaved DEF DInv
<1> QED BY <1>1, <1>2, <1>8, <1>9, SectorSteps

LEMMA LoadKeeps ==
  ASSUME DInv, ReadSector, UNCHANGED <<fdTable, running>>
  PROVE  DInv'
<1>1. /\ InPhase("load") /\ NextSector /\ disk' = disk /\ arg' = arg
      /\ tarBuf' = [tarBuf EXCEPT ![sector] = disk[sector]] /\ fdTable' = fdTable /\ running' = running
  BY DEF ReadSector, diskVars
<1>2. /\ todo \in Todos /\ sector \in Blocks /\ arg.size \in Nat /\ Buffer(tarBuf) /\ Buffer(disk)
      /\ fdTable \in [Slots -> FdSlots]
  BY DEF DInv, DTypes
<1>3. todo \in {<<"load">>, <<"load", "list">>, <<"load", "edit", "flush">>} /\ ~InPhase("flush")
  BY <1>1, <1>2, PhasesOf
<1>4. Whole(disk) /\ SameUpTo(disk, tarBuf, sector)
  BY <1>1, <1>3 DEF DInv, Copies
<1>5. /\ Buffer(tarBuf') /\ SameUpTo(disk, tarBuf', sector + 1)
      /\ (\A i \in Blocks : i < sector + 1) => tarBuf' = disk
  BY <1>1, <1>2, <1>4, CopySector
<1>6. InUse' = InUse /\ \A s \in InUse : FdAt(disk, fdTable[s])
  BY <1>1 DEF DInv, FdsPoint, InUse
<1>7. ~running
  BY <1>3 DEF DInv, Turns
<1>8. todo = <<"load", "edit", "flush">> => InUse = {}
  BY DEF DInv, Turns
<1>9. CASE sector' \in Blocks /\ sector' = sector + 1 /\ todo' = todo
  <2>1. DTypes'
    BY <1>1, <1>2, <1>5, <1>9 DEF DTypes
  <2>2. ~InPhase("flush")' /\ InPhase("load")' /\ ~InPhase("list")' /\ todo' # <<>>
    BY <1>3, <1>9 DEF InPhase
  <2>3. Copies'
    BY <1>1, <1>4, <1>5, <1>9, <2>2 DEF Copies
  <2>4. Turns'
    BY <1>1, <1>3, <1>6, <1>7, <1>8, <1>9 DEF Turns
  <2>5. FdsPoint'
    BY <1>1, <1>6, <2>2 DEF FdsPoint
  <2> QED BY <2>1, <2>2, <2>3, <2>4, <2>5, NotAtPrompt DEF DInv
<1>10. CASE sector' = 0 /\ sector' \in Blocks /\ todo' = Tail(todo) /\ \A i \in Blocks : i < sector + 1
  <2>1. tarBuf' = disk /\ todo' \in {<<>>, <<"list">>, <<"edit", "flush">>}
    BY <1>3, <1>5, <1>10, NextPhases
  <2>2. DTypes'
    BY <1>1, <1>2, <1>5, <1>10, <2>1 DEF DTypes, Todos
  <2>3. ~InPhase("flush")' /\ ~InPhase("load")'
    BY <2>1 DEF InPhase
  <2>4. Copies'
    BY <1>1, <1>4, <1>10, <2>1, <2>3 DEF Copies
  <2>5. Turns'
    <3>1. todo' = <<"edit", "flush">> => todo = <<"load", "edit", "flush">>
      <4>1. /\ todo = <<"load">> => todo' = <<>>
            /\ todo = <<"load", "list">> => todo' = <<"list">>
        BY <1>10, NextPhases
      <4> QED BY <1>3, <4>1
    <3>2. todo' # <<"load", "edit", "flush">>
      BY <2>1
    <3> QED BY <1>1, <1>6, <1>7, <1>8, <3>1, <3>2 DEF Turns
  <2>6. FdsPoint'
    BY <1>1, <1>6, <2>1 DEF FdsPoint
  <2> QED BY <1>1, <2>1, <2>2, <2>4, <2>5, <2>6, SameSaved DEF DInv
<1> QED BY <1>1, <1>2, <1>9, <1>10, SectorSteps

LEMMA EditKeeps ==
  ASSUME DInv, EditPhase, UNCHANGED <<fdTable, running>>
  PROVE  DInv'
<1>1. /\ InPhase("edit") /\ disk' = disk /\ sector' = sector /\ todo' = Tail(todo) /\ arg' = NoArg
      /\ fdTable' = fdTable /\ running' = running
      /\ tarBuf' = IF tarFind(tarBuf, arg.name) = NULL THEN tarBuf
                   ELSE Edited(tarBuf, arg.name, arg.size)
  BY DEF EditPhase, Edit, diskVars
<1>2. /\ todo \in Todos /\ sector \in Blocks /\ Buffer(disk) /\ fdTable \in [Slots -> FdSlots]
  BY DEF DInv, DTypes
<1>3. todo = <<"edit", "flush">> /\ ~InPhase("load") /\ ~InPhase("flush")
  BY <1>1, <1>2, PhasesOf
<1>4. Whole(tarBuf) /\ sector = 0 /\ InUse = {} /\ ~running
  BY <1>3 DEF DInv, Copies, Turns
<1>5. Whole(tarBuf')
  BY <1>1, <1>4, EditKeepsBytes
<1>6. todo' = <<"flush">>
  BY <1>1, <1>3, NextPhases
<1>7. DTypes'
  <2>1. Buffer(tarBuf') /\ arg'.size \in Nat
    BY <1>1, <1>5 DEF Whole, Archive, NoArg
  <2> QED BY <1>1, <1>2, <1>6, <2>1 DEF DTypes, Todos
<1>8. Copies'
  <2>1. InPhase("flush")' /\ ~InPhase("load")' /\ ~InPhase("list")'
    BY <1>6 DEF InPhase
  <2>2. SameUpTo(tarBuf', disk', sector')
    BY <1>1, <1>4, BlocksType DEF SameUpTo
  <2> QED BY <1>5, <2>1, <2>2 DEF Copies
<1>9. Turns' /\ FdsPoint'
  BY <1>1, <1>4, <1>6 DEF Turns, FdsPoint, InUse
<1> QED BY <1>6, <1>7, <1>8, <1>9, NotAtPrompt DEF DInv

LEMMA ListKeeps ==
  ASSUME DInv, ListPhase, UNCHANGED <<fdTable, running>>
  PROVE  DInv'
<1>1. /\ InPhase("list") /\ disk' = disk /\ sector' = sector /\ todo' = Tail(todo) /\ arg' = arg
      /\ fdTable' = fdTable /\ running' = running /\ tarBuf' = tarBuf
  BY DEF ListPhase, diskVars
<1>2. todo \in Todos
  BY DEF DInv, DTypes
<1>3. todo = <<"list">> /\ ~InPhase("load") /\ ~InPhase("flush")
  BY <1>1, <1>2, PhasesOf
<1>4. Whole(tarBuf) /\ Whole(disk) /\ tarBuf = disk /\ sector = 0
  BY <1>1, <1>3 DEF DInv, Copies
<1>5. todo' = <<>>
  BY <1>1, <1>3, NextPhases
<1>6. DTypes'
  BY <1>1, <1>5 DEF DInv, DTypes, Todos
<1>7. ~InPhase("flush")' /\ ~InPhase("load")' /\ ~InPhase("list")'
  BY <1>5 DEF InPhase
<1>8. Copies'
  BY <1>1, <1>4, <1>7 DEF Copies
<1>9. Turns' /\ FdsPoint'
  BY <1>1, <1>3, <1>5, <1>7 DEF DInv, Turns, FdsPoint, InUse
<1> QED BY <1>1, <1>4, <1>6, <1>8, <1>9, SameSaved DEF DInv

\* Pointers follow headers.
HeadersStay(b, d) == \A h \in Headers(b) : h \in Headers(d) /\ d[h] = b[h]

LEMMA FdOfHeaders ==
  ASSUME NEW b, NEW d, HeadersStay(b, d), NEW fd, FdAt(b, fd) PROVE FdAt(d, fd)
BY DEF HeadersStay, FdAt

\* At the prompt both buffers are whole.
LEMMA AtPrompt ==
  ASSUME DInv, Prompt
  PROVE  /\ Whole(tarBuf) /\ Whole(disk) /\ sector = 0 /\ todo = <<>>
         /\ \A s \in InUse : FdAt(tarBuf, fdTable[s])
         /\ unsaved = {} => SameHeaders(tarBuf, disk)
<1>1. ~InPhase("flush") /\ ~InPhase("load") /\ ~InPhase("list") /\ todo = <<>>
  BY DEF InPhase, Prompt
<1> QED BY <1>1 DEF DInv, Copies, FdsPoint, Saved

\* ls, cat, echo and a restart: the archive is loaded again.
LEMMA ReloadKeeps ==
  ASSUME DInv, Prompt, ~running, running' = running, disk' = disk, sector' = 0, arg'.size \in Nat,
         todo' \in {<<"load">>, <<"load", "list">>, <<"load", "edit", "flush">>},
         todo' = <<"load", "edit", "flush">> => InUse = {},
         Buffer(tarBuf'),
         \/ fdTable' = [s \in Slots |-> Closed]
         \/ fdTable' = fdTable /\ (InUse = {} \/ unsaved = {})
  PROVE  DInv'
<1>1. /\ Whole(tarBuf) /\ Whole(disk) /\ \A s \in InUse : FdAt(tarBuf, fdTable[s])
      /\ unsaved = {} => SameHeaders(tarBuf, disk)
  BY AtPrompt
<1>2. Closed \in FdSlots
  <2>1. NULL \in Int /\ 0 \in Nat /\ FALSE \in BOOLEAN /\ "" \in Names \cup {""}
    BY DEF NULL
  <2> HIDE DEF NULL
  <2> QED BY <2>1, Zenon DEF Closed, FdSlots
<1>3. DTypes'
  <2>1. fdTable' \in [Slots -> FdSlots]
    BY <1>2 DEF DInv, DTypes
  <2>2. 0 \in Blocks /\ Buffer(disk)
    BY BlocksType DEF DInv, DTypes
  <2> QED BY <2>1, <2>2 DEF DTypes, Todos
<1>4. InPhase("load")' /\ ~InPhase("flush")' /\ ~InPhase("list")' /\ todo' # <<>>
  BY DEF InPhase
<1>5. Copies'
  <2>1. SameUpTo(disk', tarBuf', sector')
    BY BlocksType DEF SameUpTo
  <2> QED BY <1>1, <1>4, <2>1 DEF Copies
<1>6. \/ InUse' = InUse /\ fdTable' = fdTable /\ (InUse = {} \/ unsaved = {})
      \/ InUse' = {}
  <2>1. CASE fdTable' = fdTable /\ (InUse = {} \/ unsaved = {})
    BY <2>1 DEF InUse
  <2>2. CASE fdTable' = [s \in Slots |-> Closed]
    <3>1. ~Closed.isInUse
      BY DEF Closed
    <3>2. \A s \in Slots : fdTable'[s] = Closed
      BY <2>2
    <3> QED BY <3>1, <3>2 DEF InUse
  <2> QED BY <2>1, <2>2
<1>7. Turns'
  <2>1. todo' # <<"edit", "flush">>
    OBVIOUS
  <2> QED BY <1>6, <2>1 DEF Turns
<1>8. FdsPoint'
  <2> SUFFICES ASSUME NEW s \in InUse' PROVE FdAt(disk', fdTable'[s])
    BY <1>4 DEF FdsPoint
  <2>1. s \in InUse /\ fdTable' = fdTable /\ unsaved = {}
    BY <1>6
  <2>2. FdAt(tarBuf, fdTable[s]) /\ SameHeaders(tarBuf, disk)
    BY <1>1, <2>1
  <2>3. HeadersStay(tarBuf, disk)
    BY <2>2 DEF SameHeaders, HeadersStay
  <2> QED BY <2>1, <2>2, <2>3, FdOfHeaders
<1> QED BY <1>3, <1>4, <1>5, <1>7, <1>8, NotAtPrompt DEF DInv

\* What leaves the shell or the program at the prompt, or with a flush to do
LEMMA PromptKeeps ==
  ASSUME DInv, Prompt, disk' = disk, sector' = sector, arg' = arg, Whole(tarBuf'),
         todo' \in {<<>>, <<"flush">>, <<"flush", "load", "list">>},
         todo' = <<"flush", "load", "list">> => ~running',
         fdTable' \in [Slots -> FdSlots],
         \A s \in InUse' : FdAt(tarBuf', fdTable'[s]),
         todo' = <<>> => Saved' /\ DirtyTracksDifferences'
  PROVE  DInv'
<1>1. Whole(disk) /\ sector = 0
  BY AtPrompt
<1>2. DTypes'
  <2>1. sector \in Blocks /\ arg.size \in Nat /\ Buffer(disk)
    BY DEF DInv, DTypes
  <2>2. Buffer(tarBuf')
    BY DEF Whole, Archive
  <2> QED BY <2>1, <2>2 DEF DTypes, Todos
<1>3. ~InPhase("load")' /\ ~InPhase("list")'
  BY DEF InPhase
<1>4. Copies'
  <2>1. SameUpTo(tarBuf', disk', sector')
    BY <1>1, BlocksType DEF SameUpTo
  <2> QED BY <1>1, <1>3, <2>1 DEF Copies
<1>5. Turns'
  <2>1. todo' # <<"edit", "flush">> /\ todo' # <<"load", "edit", "flush">>
    OBVIOUS
  <2> QED BY <2>1 DEF Turns
<1>6. FdsPoint'
  BY <1>3 DEF FdsPoint
<1> QED BY <1>2, <1>4, <1>5, <1>6, NotAtPrompt DEF DInv

LEMMA SameDifferences ==
  ASSUME DInv, Prompt, UNCHANGED <<tarBuf, disk, fdTable, unsaved>>
  PROVE  Saved' /\ DirtyTracksDifferences'
<1>1. Saved /\ DirtyTracksDifferences /\ InUse' = InUse
  BY DEF DInv, InUse
<1> QED BY <1>1 DEF Saved, DirtyTracksDifferences, Prompt

\* Programs start and end, and calls change nothing they do not name.
LEMMA NothingKeeps ==
  ASSUME DInv, Prompt, UNCHANGED <<tarBuf, disk, sector, arg, todo, fdTable, unsaved>>
  PROVE  DInv'
<1>1. /\ Whole(tarBuf) /\ todo = <<>> /\ InUse' = InUse
      /\ \A s \in InUse : FdAt(tarBuf, fdTable[s])
  BY AtPrompt DEF InUse
<1>2. fdTable \in [Slots -> FdSlots]
  BY DEF DInv, DTypes
<1> QED BY <1>1, <1>2, SameDifferences, PromptKeeps

LEMMA ShellKeeps ==
  ASSUME ~MoveWhileOpen, DInv, Shell
  PROVE  DInv'
<1>1. ~running /\ running' = running /\ fdTable' = fdTable /\ unsaved' = unsaved /\ InUse' = InUse
  BY DEF Shell, fdVars, InUse
<1>2. CASE ShLook /\ MayReload
  <2>1. Prompt /\ sector = 0
    BY <1>2, AtPrompt DEF ShLook
  <2>2. /\ disk' = disk /\ sector' = sector /\ arg' = arg /\ tarBuf' = tarBuf
        /\ todo' \in {<<"load", "list">>, <<"load">>}
    BY <1>2 DEF ShLook, ustarVars, diskVars
  <2>3. arg.size \in Nat /\ Buffer(tarBuf)
    BY DEF DInv, DTypes
  <2>4. todo' # <<"load", "edit", "flush">> /\ todo' \in {<<"load">>, <<"load", "list">>, <<"load", "edit", "flush">>}
    BY <2>2
  <2> QED BY <1>1, <1>2, <2>1, <2>2, <2>3, <2>4, ReloadKeeps DEF MayReload
<1>3. CASE \E f, size : size \in Sizes /\ ShWrite(f, size) /\ MayMove
  <2>1. Prompt /\ sector = 0
    BY <1>3, AtPrompt DEF ShWrite
  <2>2. /\ disk' = disk /\ sector' = sector /\ tarBuf' = tarBuf
        /\ todo' = <<"load", "edit", "flush">>
    BY <1>3 DEF ShWrite, ustarVars, diskVars
  <2>3. arg'.size \in Nat /\ Buffer(tarBuf) /\ InUse = {}
    BY <1>3, UstarAssumption DEF ShWrite, MayMove, DInv, DTypes
  <2> QED BY <1>1, <2>1, <2>2, <2>3, ReloadKeeps
<1>4. CASE \E f : ShTouch(f)
  <2>1. PICK f : ShTouch(f)
    BY <1>4
  <2>2. Prompt /\ tarGetEnd(tarBuf) \in Blocks /\ todo' = <<"flush">>
        /\ disk' = disk /\ sector' = sector /\ arg' = arg
        /\ tarBuf' = IF touchMakes(tarBuf, f) THEN Touched(tarBuf, f) ELSE tarBuf
    BY <2>1 DEF ShTouch, RoomToTouch, Touch, Begin, diskVars
  <2>3. Whole(tarBuf) /\ Buffer(tarBuf) /\ \A s \in InUse : FdAt(tarBuf, fdTable[s])
    BY <2>2, AtPrompt DEF DInv, DTypes
  <2>4. Whole(tarBuf') /\ HeadersStay(tarBuf, tarBuf')
    <3>1. CASE touchMakes(tarBuf, f)
      <4>1. tarFind(tarBuf, f) = NULL
        BY <2>3, <3>1, MakesAbsent
      <4>2. /\ Whole(Touched(tarBuf, f))
            /\ \A h \in Headers(tarBuf) : h \in Headers(Touched(tarBuf, f)) /\ Touched(tarBuf, f)[h] = tarBuf[h]
        BY <2>2, <2>3, <4>1, TouchKeepsBytes
      <4> QED BY <2>2, <3>1, <4>2 DEF HeadersStay
    <3>2. CASE ~touchMakes(tarBuf, f)
      BY <2>2, <2>3, <3>2 DEF HeadersStay
    <3> QED BY <3>1, <3>2
  <2>5. \A s \in InUse' : FdAt(tarBuf', fdTable'[s])
    BY <1>1, <2>3, <2>4, FdOfHeaders
  <2>6. fdTable' \in [Slots -> FdSlots]
    BY <1>1 DEF DInv, DTypes
  <2> QED BY <2>2, <2>4, <2>5, <2>6, PromptKeeps
<1>5. CASE \E f : ShRm(f) /\ MayMove
  <2>1. PICK f : ShRm(f) /\ MayMove
    BY <1>5
  <2>2. Prompt /\ Rm(f) /\ InUse = {}
    BY <2>1 DEF ShRm, MayMove
  <2>3. Whole(tarBuf) /\ Buffer(tarBuf)
    BY <2>2, AtPrompt DEF DInv, DTypes
  <2>4. tarRead(tarBuf, f) < 0 <=> tarFind(tarBuf, f) = NULL
    BY <2>3, MakesAbsent DEF touchMakes
  <2>5. CASE tarFind(tarBuf, f) = NULL
    <3>1. tarBuf' = tarBuf /\ UNCHANGED storageVars
      BY <2>1, <2>2, <2>4, <2>5 DEF ShRm, Rm
    <3> QED BY <1>1, <2>2, <3>1, NothingKeeps DEF storageVars
  <2>6. CASE tarFind(tarBuf, f) # NULL
    <3>1. tarBuf' = Removed(tarBuf, f) /\ Begin(<<"flush", "load", "list">>)
      BY <2>1, <2>2, <2>4, <2>6 DEF ShRm, Rm
    <3>2. Whole(tarBuf')
      BY <2>3, <2>6, <3>1, RemoveKeepsBytes
    <3>3. fdTable' \in [Slots -> FdSlots]
      BY <1>1 DEF DInv, DTypes
    <3>4. disk' = disk /\ sector' = sector /\ arg' = arg /\ todo' = <<"flush", "load", "list">>
      BY <3>1 DEF Begin, diskVars
    <3> QED BY <1>1, <2>2, <3>2, <3>3, <3>4, PromptKeeps
  <2> QED BY <2>5, <2>6
<1> QED BY <1>2, <1>3, <1>4, <1>5 DEF Shell

\* A restart drops what open has made; it keeps the descriptors or clears them.
LEMMA RestartKeeps ==
  ASSUME ~MoveWhileOpen, DInv, Restarted
  PROVE  DInv'
<1>1. /\ ~running /\ Prompt /\ running' = running /\ disk' = disk /\ todo' = <<"load">> /\ sector' = 0
      /\ arg' = NoArg /\ tarBuf' = [i \in Blocks |-> Zero]
  BY DEF Restarted, Reboot, Restart
<1>2. fdTable' = [s \in Slots |-> Closed] \/ (fdTable' = fdTable /\ MayReload)
  BY DEF Restarted
<1>3. Buffer(tarBuf') /\ arg'.size \in Nat
  BY <1>1, HeaderFields DEF Buffer, NoArg
<1>4. todo' \in {<<"load">>, <<"load", "list">>, <<"load", "edit", "flush">>} /\ todo' # <<"load", "edit", "flush">>
  BY <1>1
<1> QED BY <1>1, <1>2, <1>3, <1>4, ReloadKeeps DEF MayReload

-----------------------------------------------------------------------------
(* A program's calls *)

\* What open makes ready, and the slot and descriptor it gives
Made(b, f)            == IF tarFind(b, f) # NULL THEN b ELSE Touched(b, f)
Ready(b, f, truncate) == IF truncate THEN Edited(Made(b, f), f, 0) ELSE Made(b, f)

FreeSlot == CHOOSE s \in Slots \ InUse : \A r \in Slots \ InUse : s <= r

NewFd(b, f) == [isInUse |-> TRUE, dirty |-> FALSE, name |-> f,
                data |-> tarFind(b, f) + 1, size |-> tarRead(b, f), rwPos |-> 0]

LEMMA OpenMakesReady ==
  ASSUME NEW b, Whole(b), NEW f, NEW truncate \in BOOLEAN,
         tarFind(b, f) # NULL \/ tarGetEnd(b) \in Blocks
  PROVE  LET d == Ready(b, f, truncate)
         IN  /\ Whole(d) /\ tarFind(d, f) # NULL
             /\ \A g : g # f => BytesOf(d, g) = BytesOf(b, g)
             /\ BytesOf(d, f) = IF tarFind(b, f) = NULL \/ truncate THEN <<>> ELSE BytesOf(b, f)
             /\ ~truncate => HeadersStay(b, d)
             /\ tarFind(b, f) # NULL /\ ~truncate => d = b
<1> DEFINE m == Made(b, f)
<1>1. /\ Whole(m) /\ tarFind(m, f) # NULL
      /\ \A g : g # f => BytesOf(m, g) = BytesOf(b, g)
      /\ BytesOf(m, f) = IF tarFind(b, f) = NULL THEN <<>> ELSE BytesOf(b, f)
      /\ HeadersStay(b, m)
  <2>1. CASE tarFind(b, f) # NULL
    BY <2>1 DEF Made, HeadersStay
  <2>2. CASE tarFind(b, f) = NULL
    <3>1. m = Touched(b, f)
      BY <2>2 DEF Made
    <3> HIDE DEF m
    <3>2. /\ Whole(Touched(b, f)) /\ tarFind(Touched(b, f), f) # NULL /\ BytesOf(Touched(b, f), f) = <<>>
          /\ \A g : g # f => BytesOf(Touched(b, f), g) = BytesOf(b, g)
          /\ \A h \in Headers(b) : h \in Headers(Touched(b, f)) /\ Touched(b, f)[h] = b[h]
      BY <2>2, TouchKeepsBytes
    <3> QED BY <2>2, <3>1, <3>2 DEF HeadersStay
  <2> QED BY <2>1, <2>2
<1>2. tarFind(b, f) # NULL => m = b
  BY DEF Made
<1>3. Ready(b, f, truncate) = IF truncate THEN Edited(m, f, 0) ELSE m
  BY DEF Ready
<1> HIDE DEF m
<1>4. CASE truncate
  <2>1. /\ Whole(Edited(m, f, 0)) /\ tarFind(Edited(m, f, 0), f) # NULL
        /\ BytesOf(Edited(m, f, 0), f) = <<>>
        /\ \A g : g # f => BytesOf(Edited(m, f, 0), g) = BytesOf(m, g)
    BY <1>1, EditKeepsBytes
  <2> QED BY <1>1, <1>3, <1>4, <2>1
<1>5. CASE ~truncate
  BY <1>1, <1>2, <1>3, <1>5
<1> QED BY <1>4, <1>5

LEMMA SlotIsFree ==
  ASSUME Slots \ InUse # {}
  PROVE  /\ FreeSlot \in Slots /\ FreeSlot \notin InUse
         /\ \A r \in Slots \ InUse : FreeSlot <= r
<1>1. Slots \ InUse \in SUBSET Nat
  BY DescriptorsAssumption DEF Slots
<1>2. \E s \in Slots \ InUse : \A r \in Slots \ InUse : s <= r
  BY <1>1, LeastNatural
<1> QED BY <1>2 DEF FreeSlot

\* The new descriptor points behind the header of its file.
LEMMA NewFdIsRight ==
  ASSUME NEW b, Whole(b), NEW f \in Names, tarFind(b, f) # NULL
  PROVE  NewFd(b, f) \in FdSlots /\ FdAt(b, NewFd(b, f)) /\ NewFd(b, f).isInUse
<1> DEFINE fd == NewFd(b, f)
           h == tarFind(b, f)
<1>1. h \in Headers(b) /\ b[h].name = f /\ b[h].size \in Nat /\ h \in Nat
  BY BytesAre, ArchiveFinds, FilesAreApart DEF Whole
<1>2. tarRead(b, f) = b[h].size
  BY DEF tarRead
<1>3. /\ fd.isInUse = TRUE /\ fd.dirty = FALSE /\ fd.name = f /\ fd.data = h + 1
      /\ fd.size = tarRead(b, f) /\ fd.rwPos = 0
  BY DEF NewFd
<1>4. fd \in FdSlots
  <2> HIDE DEF h
  <2>1. h + 1 \in Int /\ tarRead(b, f) \in Nat /\ 0 \in Nat /\ f \in Names \cup {""}
    <3>1. h + 1 \in Int
      BY <1>1
    <3>2. tarRead(b, f) \in Nat
      BY <1>1, <1>2
    <3>3. f \in Names \cup {""}
      OBVIOUS
    <3> QED BY <3>1, <3>2, <3>3
  <2> QED BY <2>1, Zenon DEF NewFd, FdSlots, h
<1> HIDE DEF h, fd
<1>5. fd.data - 1 = h /\ fd.data \in Nat
  BY <1>1, <1>3
<1>6. FdAt(b, fd)
  BY <1>1, <1>2, <1>3, <1>5 DEF FdAt
<1> QED BY <1>3, <1>4, <1>6 DEF fd

\* What open does where it does something
OpensReady(f, truncate) ==
  LET d == Ready(tarBuf, f, truncate)
  IN  /\ tarFind(tarBuf, f) # NULL \/ RoomToTouch
      /\ truncate => MayMove
      /\ tarBuf' = d
      /\ unsaved' = IF tarFind(tarBuf, f) # NULL /\ ~truncate THEN unsaved ELSE unsaved \cup {f}
      /\ IF Slots \ InUse = {} THEN ret' = -1 /\ fdTable' = fdTable
         ELSE ret' = FreeSlot + 3 /\ fdTable' = [fdTable EXCEPT ![FreeSlot] = NewFd(d, f)]

LEMMA OpenIs ==
  ASSUME NEW f, NEW create, NEW truncate, Open(f, create, truncate)
  PROVE  /\ Prompt /\ running /\ running' = running /\ got' = <<>>
         /\ UNCHANGED <<listed, disk, todo, sector, arg, lost, misread, cuts>>
         /\ IF tarFind(tarBuf, f) = NULL /\ ~create
            THEN ret' = -1 /\ UNCHANGED <<tarBuf, fdTable, unsaved>>
            ELSE OpensReady(f, truncate)
BY Zenon DEF Open, Calling, storageVars, OpensReady, Ready, Made, NewFd, FreeSlot, Pointer

LEMMA OpenKeeps ==
  ASSUME ~MoveWhileOpen, DInv, NEW f \in Names, NEW create \in BOOLEAN, NEW truncate \in BOOLEAN,
         Open(f, create, truncate)
  PROVE  DInv'
<1>1. /\ Prompt /\ UNCHANGED <<disk, todo, sector, arg>>
      /\ IF tarFind(tarBuf, f) = NULL /\ ~create THEN UNCHANGED <<tarBuf, fdTable, unsaved>>
         ELSE OpensReady(f, truncate)
  BY OpenIs
<1>2. CASE tarFind(tarBuf, f) = NULL /\ ~create
  BY <1>1, <1>2, NothingKeeps
<1>3. CASE OpensReady(f, truncate)
  <2> DEFINE d == Ready(tarBuf, f, truncate)
  <2>1. /\ tarFind(tarBuf, f) # NULL \/ tarGetEnd(tarBuf) \in Blocks
        /\ truncate => InUse = {}
        /\ tarBuf' = d
        /\ unsaved' = IF tarFind(tarBuf, f) # NULL /\ ~truncate THEN unsaved ELSE unsaved \cup {f}
    BY <1>3 DEF OpensReady, RoomToTouch, MayMove
  <2>2. /\ Whole(tarBuf) /\ todo = <<>> /\ \A s \in InUse : FdAt(tarBuf, fdTable[s])
        /\ unsaved = {} => SameHeaders(tarBuf, disk)
        /\ fdTable \in [Slots -> FdSlots] /\ DirtyTracksDifferences
    BY <1>1, AtPrompt DEF DInv, DTypes
  <2>3. /\ Whole(d) /\ tarFind(d, f) # NULL
        /\ \A g : g # f => BytesOf(d, g) = BytesOf(tarBuf, g)
        /\ ~truncate => HeadersStay(tarBuf, d)
        /\ tarFind(tarBuf, f) # NULL /\ ~truncate => d = tarBuf
    BY <2>1, <2>2, OpenMakesReady
  <2>4. \/ fdTable' = fdTable
        \/ /\ FreeSlot \in Slots /\ FreeSlot \notin InUse
           /\ fdTable' = [fdTable EXCEPT ![FreeSlot] = NewFd(d, f)]
    BY <1>3, SlotIsFree DEF OpensReady
  <2> HIDE DEF d
  <2>5. NewFd(d, f) \in FdSlots /\ FdAt(d, NewFd(d, f)) /\ NewFd(d, f).isInUse
    BY <2>3, NewFdIsRight
  <2>6. fdTable' \in [Slots -> FdSlots]
    BY <2>2, <2>4, <2>5
  <2>7. \A s \in InUse : s \in Slots /\ s \in InUse' /\ fdTable'[s] = fdTable[s]
    BY <2>2, <2>4 DEF InUse
  <2>8. \A s \in InUse' : s \in InUse \/ fdTable'[s] = NewFd(d, f)
    BY <2>2, <2>4 DEF InUse
  <2>9. \A s \in InUse' : FdAt(tarBuf', fdTable'[s])
    <3>1. \A s \in InUse : FdAt(d, fdTable[s])
      BY <2>1, <2>2, <2>3, FdOfHeaders
    <3> QED BY <2>1, <2>5, <2>7, <2>8, <3>1
  <2>10. Saved'
    BY <1>1, <2>1, <2>2, <2>3 DEF Saved
  <2>11. DirtyTracksDifferences'
    <3> SUFFICES ASSUME NEW g \in Names, g \notin unsaved', BytesOf(tarBuf', g) # BytesOf(disk', g)
                 PROVE  \E s \in InUse' : fdTable'[s].dirty /\ fdTable'[s].name = g
      BY DEF DirtyTracksDifferences
    <3>1. g \notin unsaved /\ BytesOf(tarBuf', g) = BytesOf(tarBuf, g)
      BY <2>1, <2>3
    <3>2. PICK s \in InUse : fdTable[s].dirty /\ fdTable[s].name = g
      BY <1>1, <2>2, <3>1 DEF DirtyTracksDifferences
    <3> QED BY <2>7, <3>2
  <2> QED BY <1>1, <2>1, <2>2, <2>3, <2>6, <2>9, <2>10, <2>11, PromptKeeps
<1> QED BY <1>1, <1>2, <1>3

\* What is read or written ends with the file.
LEMMA ClippedFits ==
  ASSUME NEW b, Whole(b), NEW fd, FdAt(b, fd), NEW count \in Counts, fd.rwPos + count < SIZE_T
  PROVE  /\ Clipped(fd, count) \in Nat /\ fd.rwPos + Clipped(fd, count) <= fd.size
         /\ Clipped(fd, count) = IF count <= fd.size - fd.rwPos THEN count ELSE fd.size - fd.rwPos
<1>1. fd.rwPos \in Nat /\ fd.size \in Nat /\ fd.rwPos <= fd.size
  BY FdFinds DEF FdAt
<1>2. count \in Nat /\ SIZE_T \in Nat \ {0}
  BY DescriptorsAssumption
<1>3. (fd.rwPos + count) % SIZE_T = fd.rwPos + count
  <2>1. fd.rwPos + count \in 0 .. SIZE_T - 1 /\ SIZE_T * 0 + (fd.rwPos + count) = fd.rwPos + count
    BY <1>1, <1>2
  <2>2. (SIZE_T * 0 + (fd.rwPos + count)) % SIZE_T = fd.rwPos + count
    BY <1>2, <2>1, DivModUnique
  <2> QED BY <2>1, <2>2
<1>4. Clipped(fd, count) = IF fd.rwPos + count > fd.size THEN fd.size - fd.rwPos ELSE count
  BY <1>3 DEF Clipped
<1> QED BY <1>1, <1>2, <1>4

\* A descriptor of which the position, and then dirty, is set
MovedTo(fd, p)      == [fd EXCEPT !.rwPos = p]
WrittenTo(fd, p, x) == [MovedTo(fd, p) EXCEPT !.dirty = x]

LEMMA FdMoves ==
  ASSUME NEW fd \in FdSlots, NEW p \in Nat, NEW x \in BOOLEAN
  PROVE  MovedTo(fd, p) \in FdSlots /\ WrittenTo(fd, p, x) \in FdSlots
<1>1. \A e \in FdSlots : [e EXCEPT !.rwPos = p] \in FdSlots
  BY DEF FdSlots
<1>2. \A e \in FdSlots : [e EXCEPT !.dirty = x] \in FdSlots
  BY DEF FdSlots
<1> QED BY <1>1, <1>2 DEF MovedTo, WrittenTo

LEMMA FdMoved ==
  ASSUME NEW fd \in FdSlots, NEW b, FdAt(b, fd), NEW p \in Nat, p <= fd.size, NEW x
  PROVE  LET m == MovedTo(fd, p)
             e == WrittenTo(fd, p, x)
         IN  /\ FdAt(b, m) /\ m.isInUse = fd.isInUse /\ m.name = fd.name /\ m.dirty = fd.dirty /\ m.rwPos = p
             /\ FdAt(b, e) /\ e.isInUse = fd.isInUse /\ e.name = fd.name /\ e.dirty = x /\ e.rwPos = p
<1> DEFINE m == MovedTo(fd, p)
           e == WrittenTo(fd, p, x)
<1>1. fd = [isInUse |-> fd.isInUse, dirty |-> fd.dirty, data |-> fd.data, size |-> fd.size,
            rwPos |-> fd.rwPos, name |-> fd.name]
  BY DEF FdSlots
<1>2. m = [isInUse |-> fd.isInUse, dirty |-> fd.dirty, data |-> fd.data, size |-> fd.size,
           rwPos |-> p, name |-> fd.name]
  BY <1>1 DEF MovedTo
<1>a. e = [m EXCEPT !.dirty = x]
  BY DEF WrittenTo
<1> HIDE DEF m, e
<1>3. e = [isInUse |-> fd.isInUse, dirty |-> x, data |-> fd.data, size |-> fd.size,
           rwPos |-> p, name |-> fd.name]
  BY <1>2, <1>a
<1>4. /\ m.isInUse = fd.isInUse /\ m.dirty = fd.dirty /\ m.data = fd.data /\ m.size = fd.size
      /\ m.rwPos = p /\ m.name = fd.name
  BY ONLY <1>2
<1>5. /\ e.isInUse = fd.isInUse /\ e.dirty = x /\ e.data = fd.data /\ e.size = fd.size
      /\ e.rwPos = p /\ e.name = fd.name
  BY ONLY <1>3
<1>6. FdAt(b, m) /\ FdAt(b, e)
  BY <1>4, <1>5 DEF FdAt
<1> QED BY <1>4, <1>5, <1>6 DEF m, e

\* One slot of the table replaced by a descriptor in use
LEMMA SlotReplaced ==
  ASSUME NEW s \in InUse, fdTable \in [Slots -> FdSlots], NEW e \in FdSlots, e.isInUse,
         fdTable' = [fdTable EXCEPT ![s] = e]
  PROVE  /\ fdTable' \in [Slots -> FdSlots] /\ InUse' = InUse /\ fdTable'[s] = e
         /\ \A r \in InUse : r # s => fdTable'[r] = fdTable[r]
<1>1. s \in Slots /\ \A r \in InUse : r \in Slots
  BY DEF InUse
<1>2. \A r \in Slots : fdTable'[r] = IF r = s THEN e ELSE fdTable[r]
  BY <1>1
<1>3. fdTable' \in [Slots -> FdSlots]
  BY <1>1
<1>4. \A r : r \in InUse' <=> r \in InUse
  BY <1>1, <1>2 DEF InUse
<1> QED BY <1>1, <1>2, <1>3, <1>4

LEMMA ReadKeeps ==
  ASSUME DInv, NEW s \in Slots, NEW count \in Counts, Read(s, count)
  PROVE  DInv'
<1> DEFINE fd == fdTable[s]
           n == Clipped(fd, count)
           p == fd.rwPos + n
<1>1. /\ Prompt /\ UNCHANGED <<tarBuf, disk, sector, arg, todo, unsaved>>
      /\ fd.rwPos + count < SIZE_T
  BY DEF Read, Calling, storageVars, NoWrap
<1>2. CASE ~fd.isInUse \/ fd.rwPos >= fd.size
  <2>1. fdTable' = fdTable
    BY <1>2 DEF Read
  <2> QED BY <1>1, <2>1, NothingKeeps
<1>3. CASE fd.isInUse /\ ~(fd.rwPos >= fd.size)
  <2>1. fdTable' = [fdTable EXCEPT ![s].rwPos = @ + n]
    BY <1>3 DEF Read
  <2>2. /\ Whole(tarBuf) /\ todo = <<>> /\ s \in InUse /\ \A r \in InUse : FdAt(tarBuf, fdTable[r])
        /\ unsaved = {} => SameHeaders(tarBuf, disk)
        /\ fdTable \in [Slots -> FdSlots] /\ DirtyTracksDifferences
    BY <1>1, <1>3, AtPrompt DEF DInv, DTypes, InUse
  <2>3. n \in Nat /\ p <= fd.size /\ p \in Nat
    <3>1. FdAt(tarBuf, fd)
      BY <2>2
    <3> HIDE DEF fd
    <3>2. n \in Nat /\ p <= fd.size
      BY <1>1, <2>2, <3>1, ClippedFits
    <3> QED BY <3>1, <3>2 DEF FdAt
  <2> DEFINE e == MovedTo(fd, p)
  <2>4. fdTable' = [fdTable EXCEPT ![s] = e]
    BY <2>1 DEF MovedTo
  <2>5. e \in FdSlots
    BY <2>2, <2>3, FdMoves
  <2>6. FdAt(tarBuf, e) /\ e.isInUse = fd.isInUse /\ e.name = fd.name /\ e.dirty = fd.dirty
    <3>1. fd \in FdSlots /\ FdAt(tarBuf, fd)
      BY <2>2
    <3> HIDE DEF fd, p
    <3> QED BY <2>3, <3>1, FdMoved
  <2> HIDE DEF e
  <2>7. /\ fdTable' \in [Slots -> FdSlots] /\ InUse' = InUse /\ fdTable'[s] = e
        /\ \A r \in InUse : r # s => fdTable'[r] = fdTable[r]
    BY <1>3, <2>2, <2>4, <2>5, <2>6, SlotReplaced
  <2>8. \A r \in InUse : /\ FdAt(tarBuf, fdTable'[r]) /\ fdTable'[r].name = fdTable[r].name
                         /\ fdTable'[r].dirty = fdTable[r].dirty
    BY <2>2, <2>6, <2>7
  <2>9. Saved' /\ DirtyTracksDifferences'
    BY <1>1, <2>2, <2>7, <2>8 DEF Saved, DirtyTracksDifferences
  <2> QED BY <1>1, <2>2, <2>7, <2>8, <2>9, PromptKeeps
<1> QED BY <1>2, <1>3

LEMMA WriteKeeps ==
  ASSUME DInv, NEW s \in Slots, NEW count \in Counts, NEW v \in Values, Write(s, count, v)
  PROVE  DInv'
<1> DEFINE fd == fdTable[s]
           n == Clipped(fd, count)
           p == fd.rwPos + n
<1>1. /\ Prompt /\ UNCHANGED <<disk, sector, arg, todo, unsaved>>
      /\ fd.rwPos + count < SIZE_T
  BY DEF Write, Calling, storageVars, NoWrap
<1>2. CASE ~fd.isInUse \/ fd.rwPos >= fd.size
  <2>1. fdTable' = fdTable /\ tarBuf' = tarBuf
    BY <1>2 DEF Write
  <2> QED BY <1>1, <2>1, NothingKeeps
<1>3. CASE fd.isInUse /\ ~(fd.rwPos >= fd.size)
  <2>1. /\ fdTable' = [fdTable EXCEPT ![s].rwPos = @ + n, ![s].dirty = TRUE]
        /\ tarBuf' = Stored(tarBuf, fd, n, v)
    BY <1>3 DEF Write
  <2>2. /\ Whole(tarBuf) /\ todo = <<>> /\ s \in InUse /\ \A r \in InUse : FdAt(tarBuf, fdTable[r])
        /\ unsaved = {} => SameHeaders(tarBuf, disk)
        /\ fdTable \in [Slots -> FdSlots] /\ DirtyTracksDifferences
    BY <1>1, <1>3, AtPrompt DEF DInv, DTypes, InUse
  <2>3. FdAt(tarBuf, fd) /\ fd \in FdSlots /\ v \in Nat
    BY <2>2, DescriptorsAssumption
  <2>4. n \in Nat /\ p <= fd.size /\ p \in Nat
    <3> HIDE DEF fd
    <3>1. n \in Nat /\ p <= fd.size
      BY <1>1, <2>2, <2>3, ClippedFits
    <3> QED BY <2>3, <3>1 DEF FdAt
  <2> DEFINE e == WrittenTo(fd, p, TRUE)
  <2>5. fdTable' = [fdTable EXCEPT ![s] = e]
    BY <2>1, <2>2 DEF MovedTo, WrittenTo
  <2>6. e \in FdSlots
    BY <2>2, <2>4, FdMoves
  <2>7. FdAt(tarBuf, e) /\ e.isInUse = fd.isInUse /\ e.name = fd.name /\ e.dirty = TRUE
    <3> HIDE DEF fd, p
    <3> DEFINE m(x) == WrittenTo(fd, p, x)
    <3>1. \A x : FdAt(tarBuf, m(x)) /\ m(x).isInUse = fd.isInUse /\ m(x).name = fd.name /\ m(x).dirty = x
      <4> SUFFICES ASSUME NEW x
                   PROVE  FdAt(tarBuf, m(x)) /\ m(x).isInUse = fd.isInUse /\ m(x).name = fd.name /\ m(x).dirty = x
        OBVIOUS
      <4>1. p \in Nat /\ p <= fd.size /\ fd \in FdSlots /\ FdAt(tarBuf, fd)
        BY <2>3, <2>4
      <4> QED BY ONLY <4>1, FdMoved
    <3>2. e = m(TRUE)
      OBVIOUS
    <3> HIDE DEF m, e
    <3> QED BY <3>1, <3>2, Zenon
  <2> HIDE DEF e
  <2>8. /\ fdTable' \in [Slots -> FdSlots] /\ InUse' = InUse /\ fdTable'[s] = e
        /\ \A r \in InUse : r # s => fdTable'[r] = fdTable[r]
    BY <1>3, <2>2, <2>5, <2>6, <2>7, SlotReplaced
  <2> HIDE DEF n, p, fd
  <2>9. /\ Whole(tarBuf') /\ SameHeaders(tarBuf, tarBuf')
        /\ \A g : g # fd.name => BytesOf(tarBuf', g) = BytesOf(tarBuf, g)
    <3>1. fd.rwPos + n <= fd.size
      BY <2>4 DEF p
    <3>2. Whole(Stored(tarBuf, fd, n, v)) /\ SameHeaders(tarBuf, Stored(tarBuf, fd, n, v))
      BY <2>2, <2>3, <2>4, <3>1, StoreKeepsHeaders
    <3>3. ASSUME NEW g, g # fd.name PROVE BytesOf(Stored(tarBuf, fd, n, v), g) = BytesOf(tarBuf, g)
      <4>1. Whole(tarBuf) /\ FdAt(tarBuf, fd) /\ n \in Nat /\ v \in Nat
        BY <2>2, <2>3, <2>4
      <4> QED BY ONLY <3>1, <3>3, <4>1, StoreOnBytes
    <3> QED BY <2>1, <3>2, <3>3
  <2>10. \A r \in InUse : FdAt(tarBuf', fdTable'[r])
    <3>1. \A r \in InUse : FdAt(tarBuf, fdTable'[r])
      BY <2>2, <2>7, <2>8
    <3>2. HeadersStay(tarBuf, tarBuf')
      BY <2>9 DEF SameHeaders, HeadersStay
    <3> QED BY <3>1, <3>2, FdOfHeaders
  <2>11. Saved'
    BY <1>1, <2>2, <2>9 DEF Saved, SameHeaders
  <2>12. DirtyTracksDifferences'
    <3> SUFFICES ASSUME NEW g \in Names, g \notin unsaved', BytesOf(tarBuf', g) # BytesOf(disk', g)
                 PROVE  \E r \in InUse' : fdTable'[r].dirty /\ fdTable'[r].name = g
      BY DEF DirtyTracksDifferences
    <3>1. CASE g = fd.name
      BY <2>2, <2>7, <2>8, <3>1
    <3>2. CASE g # fd.name
      <4>1. PICK r \in InUse : fdTable[r].dirty /\ fdTable[r].name = g
        BY <1>1, <2>2, <2>9, <3>2 DEF DirtyTracksDifferences
      <4>2. r # s
        BY <3>2, <4>1 DEF fd
      <4> QED BY <2>8, <4>1, <4>2
    <3> QED BY <3>1, <3>2
  <2> QED BY <1>1, <2>2, <2>8, <2>9, <2>10, <2>11, <2>12, PromptKeeps
<1> QED BY <1>2, <1>3

\* dirty may be set in any slot.
LEMMA DirtySlot ==
  ASSUME NEW fd \in FdSlots, NEW d \in BOOLEAN
  PROVE  [fd EXCEPT !.dirty = d] \in FdSlots
BY DEF FdSlots

LEMMA CloseKeeps ==
  ASSUME DInv, NEW s \in Slots, Close(s)
  PROVE  DInv'
<1>1. Prompt /\ UNCHANGED <<tarBuf, disk, sector, arg, unsaved>>
  BY DEF Close, Calling, diskVars
<1>2. CASE ~fdTable[s].isInUse
  BY <1>1, <1>2, NothingKeeps DEF Close
<1>3. CASE fdTable[s].isInUse
  <2> DEFINE e == [Closed EXCEPT !.dirty = fdTable[s].dirty]
  <2>1. /\ todo' = IF fdTable[s].dirty THEN <<"flush">> ELSE <<>>
        /\ fdTable' = [fdTable EXCEPT ![s] = e]
    BY <1>3 DEF Close
  <2>2. /\ Whole(tarBuf) /\ todo = <<>> /\ \A r \in InUse : FdAt(tarBuf, fdTable[r])
        /\ unsaved = {} => SameHeaders(tarBuf, disk)
        /\ fdTable \in [Slots -> FdSlots] /\ DirtyTracksDifferences
    BY <1>1, AtPrompt DEF DInv, DTypes
  <2>3. e \in FdSlots
    <3>1. fdTable[s].dirty \in BOOLEAN
      BY <2>2 DEF FdSlots
    <3>2. Closed \in FdSlots
      <4>1. NULL \in Int /\ 0 \in Nat /\ FALSE \in BOOLEAN /\ "" \in Names \cup {""}
        BY DEF NULL
      <4> HIDE DEF NULL
      <4> QED BY <4>1, Zenon DEF FdSlots, Closed
    <3> HIDE DEF e
    <3>3. e = [Closed EXCEPT !.dirty = fdTable[s].dirty]
      BY DEF e
    <3> QED BY <3>1, <3>2, <3>3, DirtySlot
  <2>4. ~e.isInUse
    BY DEF Closed
  <2> HIDE DEF e
  <2>5. fdTable' \in [Slots -> FdSlots]
    BY <2>1, <2>2, <2>3
  <2>6. \A r \in Slots : fdTable'[r] = IF r = s THEN e ELSE fdTable[r]
    BY <2>1, <2>2
  <2>7. \A r : r \in InUse' <=> r \in InUse /\ r # s
    BY <2>4, <2>6 DEF InUse
  <2>8. \A r \in InUse' : fdTable'[r] = fdTable[r] /\ r \in InUse
    BY <2>6, <2>7 DEF InUse
  <2>9. \A r \in InUse' : FdAt(tarBuf', fdTable'[r])
    BY <1>1, <2>2, <2>8
  <2>10. ASSUME todo' = <<>> PROVE Saved' /\ DirtyTracksDifferences'
    <3>1. ~fdTable[s].dirty
      BY <2>1, <2>10
    <3>2. Saved'
      BY <1>1, <2>2 DEF Saved
    <3>3. DirtyTracksDifferences'
      <4> SUFFICES ASSUME NEW g \in Names, g \notin unsaved', BytesOf(tarBuf', g) # BytesOf(disk', g)
                   PROVE  \E r \in InUse' : fdTable'[r].dirty /\ fdTable'[r].name = g
        BY DEF DirtyTracksDifferences
      <4>1. PICK r \in InUse : fdTable[r].dirty /\ fdTable[r].name = g
        BY <1>1, <2>2 DEF DirtyTracksDifferences
      <4>2. r \in InUse' /\ fdTable'[r] = fdTable[r]
        BY <2>7, <2>8, <3>1, <4>1
      <4> QED BY <4>1, <4>2
    <3> QED BY <3>2, <3>3
  <2>11. todo' \in {<<>>, <<"flush">>, <<"flush", "load", "list">>} /\ todo' # <<"flush", "load", "list">>
    BY <2>1
  <2> QED BY <1>1, <2>2, <2>5, <2>9, <2>10, <2>11, PromptKeeps
<1> QED BY <1>2, <1>3

LEMMA DriveKeeps ==
  ASSUME DInv, Drive
  PROVE  DInv'
BY FlushKeeps, LoadKeeps, EditKeeps, ListKeeps DEF Drive

\* kmain starts with an archive on disk and in memory, and no descriptor open.
LEMMA InitialWhole ==
  ASSUME UstarInit PROVE Whole(tarBuf)
<1>1. PICK files \in Archives : tarBuf = InBuffer(Layout(files))
  BY DEF UstarInit, InBuffer
<1>2. PICK n \in Nat : files \in [1 .. n -> [name : Names, size : Sizes]]
  BY DEF Archives
<1>3. DistinctNames(files) /\ Len(Layout(files)) <= TAR_MAX_SECTORS
  BY DEF Archives
<1> DEFINE s == Layout(files)
<1>4. s \in Seq(LaidBlocks) /\ LaidWell(s, files, n)
  BY <1>2, <1>3, LayoutIsLaidWell
<1> HIDE DEF s
<1>5. Archive(InBuffer(s)) /\ tarGetEnd(InBuffer(s)) = Len(s)
  BY <1>3, <1>4, LaidIsArchive DEF s
<1>6. ASSUME NEW i \in Blocks, i < Len(s), i \notin Headers(InBuffer(s)) PROVE IsData(InBuffer(s)[i])
  <2>1. InBuffer(s)[i] = s[i + 1]
    BY <1>6 DEF InBuffer
  <2>2. i + 1 \in 1 .. Len(s)
    BY <1>4, <1>6, BlocksType
  <2>3. s[i + 1] \in LaidBlocks
    BY <1>4, <2>2
  <2>4. s[i + 1].kind # "header"
    BY <1>6, <2>1 DEF Headers
  <2>5. PICK f, k : s[i + 1] = Data(f, k)
    BY <2>3, <2>4, HeaderFields DEF LaidBlocks
  <2>6. IsData(Data(f, k))
    BY DEF IsData, Data
  <2> QED BY <2>1, <2>5, <2>6
<1>7. Whole(InBuffer(s))
  BY <1>5, <1>6 DEF Whole
<1> QED BY <1>1, <1>7 DEF s

LEMMA DInvInit ==
  ASSUME DescriptorsInit PROVE DInv
<1>1. /\ Whole(tarBuf) /\ disk = tarBuf /\ todo = <<>> /\ sector = 0 /\ arg.size = 0
      /\ fdTable = [s \in Slots |-> Closed] /\ running = FALSE
  BY InitialWhole DEF DescriptorsInit, StorageInit, NoArg
<1>2. InUse = {}
  <2>1. ~Closed.isInUse
    BY DEF Closed
  <2> QED BY <1>1, <2>1 DEF InUse
<1>3. DTypes
  <2>1. NULL \in Int /\ 0 \in Nat /\ FALSE \in BOOLEAN /\ "" \in Names \cup {""}
    BY DEF NULL
  <2> HIDE DEF NULL
  <2>2. Closed \in FdSlots
    BY <2>1, Zenon DEF Closed, FdSlots
  <2>3. 0 \in Blocks /\ Buffer(tarBuf)
    BY <1>1, BlocksType DEF Whole, Archive
  <2> QED BY <1>1, <2>2, <2>3 DEF DTypes, Todos
<1>4. Copies /\ Turns /\ FdsPoint
  BY <1>1, <1>2 DEF Copies, Turns, FdsPoint, InPhase
<1>5. Saved /\ DirtyTracksDifferences
  BY <1>1 DEF Saved, SameHeaders, DirtyTracksDifferences
<1> QED BY <1>3, <1>4, <1>5 DEF DInv

LEMMA DInvStep ==
  ASSUME ~MoveWhileOpen, DInv, [DescriptorsNext]_descriptorsVars
  PROVE  DInv'
<1>1. CASE Run \/ Exit
  BY <1>1, NothingKeeps DEF Run, Exit, Calling, vars, ustarVars, storageVars
<1>2. CASE UNCHANGED descriptorsVars
  BY <1>2 DEF descriptorsVars, vars, ustarVars, storageVars, fdVars, DInv, DTypes, Copies, Turns, FdsPoint,
              Saved, DirtyTracksDifferences, InUse, InPhase, Prompt
<1> QED BY <1>1, <1>2, OpenKeeps, CloseKeeps, ReadKeeps, WriteKeeps, ShellKeeps, DriveKeeps, RestartKeeps
        DEF DescriptorsNext

(* The archive, the disk and the descriptors through calls, commands,      *)
(* flushes, loads and restarts: the inductive invariant of fd.c.           *)
THEOREM DescriptorsInvariant == ~MoveWhileOpen => (DescriptorsSpec => []DInv)
<1> SUFFICES ASSUME ~MoveWhileOpen PROVE DescriptorsSpec => []DInv
  OBVIOUS
<1>1. DInv /\ [DescriptorsNext]_descriptorsVars => DInv'
  BY DInvStep
<1> QED BY <1>1, DInvInit, PTL DEF DescriptorsSpec

(* A descriptor's pointer is right behind the header of the file it was    *)
(* opened on, across reloads and restarts (fd.c:42), when no file is moved *)
(* while one is open.                                                      *)
THEOREM FdPointsRight == ~MoveWhileOpen => (DescriptorsSpec => []FdPointsAtItsFile)
<1> SUFFICES ASSUME ~MoveWhileOpen PROVE DescriptorsSpec => []FdPointsAtItsFile
  OBVIOUS
<1>1. DInv => FdPointsAtItsFile
  <2> SUFFICES ASSUME DInv, Prompt, NEW s \in InUse
               PROVE  LET fd == fdTable[s]
                      IN  /\ tarValid(tarBuf, fd.data - 1) /\ tarBuf[fd.data - 1].name = fd.name
                          /\ tarBuf[fd.data - 1].size = fd.size /\ fd.rwPos <= fd.size
    BY DEF FdPointsAtItsFile
  <2>1. FdAt(tarBuf, fdTable[s])
    BY AtPrompt
  <2> QED BY <2>1 DEF FdAt, Headers, tarValid
<1> QED BY <1>1, DescriptorsInvariant, PTL

(* What differs from the disk is what a dirty descriptor still has open or *)
(* what open has made or emptied (fd.c:105).                               *)
THEOREM DirtyIsEnough == ~MoveWhileOpen => (DescriptorsSpec => []DirtyTracksDifferences)
<1> SUFFICES ASSUME ~MoveWhileOpen PROVE DescriptorsSpec => []DirtyTracksDifferences
  OBVIOUS
<1>1. DInv => DirtyTracksDifferences
  BY DEF DInv
<1> QED BY <1>1, DescriptorsInvariant, PTL

-----------------------------------------------------------------------------
(* Descriptors implement a store of files *)

\* The files and descriptors a program sees
Content(b) == [f \in Names |-> BytesOf(b, f)]
View(fd)   == [isOpen |-> fd.isInUse, name |-> fd.name, pos |-> fd.rwPos]
Views(T)   == [s \in Slots |-> View(T[s])]

\* Descriptors are opened on files of the archive's names.
OpenNamed == \A s \in InUse : fdTable[s].name \in Names

LEMMA OpenNamedStep ==
  ASSUME DInv, OpenNamed, [DescriptorsNext]_descriptorsVars
  PROVE  OpenNamed'
<1>1. fdTable \in [Slots -> FdSlots]
  BY DEF DInv, DTypes
<1>2. CASE fdTable' = fdTable
  BY <1>2 DEF OpenNamed, InUse
<1>3. ASSUME NEW f \in Names, NEW create \in BOOLEAN, NEW truncate \in BOOLEAN,
             Open(f, create, truncate), fdTable' # fdTable
      PROVE  OpenNamed'
  <2>1. fdTable' = [fdTable EXCEPT ![FreeSlot] = NewFd(Ready(tarBuf, f, truncate), f)]
    BY <1>3, OpenIs DEF OpensReady
  <2>2. NewFd(Ready(tarBuf, f, truncate), f).name = f
    BY DEF NewFd
  <2> QED BY <1>1, <2>1, <2>2 DEF OpenNamed, InUse
<1>4. ASSUME NEW s \in Slots, NEW e, fdTable' = [fdTable EXCEPT ![s] = e],
             e.isInUse => fdTable[s].isInUse /\ e.name = fdTable[s].name
      PROVE  OpenNamed'
  BY <1>1, <1>4 DEF OpenNamed, InUse
<1>5. ASSUME NEW s \in Slots, Close(s), fdTable' # fdTable PROVE OpenNamed'
  <2>1. fdTable' = [fdTable EXCEPT ![s] = [Closed EXCEPT !.dirty = fdTable[s].dirty]]
    BY <1>5 DEF Close
  <2>2. ~[Closed EXCEPT !.dirty = fdTable[s].dirty].isInUse
    BY DEF Closed
  <2> QED BY <1>4, <2>1, <2>2
<1>6. ASSUME NEW s \in Slots, NEW n, Read(s, n), fdTable' # fdTable PROVE OpenNamed'
  <2> DEFINE p == fdTable[s].rwPos + Clipped(fdTable[s], n)
  <2>1. fdTable' = [fdTable EXCEPT ![s] = MovedTo(fdTable[s], p)]
    BY <1>6 DEF Read, MovedTo
  <2>2. fdTable[s] \in FdSlots
    BY <1>1
  <2> HIDE DEF p
  <2>3. MovedTo(fdTable[s], p).isInUse = fdTable[s].isInUse /\ MovedTo(fdTable[s], p).name = fdTable[s].name
    BY <2>2 DEF MovedTo, FdSlots
  <2> QED BY <1>4, <2>1, <2>3
<1>7. ASSUME NEW s \in Slots, NEW n, NEW v, Write(s, n, v), fdTable' # fdTable PROVE OpenNamed'
  <2> DEFINE p == fdTable[s].rwPos + Clipped(fdTable[s], n)
  <2>1. fdTable' = [fdTable EXCEPT ![s] = WrittenTo(fdTable[s], p, TRUE)]
    BY <1>1, <1>7 DEF Write, MovedTo, WrittenTo
  <2>2. fdTable[s] \in FdSlots
    BY <1>1
  <2> HIDE DEF p
  <2>3. /\ WrittenTo(fdTable[s], p, TRUE).isInUse = fdTable[s].isInUse
        /\ WrittenTo(fdTable[s], p, TRUE).name = fdTable[s].name
    BY <2>2 DEF MovedTo, WrittenTo, FdSlots
  <2> QED BY <1>4, <2>1, <2>3
<1>8. ASSUME Restarted, fdTable' # fdTable PROVE OpenNamed'
  <2>1. fdTable' = [s \in Slots |-> Closed]
    BY <1>8 DEF Restarted
  <2>2. ~Closed.isInUse
    BY DEF Closed
  <2> QED BY <2>1, <2>2 DEF OpenNamed, InUse
<1>9. Run \/ Exit \/ Shell \/ Drive \/ UNCHANGED descriptorsVars => fdTable' = fdTable
  BY DEF Run, Exit, Shell, Drive, descriptorsVars, fdVars
<1> QED BY <1>2, <1>3, <1>5, <1>6, <1>7, <1>8, <1>9 DEF DescriptorsNext

LEMMA ViewOfReplaced ==
  ASSUME NEW T \in [Slots -> FdSlots], NEW s \in Slots, NEW e
  PROVE  Views([T EXCEPT ![s] = e]) = [Views(T) EXCEPT ![s] = View(e)]
<1>1. \A r \in Slots : [T EXCEPT ![s] = e][r] = IF r = s THEN e ELSE T[r]
  OBVIOUS
<1>2. \A r \in Slots : View([T EXCEPT ![s] = e][r]) = IF r = s THEN View(e) ELSE View(T[r])
  BY <1>1
<1> HIDE DEF View
<1> QED BY <1>2 DEF Views

\* A descriptor whose position is set
LEMMA ViewOfMoved ==
  ASSUME NEW fd \in FdSlots, NEW p, NEW x
  PROVE  /\ View(MovedTo(fd, p)) = [View(fd) EXCEPT !.pos = p]
         /\ View(WrittenTo(fd, p, x)) = [View(fd) EXCEPT !.pos = p]
<1>1. /\ MovedTo(fd, p).isInUse = fd.isInUse /\ MovedTo(fd, p).name = fd.name /\ MovedTo(fd, p).rwPos = p
      /\ WrittenTo(fd, p, x).isInUse = fd.isInUse /\ WrittenTo(fd, p, x).name = fd.name
      /\ WrittenTo(fd, p, x).rwPos = p
  BY DEF MovedTo, WrittenTo, FdSlots
<1> QED BY <1>1 DEF View

LEMMA OpenedAre == Store!Opened = InUse
BY DEF Store!Opened, InUse

LEMMA StoreOpens ==
  ASSUME ~MoveWhileOpen, DInv, NEW f \in Names, NEW create \in BOOLEAN, NEW truncate \in BOOLEAN,
         Open(f, create, truncate)
  PROVE  Store!Open(f, create, truncate)
<1>1. /\ Prompt /\ got' = <<>>
      /\ IF tarFind(tarBuf, f) = NULL /\ ~create
         THEN ret' = -1 /\ UNCHANGED <<tarBuf, fdTable, unsaved>>
         ELSE OpensReady(f, truncate)
  BY OpenIs
<1>2. Whole(tarBuf) /\ fdTable \in [Slots -> FdSlots]
  BY <1>1, AtPrompt DEF DInv, DTypes
<1>3. Content(tarBuf)[f] = Absent <=> tarFind(tarBuf, f) = NULL
  BY <1>2, BytesAre DEF Content
<1>4. CASE tarFind(tarBuf, f) = NULL /\ ~create
  <2>1. Content(tarBuf)[f] = Absent
    BY <1>3, <1>4
  <2>2. got' = <<>> /\ ret' = -1 /\ tarBuf' = tarBuf /\ fdTable' = fdTable
    BY <1>1, <1>4
  <2> QED BY <1>4, <2>1, <2>2 DEF Store!Open, Content, View, Views
<1>5. CASE ~(tarFind(tarBuf, f) = NULL /\ ~create)
  <2> DEFINE d == Ready(tarBuf, f, truncate)
             old == Content(tarBuf)
             new == Content(tarBuf')
             fds == Views(fdTable)
             fds2 == Views(fdTable')
             free == Slots \ InUse
  <2>1. OpensReady(f, truncate)
    BY <1>1, <1>5
  <2>2. /\ tarFind(tarBuf, f) # NULL \/ tarGetEnd(tarBuf) \in Blocks
        /\ tarBuf' = d
        /\ IF free = {} THEN ret' = -1 /\ fdTable' = fdTable
           ELSE ret' = FreeSlot + 3 /\ fdTable' = [fdTable EXCEPT ![FreeSlot] = NewFd(d, f)]
    BY <2>1 DEF OpensReady, RoomToTouch
  <2>3. /\ \A g : g # f => BytesOf(d, g) = BytesOf(tarBuf, g)
        /\ BytesOf(d, f) = IF tarFind(tarBuf, f) = NULL \/ truncate THEN <<>> ELSE BytesOf(tarBuf, f)
    BY <1>2, <2>2, OpenMakesReady
  <2>4. View(NewFd(d, f)) = [isOpen |-> TRUE, name |-> f, pos |-> 0]
    BY DEF View, NewFd
  <2> HIDE DEF d
  <2>5. new = IF old[f] = Absent \/ truncate THEN [old EXCEPT ![f] = <<>>] ELSE old
    <3>1. \A g \in Names : new[g] = IF g = f /\ (old[f] = Absent \/ truncate) THEN <<>> ELSE old[g]
      BY <1>3, <2>2, <2>3 DEF Content
    <3> QED BY <3>1 DEF Content
  <2>6. IF free = {} THEN ret' = -1 /\ fds2 = fds
        ELSE \E s \in free : /\ \A r \in free : s <= r
                             /\ ret' = s + 3
                             /\ fds2 = [fds EXCEPT ![s] = [isOpen |-> TRUE, name |-> f, pos |-> 0]]
    <3>1. CASE free = {}
      BY <2>2, <3>1
    <3>2. CASE free # {}
      <4>1. FreeSlot \in free /\ \A r \in free : FreeSlot <= r
        BY <3>2, SlotIsFree
      <4>2. FreeSlot \in Slots
        BY <4>1
      <4>3. fds2 = [fds EXCEPT ![FreeSlot] = View(NewFd(d, f))]
        <5>1. fdTable' = [fdTable EXCEPT ![FreeSlot] = NewFd(d, f)]
          BY <2>2, <3>2
        <5>2. Views([fdTable EXCEPT ![FreeSlot] = NewFd(d, f)])
                = [Views(fdTable) EXCEPT ![FreeSlot] = View(NewFd(d, f))]
          BY ONLY <1>2, <4>2, ViewOfReplaced
        <5> QED BY ONLY <5>1, <5>2
      <4> QED BY <2>2, <2>4, <3>2, <4>1, <4>3
    <3> QED BY <3>1, <3>2
  <2>7. Store!Opened = Slots <=> free = {}
    BY OpenedAre DEF InUse
  <2>8. ~(old[f] = Absent /\ ~create)
    BY <1>3, <1>5
  <2>9. got' = <<>>
    BY <1>1
  <2> QED BY <2>5, <2>6, <2>7, <2>8, <2>9, OpenedAre DEF Store!Open, Content, View, Views
<1> QED BY <1>4, <1>5

LEMMA PartOfBytes ==
  ASSUME NEW m \in Nat, NEW y \in [1 .. m -> Nat], NEW p \in Nat, NEW n \in Nat, p + n <= m
  PROVE  Len(y) = m /\ SubSeq(y, p + 1, p + n) = [i \in 1 .. n |-> y[p + i]]
<1>1. y \in Seq(Nat)
  BY SeqDef
<1>2. Len(y) = m
  BY <1>1, LenProperties
<1> DEFINE z == SubSeq(y, p + 1, p + n)
<1>3. \A i \in p + 1 .. p + n : y[i] \in Nat
  OBVIOUS
<1>4. p + 1 \in Int /\ p + n \in Int
  OBVIOUS
<1>5. /\ z \in Seq(Nat) /\ Len(z) = IF p + 1 <= p + n THEN (p + n) - (p + 1) + 1 ELSE 0
      /\ \A i \in 1 .. (p + n) - (p + 1) + 1 : z[i] = y[(p + 1) + i - 1]
  BY <1>3, <1>4, SubSeqProperties
<1> HIDE DEF z
<1>6. Len(z) = n /\ (p + n) - (p + 1) + 1 = n /\ \A i \in 1 .. n : (p + 1) + i - 1 = p + i
  BY <1>5
<1>7. z \in [1 .. n -> Nat]
  BY <1>5, <1>6, LenProperties
<1>8. \A i \in 1 .. n : z[i] = y[p + i]
  BY <1>5, <1>6
<1>9. z = [i \in 1 .. n |-> y[p + i]]
  BY <1>7, <1>8
<1> QED BY <1>2, <1>9 DEF z

\* What is left of an open file, and how much of it a call reaches
LEMMA LeftInFile ==
  ASSUME DInv, OpenNamed, Prompt, NEW s \in InUse, NEW count \in Counts, NoWrap(s, count)
  PROVE  LET fd == fdTable[s]
             n  == IF fd.rwPos >= fd.size THEN 0 ELSE Clipped(fd, count)
             y  == Content(tarBuf)[fd.name]
         IN  /\ Whole(tarBuf) /\ FdAt(tarBuf, fd) /\ fd \in FdSlots /\ fd.name \in Names
             /\ y = BytesOf(tarBuf, fd.name) /\ y \in [1 .. fd.size -> Nat] /\ Len(y) = fd.size
             /\ Len(y) - fd.rwPos \in Nat
             /\ n \in 0 .. Len(y) - fd.rwPos /\ fd.rwPos + n <= fd.size
             /\ fd.rwPos \in Nat /\ fd.size \in Nat
             /\ n = IF count <= Len(y) - fd.rwPos THEN count ELSE Len(y) - fd.rwPos
<1> DEFINE fd == fdTable[s]
           y == Content(tarBuf)[fd.name]
<1>1. /\ Whole(tarBuf) /\ FdAt(tarBuf, fd) /\ fdTable \in [Slots -> FdSlots] /\ fd.name \in Names
      /\ fd.rwPos + count < SIZE_T /\ s \in Slots
  BY AtPrompt DEF DInv, DTypes, OpenNamed, NoWrap, InUse
<1>2. fd \in FdSlots
  BY <1>1
<1> HIDE DEF fd
<1>3. y = BytesOf(tarBuf, fd.name)
  BY <1>1 DEF Content
<1>4. /\ fd.size \in Nat /\ y \in [1 .. fd.size -> Nat] /\ fd.rwPos \in Nat /\ fd.rwPos <= fd.size
  BY <1>1, <1>3, FdFinds DEF FdAt
<1> HIDE DEF y
<1>5. Len(y) = fd.size
  BY <1>4, SeqDef, LenProperties
<1>6. /\ Clipped(fd, count) \in Nat /\ fd.rwPos + Clipped(fd, count) <= fd.size
      /\ Clipped(fd, count) = IF count <= fd.size - fd.rwPos THEN count ELSE fd.size - fd.rwPos
  BY <1>1, ClippedFits
<1>7. count \in Nat
  BY DescriptorsAssumption
<1> DEFINE n == IF fd.rwPos >= fd.size THEN 0 ELSE Clipped(fd, count)
<1>8. /\ Len(y) - fd.rwPos \in Nat /\ n \in 0 .. Len(y) - fd.rwPos /\ fd.rwPos + n <= fd.size
      /\ n = IF count <= Len(y) - fd.rwPos THEN count ELSE Len(y) - fd.rwPos
  BY <1>4, <1>5, <1>6, <1>7
<1> QED BY <1>1, <1>2, <1>3, <1>4, <1>5, <1>8 DEF fd, y

\* What both calls do to a descriptor in use
LEMMA ViewsMove ==
  ASSUME fdTable \in [Slots -> FdSlots], NEW s \in Slots, NEW n \in Nat,
         fdTable[s].rwPos \in Nat,
         LET p == fdTable[s].rwPos + n
         IN  \/ n = 0 /\ fdTable' = fdTable
             \/ fdTable' = [fdTable EXCEPT ![s] = MovedTo(fdTable[s], p)]
             \/ fdTable' = [fdTable EXCEPT ![s] = WrittenTo(fdTable[s], p, TRUE)]
  PROVE  Views(fdTable') = [Views(fdTable) EXCEPT ![s].pos = @ + n]
<1> DEFINE fd == fdTable[s]
           p == fd.rwPos + n
<1>1. fd \in FdSlots
  OBVIOUS
<1>2. [Views(fdTable) EXCEPT ![s].pos = @ + n] = [Views(fdTable) EXCEPT ![s] = [View(fd) EXCEPT !.pos = p]]
  BY DEF Views, View
<1>3. CASE n = 0 /\ fdTable' = fdTable
  <2>1. p = fd.rwPos
    BY <1>3
  <2>2. [View(fd) EXCEPT !.pos = p] = View(fd)
    BY <2>1 DEF View
  <2>3. [Views(fdTable) EXCEPT ![s] = View(fd)] = Views(fdTable)
    BY DEF Views
  <2> QED BY <1>2, <1>3, <2>2, <2>3
<1>4. ASSUME NEW e, fdTable' = [fdTable EXCEPT ![s] = e], View(e) = [View(fd) EXCEPT !.pos = p]
      PROVE  Views(fdTable') = [Views(fdTable) EXCEPT ![s].pos = @ + n]
  <2>1. Views([fdTable EXCEPT ![s] = e]) = [Views(fdTable) EXCEPT ![s] = View(e)]
    BY ViewOfReplaced
  <2> QED BY <1>2, <1>4, <2>1
<1>5. CASE fdTable' = [fdTable EXCEPT ![s] = MovedTo(fd, p)]
  <2>1. View(MovedTo(fd, p)) = [View(fd) EXCEPT !.pos = p]
    BY <1>1, ViewOfMoved
  <2> QED BY <1>4, <1>5, <2>1
<1>6. CASE fdTable' = [fdTable EXCEPT ![s] = WrittenTo(fd, p, TRUE)]
  <2>1. \A x : View(WrittenTo(fd, p, x)) = [View(fd) EXCEPT !.pos = p]
    <3> HIDE DEF fd, p
    <3> QED BY <1>1, ViewOfMoved
  <2>2. View(WrittenTo(fd, p, TRUE)) = [View(fd) EXCEPT !.pos = p]
    BY <2>1, Zenon
  <2> QED BY <1>4, <1>6, <2>2
<1> QED BY <1>3, <1>5, <1>6

LEMMA SomeRead ==
  ASSUME NEW s, NEW count, NEW m, s \in Store!Opened, m \in 0 .. Store!Left(s),
         Store!Transfer(s, count, m), Content(tarBuf') = Content(tarBuf),
         got' = SubSeq(Content(tarBuf)[Views(fdTable)[s].name],
                       Views(fdTable)[s].pos + 1, Views(fdTable)[s].pos + m)
  PROVE  Store!Read(s, count)
BY Zenon DEF Store!Read, Content, Views, View

LEMMA StoreReads ==
  ASSUME DInv, OpenNamed, NEW s \in Slots, NEW count \in Counts, Read(s, count)
  PROVE  Store!Read(s, count)
<1> DEFINE fd == fdTable[s]
           c == Content(tarBuf)
           y == c[fd.name]
           fds == Views(fdTable)
           fds2 == Views(fdTable')
           m == IF fd.rwPos >= fd.size THEN 0 ELSE Clipped(fd, count)
<1>1. Prompt /\ NoWrap(s, count) /\ tarBuf' = tarBuf /\ fdTable \in [Slots -> FdSlots]
  BY DEF Read, Calling, DInv, DTypes
<1>2. CASE ~fd.isInUse
  <2>1. s \notin Store!Opened
    BY <1>2, OpenedAre DEF InUse
  <2>2. ret' = -1 /\ got' = <<>> /\ fdTable' = fdTable
    BY <1>2 DEF Read
  <2> QED BY <1>1, <2>1, <2>2 DEF Store!Read, View, Views
<1>3. CASE fd.isInUse
  <2>1. s \in InUse
    BY <1>3 DEF InUse
  <2>2. /\ Whole(tarBuf) /\ FdAt(tarBuf, fd) /\ y = BytesOf(tarBuf, fd.name)
        /\ y \in [1 .. fd.size -> Nat] /\ Len(y) - fd.rwPos \in Nat
        /\ m \in 0 .. Len(y) - fd.rwPos /\ fd.rwPos + m <= fd.size
        /\ fd.rwPos \in Nat /\ fd.size \in Nat
        /\ m = IF count <= Len(y) - fd.rwPos THEN count ELSE Len(y) - fd.rwPos
    BY <1>1, <2>1, LeftInFile
  <2>3. m \in Nat
    BY <2>2
  <2>4. /\ ret' = m
        /\ got' = [i \in 1 .. m |-> ByteAt(tarBuf, Address(fd, i - 1))]
        /\ \/ m = 0 /\ fdTable' = fdTable
           \/ fdTable' = [fdTable EXCEPT ![s] = MovedTo(fd, fd.rwPos + m)]
    <3>1. CASE fd.rwPos >= fd.size
      <4>1. m = 0 /\ ret' = 0 /\ got' = <<>> /\ fdTable' = fdTable
        BY <1>3, <3>1 DEF Read
      <4>2. [i \in 1 .. 0 |-> ByteAt(tarBuf, Address(fd, i - 1))] = <<>>
        OBVIOUS
      <4> HIDE DEF m
      <4> QED BY <4>1, <4>2
    <3>2. CASE ~(fd.rwPos >= fd.size)
      <4>1. m = Clipped(fd, count)
        BY <3>2
      <4>2. /\ ret' = Clipped(fd, count)
            /\ got' = [i \in 1 .. Clipped(fd, count) |-> ByteAt(tarBuf, Address(fd, i - 1))]
            /\ fdTable' = [fdTable EXCEPT ![s].rwPos = @ + Clipped(fd, count)]
        BY <1>3, <3>2 DEF Read
      <4> HIDE DEF m
      <4> QED BY <4>1, <4>2 DEF MovedTo
    <3> QED BY <3>1, <3>2
  <2> HIDE DEF m
  <2>5. got' = SubSeq(y, fd.rwPos + 1, fd.rwPos + m)
    <3>1. /\ Whole(tarBuf) /\ FdAt(tarBuf, fd) /\ m \in Nat /\ fd.rwPos + m <= fd.size
          /\ y = BytesOf(tarBuf, fd.name)
      BY <2>2, <2>3
    <3>2. fd.size \in Nat /\ y \in [1 .. fd.size -> Nat] /\ fd.rwPos \in Nat
      BY <2>2
    <3> HIDE DEF fd, c, y
    <3>3. \A i \in 1 .. m : ByteAt(tarBuf, Address(fd, i - 1)) = y[fd.rwPos + i]
      BY ONLY <3>1, PointerReads
    <3>4. SubSeq(y, fd.rwPos + 1, fd.rwPos + m) = [i \in 1 .. m |-> y[fd.rwPos + i]]
      <4>1. PICK p, k : p = fd.rwPos /\ k = fd.size
        OBVIOUS
      <4>2. k \in Nat /\ y \in [1 .. k -> Nat] /\ p \in Nat /\ m \in Nat /\ p + m <= k
        BY ONLY <3>1, <3>2, <4>1
      <4>3. SubSeq(y, p + 1, p + m) = [i \in 1 .. m |-> y[p + i]]
        BY ONLY <4>2, PartOfBytes
      <4> QED BY ONLY <4>1, <4>3
    <3> QED BY <2>4, <3>3, <3>4
  <2>6. fds2 = [fds EXCEPT ![s].pos = @ + m]
    BY <1>1, <2>2, <2>3, <2>4, ViewsMove
  <2>7. fds[s].name = fd.name /\ fds[s].pos = fd.rwPos
    BY DEF Views, View
  <2>8. s \in Store!Opened
    BY <2>1, OpenedAre
  <2>9. Store!Left(s) = Len(y) - fd.rwPos
    BY <2>7 DEF Store!Left, Content, Views, View
  <2>10. Content(tarBuf') = c
    BY <1>1
  <2> HIDE DEF c, fds, fds2
  <2>11. PICK x : x = m
    OBVIOUS
  <2>12. Store!Transfer(s, count, x)
    BY <2>2, <2>4, <2>6, <2>9, <2>11 DEF Store!Transfer, Views, View, fds, fds2
  <2>13. x \in 0 .. Store!Left(s)
    BY <2>2, <2>9, <2>11
  <2>14. Content(tarBuf') = Content(tarBuf)
    BY <2>10 DEF c
  <2>15. got' = SubSeq(Content(tarBuf)[Views(fdTable)[s].name],
                       Views(fdTable)[s].pos + 1, Views(fdTable)[s].pos + x)
    BY <2>5, <2>7, <2>11 DEF c, fds
  <2> QED BY <2>8, <2>12, <2>13, <2>14, <2>15, SomeRead
<1> QED BY <1>2, <1>3

LEMMA SomeWrite ==
  ASSUME NEW s, NEW count, NEW v, NEW m, s \in Store!Opened, m \in 0 .. Store!Left(s),
         Store!Transfer(s, count, m), got' = <<>>,
         LET c == Content(tarBuf)
             e == Views(fdTable)[s]
         IN  Content(tarBuf') = [c EXCEPT ![e.name] = Overwritten(c[e.name], e.pos, m, v)]
  PROVE  Store!Write(s, count, v)
BY DEF Store!Write, Content, Views, View, Overwritten

LEMMA StoreWrites ==
  ASSUME DInv, OpenNamed, NEW s \in Slots, NEW count \in Counts, NEW v \in Values, Write(s, count, v)
  PROVE  Store!Write(s, count, v)
<1> DEFINE fd == fdTable[s]
           c == Content(tarBuf)
           y == c[fd.name]
           fds == Views(fdTable)
           fds2 == Views(fdTable')
           m == IF fd.rwPos >= fd.size THEN 0 ELSE Clipped(fd, count)
<1>1. Prompt /\ NoWrap(s, count) /\ got' = <<>> /\ fdTable \in [Slots -> FdSlots]
  BY DEF Write, Calling, DInv, DTypes
<1>2. CASE ~fd.isInUse
  <2>1. s \notin Store!Opened
    BY <1>2, OpenedAre DEF InUse
  <2>2. ret' = -1 /\ tarBuf' = tarBuf /\ fdTable' = fdTable
    BY <1>2 DEF Write
  <2> QED BY <1>1, <2>1, <2>2 DEF Store!Write, Content, View, Views
<1>3. CASE fd.isInUse
  <2>1. s \in InUse
    BY <1>3 DEF InUse
  <2>2. /\ Whole(tarBuf) /\ FdAt(tarBuf, fd) /\ y = BytesOf(tarBuf, fd.name) /\ fd.name \in Names
        /\ y \in [1 .. fd.size -> Nat] /\ Len(y) - fd.rwPos \in Nat /\ fd \in FdSlots
        /\ m \in 0 .. Len(y) - fd.rwPos /\ fd.rwPos + m <= fd.size
        /\ fd.rwPos \in Nat /\ fd.size \in Nat
        /\ m = IF count <= Len(y) - fd.rwPos THEN count ELSE Len(y) - fd.rwPos
    BY <1>1, <2>1, LeftInFile
  <2>3. m \in Nat /\ v \in Nat
    BY <2>2, DescriptorsAssumption
  <2>4. /\ ret' = m
        /\ \/ m = 0 /\ fdTable' = fdTable /\ tarBuf' = tarBuf
           \/ /\ fdTable' = [fdTable EXCEPT ![s] = WrittenTo(fd, fd.rwPos + m, TRUE)]
              /\ tarBuf' = Stored(tarBuf, fd, m, v)
    <3>1. CASE fd.rwPos >= fd.size
      <4>1. m = 0 /\ ret' = 0 /\ tarBuf' = tarBuf /\ fdTable' = fdTable
        BY <1>3, <3>1 DEF Write
      <4> HIDE DEF m
      <4> QED BY <4>1
    <3>2. CASE ~(fd.rwPos >= fd.size)
      <4>1. m = Clipped(fd, count)
        BY <3>2
      <4>2. /\ ret' = Clipped(fd, count)
            /\ tarBuf' = Stored(tarBuf, fd, Clipped(fd, count), v)
            /\ fdTable' = [fdTable EXCEPT ![s].rwPos = @ + Clipped(fd, count), ![s].dirty = TRUE]
        BY <1>3, <3>2 DEF Write
      <4>3. fdTable' = [fdTable EXCEPT ![s] = WrittenTo(fd, fd.rwPos + Clipped(fd, count), TRUE)]
        BY <1>1, <4>2 DEF MovedTo, WrittenTo
      <4> HIDE DEF m
      <4> QED BY <4>1, <4>2, <4>3
    <3> QED BY <3>1, <3>2
  <2> HIDE DEF m
  <2>5. Content(tarBuf') = [c EXCEPT ![fd.name] = Overwritten(y, fd.rwPos, m, v)]
    <3>1. CASE m = 0 /\ tarBuf' = tarBuf
      <4> HIDE DEF c, fd
      <4>1. Overwritten(y, fd.rwPos, m, v) = y
        <5>1. \A i \in DOMAIN y : i \notin fd.rwPos + 1 .. fd.rwPos + m
          BY <2>2, <3>1
        <5>2. y = [i \in DOMAIN y |-> y[i]]
          BY <2>2
        <5> HIDE DEF y
        <5> QED BY <5>1, <5>2 DEF Overwritten
      <4>2. c = [c EXCEPT ![fd.name] = c[fd.name]]
        BY DEF Content, c
      <4> QED BY <3>1, <4>1, <4>2 DEF c
    <3>2. CASE tarBuf' = Stored(tarBuf, fd, m, v)
      <4>1. Whole(tarBuf) /\ FdAt(tarBuf, fd) /\ m \in Nat /\ fd.rwPos + m <= fd.size /\ v \in Nat
        BY <2>2, <2>3
      <4> DEFINE d == Stored(tarBuf, fd, m, v)
      <4> HIDE DEF fd
      <4>2. /\ \A g : g # fd.name => BytesOf(d, g) = BytesOf(tarBuf, g)
            /\ BytesOf(d, fd.name) = Overwritten(BytesOf(tarBuf, fd.name), fd.rwPos, m, v)
        BY ONLY <4>1, StoreOnBytes
      <4> HIDE DEF d
      <4>3. \A g \in Names : Content(d)[g] = IF g = fd.name THEN Overwritten(y, fd.rwPos, m, v) ELSE c[g]
        BY <2>2, <4>2 DEF Content
      <4>4. Content(d) = [c EXCEPT ![fd.name] = Overwritten(y, fd.rwPos, m, v)]
        BY <4>3 DEF Content
      <4> QED BY <3>2, <4>4 DEF d
    <3> QED BY <2>4, <3>1, <3>2
  <2>6. fds2 = [fds EXCEPT ![s].pos = @ + m]
    <3>1. fdTable \in [Slots -> FdSlots] /\ m \in Nat /\ fdTable[s].rwPos \in Nat
      BY <1>1, <2>2, <2>3
    <3>2. \/ m = 0 /\ fdTable' = fdTable
          \/ fdTable' = [fdTable EXCEPT ![s] = WrittenTo(fdTable[s], fdTable[s].rwPos + m, TRUE)]
      BY <2>4
    <3> QED BY <3>1, <3>2, ViewsMove
  <2>7. fds[s].name = fd.name /\ fds[s].pos = fd.rwPos
    BY DEF Views, View
  <2>8. s \in Store!Opened
    BY <2>1, OpenedAre
  <2>9. Store!Left(s) = Len(y) - fd.rwPos
    BY <2>7 DEF Store!Left, Content, Views, View
  <2> HIDE DEF c, fds, fds2
  <2>10. PICK x : x = m
    OBVIOUS
  <2>11. Store!Transfer(s, count, x)
    BY <2>2, <2>4, <2>6, <2>9, <2>10 DEF Store!Transfer, Views, View, fds, fds2
  <2>12. x \in 0 .. Store!Left(s)
    BY <2>2, <2>9, <2>10
  <2>13. Content(tarBuf')
           = [Content(tarBuf) EXCEPT ![Views(fdTable)[s].name] =
                Overwritten(Content(tarBuf)[Views(fdTable)[s].name], Views(fdTable)[s].pos, x, v)]
    BY <2>5, <2>7, <2>10 DEF c, fds
  <2> QED BY <1>1, <2>8, <2>11, <2>12, <2>13, SomeWrite
<1> QED BY <1>2, <1>3

LEMMA StoreCloses ==
  ASSUME DInv, NEW s \in Slots, Close(s)
  PROVE  Store!Close(s)
<1>1. tarBuf' = tarBuf /\ got' = <<>> /\ fdTable \in [Slots -> FdSlots]
  BY DEF Close, DInv, DTypes
<1>2. CASE ~fdTable[s].isInUse
  <2>1. s \notin Store!Opened
    BY <1>2, OpenedAre DEF InUse
  <2>2. ret' = -1 /\ fdTable' = fdTable
    BY <1>2 DEF Close
  <2> QED BY <1>1, <2>1, <2>2 DEF Store!Close
<1>3. CASE fdTable[s].isInUse
  <2> DEFINE e == [Closed EXCEPT !.dirty = fdTable[s].dirty]
  <2>1. ret' = 0 /\ fdTable' = [fdTable EXCEPT ![s] = e]
    BY <1>3 DEF Close
  <2>2. e.isInUse = FALSE /\ e.name = "" /\ e.rwPos = 0
    BY DEF Closed
  <2> HIDE DEF e
  <2>3. Views(fdTable') = [Views(fdTable) EXCEPT ![s] = View(e)]
    <3>1. Views([fdTable EXCEPT ![s] = e]) = [Views(fdTable) EXCEPT ![s] = View(e)]
      BY ONLY <1>1, ViewOfReplaced
    <3> QED BY ONLY <2>1, <3>1
  <2>4. View(e) = Store!Closed
    BY <2>2 DEF View, Store!Closed
  <2>5. s \in Store!Opened
    BY <1>3, OpenedAre DEF InUse
  <2>6. Views(fdTable') = [Views(fdTable) EXCEPT ![s] = Store!Closed]
    BY <2>3, <2>4
  <2> QED BY <1>1, <2>1, <2>5, <2>6 DEF Store!Close, Views, View
<1> QED BY <1>2, <1>3

LEMMA StoreInit ==
  ASSUME DescriptorsInit PROVE Store!Init /\ OpenNamed
<1>1. running = FALSE /\ fdTable = [s \in Slots |-> Closed]
  BY DEF DescriptorsInit
<1>2. \A s \in Slots : /\ fdTable[s].isInUse = FALSE /\ fdTable[s].name = "" /\ fdTable[s].rwPos = 0
  BY <1>1 DEF Closed
<1>3. Views(fdTable) = [s \in Slots |-> Store!Closed]
  BY <1>2 DEF Views, View, Store!Closed
<1>4. OpenNamed
  BY <1>2 DEF OpenNamed, InUse
<1> QED BY <1>1, <1>3, <1>4 DEF Store!Init, Views, View

\* Between programs the shell, the drive and a restart are outside.
LEMMA OutsideSteps ==
  ASSUME ~running, running' = running,
         fdTable' = fdTable \/ fdTable' = [s \in Slots |-> Closed]
  PROVE  Store!Next
<1>1. Views(fdTable') = Views(fdTable) \/ \A s \in Slots : ~Views(fdTable')[s].isOpen
  <2>1. CASE fdTable' = fdTable
    BY <2>1
  <2>2. CASE fdTable' = [s \in Slots |-> Closed]
    <3>1. \A s \in Slots : ~fdTable'[s].isInUse
      BY <2>2 DEF Closed
    <3> QED BY <3>1 DEF Views, View
  <2> QED BY <2>1, <2>2
<1>2. Store!Outside
  BY <1>1 DEF Store!Outside, Views, View
<1> QED BY <1>2 DEF Store!Next

LEMMA StoreSteps ==
  ASSUME ~MoveWhileOpen, DInv, OpenNamed, [DescriptorsNext]_descriptorsVars
  PROVE  Store!Next \/ (Content(tarBuf') = Content(tarBuf) /\ Views(fdTable') = Views(fdTable)
                          /\ UNCHANGED <<running, ret, got>>)
<1>1. ASSUME NEW f \in Names, NEW create \in BOOLEAN, NEW truncate \in BOOLEAN,
             Open(f, create, truncate)
      PROVE  Store!Next
  <2>1. Store!Open(f, create, truncate)
    BY <1>1, StoreOpens
  <2>2. running /\ running'
    BY <1>1, OpenIs
  <2> QED BY <2>1, <2>2 DEF Store!Next, Store!Call
<1>2. ASSUME NEW s \in Slots, NEW n \in Counts, Read(s, n) PROVE Store!Next
  <2>1. Store!Read(s, n) /\ running /\ running'
    BY <1>2, StoreReads DEF Read, Calling
  <2> QED BY <2>1 DEF Store!Next, Store!Call
<1>3. ASSUME NEW s \in Slots, NEW n \in Counts, NEW v \in Values, Write(s, n, v) PROVE Store!Next
  <2>1. Store!Write(s, n, v) /\ running /\ running'
    BY <1>3, StoreWrites DEF Write, Calling
  <2> QED BY <2>1 DEF Store!Next, Store!Call
<1>4. ASSUME NEW s \in Slots, Close(s) PROVE Store!Next
  <2>1. Store!Close(s) /\ running /\ running'
    BY <1>4, StoreCloses DEF Close, Calling
  <2> QED BY <2>1 DEF Store!Next, Store!Call
<1>5. CASE Run
  <2>1. Store!Start
    BY <1>5 DEF Run, vars, ustarVars, Store!Start
  <2> QED BY <2>1 DEF Store!Next
<1>6. CASE Exit
  <2>1. Store!End
    BY <1>6 DEF Exit, Calling, vars, ustarVars, Store!End
  <2> QED BY <2>1 DEF Store!Next
<1>7. CASE Shell
  BY <1>7, OutsideSteps DEF Shell, fdVars
<1>8. CASE Restarted
  BY <1>8, OutsideSteps DEF Restarted
<1>9. CASE Drive /\ ~running
  BY <1>9, OutsideSteps DEF Drive
<1>10. CASE Drive /\ running
  <2>1. todo \in {<<>>, <<"flush">>}
    BY <1>10 DEF DInv, Turns
  <2>2. ~InPhase("load") /\ ~InPhase("edit") /\ ~InPhase("list")
    BY <2>1 DEF InPhase
  <2>3. WriteSector
    BY <1>10, <2>2 DEF Drive, ReadSector, EditPhase, ListPhase
  <2> QED BY <1>10, <2>3 DEF Drive, WriteSector, ustarVars
<1>11. CASE UNCHANGED descriptorsVars
  BY <1>11 DEF descriptorsVars, vars, ustarVars, fdVars
<1> QED BY <1>1, <1>2, <1>3, <1>4, <1>5, <1>6, <1>7, <1>8, <1>9, <1>10, <1>11 DEF DescriptorsNext

(* Reading and writing through pointers into the archive is reading and    *)
(* writing the bytes of the file that was opened, from the position of     *)
(* that descriptor, and no byte of any other file (fd.c:33-133), when no   *)
(* file is moved while one is open.                                        *)
THEOREM DescriptorsAreFileStore == ~MoveWhileOpen => (DescriptorsSpec => ImplementsFileStore)
<1> SUFFICES ASSUME ~MoveWhileOpen PROVE DescriptorsSpec => ImplementsFileStore
  OBVIOUS
<1>1. DescriptorsInit => Store!Init /\ OpenNamed
  BY StoreInit
<1>2. DInv /\ OpenNamed /\ [DescriptorsNext]_descriptorsVars => OpenNamed'
  BY OpenNamedStep
<1>3. DInv /\ OpenNamed /\ [DescriptorsNext]_descriptorsVars
        => [Store!Next]_<<[f \in Names |-> BytesOf(tarBuf, f)],
                          [s \in Slots |-> [isOpen |-> fdTable[s].isInUse,
                                            name   |-> fdTable[s].name,
                                            pos    |-> fdTable[s].rwPos]], running, ret, got>>
  BY StoreSteps DEF Content, Views, View
<1> QED BY <1>1, <1>2, <1>3, DescriptorsInvariant, PTL
        DEF DescriptorsSpec, ImplementsFileStore, Store!Spec

=============================================================================
