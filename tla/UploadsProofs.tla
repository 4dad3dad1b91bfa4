--------------------------- MODULE UploadsProofs ---------------------------
(***************************************************************************)
(* Theorems about Uploads for any number of requests, processes, parts and *)
(* faults, and any chunk size.                                             *)
(***************************************************************************)
EXTENDS Uploads, FiniteSetTheorems, SequenceTheorems, WellFoundedInduction, TLAPS

(***************************************************************************)
(* Chunks, and their concatenation                                         *)
(***************************************************************************)
\* Whole chunks fit into what they are cut from.
LEMMA ChunksFit ==
  ASSUME NEW n \in Nat
  PROVE  /\ n \div ChunkSize \in Nat
         /\ (n \div ChunkSize) * ChunkSize \in 0..n
         /\ n - (n \div ChunkSize) * ChunkSize < ChunkSize
         /\ \A k \in 1..(n \div ChunkSize) :
              /\ (k - 1) * ChunkSize \in Nat /\ k * ChunkSize \in 0..n
              /\ k * ChunkSize = (k - 1) * ChunkSize + ChunkSize
<1> DEFINE q == n \div ChunkSize
<1>c. ChunkSize \in Nat \ {0}
  BY UploadsAssumption
<1>1. q \in Nat /\ n % ChunkSize \in 0..(ChunkSize - 1) /\ n = ChunkSize * q + (n % ChunkSize)
  BY <1>c
<1>2. \A k \in 1..q : k * ChunkSize <= q * ChunkSize /\ (k - 1) * ChunkSize >= 0
  <2> SUFFICES ASSUME NEW k \in 1..q PROVE k * ChunkSize <= q * ChunkSize /\ (k - 1) * ChunkSize >= 0
    OBVIOUS
  <2>1. \A i, j \in Nat : i * j \in Nat
    OBVIOUS
  <2>2. (q - k) * ChunkSize \in Nat /\ (k - 1) * ChunkSize \in Nat
    BY <2>1, <1>1, <1>c
  <2>3. (q - k) * ChunkSize = q * ChunkSize - k * ChunkSize
    BY <1>1, <1>c
  <2> QED BY <2>2, <2>3, <1>1, <1>c
<1>3. \A k \in 1..q : k * ChunkSize \in Nat /\ k * ChunkSize = (k - 1) * ChunkSize + ChunkSize
  BY <1>1, <1>c
<1>4. q * ChunkSize = ChunkSize * q /\ q * ChunkSize \in Nat
  BY <1>1, <1>c
<1> QED BY <1>1, <1>2, <1>3, <1>4, <1>c

\* A function on 1..n is a sequence of length n.
LEMMA FunctionIsSeq ==
  ASSUME NEW T, NEW n \in Nat, NEW f \in [1..n -> T]
  PROVE  f \in Seq(T) /\ Len(f) = n
<1>1. f \in Seq(T)
  <2>1. Seq(T) = UNION {[1..m -> T] : m \in Nat}
    BY SeqDef, Zenon
  <2> QED BY <2>1, Zenon
<1>2. DOMAIN f = 1..n /\ DOMAIN f = 1..Len(f) /\ Len(f) \in Nat
  BY <1>1, LenProperties
<1> QED BY <1>1, <1>2

\* What processChunksToIPLDFormat cuts are data, and so is what it leaves.
LEMMA CutTypes ==
  ASSUME NEW S, NEW bytes \in Seq(S)
  PROVE  /\ FullChunks(bytes) \in Seq(Seq(S)) /\ LeftOver(bytes) \in Seq(S)
         /\ Len(FullChunks(bytes)) = Len(bytes) \div ChunkSize
<1> DEFINE q == Len(bytes) \div ChunkSize
<1>1. Len(bytes) \in Nat /\ \A i \in 1..Len(bytes) : bytes[i] \in S
  BY LenProperties
<1>2. q \in Nat /\ q * ChunkSize \in 0..Len(bytes)
  BY <1>1, ChunksFit
<1>3. \A k \in 1..q : SubSeq(bytes, (k - 1) * ChunkSize + 1, k * ChunkSize) \in Seq(S)
  <2> SUFFICES ASSUME NEW k \in 1..q
               PROVE  SubSeq(bytes, (k - 1) * ChunkSize + 1, k * ChunkSize) \in Seq(S)
    OBVIOUS
  <2> DEFINE i == (k - 1) * ChunkSize
             j == k * ChunkSize
  <2>1. i \in Nat /\ j \in 0..Len(bytes)
    BY <1>1, ChunksFit
  <2>2. \A x \in (i + 1)..j : bytes[x] \in S
    BY <1>1, <2>1
  <2>3. i + 1 \in Int /\ j \in Int
    BY <2>1
  <2> HIDE DEF i, j
  <2>4. SubSeq(bytes, i + 1, j) \in Seq(S)
    BY <2>2, <2>3, SubSeqProperties
  <2> QED BY <2>4 DEF i, j
<1>4. FullChunks(bytes) \in [1..q -> Seq(S)]
  BY <1>3 DEF FullChunks
<1>5. LeftOver(bytes) \in Seq(S)
  <2> DEFINE j == q * ChunkSize
             l == Len(bytes)
  <2>1. \A x \in (j + 1)..l : bytes[x] \in S
    BY <1>1, <1>2
  <2>2. j + 1 \in Int /\ l \in Int
    BY <1>1, <1>2
  <2> HIDE DEF j, l
  <2>3. SubSeq(bytes, j + 1, l) \in Seq(S)
    BY <2>1, <2>2, SubSeqProperties
  <2> QED BY <2>3 DEF j, l, LeftOver
<1>6. FullChunks(bytes) \in Seq(Seq(S)) /\ Len(FullChunks(bytes)) = q
  <2> HIDE DEF q
  <2> QED BY <1>2, <1>4, FunctionIsSeq
<1> QED BY <1>5, <1>6

\* A set of numbers that is not empty has a least one.
LEMMA HasLeast ==
  ASSUME NEW S \in SUBSET Nat, S # {}
  PROVE  \E m \in S : \A n \in S : m <= n
<1>1. PICK m \in S : \A n \in S : ~ (<<n, m>> \in OpToRel(<, Nat))
  BY NatLessThanWellFounded, WFMin
<1>2. \A n \in S : m <= n
  <2> SUFFICES ASSUME NEW n \in S PROVE m <= n
    OBVIOUS
  <2>1. m \in Nat /\ n \in Nat
    OBVIOUS
  <2>2. ~ (n < m)
    BY <1>1, <2>1, Zenon DEF OpToRel
  <2> QED BY <2>1, <2>2
<1> QED BY <1>2

\* Flatten, of any sequence of chunks: so much of it as the first n make up.
Joined(c, g, n) == g = [i \in 0..n |-> IF i = 0 THEN <<>> ELSE g[i - 1] \o c[i]]
Flat(c) == CHOOSE f : f = [n \in Nat |-> IF n = 0 THEN <<>> ELSE f[n - 1] \o c[n]]

LEMMA FlattenIsFlat == Flatten = Flat(chunks)
BY DEF Flatten, Flat

LEMMA JoinedExists ==
  ASSUME NEW c
  PROVE  \A n \in Nat : \E g : Joined(c, g, n)
<1> DEFINE Bad == {n \in Nat : ~ \E g : Joined(c, g, n)}
<1> SUFFICES ASSUME Bad # {} PROVE FALSE
  OBVIOUS
<1>1. PICK n \in Bad : \A m \in Bad : n <= m
  <2>1. Bad \in SUBSET Nat
    OBVIOUS
  <2> QED BY <2>1, HasLeast
<1>2. n # 0
  <2> SUFFICES ASSUME n = 0 PROVE FALSE
    OBVIOUS
  <2> DEFINE g == [i \in 0..0 |-> <<>>]
  <2>1. g = [i \in 0..0 |-> IF i = 0 THEN <<>> ELSE g[i - 1] \o c[i]]
    OBVIOUS
  <2>2. Joined(c, g, 0)
    BY <2>1 DEF Joined
  <2> QED BY <2>2
<1>3. n \in Nat /\ n - 1 \in Nat /\ n - 1 \notin Bad
  BY <1>1, <1>2
<1>4. PICK g : Joined(c, g, n - 1)
  BY <1>3
<1> DEFINE h == [i \in 0..n |-> IF i = n THEN g[n - 1] \o c[n] ELSE g[i]]
<1>5. \A i \in 0..(n - 1) : g[i] = IF i = 0 THEN <<>> ELSE g[i - 1] \o c[i]
  <2> DEFINE e(i) == IF i = 0 THEN <<>> ELSE g[i - 1] \o c[i]
  <2>1. g = [i \in 0..(n - 1) |-> e(i)]
    BY <1>4 DEF Joined
  <2> HIDE DEF e
  <2>2. \A i \in 0..(n - 1) : g[i] = e(i)
    BY <2>1
  <2> QED BY <2>2 DEF e
<1>6. \A i \in 0..n : h[i] = IF i = 0 THEN <<>> ELSE h[i - 1] \o c[i]
  BY <1>2, <1>3, <1>5
<1>7. h = [i \in 0..n |-> IF i = 0 THEN <<>> ELSE h[i - 1] \o c[i]]
  <2>1. h = [i \in 0..n |-> h[i]]
    OBVIOUS
  <2> HIDE DEF h
  <2> QED BY <2>1, <1>6
<1>8. Joined(c, h, n)
  <2> HIDE DEF h
  <2> QED BY <1>7 DEF Joined
<1> QED BY <1>1, <1>8

LEMMA JoinedAgree ==
  ASSUME NEW c, NEW n \in Nat, NEW m \in Nat, n <= m, NEW g, NEW h, Joined(c, g, n), Joined(c, h, m)
  PROVE  g[n] = h[n]
<1> DEFINE Bad == {i \in 0..n : g[i] # h[i]}
<1>1. /\ \A i \in 0..n : g[i] = IF i = 0 THEN <<>> ELSE g[i - 1] \o c[i]
      /\ \A i \in 0..m : h[i] = IF i = 0 THEN <<>> ELSE h[i - 1] \o c[i]
  <2> DEFINE e(i) == IF i = 0 THEN <<>> ELSE g[i - 1] \o c[i]
             f(i) == IF i = 0 THEN <<>> ELSE h[i - 1] \o c[i]
  <2>1. g = [i \in 0..n |-> e(i)] /\ h = [i \in 0..m |-> f(i)]
    BY DEF Joined
  <2> HIDE DEF e, f
  <2>2. (\A i \in 0..n : g[i] = e(i)) /\ \A i \in 0..m : h[i] = f(i)
    BY <2>1
  <2> QED BY <2>2 DEF e, f
<1>2. Bad = {}
  <2> SUFFICES ASSUME Bad # {} PROVE FALSE
    OBVIOUS
  <2>1. PICK i \in Bad : \A j \in Bad : i <= j
    <3>1. Bad \in SUBSET Nat
      OBVIOUS
    <3> QED BY <3>1, HasLeast
  <2>2. i # 0
    BY <2>1, <1>1
  <2>3. g[i - 1] = h[i - 1]
    BY <2>1, <2>2
  <2>4. g[i] = g[i - 1] \o c[i] /\ h[i] = h[i - 1] \o c[i]
    BY <1>1, <2>1, <2>2
  <2> QED BY <2>1, <2>3, <2>4
<1> QED BY <1>2

\* Joining is associative.
Associates(S) == \A x, y, z \in Seq(S) : (x \o y) \o z = x \o (y \o z)

LEMMA JoinsAssociate == ASSUME NEW S PROVE Associates(S)
<1> SUFFICES ASSUME NEW x \in Seq(S), NEW y \in Seq(S), NEW z \in Seq(S)
             PROVE  (x \o y) \o z = x \o (y \o z)
  BY Zenon DEF Associates
<1> QED BY ConcatAssociative, SMTT(30)

\* The recursion has a solution, so Flat is one.
LEMMA FlatRecursion ==
  ASSUME NEW c
  PROVE  /\ Flat(c)[0] = <<>>
         /\ \A n \in Nat \ {0} : Flat(c)[n] = Flat(c)[n - 1] \o c[n]
<1> DEFINE G(n) == CHOOSE g : Joined(c, g, n)
           F == [n \in Nat |-> G(n)[n]]
           step(f, n) == IF n = 0 THEN <<>> ELSE f[n - 1] \o c[n]
<1>1. \A n \in Nat : Joined(c, G(n), n)
  BY JoinedExists
<1>2. \A n \in Nat : F[n] = step(F, n)
  <2> SUFFICES ASSUME NEW n \in Nat PROVE F[n] = step(F, n)
    OBVIOUS
  <2>1. G(n)[n] = step(G(n), n)
    <3> DEFINE g == G(n)
    <3>1. g = [i \in 0..n |-> step(g, i)]
      BY <1>1 DEF Joined
    <3> HIDE DEF g, step
    <3>2. g[n] = step(g, n)
      BY <3>1
    <3> QED BY <3>2 DEF g
  <2>2. CASE n = 0
    BY <2>1, <2>2
  <2>3. CASE n # 0
    <3>1. n - 1 \in Nat /\ n - 1 <= n
      BY <2>3
    <3>2. Joined(c, G(n - 1), n - 1) /\ Joined(c, G(n), n)
      BY <1>1, <3>1
    <3>3. G(n - 1)[n - 1] = G(n)[n - 1]
      <4> HIDE DEF G
      <4> QED BY <3>1, <3>2, JoinedAgree
    <3> HIDE DEF G
    <3> QED BY <2>1, <2>3, <3>1, <3>3
  <2> QED BY <2>2, <2>3
<1>3. F = [n \in Nat |-> step(F, n)]
  <2>1. F = [n \in Nat |-> F[n]]
    OBVIOUS
  <2> HIDE DEF F, step
  <2> QED BY <2>1, <1>2
<1>4. \E f : f = [n \in Nat |-> step(f, n)]
  <2> HIDE DEF F
  <2> QED BY <1>3
<1>5. Flat(c) = [n \in Nat |-> step(Flat(c), n)]
  <2>1. Flat(c) = CHOOSE f : f = [n \in Nat |-> step(f, n)]
    BY DEF Flat
  <2> HIDE DEF step
  <2> QED BY <2>1, <1>4, Zenon
<1>6. \A n \in Nat : Flat(c)[n] = step(Flat(c), n)
  <2> HIDE DEF step
  <2> QED BY <1>5
<1> QED BY <1>6

\* Chunks of data make up data.
LEMMA FlatIsData ==
  ASSUME NEW S, NEW c \in Seq(Seq(S))
  PROVE  \A n \in 0..Len(c) : Flat(c)[n] \in Seq(S)
<1> DEFINE Bad == {n \in 0..Len(c) : Flat(c)[n] \notin Seq(S)}
<1> SUFFICES ASSUME Bad # {} PROVE FALSE
  OBVIOUS
<1>1. PICK n \in Bad : \A m \in Bad : n <= m
  <2>1. Bad \in SUBSET Nat
    OBVIOUS
  <2> QED BY <2>1, HasLeast
<1>2. n # 0
  BY <1>1, FlatRecursion, EmptySeq
<1>3. n \in Nat \ {0} /\ n \in 1..Len(c) /\ Flat(c)[n - 1] \in Seq(S)
  BY <1>1, <1>2, LenProperties
<1>4. c[n] \in Seq(S)
  BY <1>3, ElementOfSeq
<1>5. Flat(c)[n] = Flat(c)[n - 1] \o c[n]
  BY <1>3, FlatRecursion
<1>6. Flat(c)[n] \in Seq(S)
  BY <1>3, <1>4, <1>5, ConcatProperties
<1> QED BY <1>1, <1>6

\* More chunks make up what they add to what there was.
LEMMA FlatOfMore ==
  ASSUME NEW S, NEW c \in Seq(Seq(S)), NEW d \in Seq(Seq(S))
  PROVE  /\ Len(c \o d) = Len(c) + Len(d)
         /\ Flat(c \o d)[Len(c \o d)] = Flat(c)[Len(c)] \o Flat(d)[Len(d)]
<1> DEFINE e == c \o d
           k == Len(c)
           l == Len(d)
<1>1. /\ k \in Nat /\ l \in Nat /\ e \in Seq(Seq(S)) /\ Len(e) = k + l
      /\ \A i \in 1..k : e[i] = c[i]
      /\ \A i \in 1..l : e[k + i] = d[i]
  <2>1. k \in Nat /\ l \in Nat
    BY LenProperties
  <2>2. /\ e \in Seq(Seq(S)) /\ Len(e) = k + l
        /\ \A i \in 1..(k + l) : e[i] = IF i <= k THEN c[i] ELSE d[i - k]
    BY ConcatProperties
  <2> HIDE DEF e, k, l
  <2>3. \A i \in 1..k : e[i] = c[i]
    BY <2>1, <2>2
  <2>4. \A i \in 1..l : e[k + i] = d[i]
    <3> SUFFICES ASSUME NEW i \in 1..l PROVE e[k + i] = d[i]
      OBVIOUS
    <3>1. k + i \in 1..(k + l) /\ ~(k + i <= k) /\ (k + i) - k = i
      BY <2>1
    <3> QED BY <2>2, <3>1
  <2> QED BY <2>1, <2>2, <2>3, <2>4
<1> HIDE DEF e, k, l
<1>2. \A n \in 0..k : Flat(e)[n] = Flat(c)[n]
  <2> DEFINE Bad == {n \in 0..k : Flat(e)[n] # Flat(c)[n]}
  <2> SUFFICES ASSUME Bad # {} PROVE FALSE
    OBVIOUS
  <2>1. PICK n \in Bad : \A m \in Bad : n <= m
    <3>1. Bad \in SUBSET Nat
      BY <1>1
    <3> QED BY <3>1, HasLeast
  <2>2. n # 0
    BY <2>1, FlatRecursion
  <2>3. n \in Nat \ {0} /\ n \in 1..k /\ Flat(e)[n - 1] = Flat(c)[n - 1]
    <3>1. n \in 0..k
      OBVIOUS
    <3>2. n \in Nat \ {0} /\ n \in 1..k /\ n - 1 \in 0..k /\ ~(n <= n - 1)
      BY <1>1, <2>2, <3>1
    <3>3. n - 1 \notin Bad
      BY <2>1, <3>2
    <3> QED BY <3>2, <3>3
  <2>4. Flat(e)[n] = Flat(e)[n - 1] \o e[n] /\ Flat(c)[n] = Flat(c)[n - 1] \o c[n]
    BY <2>3, FlatRecursion
  <2>5. e[n] = c[n]
    BY <1>1, <2>3
  <2> QED BY <2>1, <2>3, <2>4, <2>5, Zenon
<1>3. \A n \in 0..l : Flat(e)[k + n] = Flat(c)[k] \o Flat(d)[n]
  <2> DEFINE P(n) == Flat(e)[k + n] = Flat(c)[k] \o Flat(d)[n]
             Bad == {n \in 0..l : ~P(n)}
  <2> SUFFICES ASSUME Bad # {} PROVE FALSE
    <3> HIDE DEF P
    <3>1. Bad = {} => \A n \in 0..l : P(n)
      OBVIOUS
    <3> QED BY <3>1 DEF P
  <2>1. PICK n \in Bad : \A m \in Bad : n <= m
    <3> HIDE DEF P
    <3>1. Bad \in SUBSET Nat
      BY <1>1
    <3> QED BY <3>1, HasLeast
  <2>a. Flat(c)[k] \in Seq(S) /\ \A m \in 0..l : Flat(d)[m] \in Seq(S)
    BY <1>1, FlatIsData DEF k, l
  <2>2. n # 0
    <3>1. Flat(c)[k] \o <<>> = Flat(c)[k]
      BY <2>a, ConcatEmptySeq
    <3>2. k \in 0..k /\ k + 0 = k
      BY <1>1
    <3>3. Flat(e)[k] = Flat(c)[k] \o Flat(d)[0]
      BY <1>2, <3>1, <3>2, FlatRecursion
    <3> QED BY <2>1, <3>2, <3>3
  <2>3. /\ n \in Nat \ {0} /\ n \in 1..l /\ n - 1 \in 0..l
        /\ Flat(e)[k + (n - 1)] = Flat(c)[k] \o Flat(d)[n - 1]
    <3> HIDE DEF P
    <3>1. /\ n \in Nat \ {0} /\ n \in 1..l /\ n - 1 \in 0..l /\ P(n - 1)
      BY <1>1, <2>1, <2>2
    <3> QED BY <3>1 DEF P
  <2>4. Flat(e)[k + n] = Flat(e)[k + (n - 1)] \o d[n]
    <3>1. k + n \in Nat \ {0} /\ (k + n) - 1 = k + (n - 1)
      BY <1>1, <2>3
    <3>2. Flat(e)[k + n] = Flat(e)[k + (n - 1)] \o e[k + n]
      BY <3>1, FlatRecursion
    <3> QED BY <1>1, <2>3, <3>2
  <2>5. d[n] \in Seq(S)
    BY <2>3, ElementOfSeq DEF l
  <2>6. (Flat(c)[k] \o Flat(d)[n - 1]) \o d[n] = Flat(c)[k] \o (Flat(d)[n - 1] \o d[n])
    <3>1. Flat(d)[n - 1] \in Seq(S)
      BY <2>a, <2>3
    <3>2. Associates(S)
      BY JoinsAssociate, Zenon
    <3> QED BY <2>a, <2>5, <3>1, <3>2, Zenon DEF Associates
  <2>7. Flat(d)[n] = Flat(d)[n - 1] \o d[n]
    BY <2>3, FlatRecursion
  <2> QED BY <2>1, <2>3, <2>4, <2>6, <2>7
<1>4. Flat(e)[k + l] = Flat(c)[k] \o Flat(d)[l]
  <2>1. l \in 0..l
    BY <1>1
  <2> QED BY <1>3, <2>1, Zenon
<1> QED BY <1>1, <1>4 DEF e, k, l

\* What is cut and what is left over are the bytes there were.
LEMMA CutIsWhole ==
  ASSUME NEW S, NEW bytes \in Seq(S)
  PROVE  Flat(FullChunks(bytes))[Len(FullChunks(bytes))] \o LeftOver(bytes) = bytes
<1> DEFINE d == FullChunks(bytes)
           l == Len(bytes)
           q == l \div ChunkSize
<1>1. /\ l \in Nat /\ q \in Nat /\ q * ChunkSize \in 0..l
      /\ d \in Seq(Seq(S)) /\ Len(d) = q
      /\ \A k \in 1..q : /\ (k - 1) * ChunkSize \in Nat /\ k * ChunkSize \in 0..l
                         /\ k * ChunkSize = (k - 1) * ChunkSize + ChunkSize
                         /\ d[k] = SubSeq(bytes, (k - 1) * ChunkSize + 1, k * ChunkSize)
  <2>1. l \in Nat
    BY LenProperties
  <2>2. d \in Seq(Seq(S)) /\ Len(d) = q
    BY CutTypes
  <2>3. \A k \in 1..q : d[k] = SubSeq(bytes, (k - 1) * ChunkSize + 1, k * ChunkSize)
    BY DEF FullChunks
  <2> HIDE DEF d, l
  <2> QED BY <2>1, <2>2, <2>3, ChunksFit
<1>2. ChunkSize \in Nat \ {0}
  BY UploadsAssumption
<1> HIDE DEF d, l, q
<1>3. \A k \in 0..q : Flat(d)[k] = SubSeq(bytes, 1, k * ChunkSize)
  <2> DEFINE Bad == {k \in 0..q : Flat(d)[k] # SubSeq(bytes, 1, k * ChunkSize)}
  <2> SUFFICES ASSUME Bad # {} PROVE FALSE
    OBVIOUS
  <2>1. PICK k \in Bad : \A m \in Bad : k <= m
    <3>1. Bad \in SUBSET Nat
      BY <1>1
    <3> QED BY <3>1, HasLeast
  <2>2. k # 0
    <3> SUFFICES ASSUME k = 0 PROVE FALSE
      OBVIOUS
    <3>1. k * ChunkSize = 0
      BY <1>2
    <3>2. SubSeq(bytes, 1, 0) = <<>>
      BY SubSeqEmpty
    <3> QED BY <2>1, <3>1, <3>2, FlatRecursion
  <2>3. k \in Nat \ {0} /\ k \in 1..q /\ Flat(d)[k - 1] = SubSeq(bytes, 1, (k - 1) * ChunkSize)
    <3>1. k \in Nat \ {0} /\ k \in 1..q /\ k - 1 \in 0..q /\ k - 1 < k
      BY <1>1, <2>1, <2>2
    <3>2. k - 1 \notin Bad
      <4> HIDE DEF Bad
      <4>1. k - 1 \in Bad => k <= k - 1
        BY <2>1
      <4> QED BY <3>1, <4>1
    <3> QED BY <3>1, <3>2, Zenon
  <2> DEFINE i == (k - 1) * ChunkSize
             j == k * ChunkSize
  <2>4. i \in Nat /\ j \in 0..l /\ j = i + ChunkSize
    <3>1. j \in 0..l /\ j = i + ChunkSize
      BY <1>1, <2>3, Zenon
    <3>2. k - 1 \in Nat
      BY <2>3
    <3>3. i \in Nat
      BY <1>2, <3>2
    <3> QED BY <3>1, <3>3
  <2>5. Flat(d)[k] = SubSeq(bytes, 1, i) \o SubSeq(bytes, i + 1, j)
    BY <1>1, <2>3, FlatRecursion
  <2> HIDE DEF i, j
  <2>6. SubSeq(bytes, 1, i) \o SubSeq(bytes, i + 1, j) = SubSeq(bytes, 1, j)
    <3>1. 1 \in 1..(Len(bytes) + 1) /\ i \in (1 - 1)..Len(bytes) /\ j \in i..Len(bytes)
      BY <1>1, <1>2, <2>4 DEF l
    <3> QED BY <3>1, ConcatAdjacentSubSeq
  <2> QED BY <2>1, <2>5, <2>6 DEF j
<1>4. Flat(d)[q] = SubSeq(bytes, 1, q * ChunkSize)
  BY <1>1, <1>3
<1>5. LeftOver(bytes) = SubSeq(bytes, q * ChunkSize + 1, l)
  BY DEF LeftOver, q, l
<1> DEFINE j == q * ChunkSize
<1>6. SubSeq(bytes, 1, j) \o SubSeq(bytes, j + 1, l) = bytes
  <2>1. j \in 0..l
    BY <1>1
  <2> HIDE DEF j
  <2>2. 1 \in 1..(Len(bytes) + 1) /\ j \in (1 - 1)..Len(bytes) /\ l \in j..Len(bytes)
    BY <1>1, <2>1 DEF l
  <2>3. SubSeq(bytes, 1, j) \o SubSeq(bytes, j + 1, l) = SubSeq(bytes, 1, l)
    BY <2>2, ConcatAdjacentSubSeq
  <2> QED BY <2>3, SubSeqFull DEF l
<1> QED BY <1>1, <1>4, <1>5, <1>6 DEF d

(***************************************************************************)
(* Types                                                                   *)
(***************************************************************************)
ChunkPhases    == {"lock", "guard", "store", "drain", "cursor"}
CompletePhases == Claimed \cup {"claim", "claimAgain", "reread", "resolve"}
AbortPhases    == {"age", "blocks", "rows"}

FiniteRoots  == {S \in SUBSET Root : IsFiniteSet(S)}
ChunkReqs    == [phase : ChunkPhases, kind : {"chunk"}, proc : Procs, index : 0..(NParts - 1),
                 data : Data, next : 0..NParts, left : Seq(Data)]
CompleteReqs == [phase : CompletePhases, kind : {"complete"}, proc : Procs, redrive : BOOLEAN,
                 root : FiniteRoots, next : 0..NParts, left : Seq(Data)]
AbortReqs    == [phase : AbortPhases, kind : {"abort"}, proc : Procs]
ReqTypes     == {Idle, Done} \cup ChunkReqs \cup CompleteReqs \cup AbortReqs

PartsTyped == DOMAIN parts \subseteq 0..(NParts - 1) /\ parts \in [DOMAIN parts -> Data]

Typed ==
  /\ status \in {"PENDING", "COMPLETING", "MIGRATING", "FAILED", "GONE"} /\ stale \in BOOLEAN
  /\ PartsTyped
  /\ processed \in 0..NParts /\ pending \in Seq(Data)
  /\ chunks \in Seq(Seq(Data))
  /\ roots \subseteq Root /\ IsFiniteSet(roots)
  /\ holder \in [Procs -> Requests \cup {Free}]
  /\ req \in [Requests -> ReqTypes]
  /\ tasks \in Nat
  /\ returned \subseteq Root /\ IsFiniteSet(returned)
  /\ charges \in Nat /\ faults \in 0..MaxFaults
  /\ takeovers \in Nat /\ recharges \in Nat /\ stranded \in Nat /\ torn \in Nat
  /\ undercut \in BOOLEAN

LEMMA TypedGivesTypeOK == Typed => TypeOK
<1> SUFFICES ASSUME Typed PROVE TypeOK
  OBVIOUS
<1>1. \E stored \in SUBSET (0..(NParts - 1)) : parts \in [stored -> Data]
  BY DEF Typed, PartsTyped
<1>2. \A r \in Requests :
       req[r] \notin {Idle, Done} =>
         /\ req[r].phase \in Phases /\ req[r].proc \in Procs
         /\ req[r].kind \in {"chunk", "complete", "abort"}
  <2> SUFFICES ASSUME NEW r \in Requests, req[r] \notin {Idle, Done}
               PROVE  /\ req[r].phase \in Phases /\ req[r].proc \in Procs
                      /\ req[r].kind \in {"chunk", "complete", "abort"}
    OBVIOUS
  <2>1. req[r] \in ChunkReqs \/ req[r] \in CompleteReqs \/ req[r] \in AbortReqs
    BY DEF Typed, ReqTypes
  <2>2. CASE req[r] \in ChunkReqs
    BY <2>2 DEF ChunkReqs, ChunkPhases, Phases, Claimed
  <2>3. CASE req[r] \in CompleteReqs
    BY <2>3 DEF CompleteReqs, CompletePhases, Phases, Claimed
  <2>4. CASE req[r] \in AbortReqs
    BY <2>4 DEF AbortReqs, AbortPhases, Phases
  <2> QED BY <2>1, <2>2, <2>3, <2>4
<1> QED BY <1>1, <1>2 DEF Typed, TypeOK

\* The kind of a request at work, from its phase.
LEMMA KindOf ==
  ASSUME Typed, NEW r \in Requests
  PROVE  /\ req[r].phase \notin {"idle", "done"} =>
              req[r] \in ChunkReqs \/ req[r] \in CompleteReqs \/ req[r] \in AbortReqs
         /\ req[r].phase \in {"lock", "drain", "cursor"} =>
              req[r] \in ChunkReqs \/ req[r] \in CompleteReqs
         /\ req[r].phase \in {"guard", "store"} => req[r] \in ChunkReqs
         /\ req[r].phase \in CompletePhases \ {"lock", "drain", "cursor"} => req[r] \in CompleteReqs
         /\ req[r].phase \in AbortPhases => req[r] \in AbortReqs
<1>1. req[r] = Idle \/ req[r] = Done \/ req[r] \in ChunkReqs \/ req[r] \in CompleteReqs
      \/ req[r] \in AbortReqs
  BY DEF Typed, ReqTypes
<1>2. CASE req[r] = Idle \/ req[r] = Done
  BY <1>2 DEF Idle, Done, CompletePhases, AbortPhases, Claimed
<1>3. CASE req[r] \in ChunkReqs
  BY <1>3 DEF ChunkReqs, ChunkPhases, CompletePhases, AbortPhases, Claimed
<1>4. CASE req[r] \in CompleteReqs
  BY <1>4 DEF CompleteReqs, CompletePhases, AbortPhases, Claimed
<1>5. CASE req[r] \in AbortReqs
  BY <1>5 DEF AbortReqs, AbortPhases, CompletePhases, Claimed
<1> QED BY <1>1, <1>2, <1>3, <1>4, <1>5

\* A request is at work: it has a phase of its kind and a process.
LEMMA AtWork ==
  ASSUME Typed, NEW r \in Requests, req[r].phase \notin {"idle", "done"}
  PROVE  /\ req[r].proc \in Procs /\ req[r] \notin {Idle, Done}
         /\ req[r].kind \in {"chunk", "complete", "abort"}
         /\ req[r].kind = "chunk" => req[r] \in ChunkReqs
         /\ req[r].kind = "complete" => req[r] \in CompleteReqs
         /\ req[r].kind = "abort" => req[r] \in AbortReqs
<1>1. req[r] \in ChunkReqs \/ req[r] \in CompleteReqs \/ req[r] \in AbortReqs
  BY KindOf
<1>2. CASE req[r] \in ChunkReqs
  BY <1>2 DEF ChunkReqs, Idle, Done
<1>3. CASE req[r] \in CompleteReqs
  BY <1>3 DEF CompleteReqs, Idle, Done
<1>4. CASE req[r] \in AbortReqs
  BY <1>4 DEF AbortReqs, Idle, Done
<1> QED BY <1>1, <1>2, <1>3, <1>4

LEMMA CompletingIs ==
  ASSUME Typed, NEW r \in Requests, Completing(r)
  PROVE  req[r] \in CompleteReqs /\ req[r].phase \notin {"idle", "done"}
<1>1. req[r].phase \notin {"idle", "done"} /\ req[r].kind = "complete"
  BY DEF Completing, Claimed
<1> QED BY <1>1, AtWork

(***************************************************************************)
(* The steps of one request                                                *)
(***************************************************************************)
\* The other requests stay as they are.
Others(r) == req' \in [Requests -> ReqTypes] /\ \A s \in Requests : s # r => req'[s] = req[s]

\* A request goes on in another phase of its kind.
MovesTo(r, p) ==
  /\ Others(r) /\ req'[r].phase = p
  /\ req'[r].kind = req[r].kind /\ req'[r].proc = req[r].proc
  /\ req[r] \in ChunkReqs => req'[r] \in ChunkReqs
  /\ req[r] \in CompleteReqs => req'[r] \in CompleteReqs

Ends(r) == Others(r) /\ req'[r] = Done

LEMMA OneChanges ==
  ASSUME Typed, NEW r \in Requests, NEW x \in ReqTypes, req' = [req EXCEPT ![r] = x]
  PROVE  Others(r) /\ req'[r] = x
<1>1. req \in [Requests -> ReqTypes]
  BY DEF Typed
<1> QED BY <1>1 DEF Others

LEMMA AnswerEnds ==
  ASSUME Typed, NEW r \in Requests, Answer(r)
  PROVE  Ends(r)
<1>1. Done \in ReqTypes
  BY DEF ReqTypes
<1> QED BY <1>1, OneChanges DEF Answer, Ends

LEMMA StepMoves ==
  ASSUME Typed, NEW r \in Requests, NEW p, Step(r, p),
         \/ req[r] \in ChunkReqs /\ p \in ChunkPhases
         \/ req[r] \in CompleteReqs /\ p \in CompletePhases
         \/ req[r] \in AbortReqs /\ p \in AbortPhases
  PROVE  /\ MovesTo(r, p)
         /\ req[r] \in CompleteReqs => /\ req'[r].root = req[r].root
                                       /\ req'[r].next = req[r].next /\ req'[r].left = req[r].left
                                       /\ req'[r].redrive = req[r].redrive
<1> DEFINE x == [req[r] EXCEPT !.phase = p]
<1>1. req' = [req EXCEPT ![r] = x]
  BY DEF Step
<1>2. /\ x \in ReqTypes /\ x.phase = p /\ x.kind = req[r].kind /\ x.proc = req[r].proc
      /\ req[r] \in ChunkReqs => x \in ChunkReqs
      /\ req[r] \in CompleteReqs => /\ x \in CompleteReqs /\ x.root = req[r].root
                                    /\ x.next = req[r].next /\ x.left = req[r].left
                                    /\ x.redrive = req[r].redrive
  <2>1. CASE req[r] \in ChunkReqs /\ p \in ChunkPhases
    <3>1. x \in ChunkReqs /\ x.phase = p /\ x.kind = req[r].kind /\ x.proc = req[r].proc
      BY <2>1 DEF ChunkReqs
    <3>2. req[r] \notin CompleteReqs
      BY <2>1 DEF ChunkReqs, CompleteReqs
    <3> HIDE DEF x
    <3> QED BY <3>1, <3>2 DEF ReqTypes
  <2>2. CASE req[r] \in CompleteReqs /\ p \in CompletePhases
    <3>1. /\ x \in CompleteReqs /\ x.phase = p /\ x.kind = req[r].kind /\ x.proc = req[r].proc
          /\ x.root = req[r].root /\ x.next = req[r].next /\ x.left = req[r].left
          /\ x.redrive = req[r].redrive
      BY <2>2 DEF CompleteReqs
    <3>2. req[r] \notin ChunkReqs
      BY <2>2 DEF ChunkReqs, CompleteReqs
    <3> HIDE DEF x
    <3> QED BY <3>1, <3>2 DEF ReqTypes
  <2>3. CASE req[r] \in AbortReqs /\ p \in AbortPhases
    <3>1. x \in AbortReqs /\ x.phase = p /\ x.kind = req[r].kind /\ x.proc = req[r].proc
      BY <2>3 DEF AbortReqs
    <3>2. req[r] \notin ChunkReqs /\ req[r] \notin CompleteReqs
      BY <2>3 DEF AbortReqs, ChunkReqs, CompleteReqs
    <3> HIDE DEF x
    <3> QED BY <3>1, <3>2 DEF ReqTypes
  <2> QED BY <2>1, <2>2, <2>3
<1> HIDE DEF x
<1> QED BY <1>1, <1>2, OneChanges DEF MovesTo

\* What an exception makes of a request.
LEMMA ThrowEnds ==
  ASSUME Typed, NEW r \in Requests, Throw(r), req[r].phase # "release"
  PROVE  \/ /\ Completing(r) /\ req[r].phase # "claimed"
            /\ MovesTo(r, "release") /\ req'[r].root = req[r].root
         \/ (~Completing(r) \/ req[r].phase = "claimed") /\ Ends(r)
<1>1. CASE Completing(r) /\ req[r].phase # "claimed"
  <2>1. req[r] \in CompleteReqs /\ Step(r, "release")
    BY <1>1, CompletingIs DEF Throw
  <2>2. MovesTo(r, "release") /\ req'[r].root = req[r].root
    BY <2>1, StepMoves DEF CompletePhases, Claimed
  <2> QED BY <1>1, <2>2
<1>2. CASE ~(Completing(r) /\ req[r].phase # "claimed")
  <2>1. Answer(r)
    BY <1>2 DEF Throw
  <2> QED BY <1>2, <2>1, AnswerEnds
<1> QED BY <1>1, <1>2

(***************************************************************************)
(* Steps that only bring a request on                                      *)
(***************************************************************************)
Settled == status \in {"MIGRATING", "FAILED", "GONE"}

AtRest(q) == q.phase \in {"idle", "done"}

\* Neither the row, nor the roots, nor the account: a request starts, or goes
\* on in the same role.
Inner(r) ==
  /\ UNCHANGED <<upload, roots, tasks, returned, charges, takeovers, recharges, stranded, undercut>>
  /\ Others(r)
  /\ IF AtRest(req[r]) THEN MayStart(r, req'[r].kind) /\ Live
     ELSE AtRest(req'[r]) \/ req'[r].kind = req[r].kind
  /\ Completing(r)' <=> Completing(r)
  /\ req[r].phase # "finalize" /\ req'[r].phase # "finalize"
  /\ req'[r].phase = "resolve" => Settled
  /\ req'[r].phase \in {"flush", "clear", "derive"} =>
       req[r].phase \in {"flush", "clear"} \/ roots = {}
  /\ req'[r].phase = "charge" => /\ Live /\ Cardinality(roots) = 1 /\ req'[r].root = roots
                                 /\ \A n \in roots : n.size = storedSize
  /\ IF req[r].phase = "store" THEN ~Completing(r) ELSE UNCHANGED parts

LEMMA ThrowInner ==
  ASSUME Typed, NEW r \in Requests, Throw(r), ~AtRest(req[r]),
         req[r].phase \notin {"release", "claimed", "finalize", "store"},
         UNCHANGED <<upload, roots, tasks, returned, charges, parts, takeovers, recharges, stranded, undercut>>
  PROVE  Inner(r) /\ Others(r)
<1>1. CASE /\ Completing(r) /\ req[r].phase # "claimed"
           /\ MovesTo(r, "release") /\ req'[r].root = req[r].root
  <2>1. Completing(r)'
    BY <1>1 DEF Completing, Claimed, MovesTo
  <2> QED BY <1>1, <2>1 DEF Inner, MovesTo, AtRest
<1>2. CASE (~Completing(r) \/ req[r].phase = "claimed") /\ Ends(r)
  <2>1. ~Completing(r) /\ ~Completing(r)' /\ req'[r].phase = "done"
    BY <1>2 DEF Completing, Claimed, Ends, Done
  <2> QED BY <1>2, <2>1 DEF Inner, Ends, AtRest
<1> QED BY <1>1, <1>2, ThrowEnds

LEMMA MoveInner ==
  ASSUME Typed, NEW r \in Requests, NEW p, MovesTo(r, p), ~AtRest(req[r]),
         p \notin {"finalize", "charge", "resolve", "flush", "clear", "derive", "idle", "done"},
         req[r].phase # "finalize", req[r].phase = "store" => req[r].kind = "chunk",
         req[r].kind = "complete" => (p \in Claimed <=> req[r].phase \in Claimed),
         UNCHANGED <<upload, roots, tasks, returned, charges, takeovers, recharges, stranded, undercut>>,
         req[r].phase # "store" => UNCHANGED parts
  PROVE  Inner(r) /\ Others(r)
<1>1. Completing(r)' <=> Completing(r)
  BY DEF Completing, MovesTo
<1>2. req[r].phase = "store" => ~Completing(r)
  BY DEF Completing
<1> QED BY <1>1, <1>2 DEF Inner, MovesTo, AtRest

LEMMA EndInner ==
  ASSUME Typed, NEW r \in Requests, Ends(r), ~AtRest(req[r]), ~Completing(r),
         req[r].phase # "finalize",
         UNCHANGED <<upload, roots, tasks, returned, charges, parts, takeovers, recharges, stranded, undercut>>
  PROVE  Inner(r) /\ Others(r)
<1>1. ~Completing(r)' /\ req'[r].phase = "done"
  BY DEF Completing, Claimed, Ends, Done
<1> QED BY <1>1 DEF Inner, Ends, AtRest

\* What the steps of a request write, apart from the request.
LEMMA TypedAfter ==
  ASSUME Typed, req' \in [Requests -> ReqTypes],
         status' \in {"PENDING", "COMPLETING", "MIGRATING", "FAILED", "GONE"}, stale' \in BOOLEAN,
         PartsTyped', processed' \in 0..NParts, pending' \in Seq(Data),
         chunks' \in Seq(Seq(Data)), roots' \subseteq Root, IsFiniteSet(roots'),
         holder' \in [Procs -> Requests \cup {Free}], tasks' \in Nat,
         returned' \subseteq Root, IsFiniteSet(returned'), charges' \in Nat, faults' \in 0..MaxFaults,
         takeovers' \in Nat, recharges' \in Nat, stranded' \in Nat, torn' \in Nat, undercut' \in BOOLEAN
  PROVE  Typed'
BY DEF Typed

LEMMA UnlockedTyped ==
  ASSUME Typed, NEW r \in Requests
  PROVE  Unlocked(r) \in [Procs -> Requests \cup {Free}]
BY DEF Typed, Unlocked

LEMMA AcquireLockInner ==
  ASSUME Typed, NEW r \in Requests, AcquireLock(r)
  PROVE  Typed' /\ Inner(r)
<1> DEFINE p == IF req[r].kind = "chunk" THEN "guard" ELSE "drain"
<1>1. req[r].phase = "lock" /\ Step(r, p) /\ ~AtRest(req[r])
  BY DEF AcquireLock, AtRest
<1>2. \/ req[r] \in ChunkReqs /\ req[r].kind = "chunk"
      \/ req[r] \in CompleteReqs /\ req[r].kind = "complete"
  BY <1>1, KindOf DEF ChunkReqs, CompleteReqs
<1>3. MovesTo(r, p)
  BY <1>1, <1>2, StepMoves DEF ChunkPhases, CompletePhases, Claimed
<1>4. Inner(r) /\ Others(r)
  BY <1>1, <1>2, <1>3, MoveInner DEF AcquireLock, Claimed, upload, files, blocks, hist
<1>5. holder' \in [Procs -> Requests \cup {Free}]
  BY DEF AcquireLock, Typed
<1>6. Typed'
  BY <1>4, <1>5 DEF AcquireLock, Typed, PartsTyped, Others, upload, files, blocks, hist
<1> QED BY <1>4, <1>6

LEMMA PutChunksInner ==
  ASSUME Typed, NEW r \in Requests, PutChunks(r)
  PROVE  Typed' /\ Inner(r)
<1> DEFINE bytes == pending \o <<parts[processed]>>
           x == [req[r] EXCEPT !.phase = "cursor", !.next = processed + 1, !.left = LeftOver(bytes)]
<1>1. /\ req[r].phase = "drain" /\ ~AtRest(req[r]) /\ processed \in DOMAIN parts
      /\ chunks' = chunks \o FullChunks(bytes) /\ req' = [req EXCEPT ![r] = x]
  BY DEF PutChunks, AtRest
<1>2. parts[processed] \in Data /\ processed \in 0..(NParts - 1) /\ NParts \in Nat
  BY <1>1, UploadsAssumption DEF Typed, PartsTyped
<1>3. bytes \in Seq(Data)
  <2>1. <<parts[processed]>> \in Seq(Data) /\ pending \in Seq(Data)
    BY <1>2 DEF Typed
  <2> QED BY <2>1, ConcatProperties
<1>4. FullChunks(bytes) \in Seq(Seq(Data)) /\ LeftOver(bytes) \in Seq(Data)
  <2> HIDE DEF bytes
  <2> QED BY <1>3, CutTypes
<1>5. chunks' \in Seq(Seq(Data))
  <2> HIDE DEF bytes
  <2>1. chunks \in Seq(Seq(Data))
    BY DEF Typed
  <2> QED BY <1>1, <1>4, <2>1, ConcatProperties
<1>6. processed + 1 \in 0..NParts
  BY <1>2
<1>7. /\ x \in ReqTypes /\ x.phase = "cursor" /\ x.kind = req[r].kind /\ x.proc = req[r].proc
      /\ req[r] \in ChunkReqs => x \in ChunkReqs
      /\ req[r] \in CompleteReqs => x \in CompleteReqs
  <2> DEFINE l == LeftOver(bytes)
  <2>0. l \in Seq(Data)
    BY <1>4
  <2> HIDE DEF l, bytes
  <2>1. CASE req[r] \in ChunkReqs
    <3>1. x \in ChunkReqs /\ x.phase = "cursor" /\ x.kind = req[r].kind /\ x.proc = req[r].proc
      BY <2>1, <2>0, <1>6 DEF ChunkReqs, ChunkPhases, l
    <3>2. req[r] \notin CompleteReqs
      BY <2>1 DEF ChunkReqs, CompleteReqs
    <3> HIDE DEF x
    <3> QED BY <3>1, <3>2 DEF ReqTypes
  <2>2. CASE req[r] \in CompleteReqs
    <3>1. x \in CompleteReqs /\ x.phase = "cursor" /\ x.kind = req[r].kind /\ x.proc = req[r].proc
      BY <2>2, <2>0, <1>6 DEF CompleteReqs, CompletePhases, Claimed, l
    <3>2. req[r] \notin ChunkReqs
      BY <2>2 DEF ChunkReqs, CompleteReqs
    <3> HIDE DEF x
    <3> QED BY <3>1, <3>2 DEF ReqTypes
  <2> QED BY <2>1, <2>2, <1>1, KindOf
<1> HIDE DEF x, bytes
<1>8. MovesTo(r, "cursor")
  BY <1>1, <1>7, OneChanges DEF MovesTo
<1>9. Inner(r) /\ Others(r)
  BY <1>1, <1>8, MoveInner DEF PutChunks, Claimed, upload, files, blocks, hist
<1>10. Typed'
  BY <1>5, <1>9 DEF PutChunks, Typed, PartsTyped, Others, upload, files, blocks, hist
<1> QED BY <1>9, <1>10

LEMMA SetCursorInner ==
  ASSUME Typed, NEW r \in Requests, SetCursor(r)
  PROVE  Typed' /\ Inner(r)
<1>1. req[r].phase = "cursor" /\ Step(r, "drain") /\ ~AtRest(req[r])
  BY DEF SetCursor, AtRest
<1>2. req[r] \in ChunkReqs \/ req[r] \in CompleteReqs
  BY <1>1, KindOf
<1>3. MovesTo(r, "drain")
  BY <1>1, <1>2, StepMoves DEF ChunkPhases, CompletePhases, Claimed
<1>4. Inner(r) /\ Others(r)
  BY <1>1, <1>3, MoveInner DEF SetCursor, Claimed, upload, files, blocks, hist
<1>5. req[r].next \in 0..NParts /\ req[r].left \in Seq(Data)
  BY <1>2 DEF ChunkReqs, CompleteReqs
<1>6. processed' \in 0..NParts /\ pending' \in Seq(Data)
  BY <1>5 DEF SetCursor, Typed
<1>7. Typed'
  BY <1>4, <1>6 DEF SetCursor, Typed, PartsTyped, Others, upload, files, blocks, hist
<1> QED BY <1>4, <1>7

LEMMA DrainDoneInner ==
  ASSUME Typed, NEW r \in Requests, DrainDone(r)
  PROVE  Typed' /\ Inner(r)
<1>1. req[r].phase = "drain" /\ ~AtRest(req[r])
  BY DEF DrainDone, AtRest
<1>2. Inner(r) /\ Others(r)
  <2>1. CASE req[r].kind = "complete" /\ Step(r, "check")
    <3>1. req[r] \in CompleteReqs
      BY <1>1, <2>1, AtWork
    <3>2. MovesTo(r, "check")
      BY <2>1, <3>1, StepMoves DEF CompletePhases, Claimed
    <3> QED BY <1>1, <3>2, MoveInner DEF DrainDone, Claimed, upload, files, blocks, hist
  <2>2. CASE Throw(r)
    BY <1>1, <2>2, ThrowInner DEF DrainDone, upload, files, blocks, hist
  <2> QED BY <2>1, <2>2 DEF DrainDone
<1>3. holder' \in [Procs -> Requests \cup {Free}]
  BY UnlockedTyped DEF DrainDone
<1>4. Typed'
  BY <1>2, <1>3 DEF DrainDone, Typed, PartsTyped, Others, upload, files, blocks, hist
<1> QED BY <1>2, <1>4

LEMMA StartInner ==
  ASSUME Typed, NEW r \in Requests, NEW x \in ChunkReqs \cup CompleteReqs \cup AbortReqs,
         MayStart(r, x.kind), Live, req' = [req EXCEPT ![r] = x],
         x.phase \in {"lock", "claim", "resolve", "blocks", "age"},
         x.phase = "lock" => x.kind = "chunk", x.phase = "resolve" => Settled,
         UNCHANGED <<upload, files, blocks, holder, tasks, returned, charges, faults, hist>>
  PROVE  Typed' /\ Inner(r)
<1>1. Others(r) /\ req'[r] = x
  <2>1. x \in ReqTypes
    BY DEF ReqTypes
  <2> QED BY <2>1, OneChanges
<1>2. req[r] = Idle /\ AtRest(req[r]) /\ req[r].phase = "idle"
  BY DEF MayStart, Idle, AtRest
<1>3. ~Completing(r) /\ ~Completing(r)'
  BY <1>1, <1>2 DEF Completing, Claimed
<1>4. Inner(r)
  BY <1>1, <1>2, <1>3 DEF Inner, upload, files, blocks, hist
<1>5. Typed'
  BY <1>1 DEF Typed, PartsTyped, Others, upload, files, blocks, hist
<1> QED BY <1>4, <1>5

LEMMA ChunkReadInner ==
  ASSUME Typed, NEW r \in Requests, NEW p \in Procs, NEW i \in 0..(NParts - 1), NEW d \in Data,
         ChunkRead(r, p, i, d)
  PROVE  Typed' /\ Inner(r)
<1> DEFINE x == [phase |-> "lock", kind |-> "chunk", proc |-> p, index |-> i,
                 data |-> d, next |-> 0, left |-> <<>>]
<1>1. /\ MayStart(r, "chunk") /\ Live /\ req' = [req EXCEPT ![r] = x]
      /\ UNCHANGED <<upload, files, blocks, holder, tasks, returned, charges, faults, hist>>
  BY DEF ChunkRead
<1>2. x \in ChunkReqs /\ x.phase = "lock" /\ x.kind = "chunk"
  <2>1. 0 \in 0..NParts /\ <<>> \in Seq(Data)
    BY UploadsAssumption, EmptySeq
  <2> QED BY <2>1 DEF ChunkReqs, ChunkPhases
<1> HIDE DEF x
<1>3. x \in ChunkReqs \cup CompleteReqs \cup AbortReqs /\ MayStart(r, x.kind)
  BY <1>1, <1>2
<1> QED BY <1>1, <1>2, <1>3, StartInner

LEMMA CompleteReadInner ==
  ASSUME Typed, NEW r \in Requests, NEW p \in Procs, CompleteRead(r, p)
  PROVE  Typed' /\ Inner(r)
<1> DEFINE x == [phase |-> IF status = "MIGRATING" THEN "resolve" ELSE "claim", kind |-> "complete",
                 proc |-> p, redrive |-> status = "MIGRATING", root |-> {}, next |-> 0, left |-> <<>>]
<1>1. /\ MayStart(r, "complete") /\ Live /\ req' = [req EXCEPT ![r] = x]
      /\ UNCHANGED <<upload, files, blocks, holder, tasks, returned, charges, faults, hist>>
  BY DEF CompleteRead, Live
<1>2. /\ x \in CompleteReqs /\ x.phase \in {"resolve", "claim"} /\ x.kind = "complete"
      /\ x.phase = "resolve" => Settled
  <2>1. 0 \in 0..NParts /\ <<>> \in Seq(Data) /\ {} \in FiniteRoots
    BY UploadsAssumption, EmptySeq, FS_EmptySet DEF FiniteRoots
  <2>2. (status = "MIGRATING") \in BOOLEAN
    OBVIOUS
  <2> QED BY <2>1, <2>2 DEF CompleteReqs, CompletePhases, Settled
<1> HIDE DEF x
<1>3. x \in ChunkReqs \cup CompleteReqs \cup AbortReqs /\ MayStart(r, x.kind)
  BY <1>1, <1>2
<1> QED BY <1>1, <1>2, <1>3, StartInner

LEMMA AbortReadInner ==
  ASSUME Typed, NEW r \in Requests, NEW p \in Procs, AbortRead(r, p)
  PROVE  Typed' /\ Inner(r)
<1> DEFINE x == [phase |-> IF status = "PENDING" THEN "blocks" ELSE "age", kind |-> "abort", proc |-> p]
<1>1. /\ MayStart(r, "abort") /\ Live /\ req' = [req EXCEPT ![r] = x]
      /\ UNCHANGED <<upload, files, blocks, holder, tasks, returned, charges, faults, hist>>
  BY DEF AbortRead, Live
<1>2. x \in AbortReqs /\ x.phase \in {"blocks", "age"} /\ x.kind = "abort"
  BY DEF AbortReqs, AbortPhases
<1> HIDE DEF x
<1>3. x \in ChunkReqs \cup CompleteReqs \cup AbortReqs /\ MayStart(r, x.kind)
  BY <1>1, <1>2
<1> QED BY <1>1, <1>2, <1>3, StartInner

LEMMA GuardChunkInner ==
  ASSUME Typed, NEW r \in Requests, GuardChunk(r)
  PROVE  Typed' /\ Inner(r)
<1>1. req[r].phase = "guard" /\ ~AtRest(req[r]) /\ req[r] \in ChunkReqs /\ req[r].kind = "chunk"
  BY KindOf DEF GuardChunk, AtRest, ChunkReqs
<1>2. Inner(r) /\ Others(r)
  <2>1. CASE Answer(r)
    <3>1. Ends(r) /\ ~Completing(r)
      BY <1>1, <2>1, AnswerEnds DEF Completing
    <3> QED BY <1>1, <3>1, EndInner DEF GuardChunk, upload, files, blocks, hist
  <2>2. CASE Step(r, "store")
    <3>1. MovesTo(r, "store")
      BY <1>1, <2>2, StepMoves DEF ChunkPhases
    <3> QED BY <1>1, <3>1, MoveInner DEF GuardChunk, upload, files, blocks, hist
  <2> QED BY <2>1, <2>2 DEF GuardChunk
<1>3. holder' \in [Procs -> Requests \cup {Free}]
  BY UnlockedTyped DEF GuardChunk, Typed
<1>4. Typed'
  BY <1>2, <1>3 DEF GuardChunk, Typed, PartsTyped, Others, upload, files, blocks, hist
<1> QED BY <1>2, <1>4

LEMMA StoreChunkInner ==
  ASSUME Typed, NEW r \in Requests, StoreChunk(r)
  PROVE  Typed' /\ Inner(r)
<1>1. req[r].phase = "store" /\ ~AtRest(req[r]) /\ req[r] \in ChunkReqs /\ req[r].kind = "chunk"
  BY KindOf DEF StoreChunk, AtRest, ChunkReqs
<1>2. Inner(r) /\ Others(r)
  <2>1. CASE Answer(r)
    <3>1. Ends(r) /\ ~Completing(r) /\ UNCHANGED parts
      BY <1>1, <2>1, AnswerEnds DEF Completing, StoreChunk, Step, Answer, Done, Idle, Ends, Others
    <3> QED BY <1>1, <3>1, EndInner DEF StoreChunk, upload, files, blocks, hist
  <2>2. CASE Step(r, "drain")
    <3>1. MovesTo(r, "drain")
      BY <1>1, <2>2, StepMoves DEF ChunkPhases
    <3> QED BY <1>1, <3>1, MoveInner DEF StoreChunk, upload, files, blocks, hist
  <2> QED BY <2>1, <2>2 DEF StoreChunk
<1>3. holder' \in [Procs -> Requests \cup {Free}]
  BY UnlockedTyped DEF StoreChunk, Typed
<1>4. PartsTyped'
  <2>1. CASE UNCHANGED parts
    BY <2>1 DEF Typed, PartsTyped
  <2>2. CASE parts' = [i \in DOMAIN parts \cup {req[r].index} |->
                         IF i = req[r].index THEN req[r].data ELSE parts[i]]
    <3>1. req[r].index \in 0..(NParts - 1) /\ req[r].data \in Data
      BY <1>1 DEF ChunkReqs
    <3>2. DOMAIN parts' = DOMAIN parts \cup {req[r].index}
      BY <2>2
    <3>3. \A i \in DOMAIN parts' : parts'[i] \in Data
      BY <2>2, <3>1, <3>2 DEF Typed, PartsTyped
    <3>4. parts' = [i \in DOMAIN parts' |-> parts'[i]]
      BY <2>2, <3>2
    <3>5. parts' \in [DOMAIN parts' -> Data]
      BY <3>3, <3>4
    <3>6. DOMAIN parts' \subseteq 0..(NParts - 1)
      BY <3>1, <3>2 DEF Typed, PartsTyped
    <3> QED BY <3>5, <3>6 DEF PartsTyped
  <2> QED BY <2>1, <2>2 DEF StoreChunk
<1>5. Typed'
  BY <1>2, <1>3, <1>4 DEF StoreChunk, Typed, Others, upload, files, blocks, hist
<1> QED BY <1>2, <1>5

LEMMA ReadClaimedInner ==
  ASSUME Typed, NEW r \in Requests, ReadClaimed(r)
  PROVE  Typed' /\ Inner(r)
<1>1. req[r].phase = "claimed" /\ ~AtRest(req[r]) /\ req[r] \in CompleteReqs /\ Step(r, "lock")
  BY KindOf DEF ReadClaimed, AtRest, CompletePhases, Claimed
<1>2. MovesTo(r, "lock")
  BY <1>1, StepMoves DEF CompletePhases, Claimed
<1>3. Inner(r) /\ Others(r)
  BY <1>1, <1>2, MoveInner DEF ReadClaimed, Claimed, upload, files, blocks, hist
<1>4. Typed'
  BY <1>3 DEF ReadClaimed, Typed, PartsTyped, Others, upload, files, blocks, hist
<1> QED BY <1>3, <1>4

LEMMA RereadInner ==
  ASSUME Typed, NEW r \in Requests, Reread(r)
  PROVE  Typed' /\ Inner(r)
<1>1. /\ req[r].phase = "reread" /\ ~AtRest(req[r]) /\ req[r] \in CompleteReqs /\ ~Completing(r)
      /\ UNCHANGED <<upload, files, blocks, holder, tasks, returned, charges, faults, hist>>
  BY KindOf DEF Reread, AtRest, CompletePhases, Claimed, Completing
<1>2. Inner(r) /\ Others(r)
  <2>1. CASE status = "MIGRATING"
    <3>1. Step(r, "resolve")
      BY <2>1 DEF Reread
    <3>2. MovesTo(r, "resolve")
      BY <1>1, <3>1, StepMoves DEF CompletePhases, Claimed
    <3>3. ~Completing(r)'
      BY <3>2 DEF Completing, Claimed, MovesTo
    <3> QED BY <1>1, <2>1, <3>2, <3>3 DEF Inner, Settled, MovesTo, AtRest, upload, files, blocks, hist
  <2>2. CASE status = "PENDING"
    <3>1. Step(r, "claimAgain")
      BY <2>2 DEF Reread
    <3>2. MovesTo(r, "claimAgain")
      BY <1>1, <3>1, StepMoves DEF CompletePhases, Claimed
    <3> QED BY <1>1, <3>2, MoveInner DEF Claimed, upload, files, blocks, hist
  <2>3. CASE status \notin {"MIGRATING", "PENDING"}
    <3>1. Answer(r)
      BY <2>3 DEF Reread
    <3> QED BY <1>1, <3>1, AnswerEnds, EndInner DEF upload, files, blocks, hist
  <2> QED BY <2>1, <2>2, <2>3
<1>3. Typed'
  BY <1>1, <1>2 DEF Typed, PartsTyped, Others, upload, files, blocks, hist
<1> QED BY <1>2, <1>3

LEMMA AbortAgeInner ==
  ASSUME Typed, NEW r \in Requests, AbortAge(r)
  PROVE  Typed' /\ Inner(r)
<1>1. /\ req[r].phase = "age" /\ ~AtRest(req[r]) /\ req[r] \in AbortReqs /\ req[r].kind = "abort"
      /\ ~Completing(r)
      /\ UNCHANGED <<upload, files, blocks, holder, tasks, returned, charges, faults, hist>>
  BY KindOf DEF AbortAge, AtRest, AbortPhases, AbortReqs, Completing
<1>2. Inner(r) /\ Others(r)
  <2>1. CASE Step(r, "blocks")
    <3>1. MovesTo(r, "blocks")
      BY <1>1, <2>1, StepMoves DEF AbortPhases
    <3> QED BY <1>1, <3>1, MoveInner DEF upload, files, blocks, hist
  <2>2. CASE Answer(r)
    BY <1>1, <2>2, AnswerEnds, EndInner DEF upload, files, blocks, hist
  <2> QED BY <2>1, <2>2 DEF AbortAge
<1>3. Typed'
  BY <1>1, <1>2 DEF Typed, PartsTyped, Others, upload, files, blocks, hist
<1> QED BY <1>2, <1>3

LEMMA CheckRootInner ==
  ASSUME Typed, NEW r \in Requests, CheckRoot(r)
  PROVE  Typed' /\ Inner(r)
<1>1. /\ req[r].phase = "check" /\ ~AtRest(req[r]) /\ req[r] \in CompleteReqs /\ Completing(r)
      /\ UNCHANGED <<upload, files, blocks, holder, tasks, returned, charges, faults, hist>>
  BY KindOf DEF CheckRoot, AtRest, CompletePhases, CompleteReqs, Claimed, Completing
<1>2. Inner(r) /\ Others(r)
  <2>1. CASE Live /\ roots = {}
    <3> DEFINE x == [req[r] EXCEPT !.phase = IF pending = <<>> THEN "derive" ELSE "flush",
                                   !.left = pending, !.next = processed]
    <3>1. req' = [req EXCEPT ![r] = x]
      BY <2>1 DEF CheckRoot
    <3>2. x \in CompleteReqs /\ x.phase \in {"derive", "flush"} /\ x.kind = "complete"
      BY <1>1 DEF Typed, CompleteReqs, CompletePhases, Claimed
    <3> HIDE DEF x
    <3>3. Others(r) /\ req'[r] = x
      BY <3>1, <3>2, OneChanges DEF ReqTypes
    <3>4. Completing(r)' /\ req[r].kind = "complete"
      BY <1>1, <3>2, <3>3 DEF Completing, Claimed
    <3> QED BY <1>1, <2>1, <3>2, <3>3, <3>4 DEF Inner, AtRest, upload, files, blocks, hist
  <2>2. CASE ~(Live /\ roots = {}) /\ Live /\ Cardinality(roots) = 1 /\ \A n \in roots : n.size = storedSize
    <3> DEFINE x == [req[r] EXCEPT !.phase = "charge", !.root = roots]
    <3>1. req' = [req EXCEPT ![r] = x]
      BY <2>2 DEF CheckRoot
    <3>r. roots \in FiniteRoots
      BY DEF Typed, FiniteRoots
    <3>2. x \in CompleteReqs /\ x.phase = "charge" /\ x.kind = "complete" /\ x.root = roots
      BY <1>1, <3>r DEF CompleteReqs, CompletePhases, Claimed
    <3> HIDE DEF x
    <3>3. Others(r) /\ req'[r] = x
      BY <3>1, <3>2, OneChanges DEF ReqTypes
    <3>4. Completing(r)' /\ req[r].kind = "complete"
      BY <1>1, <3>2, <3>3 DEF Completing, Claimed
    <3> QED BY <1>1, <2>2, <3>2, <3>3, <3>4 DEF Inner, AtRest, upload, files, blocks, hist
  <2>3. CASE Throw(r)
    BY <1>1, <2>3, ThrowInner DEF upload, files, blocks, hist
  <2> QED BY <2>1, <2>2, <2>3 DEF CheckRoot
<1>3. Typed'
  BY <1>1, <1>2 DEF Typed, PartsTyped, Others, upload, files, blocks, hist
<1> QED BY <1>2, <1>3

LEMMA FlushTailInner ==
  ASSUME Typed, NEW r \in Requests, FlushTail(r)
  PROVE  Typed' /\ Inner(r)
<1>1. /\ req[r].phase = "flush" /\ ~AtRest(req[r]) /\ req[r] \in CompleteReqs /\ Completing(r)
      /\ UNCHANGED <<upload, files, roots, holder, tasks, returned, charges, faults, hist>>
  BY KindOf DEF FlushTail, AtRest, CompletePhases, CompleteReqs, Claimed, Completing
<1>2. Inner(r) /\ Others(r) /\ chunks' \in Seq(Seq(Data))
  <2>1. CASE Step(r, "clear") /\ chunks' = Append(chunks, req[r].left)
    <3>1. MovesTo(r, "clear")
      BY <1>1, <2>1, StepMoves DEF CompletePhases, Claimed
    <3>2. Completing(r)'
      BY <1>1, <3>1 DEF Completing, Claimed, MovesTo
    <3>3. req[r].left \in Seq(Data) /\ chunks \in Seq(Seq(Data))
      BY <1>1 DEF Typed, CompleteReqs
    <3>4. chunks' \in Seq(Seq(Data))
      BY <2>1, <3>3, AppendProperties
    <3> QED BY <1>1, <3>1, <3>2, <3>4 DEF Inner, MovesTo, AtRest, upload, files, blocks, hist
  <2>2. CASE Throw(r) /\ UNCHANGED chunks
    BY <1>1, <2>2, ThrowInner DEF Typed, upload, files, blocks, hist
  <2> QED BY <2>1, <2>2 DEF FlushTail
<1>3. Typed'
  BY <1>1, <1>2 DEF Typed, PartsTyped, Others, upload, files, blocks, hist
<1> QED BY <1>2, <1>3

LEMMA ClearTailInner ==
  ASSUME Typed, NEW r \in Requests, ClearTail(r)
  PROVE  Typed' /\ Inner(r)
<1>1. /\ req[r].phase = "clear" /\ ~AtRest(req[r]) /\ req[r] \in CompleteReqs /\ Completing(r)
      /\ UNCHANGED <<upload, parts, blocks, holder, tasks, returned, charges, faults, hist>>
      /\ Step(r, "derive")
  BY KindOf DEF ClearTail, AtRest, CompletePhases, CompleteReqs, Claimed, Completing
<1>2. MovesTo(r, "derive")
  BY <1>1, StepMoves DEF CompletePhases, Claimed
<1>3. Completing(r)'
  BY <1>1, <1>2 DEF Completing, Claimed, MovesTo
<1>4. Inner(r) /\ Others(r)
  BY <1>1, <1>2, <1>3 DEF Inner, MovesTo, AtRest, upload, files, blocks, hist
<1>5. processed' \in 0..NParts /\ pending' \in Seq(Data)
  <2>1. req[r].next \in 0..NParts /\ <<>> \in Seq(Data)
    BY <1>1, EmptySeq DEF CompleteReqs
  <2> QED BY <2>1 DEF ClearTail, Typed
<1>6. Typed'
  BY <1>1, <1>4, <1>5 DEF Typed, PartsTyped, Others, upload, files, blocks, hist
<1> QED BY <1>4, <1>6

LEMMA ClaimRefusedInner ==
  ASSUME Typed, NEW r \in Requests, Claim(r), ~Claimable
  PROVE  Typed' /\ Inner(r)
<1>1. /\ req[r].phase \in {"claim", "claimAgain"} /\ ~AtRest(req[r]) /\ req[r] \in CompleteReqs
      /\ ~Completing(r)
      /\ UNCHANGED <<upload, files, blocks, holder, tasks, returned, charges, faults, hist>>
  BY KindOf DEF Claim, AtRest, CompletePhases, Claimed, Completing, hist
<1>2. Inner(r) /\ Others(r)
  <2>1. CASE Step(r, "reread")
    <3>1. MovesTo(r, "reread")
      BY <1>1, <2>1, StepMoves DEF CompletePhases, Claimed
    <3> QED BY <1>1, <3>1, MoveInner DEF Claimed, upload, files, blocks, hist
  <2>2. CASE Answer(r)
    BY <1>1, <2>2, AnswerEnds, EndInner DEF upload, files, blocks, hist
  <2> QED BY <2>1, <2>2 DEF Claim
<1>3. Typed'
  BY <1>1, <1>2 DEF Typed, PartsTyped, Others, upload, files, blocks, hist
<1> QED BY <1>2, <1>3

(***************************************************************************)
(* The steps that change the row, the roots, the account or the claim      *)
(***************************************************************************)
LEMMA StoredSizeIsNat == Typed => storedSize \in Nat
<1> SUFFICES ASSUME Typed PROVE storedSize \in Nat
  OBVIOUS
<1>1. DOMAIN parts \subseteq 0..(NParts - 1) /\ 0 \in Int /\ NParts - 1 \in Int
  BY UploadsAssumption DEF Typed, PartsTyped
<1>2. IsFiniteSet(0..(NParts - 1))
  BY <1>1, FS_Interval
<1>3. IsFiniteSet(DOMAIN parts)
  BY <1>1, <1>2, FS_Subset
<1> QED BY <1>3, FS_CardinalityType DEF storedSize

LEMMA RootNodeIsRoot == Typed => RootNode \in Root
<1> SUFFICES ASSUME Typed PROVE RootNode \in Root
  OBVIOUS
<1>1. chunks \in Seq(Seq(Data)) /\ Len(chunks) \in Nat
  BY LenProperties DEF Typed
<1>2. Flatten[Len(chunks)] \in Seq(Data)
  <2>1. \A n \in 0..Len(chunks) : Flat(chunks)[n] \in Seq(Data)
    BY <1>1, FlatIsData
  <2>2. Len(chunks) \in 0..Len(chunks)
    BY <1>1
  <2> QED BY <2>1, <2>2, FlattenIsFlat, Zenon
<1> QED BY <1>2, StoredSizeIsNat DEF RootNode, Root

\* A claim is granted.
LEMMA ClaimGranted ==
  ASSUME Typed, NEW r \in Requests, Claim(r), Claimable
  PROVE  /\ Typed' /\ Others(r) /\ req[r] \in CompleteReqs /\ ~AtRest(req[r])
         /\ ~Completing(r) /\ Completing(r)' /\ req'[r].phase = "claimed" /\ req'[r].kind = "complete"
         /\ status' = "COMPLETING" /\ stale' = FALSE
         /\ takeovers' = takeovers + (IF status = "COMPLETING" THEN 1 ELSE 0)
         /\ UNCHANGED <<files, blocks, holder, tasks, returned, charges, faults,
                        recharges, stranded, torn, undercut>>
<1>1. /\ req[r].phase \in {"claim", "claimAgain"} /\ ~AtRest(req[r]) /\ req[r] \in CompleteReqs
      /\ ~Completing(r) /\ Step(r, "claimed")
      /\ status' = "COMPLETING" /\ stale' = FALSE
      /\ takeovers' = takeovers + (IF status = "COMPLETING" THEN 1 ELSE 0)
      /\ UNCHANGED <<files, blocks, holder, tasks, returned, charges, faults,
                     recharges, stranded, torn, undercut>>
  BY KindOf DEF Claim, AtRest, CompletePhases, Claimed, Completing
<1>2. MovesTo(r, "claimed")
  BY <1>1, StepMoves DEF CompletePhases, Claimed
<1>3. Others(r) /\ Completing(r)' /\ req'[r].phase = "claimed" /\ req'[r].kind = "complete"
  BY <1>1, <1>2 DEF Completing, Claimed, MovesTo, CompleteReqs
<1>4. takeovers' \in Nat
  BY <1>1 DEF Typed
<1>5. Typed'
  BY <1>1, <1>3, <1>4 DEF Typed, PartsTyped, Others, files, blocks
<1> QED BY <1>1, <1>3, <1>5

LEMMA ResolveStep ==
  ASSUME Typed, NEW r \in Requests, Resolve(r)
  PROVE  /\ Typed' /\ Others(r) /\ Ends(r) /\ req[r].phase = "resolve" /\ ~Completing(r) /\ ~Completing(r)'
         /\ IF Live /\ Cardinality(roots) = 1
            THEN returned' = returned \cup roots /\ tasks' \in {tasks, tasks + 1}
            ELSE UNCHANGED <<returned, tasks>>
         /\ UNCHANGED <<upload, files, blocks, holder, charges, faults, hist>>
<1>1. /\ req[r].phase = "resolve" /\ ~Completing(r) /\ Answer(r)
      /\ IF Live /\ Cardinality(roots) = 1
         THEN returned' = returned \cup roots /\ tasks' \in {tasks, tasks + 1}
         ELSE UNCHANGED <<returned, tasks>>
      /\ UNCHANGED <<upload, files, blocks, holder, charges, faults, hist>>
  BY DEF Resolve, Completing, Claimed
<1>2. Ends(r) /\ Others(r) /\ ~Completing(r)'
  BY <1>1, AnswerEnds DEF Ends, Completing, Claimed, Done
<1>3. returned' \subseteq Root /\ IsFiniteSet(returned')
  <2>1. IsFiniteSet(returned \cup roots) /\ returned \cup roots \subseteq Root
    BY FS_Union DEF Typed
  <2>2. returned' = returned \/ returned' = returned \cup roots
    BY <1>1
  <2> QED BY <2>1, <2>2 DEF Typed
<1>4. tasks' \in Nat
  BY <1>1 DEF Typed
<1>5. Typed'
  BY <1>1, <1>2, <1>3, <1>4 DEF Typed, PartsTyped, Others, upload, files, blocks, hist
<1> QED BY <1>1, <1>2, <1>5

LEMMA DeriveRootStep ==
  ASSUME Typed, NEW r \in Requests, DeriveRoot(r)
  PROVE  /\ Typed' /\ Others(r) /\ Completing(r) /\ Completing(r)' /\ req[r].phase = "derive"
         /\ ~AtRest(req[r]) /\ req'[r].kind = "complete" /\ RootNode \in Root
         /\ IF Live THEN /\ roots' = roots \cup {RootNode} /\ req'[r].phase = "charge"
                         /\ req'[r].root = {RootNode}
                         /\ chunks' = IF Len(chunks) = 1 THEN <<>> ELSE chunks
                    ELSE UNCHANGED blocks /\ req'[r].phase = "release"
         /\ UNCHANGED <<upload, files, holder, tasks, returned, charges, faults, hist>>
<1>1. /\ req[r].phase = "derive" /\ ~AtRest(req[r]) /\ req[r] \in CompleteReqs /\ Completing(r)
      /\ UNCHANGED <<upload, files, holder, tasks, returned, charges, faults, hist>>
  BY KindOf DEF DeriveRoot, AtRest, CompletePhases, CompleteReqs, Claimed, Completing
<1>2. RootNode \in Root
  BY RootNodeIsRoot
<1>3. CASE Live
  <2> DEFINE x == [req[r] EXCEPT !.phase = "charge", !.root = {RootNode}]
             n == RootNode
  <2>1. /\ req' = [req EXCEPT ![r] = x] /\ roots' = roots \cup {n}
        /\ chunks' = IF Len(chunks) = 1 THEN <<>> ELSE chunks
    BY <1>3 DEF DeriveRoot
  <2>2. n \in Root
    BY <1>2
  <2> HIDE DEF n
  <2>r. {n} \in FiniteRoots
    BY <2>2, FS_Singleton DEF FiniteRoots
  <2>3. x \in CompleteReqs /\ x.phase = "charge" /\ x.kind = "complete" /\ x.root = {n}
    BY <1>1, <2>r DEF CompleteReqs, CompletePhases, Claimed, n
  <2> HIDE DEF x
  <2>4. Others(r) /\ req'[r] = x
    BY <2>1, <2>3, OneChanges DEF ReqTypes
  <2>5. Completing(r)'
    BY <2>3, <2>4 DEF Completing, Claimed
  <2>6. roots' \subseteq Root /\ IsFiniteSet(roots')
    BY <2>1, <2>2, FS_AddElement DEF Typed
  <2>7. chunks' \in Seq(Seq(Data))
    BY <2>1, EmptySeq DEF Typed
  <2>8. Typed'
    BY <1>1, <2>4, <2>6, <2>7 DEF Typed, PartsTyped, Others, upload, files, blocks, hist
  <2> QED BY <1>1, <1>2, <1>3, <2>1, <2>3, <2>4, <2>5, <2>8 DEF n
<1>4. CASE ~Live
  <2>1. Throw(r) /\ UNCHANGED blocks
    BY <1>4 DEF DeriveRoot
  <2>2. MovesTo(r, "release")
    BY <1>1, <2>1, ThrowEnds
  <2>3. Others(r) /\ Completing(r)' /\ req'[r].phase = "release" /\ req'[r].kind = "complete"
    BY <1>1, <2>2 DEF MovesTo, Completing, Claimed
  <2>4. Typed'
    BY <1>1, <2>1, <2>3 DEF Typed, PartsTyped, Others, upload, files, blocks, hist
  <2> QED BY <1>1, <1>2, <1>4, <2>1, <2>3, <2>4
<1> QED BY <1>3, <1>4

LEMMA ChargeStep ==
  ASSUME Typed, NEW r \in Requests, Charge(r)
  PROVE  /\ Typed' /\ Others(r) /\ Completing(r) /\ Completing(r)' /\ req[r].phase = "charge"
         /\ ~AtRest(req[r]) /\ req'[r].kind = "complete" /\ req'[r].root = req[r].root
         /\ \/ Live /\ Cardinality(roots) = 1 /\ charges' = charges + 1 /\ req'[r].phase = "finalize"
            \/ charges' = charges /\ req'[r].phase = "release"
         /\ UNCHANGED <<upload, files, blocks, holder, tasks, returned, faults, hist>>
<1>1. /\ req[r].phase = "charge" /\ ~AtRest(req[r]) /\ req[r] \in CompleteReqs /\ Completing(r)
      /\ UNCHANGED <<upload, files, blocks, holder, tasks, returned, faults, hist>>
  BY KindOf DEF Charge, AtRest, CompletePhases, CompleteReqs, Claimed, Completing
<1>2. CASE Live /\ Cardinality(roots) = 1 /\ charges' = charges + 1 /\ Step(r, "finalize")
  <2>1. MovesTo(r, "finalize") /\ req'[r].root = req[r].root
    BY <1>1, <1>2, StepMoves DEF CompletePhases, Claimed
  <2>2. Others(r) /\ Completing(r)' /\ req'[r].phase = "finalize" /\ req'[r].kind = "complete"
    BY <1>1, <2>1 DEF MovesTo, Completing, Claimed
  <2>3. Typed'
    BY <1>1, <1>2, <2>2 DEF Typed, PartsTyped, Others, upload, files, blocks, hist
  <2> QED BY <1>1, <1>2, <2>1, <2>2, <2>3
<1>3. CASE Throw(r) /\ UNCHANGED charges
  <2>1. MovesTo(r, "release") /\ req'[r].root = req[r].root
    BY <1>1, <1>3, ThrowEnds
  <2>2. Others(r) /\ Completing(r)' /\ req'[r].phase = "release" /\ req'[r].kind = "complete"
    BY <1>1, <2>1 DEF MovesTo, Completing, Claimed
  <2>3. Typed'
    BY <1>1, <1>3, <2>2 DEF Typed, PartsTyped, Others, upload, files, blocks, hist
  <2> QED BY <1>1, <1>3, <2>1, <2>2, <2>3
<1> QED BY <1>2, <1>3 DEF Charge

LEMMA FaultTyped == Typed /\ Fault => faults' \in 0..MaxFaults
BY UploadsAssumption DEF Typed, Fault

LEMMA FinalizeStep ==
  ASSUME Typed, NEW r \in Requests, Finalize(r)
  PROVE  /\ Typed' /\ Ends(r) /\ Completing(r) /\ ~Completing(r)' /\ req[r].phase = "finalize"
         /\ ~AtRest(req[r])
         /\ IF Live THEN status' = "MIGRATING" /\ stale' = FALSE ELSE UNCHANGED upload
         /\ tasks' \in {tasks, tasks + 1} /\ returned' = returned \cup req[r].root
         /\ UNCHANGED <<files, blocks, holder, charges, hist>>
<1>1. /\ req[r].phase = "finalize" /\ ~AtRest(req[r]) /\ req[r] \in CompleteReqs /\ Completing(r)
      /\ IF Live THEN status' = "MIGRATING" /\ stale' = FALSE ELSE UNCHANGED upload
      /\ tasks' \in {tasks, tasks + 1} /\ returned' = returned \cup req[r].root
      /\ UNCHANGED <<files, blocks, holder, charges, hist>>
      /\ Answer(r)
  BY KindOf DEF Finalize, AtRest, CompletePhases, CompleteReqs, Claimed, Completing
<1>2. Ends(r) /\ Others(r) /\ ~Completing(r)'
  BY <1>1, AnswerEnds DEF Ends, Completing, Claimed, Done
<1>3. faults' \in 0..MaxFaults
  BY FaultTyped DEF Finalize, Typed
<1>4. status' \in {"PENDING", "COMPLETING", "MIGRATING", "FAILED", "GONE"} /\ stale' \in BOOLEAN
  BY <1>1 DEF Typed, upload
<1>5. tasks' \in Nat
  BY <1>1 DEF Typed
<1>6. returned' \subseteq Root /\ IsFiniteSet(returned')
  <2>1. req[r].root \subseteq Root /\ IsFiniteSet(req[r].root)
    BY <1>1 DEF CompleteReqs, FiniteRoots
  <2>2. returned \subseteq Root /\ IsFiniteSet(returned)
    BY DEF Typed
  <2> QED BY <1>1, <2>1, <2>2, FS_Union
<1>7. Typed'
  BY <1>1, <1>2, <1>3, <1>4, <1>5, <1>6 DEF Typed, PartsTyped, Others, files, blocks, hist
<1> QED BY <1>1, <1>2, <1>7

LEMMA ReleaseStep ==
  ASSUME Typed, NEW r \in Requests, Release(r)
  PROVE  /\ Typed' /\ Ends(r) /\ Completing(r) /\ ~Completing(r)' /\ req[r].phase = "release"
         /\ ~AtRest(req[r])
         /\ \/ /\ IF status = "COMPLETING" THEN status' = "PENDING" /\ stale' = FALSE ELSE UNCHANGED upload
               /\ UNCHANGED stranded
            \/ UNCHANGED upload /\ stranded' = stranded + 1
         /\ UNCHANGED <<files, blocks, holder, tasks, returned, charges, takeovers, recharges, torn, undercut>>
<1>1. CASE req[r].phase = "release" /\ req[r].kind # "complete"
  <2>1. req[r] \in CompleteReqs
    BY <1>1, KindOf DEF CompletePhases, Claimed
  <2> QED BY <1>1, <2>1 DEF CompleteReqs
<1>2. /\ req[r].phase = "release" /\ ~AtRest(req[r]) /\ Answer(r)
      /\ \/ /\ IF status = "COMPLETING" THEN status' = "PENDING" /\ stale' = FALSE ELSE UNCHANGED upload
            /\ UNCHANGED stranded
         \/ UNCHANGED upload /\ stranded' = stranded + 1
      /\ UNCHANGED <<files, blocks, holder, tasks, returned, charges, takeovers, recharges, torn, undercut>>
  BY DEF Release, AtRest
<1>3. Completing(r)
  BY <1>1, <1>2 DEF Completing, Claimed
<1>4. Ends(r) /\ Others(r) /\ ~Completing(r)'
  BY <1>2, AnswerEnds DEF Ends, Completing, Claimed, Done
<1>5. faults' \in 0..MaxFaults
  BY FaultTyped DEF Release, Typed
<1>6. status' \in {"PENDING", "COMPLETING", "MIGRATING", "FAILED", "GONE"} /\ stale' \in BOOLEAN
      /\ stranded' \in Nat
  <2>1. status' = status \/ status' = "PENDING"
    BY <1>2 DEF upload
  <2>2. stale' = stale \/ stale' = FALSE
    BY <1>2 DEF upload
  <2>3. stranded' = stranded \/ stranded' = stranded + 1
    BY <1>2
  <2>4. status' \in {"PENDING", "COMPLETING", "MIGRATING", "FAILED", "GONE"}
    BY <2>1 DEF Typed
  <2>5. stale' \in BOOLEAN
    BY <2>2 DEF Typed
  <2>6. stranded' \in Nat
    BY <2>3 DEF Typed
  <2> QED BY <2>4, <2>5, <2>6
<1>7. Typed'
  BY <1>2, <1>4, <1>5, <1>6 DEF Typed, PartsTyped, Others, files, blocks
<1> QED BY <1>2, <1>3, <1>4, <1>7

LEMMA DeleteBlocksStep ==
  ASSUME Typed, NEW r \in Requests, DeleteBlocks(r)
  PROVE  /\ Typed' /\ Others(r) /\ ~Completing(r) /\ ~Completing(r)'
         /\ ~AtRest(req[r]) /\ req'[r].kind = req[r].kind /\ req'[r].kind = "abort"
         /\ req[r].phase = "blocks" /\ req'[r].phase = "rows"
         /\ chunks' = <<>> /\ roots' = {}
         /\ undercut' = (undercut \/ (roots # {} /\ \E s \in Requests : Completing(s)))
         /\ UNCHANGED <<upload, files, holder, tasks, returned, charges, faults,
                        takeovers, recharges, stranded, torn>>
<1>1. /\ req[r].phase = "blocks" /\ ~AtRest(req[r]) /\ req[r] \in AbortReqs /\ req[r].kind = "abort"
      /\ ~Completing(r) /\ Step(r, "rows")
      /\ chunks' = <<>> /\ roots' = {}
      /\ undercut' = (undercut \/ (roots # {} /\ \E s \in Requests : Completing(s)))
      /\ UNCHANGED <<upload, files, holder, tasks, returned, charges, faults,
                     takeovers, recharges, stranded, torn>>
  BY KindOf DEF DeleteBlocks, AtRest, AbortPhases, AbortReqs, Completing
<1>2. MovesTo(r, "rows")
  BY <1>1, StepMoves DEF AbortPhases
<1>3. Others(r) /\ ~Completing(r)' /\ req'[r].kind = req[r].kind /\ req'[r].phase = "rows"
  BY <1>1, <1>2 DEF MovesTo, Completing
<1>4. chunks' \in Seq(Seq(Data)) /\ roots' \subseteq Root /\ IsFiniteSet(roots')
  BY <1>1, EmptySeq, FS_EmptySet
<1>5. undercut' \in BOOLEAN
  BY <1>1 DEF Typed
<1>6. Typed'
  BY <1>1, <1>3, <1>4, <1>5 DEF Typed, PartsTyped, Others, upload, files
<1> QED BY <1>1, <1>3, <1>6

\* The row goes, and everything that hangs on it.
LEMMA RemoveRowTyped ==
  ASSUME RemoveRow
  PROVE  /\ PartsTyped' /\ processed' \in 0..NParts /\ pending' \in Seq(Data)
         /\ chunks' \in Seq(Seq(Data)) /\ roots' = {} /\ IsFiniteSet(roots')
         /\ status' = "GONE" /\ stale' = FALSE
<1>1. parts' = <<>> /\ DOMAIN <<>> = {}
  BY DEF RemoveRow
<1>2. parts' \in [{} -> Data]
  BY <1>1
<1>3. PartsTyped'
  BY <1>1, <1>2 DEF PartsTyped
<1>4. 0 \in 0..NParts
  BY UploadsAssumption
<1> QED BY <1>3, <1>4, EmptySeq, FS_EmptySet DEF RemoveRow

LEMMA DeleteRowsStep ==
  ASSUME Typed, NEW r \in Requests, DeleteRows(r)
  PROVE  /\ Typed' /\ Ends(r) /\ ~Completing(r) /\ ~Completing(r)'
         /\ ~AtRest(req[r]) /\ req[r].phase = "rows"
         /\ RemoveRow /\ UNCHANGED <<holder, tasks, returned, charges, faults, hist>>
<1>1. /\ req[r].phase = "rows" /\ ~AtRest(req[r]) /\ ~Completing(r) /\ Answer(r)
      /\ RemoveRow /\ UNCHANGED <<holder, tasks, returned, charges, faults, hist>>
  BY DEF DeleteRows, AtRest, Completing, Claimed
<1>2. Ends(r) /\ Others(r) /\ ~Completing(r)'
  BY <1>1, AnswerEnds DEF Ends, Completing, Claimed, Done
<1>3. Typed'
  BY <1>1, <1>2, RemoveRowTyped DEF Typed, Others, hist
<1> QED BY <1>1, <1>2, <1>3

LEMMA GoesStaleStep ==
  ASSUME Typed, GoesStale
  PROVE  /\ Typed' /\ status \in {"COMPLETING", "MIGRATING"} /\ stale' = TRUE
         /\ status = "COMPLETING" => Slow \/ ~\E r \in Requests : Completing(r)
         /\ UNCHANGED <<status, files, blocks, holder, req, tasks, returned, charges, faults, hist>>
<1>1. /\ status \in {"COMPLETING", "MIGRATING"} /\ stale' = TRUE
      /\ status = "COMPLETING" => Slow \/ ~\E r \in Requests : Completing(r)
      /\ UNCHANGED <<status, files, blocks, holder, req, tasks, returned, charges, faults, hist>>
  BY DEF GoesStale
<1>2. Typed'
  BY <1>1 DEF Typed, PartsTyped, files, blocks, hist
<1> QED BY <1>1, <1>2

LEMMA MigrateStep ==
  ASSUME Typed, Migrate
  PROVE  /\ Typed' /\ tasks \in Nat \ {0} /\ tasks' = tasks - 1
         /\ \/ Cardinality(roots) = 1 /\ RemoveRow
            \/ /\ Cardinality(roots) # 1 /\ status' = IF Live THEN "FAILED" ELSE status
               /\ UNCHANGED <<stale, files, blocks>>
         /\ UNCHANGED <<holder, req, returned, charges, faults, hist>>
<1>1. /\ tasks \in Nat \ {0} /\ tasks' = tasks - 1 /\ tasks' \in Nat
      /\ UNCHANGED <<holder, req, returned, charges, faults, hist>>
  BY DEF Migrate, Typed
<1>2. CASE Cardinality(roots) = 1 /\ RemoveRow
  <2>1. Typed'
    BY <1>1, <1>2, RemoveRowTyped DEF Typed, hist
  <2> QED BY <1>1, <1>2, <2>1
<1>3. CASE /\ Cardinality(roots) # 1 /\ status' = IF Live THEN "FAILED" ELSE status
           /\ UNCHANGED <<stale, files, blocks>>
  <2>1. status' \in {"PENDING", "COMPLETING", "MIGRATING", "FAILED", "GONE"}
    BY <1>3 DEF Typed
  <2>2. Typed'
    BY <1>1, <1>3, <2>1 DEF Typed, PartsTyped, files, blocks, hist
  <2> QED BY <1>1, <1>3, <2>2
<1> QED BY <1>2, <1>3 DEF Migrate

LEMMA FailStep ==
  ASSUME Typed, NEW r \in Requests, Fail(r)
  PROVE  /\ Typed' /\ Others(r) /\ ~AtRest(req[r]) /\ req[r].phase \notin {"lock", "release"}
         /\ \/ /\ Completing(r) /\ req[r].phase # "claimed"
               /\ MovesTo(r, "release") /\ Completing(r)'
            \/ (~Completing(r) \/ req[r].phase = "claimed") /\ Ends(r) /\ ~Completing(r)'
         /\ holder' = Unlocked(r)
         /\ recharges' = recharges + (IF req[r].phase = "finalize" THEN 1 ELSE 0)
         /\ torn' = torn + (IF HalfDone(r) THEN 1 ELSE 0)
         /\ stranded' = stranded + (IF req[r].phase = "claimed" THEN 1 ELSE 0)
         /\ UNCHANGED <<upload, files, blocks, tasks, returned, charges, takeovers, undercut>>
<1>1. /\ ~AtRest(req[r]) /\ req[r].phase \notin {"lock", "release"} /\ Throw(r)
      /\ holder' = Unlocked(r)
      /\ recharges' = recharges + (IF req[r].phase = "finalize" THEN 1 ELSE 0)
      /\ torn' = torn + (IF HalfDone(r) THEN 1 ELSE 0)
      /\ stranded' = stranded + (IF req[r].phase = "claimed" THEN 1 ELSE 0)
      /\ UNCHANGED <<upload, files, blocks, tasks, returned, charges, takeovers, undercut>>
  BY DEF Fail, AtRest
<1>2. /\ Others(r)
      /\ \/ /\ Completing(r) /\ req[r].phase # "claimed"
            /\ MovesTo(r, "release") /\ Completing(r)'
         \/ (~Completing(r) \/ req[r].phase = "claimed") /\ Ends(r) /\ ~Completing(r)'
  <2>1. CASE Completing(r) /\ req[r].phase # "claimed" /\ MovesTo(r, "release")
    <3>1. Completing(r)'
      BY <2>1 DEF Completing, Claimed, MovesTo
    <3> QED BY <2>1, <3>1 DEF MovesTo
  <2>2. CASE (~Completing(r) \/ req[r].phase = "claimed") /\ Ends(r)
    <3>1. ~Completing(r)'
      BY <2>2 DEF Completing, Claimed, Ends, Done
    <3> QED BY <2>2, <3>1 DEF Ends
  <2> QED BY <1>1, <2>1, <2>2, ThrowEnds
<1>3. holder' \in [Procs -> Requests \cup {Free}]
  BY <1>1, UnlockedTyped
<1>4. faults' \in 0..MaxFaults
  BY FaultTyped DEF Fail
<1>5. recharges' \in Nat /\ torn' \in Nat /\ stranded' \in Nat
  <2>1. recharges \in Nat /\ torn \in Nat /\ stranded \in Nat
    BY DEF Typed
  <2>2. recharges' \in {recharges, recharges + 1} /\ torn' \in {torn, torn + 1}
        /\ stranded' \in {stranded, stranded + 1}
    BY <1>1, <2>1
  <2> QED BY <2>1, <2>2
<1>6. Typed'
  BY <1>1, <1>2, <1>3, <1>4, <1>5 DEF Typed, PartsTyped, Others, upload, files, blocks
<1> QED BY <1>1, <1>2, <1>6

\* A set of requests is finite.
LEMMA FewRequests ==
  ASSUME NEW S \in SUBSET Requests
  PROVE  IsFiniteSet(S) /\ Cardinality(S) \in Nat
BY UploadsAssumption, FS_Subset, FS_CardinalityType

LEMMA CrashStep ==
  ASSUME Typed, NEW p \in Procs, Crash(p)
  PROVE  /\ Typed'
         /\ \A r \in Requests : req'[r] = IF r \in Of(p) THEN Done ELSE req[r]
         /\ holder' = [holder EXCEPT ![p] = Free]
         /\ recharges' = recharges + Cardinality({r \in Of(p) : req[r].phase = "finalize"})
         /\ stranded' = stranded + Cardinality({r \in Of(p) : Completing(r)})
         /\ torn' = torn + Cardinality({r \in Of(p) : HalfDone(r)})
         /\ Cardinality({r \in Of(p) : req[r].phase = "finalize"}) \in Nat
         /\ Cardinality({r \in Of(p) : Completing(r)}) \in Nat
         /\ Cardinality({r \in Of(p) : HalfDone(r)}) \in Nat
         /\ UNCHANGED <<upload, files, blocks, tasks, returned, charges, takeovers, undercut>>
<1> DEFINE A == {r \in Of(p) : req[r].phase = "finalize"}
           B == {r \in Of(p) : Completing(r)}
           C == {r \in Of(p) : HalfDone(r)}
<1>1. /\ req' = [r \in Requests |-> IF r \in Of(p) THEN Done ELSE req[r]]
      /\ holder' = [holder EXCEPT ![p] = Free]
      /\ recharges' = recharges + Cardinality(A)
      /\ stranded' = stranded + Cardinality(B)
      /\ torn' = torn + Cardinality(C)
      /\ UNCHANGED <<upload, files, blocks, tasks, returned, charges, takeovers, undercut>>
  BY DEF Crash
<1>2. A \in SUBSET Requests /\ B \in SUBSET Requests /\ C \in SUBSET Requests
  BY DEF Of
<1> HIDE DEF A, B, C
<1>3. Cardinality(A) \in Nat /\ Cardinality(B) \in Nat /\ Cardinality(C) \in Nat
  BY <1>2, FewRequests
<1>4. recharges' \in Nat /\ stranded' \in Nat /\ torn' \in Nat
  <2>1. recharges \in Nat /\ torn \in Nat /\ stranded \in Nat
    BY DEF Typed
  <2> QED BY <1>1, <1>3, <2>1
<1>5. req' \in [Requests -> ReqTypes]
  <2>1. \A r \in Requests : Done \in ReqTypes /\ req[r] \in ReqTypes
    BY DEF Typed, ReqTypes
  <2> QED BY <1>1, <2>1
<1>6. holder' \in [Procs -> Requests \cup {Free}]
  BY <1>1 DEF Typed
<1>7. faults' \in 0..MaxFaults
  BY FaultTyped DEF Crash
<1>8. Typed'
  BY <1>1, <1>4, <1>5, <1>6, <1>7 DEF Typed, PartsTyped, upload, files, blocks
<1> QED BY <1>1, <1>3, <1>8 DEF A, B, C

(***************************************************************************)
(* Every step is one of these                                              *)
(***************************************************************************)
Outer(r) ==
  \/ Claim(r) /\ Claimable
  \/ Resolve(r) \/ DeriveRoot(r) \/ Charge(r) \/ Finalize(r) \/ Release(r)
  \/ DeleteBlocks(r) \/ DeleteRows(r) \/ Fail(r)

LEMMA ProceedSteps ==
  ASSUME Typed, NEW r \in Requests, Proceed(r)
  PROVE  Typed' /\ (Inner(r) \/ Outer(r))
<1>1. CASE AcquireLock(r)
  BY <1>1, AcquireLockInner
<1>2. CASE PutChunks(r)
  BY <1>2, PutChunksInner
<1>3. CASE SetCursor(r)
  BY <1>3, SetCursorInner
<1>4. CASE DrainDone(r)
  BY <1>4, DrainDoneInner
<1>5. CASE GuardChunk(r)
  BY <1>5, GuardChunkInner
<1>6. CASE StoreChunk(r)
  BY <1>6, StoreChunkInner
<1>7. CASE Claim(r)
  BY <1>7, ClaimRefusedInner, ClaimGranted DEF Outer
<1>8. CASE ReadClaimed(r)
  BY <1>8, ReadClaimedInner
<1>9. CASE Reread(r)
  BY <1>9, RereadInner
<1>10. CASE Resolve(r)
  BY <1>10, ResolveStep DEF Outer
<1>11. CASE CheckRoot(r)
  BY <1>11, CheckRootInner
<1>12. CASE FlushTail(r)
  BY <1>12, FlushTailInner
<1>13. CASE ClearTail(r)
  BY <1>13, ClearTailInner
<1>14. CASE DeriveRoot(r)
  BY <1>14, DeriveRootStep DEF Outer
<1>15. CASE Charge(r)
  BY <1>15, ChargeStep DEF Outer
<1>16. CASE Finalize(r)
  BY <1>16, FinalizeStep DEF Outer
<1>17. CASE Release(r)
  BY <1>17, ReleaseStep DEF Outer
<1>18. CASE AbortAge(r)
  BY <1>18, AbortAgeInner
<1>19. CASE DeleteBlocks(r)
  BY <1>19, DeleteBlocksStep DEF Outer
<1>20. CASE DeleteRows(r)
  BY <1>20, DeleteRowsStep DEF Outer
<1> QED
  BY <1>1, <1>2, <1>3, <1>4, <1>5, <1>6, <1>7, <1>8, <1>9, <1>10, <1>11, <1>12, <1>13, <1>14,
     <1>15, <1>16, <1>17, <1>18, <1>19, <1>20 DEF Proceed

LEMMA ArriveSteps ==
  ASSUME Typed, NEW r \in Requests, NEW p \in Procs, Arrive(r, p)
  PROVE  Typed' /\ Inner(r)
BY ChunkReadInner, CompleteReadInner, AbortReadInner DEF Arrive

LEMMA Steps ==
  ASSUME Typed, [Next]_vars
  PROVE  /\ Typed'
         /\ \/ \E r \in Requests : Inner(r) \/ Outer(r)
            \/ \E p \in Procs : Crash(p)
            \/ GoesStale \/ Migrate \/ UNCHANGED vars
<1>1. CASE \E r \in Requests, p \in Procs : Arrive(r, p)
  BY <1>1, ArriveSteps
<1>2. CASE \E r \in Requests : Proceed(r)
  BY <1>2, ProceedSteps
<1>3. CASE \E r \in Requests : Fail(r)
  BY <1>3, FailStep DEF Outer
<1>4. CASE \E p \in Procs : Crash(p)
  BY <1>4, CrashStep
<1>5. CASE GoesStale
  BY <1>5, GoesStaleStep
<1>6. CASE Migrate
  BY <1>6, MigrateStep
<1>7. CASE UNCHANGED vars
  BY <1>7 DEF vars, upload, files, blocks, hist, Typed, PartsTyped
<1> QED BY <1>1, <1>2, <1>3, <1>4, <1>5, <1>6, <1>7 DEF Next

LEMMA TypedInit == Init => Typed
<1> SUFFICES ASSUME Init PROVE Typed
  OBVIOUS
<1>1. PartsTyped
  <2>1. parts = <<>> /\ DOMAIN <<>> = {}
    BY DEF Init
  <2>2. parts \in [{} -> Data]
    BY <2>1
  <2> QED BY <2>1, <2>2 DEF PartsTyped
<1>2. 0 \in 0..NParts /\ 0 \in 0..MaxFaults
  BY UploadsAssumption
<1>3. req \in [Requests -> ReqTypes]
  BY DEF Init, ReqTypes
<1>4. holder \in [Procs -> Requests \cup {Free}]
  BY DEF Init
<1>5. pending \in Seq(Data) /\ chunks \in Seq(Seq(Data))
  BY EmptySeq DEF Init
<1>6. IsFiniteSet(roots) /\ IsFiniteSet(returned) /\ roots \subseteq Root /\ returned \subseteq Root
  BY FS_EmptySet DEF Init
<1> QED BY <1>1, <1>2, <1>3, <1>4, <1>5, <1>6 DEF Init, Typed

\* Every variable has its type in every reachable state (TypeOK), however
\* calls overlap, fail and crash.
THEOREM TypeCorrect == Spec => []TypeOK
<1>1. Typed /\ [Next]_vars => Typed'
  BY Steps
<1>2. Spec => []Typed
  BY TypedInit, <1>1, PTL DEF Spec
<1> QED BY <1>2, TypedGivesTypeOK, PTL

(***************************************************************************)
(* What is charged                                                         *)
(***************************************************************************)
\* The claims that may still lead to a charge, counting the one that a
\* pending row has to give.
Uncharged == {r \in Requests : Completing(r) /\ req[r].phase # "finalize"}
Open      == IF status = "PENDING" THEN 1 ELSE 0

ClaimsCounted == charges + Cardinality(Uncharged) + Open <= 1 + (recharges + takeovers)

LEMMA UnchargedChange ==
  ASSUME Typed, NEW r \in Requests, Others(r)
  PROVE  /\ Cardinality(Uncharged) \in Nat /\ Cardinality(Uncharged') \in Nat
         /\ (r \in Uncharged <=> (r \in Uncharged)') => Cardinality(Uncharged') = Cardinality(Uncharged)
         /\ r \in Uncharged /\ ~(r \in Uncharged)' => Cardinality(Uncharged') = Cardinality(Uncharged) - 1
         /\ r \notin Uncharged /\ (r \in Uncharged)' => Cardinality(Uncharged') = Cardinality(Uncharged) + 1
<1>1. \A s \in Requests : s # r => ((s \in Uncharged)' <=> s \in Uncharged)
  BY DEF Others, Uncharged, Completing
<1>2. Uncharged \in SUBSET Requests /\ Uncharged' \in SUBSET Requests
  BY DEF Uncharged
<1>3. /\ IsFiniteSet(Uncharged) /\ Cardinality(Uncharged) \in Nat
      /\ Cardinality(Uncharged') \in Nat
  BY <1>2, FewRequests
<1>4. ASSUME r \in Uncharged <=> (r \in Uncharged)' PROVE Uncharged' = Uncharged
  BY <1>1, <1>2, <1>4
<1>5. ASSUME r \in Uncharged, ~(r \in Uncharged)' PROVE Uncharged' = Uncharged \ {r}
  BY <1>1, <1>2, <1>5
<1>6. ASSUME r \notin Uncharged, (r \in Uncharged)' PROVE Uncharged' = Uncharged \cup {r}
  BY <1>1, <1>2, <1>6
<1> QED BY <1>3, <1>4, <1>5, <1>6, FS_AddElement, FS_RemoveElement

LEMMA UnchargedIs ==
  ASSUME NEW r \in Requests
  PROVE  /\ r \in Uncharged <=> Completing(r) /\ req[r].phase # "finalize"
         /\ (r \in Uncharged)' <=> Completing(r)' /\ req'[r].phase # "finalize"
BY DEF Uncharged

LEMMA CountedStep ==
  ASSUME Typed, ClaimsCounted, [Next]_vars
  PROVE  ClaimsCounted'
<1>0. Typed'
  BY Steps
<1>a. Cardinality(Uncharged) \in Nat /\ Cardinality(Uncharged') \in Nat /\ IsFiniteSet(Uncharged)
  <2>1. Uncharged \in SUBSET Requests /\ Uncharged' \in SUBSET Requests
    BY DEF Uncharged
  <2> QED BY <2>1, FewRequests
<1>p. PICK c \in Nat, d \in Nat, e \in Nat, f \in Nat, a \in Nat, b \in Nat, o \in Nat, q \in Nat :
        /\ c = charges /\ d = charges' /\ e = recharges + takeovers /\ f = recharges' + takeovers'
        /\ a = Cardinality(Uncharged) /\ b = Cardinality(Uncharged') /\ o = Open /\ q = Open'
  <2>1. /\ charges \in Nat /\ charges' \in Nat /\ recharges + takeovers \in Nat
        /\ recharges' + takeovers' \in Nat /\ Open \in Nat /\ Open' \in Nat
    <3>1. charges \in Nat /\ recharges \in Nat /\ takeovers \in Nat
      BY DEF Typed
    <3>2. charges' \in Nat /\ recharges' \in Nat /\ takeovers' \in Nat
      BY <1>0 DEF Typed
    <3>3. Open \in Nat /\ Open' \in Nat
      BY DEF Open
    <3>4. \A x, y \in Nat : x + y \in Nat
      OBVIOUS
    <3> QED BY <3>1, <3>2, <3>3, <3>4, Zenon
  <2> QED BY <1>a, <2>1
<1>q. o \in {0, 1} /\ q \in {0, 1} /\ recharges \in Nat /\ takeovers \in Nat
  BY <1>p DEF Open, Typed
<1>g. ASSUME d + b + q + e <= c + a + o + f PROVE ClaimsCounted'
  <2>1. c + a + o <= 1 + e
    BY <1>p DEF ClaimsCounted
  <2>2. d + b + q <= 1 + f
    BY <1>g, <2>1
  <2> QED BY <1>p, <2>2 DEF ClaimsCounted
<1>1. ASSUME NEW r \in Requests, Inner(r) PROVE ClaimsCounted'
  <2>1. Others(r) /\ (r \in Uncharged <=> (r \in Uncharged)')
    BY <1>1, UnchargedIs DEF Inner
  <2>2. b = a
    BY <1>p, <2>1, UnchargedChange
  <2>3. Open' = Open /\ charges' = charges /\ recharges' = recharges /\ takeovers' = takeovers
    BY <1>1 DEF Inner, Open, upload
  <2>4. q = o /\ d = c /\ f = e
    BY <1>p, <2>3
  <2> QED BY <1>g, <2>2, <2>4
<1>2. ASSUME NEW r \in Requests, Claim(r), Claimable PROVE ClaimsCounted'
  <2>1. /\ Others(r) /\ r \notin Uncharged /\ (r \in Uncharged)'
        /\ status' = "COMPLETING"
        /\ takeovers' = takeovers + (IF status = "COMPLETING" THEN 1 ELSE 0)
        /\ charges' = charges /\ recharges' = recharges
    BY <1>2, ClaimGranted, UnchargedIs
  <2>2. b = a + 1 /\ d = c
    BY <1>p, <2>1, UnchargedChange
  <2>3. q = 0
    BY <1>p, <2>1 DEF Open
  <2>4. o + f = 1 + e
    <3>1. CASE status = "PENDING"
      <4>1. takeovers' = takeovers /\ o = 1
        BY <1>p, <1>q, <2>1, <3>1 DEF Open
      <4> QED BY <1>p, <2>1, <4>1
    <3>2. CASE status = "COMPLETING"
      <4>1. takeovers' = takeovers + 1 /\ o = 0
        BY <1>p, <2>1, <3>2 DEF Open
      <4> QED BY <1>p, <1>q, <2>1, <4>1
    <3> QED BY <3>1, <3>2, <1>2 DEF Claimable
  <2> QED BY <1>g, <2>2, <2>3, <2>4
<1>3. ASSUME NEW r \in Requests, Resolve(r) \/ DeriveRoot(r) \/ DeleteBlocks(r) \/ DeleteRows(r)
      PROVE  ClaimsCounted'
  <2>1. Others(r) /\ (r \in Uncharged <=> (r \in Uncharged)')
    <3>1. CASE Resolve(r)
      BY <3>1, ResolveStep, UnchargedIs
    <3>2. CASE DeriveRoot(r)
      <4>1. req[r].phase # "finalize" /\ req'[r].phase # "finalize"
        BY <3>2, DeriveRootStep
      <4> QED BY <3>2, <4>1, DeriveRootStep, UnchargedIs
    <3>3. CASE DeleteBlocks(r)
      BY <3>3, DeleteBlocksStep, UnchargedIs
    <3>4. CASE DeleteRows(r)
      BY <3>4, DeleteRowsStep, UnchargedIs DEF Ends
    <3> QED BY <1>3, <3>1, <3>2, <3>3, <3>4
  <2>2. b = a
    BY <1>p, <2>1, UnchargedChange
  <2>3. q <= o
    <3>1. status' = status \/ status' = "GONE"
      BY <1>3, ResolveStep, DeriveRootStep, DeleteBlocksStep, DeleteRowsStep, RemoveRowTyped DEF upload
    <3> QED BY <1>p, <3>1 DEF Open
  <2>4. charges' = charges /\ recharges' = recharges /\ takeovers' = takeovers
    BY <1>3, ResolveStep, DeriveRootStep, DeleteBlocksStep, DeleteRowsStep DEF hist
  <2>5. d = c /\ f = e
    BY <1>p, <2>4
  <2> QED BY <1>g, <2>2, <2>3, <2>5
<1>4. ASSUME NEW r \in Requests, Charge(r) PROVE ClaimsCounted'
  <2>1. /\ Others(r) /\ r \in Uncharged /\ status' = status
        /\ recharges' = recharges /\ takeovers' = takeovers
        /\ \/ charges' = charges + 1 /\ ~(r \in Uncharged)'
           \/ charges' = charges /\ (r \in Uncharged)'
    BY <1>4, ChargeStep, UnchargedIs DEF hist, upload
  <2>2. d + b = c + a
    <3>1. CASE charges' = charges + 1 /\ ~(r \in Uncharged)'
      <4>1. b = a - 1 /\ d = c + 1
        BY <1>p, <2>1, <3>1, UnchargedChange
      <4> QED BY <4>1
    <3>2. CASE charges' = charges /\ (r \in Uncharged)'
      BY <1>p, <2>1, <3>2, UnchargedChange
    <3> QED BY <2>1, <3>1, <3>2
  <2>3. q = o /\ f = e
    BY <1>p, <2>1 DEF Open
  <2> QED BY <1>g, <2>2, <2>3
<1>5. ASSUME NEW r \in Requests, Finalize(r) PROVE ClaimsCounted'
  <2>1. /\ Others(r) /\ r \notin Uncharged /\ ~(r \in Uncharged)'
        /\ charges' = charges /\ recharges' = recharges /\ takeovers' = takeovers
    BY <1>5, FinalizeStep, UnchargedIs DEF hist, Ends
  <2>2. b = a /\ d = c /\ f = e
    BY <1>p, <2>1, UnchargedChange
  <2>3. q <= o
    <3>1. status' = status \/ status' = "MIGRATING"
      BY <1>5, FinalizeStep DEF upload
    <3> QED BY <1>p, <3>1 DEF Open
  <2> QED BY <1>g, <2>2, <2>3
<1>6. ASSUME NEW r \in Requests, Release(r) PROVE ClaimsCounted'
  <2>1. /\ Others(r) /\ r \in Uncharged /\ ~(r \in Uncharged)'
        /\ charges' = charges /\ recharges' = recharges /\ takeovers' = takeovers
    BY <1>6, ReleaseStep, UnchargedIs DEF Ends
  <2>2. b = a - 1 /\ d = c /\ f = e
    BY <1>p, <2>1, UnchargedChange
  <2> QED BY <1>g, <1>q, <2>2
<1>7. ASSUME NEW r \in Requests, Fail(r) PROVE ClaimsCounted'
  <2>1. /\ Others(r) /\ status' = status /\ charges' = charges /\ takeovers' = takeovers
        /\ recharges' = recharges + (IF req[r].phase = "finalize" THEN 1 ELSE 0)
    BY <1>7, FailStep DEF upload
  <2>2. ~(r \in Uncharged) /\ (r \in Uncharged)' => req[r].phase = "finalize"
    BY <1>7, FailStep, UnchargedIs DEF MovesTo
  <2>3. f = e + (IF req[r].phase = "finalize" THEN 1 ELSE 0)
    BY <1>p, <1>q, <2>1
  <2>4. b + e <= a + f
    <3>1. CASE ~(r \in Uncharged) /\ (r \in Uncharged)'
      BY <1>p, <2>1, <2>2, <2>3, <3>1, UnchargedChange
    <3>2. CASE ~(~(r \in Uncharged) /\ (r \in Uncharged)')
      <4>1. b = a \/ b = a - 1
        BY <1>p, <2>1, <3>2, UnchargedChange
      <4> QED BY <2>3, <4>1
    <3> QED BY <3>1, <3>2
  <2>5. q = o /\ d = c
    BY <1>p, <2>1 DEF Open
  <2> QED BY <1>g, <2>4, <2>5
<1>8. ASSUME NEW p \in Procs, Crash(p) PROVE ClaimsCounted'
  <2>1. PICK n \in Nat : recharges' = recharges + n
    BY <1>8, CrashStep
  <2>2. /\ \A r \in Requests : req'[r] = IF r \in Of(p) THEN Done ELSE req[r]
        /\ status' = status /\ charges' = charges /\ takeovers' = takeovers
    BY <1>8, CrashStep DEF upload
  <2>3. Uncharged' \subseteq Uncharged
    BY <2>2 DEF Uncharged, Completing, Claimed, Done
  <2>4. b <= a
    BY <1>a, <1>p, <2>3, FS_Subset
  <2>5. q = o /\ d = c /\ f = e + n
    BY <1>p, <1>q, <2>1, <2>2 DEF Open
  <2> QED BY <1>g, <2>4, <2>5
<1>9. ASSUME GoesStale \/ Migrate \/ UNCHANGED vars PROVE ClaimsCounted'
  <2>1. /\ req' = req /\ charges' = charges /\ recharges' = recharges /\ takeovers' = takeovers
    BY <1>9, GoesStaleStep, MigrateStep DEF hist, vars
  <2>2. status' = status \/ status' \in {"GONE", "FAILED"}
    BY <1>9, GoesStaleStep, MigrateStep, RemoveRowTyped DEF vars, upload
  <2>3. q <= o
    BY <1>p, <2>2 DEF Open
  <2>4. Uncharged' = Uncharged
    BY <2>1 DEF Uncharged, Completing
  <2>5. b = a /\ d = c /\ f = e
    BY <1>p, <2>1, <2>4
  <2> QED BY <1>g, <2>3, <2>5
<1> QED BY <1>1, <1>2, <1>3, <1>4, <1>5, <1>6, <1>7, <1>8, <1>9, Steps DEF Outer

LEMMA CountedIsAccounted == Typed /\ ClaimsCounted => ChargesAccounted
<1> SUFFICES ASSUME Typed, ClaimsCounted PROVE ChargesAccounted
  OBVIOUS
<1>1. Uncharged \in SUBSET Requests
  BY DEF Uncharged
<1>2. PICK c \in Nat, k \in Nat, t \in Nat, a \in Nat, o \in Nat :
        c = charges /\ k = recharges /\ t = takeovers /\ a = Cardinality(Uncharged) /\ o = Open
  BY <1>1, FewRequests DEF Typed, Open
<1>3. c + a + o <= 1 + (k + t)
  BY <1>2 DEF ClaimsCounted
<1>4. c <= 1 + k + t
  BY <1>3
<1> QED BY <1>2, <1>4 DEF ChargesAccounted

(***************************************************************************)
(* What is answered                                                        *)
(***************************************************************************)
Finalizing(r) == Completing(r) /\ req[r].phase = "finalize"
Charging(r)   == Completing(r) /\ req[r].phase \in {"charge", "finalize"}

\* A CID that is answered, or that is about to be.
Answers == returned \cup {n \in Root : \E r \in Requests : Finalizing(r) /\ n \in req[r].root}

\* Nothing is left of the upload, and nobody can make anything of it.
Emptied == roots = {} /\ Settled /\ ~\E r \in Requests : Completing(r)

NamesHold ==
  /\ \A r \in Requests : Charging(r) => \E n \in Root : req[r].root = {n}
  /\ returned # {} => Settled
  /\ \A r \in Requests : req[r].phase = "resolve" => Settled
  /\ ~undercut =>
       /\ Live => \A r \in Requests : Charging(r) => req[r].root \subseteq roots
       /\ \A m, n \in Answers : m = n
       /\ Live => Answers \subseteq roots \/ Emptied

LEMMA OneRootIs ==
  ASSUME Typed, Cardinality(roots) = 1
  PROVE  \E n \in Root : roots = {n}
<1>1. IsFiniteSet(roots) /\ roots \subseteq Root
  BY DEF Typed
<1>2. PICK n : roots = {n}
  BY <1>1, FS_Singleton
<1> QED BY <1>1, <1>2

\* A row that is settled stays so.
LEMMA SettledStays ==
  ASSUME Typed, Settled, [Next]_vars
  PROVE  Settled'
<1>1. ASSUME NEW r \in Requests, Inner(r) PROVE Settled'
  BY <1>1 DEF Inner, upload, Settled
<1>2. ASSUME NEW r \in Requests, Outer(r) PROVE Settled'
  <2>1. CASE Claim(r) /\ Claimable
    BY <2>1 DEF Claimable, Settled
  <2>2. CASE Resolve(r)
    BY <2>2, ResolveStep DEF upload, Settled
  <2>3. CASE DeriveRoot(r)
    BY <2>3, DeriveRootStep DEF upload, Settled
  <2>4. CASE Charge(r)
    BY <2>4, ChargeStep DEF upload, Settled
  <2>5. CASE Finalize(r)
    BY <2>5, FinalizeStep DEF upload, Settled
  <2>6. CASE Release(r)
    BY <2>6, ReleaseStep DEF upload, Settled
  <2>7. CASE DeleteBlocks(r)
    BY <2>7, DeleteBlocksStep DEF upload, Settled
  <2>8. CASE DeleteRows(r)
    BY <2>8, DeleteRowsStep, RemoveRowTyped DEF Settled
  <2>9. CASE Fail(r)
    BY <2>9, FailStep DEF upload, Settled
  <2> QED BY <1>2, <2>1, <2>2, <2>3, <2>4, <2>5, <2>6, <2>7, <2>8, <2>9 DEF Outer
<1>3. ASSUME NEW p \in Procs, Crash(p) PROVE Settled'
  BY <1>3, CrashStep DEF upload, Settled
<1>4. CASE GoesStale
  BY <1>4, GoesStaleStep DEF Settled
<1>5. CASE Migrate
  BY <1>5, MigrateStep, RemoveRowTyped DEF Settled
<1>6. CASE UNCHANGED vars
  BY <1>6 DEF vars, upload, Settled
<1> QED BY <1>1, <1>2, <1>3, <1>4, <1>5, <1>6, Steps

\* Nothing is charged or answered anew, no root goes, and no claim is granted
\* on a settled row.
LEMMA NamesKept ==
  ASSUME Typed, NamesHold, Settled => Settled',
         Settled => \A s \in Requests : Completing(s)' => Completing(s),
         \A s \in Requests : Charging(s)' => \/ /\ Charging(s) /\ req'[s].root = req[s].root
                                                /\ Finalizing(s)' => Finalizing(s)
                                             \/ /\ ~Finalizing(s)' /\ req'[s].root \subseteq roots'
                                                /\ \E n \in Root : req'[s].root = {n},
         \A s \in Requests : req'[s].phase = "resolve" => Settled',
         returned' = returned, undercut' = undercut,
         Live' => Live /\ roots \subseteq roots' /\ (Emptied => roots' = roots)
  PROVE  NamesHold'
<1>1. Answers' \subseteq Answers
  <2>1. \A s \in Requests : Finalizing(s)' => Finalizing(s) /\ req'[s].root = req[s].root
    BY DEF Finalizing, Charging
  <2> QED BY <2>1 DEF Answers
<1>2. \A r \in Requests : Charging(r)' => \E n \in Root : req'[r].root = {n}
  BY DEF NamesHold
<1>3. ASSUME ~undercut PROVE /\ Live' => \A r \in Requests : Charging(r)' => req'[r].root \subseteq roots'
                             /\ \A m, n \in Answers' : m = n
                             /\ Live' => Answers' \subseteq roots' \/ Emptied'
  <2>1. Emptied => (Live' => Emptied')
    BY DEF Emptied
  <2> QED BY <1>1, <1>3, <2>1 DEF NamesHold
<1> QED BY <1>2, <1>3 DEF NamesHold

\* The same for a step of one request.
LEMMA NamesKeptBy ==
  ASSUME Typed, NamesHold, Settled => Settled', NEW r \in Requests, Others(r),
         Settled => (Completing(r)' => Completing(r)),
         Charging(r)' => /\ ~Finalizing(r)' /\ req'[r].root \subseteq roots'
                         /\ \E n \in Root : req'[r].root = {n},
         req'[r].phase = "resolve" => Settled',
         returned' = returned, undercut' = undercut,
         Live' => Live /\ roots \subseteq roots' /\ (Emptied => roots' = roots)
  PROVE  NamesHold'
<1>1. ASSUME NEW s \in Requests, s # r
      PROVE  /\ req'[s] = req[s] /\ (Completing(s)' <=> Completing(s))
             /\ (Charging(s)' <=> Charging(s)) /\ (Finalizing(s)' <=> Finalizing(s))
  BY <1>1 DEF Others, Completing, Charging, Finalizing
<1>2. Settled => \A s \in Requests : Completing(s)' => Completing(s)
  <2> SUFFICES ASSUME Settled, NEW s \in Requests PROVE Completing(s)' => Completing(s)
    OBVIOUS
  <2> QED BY <1>1
<1>3. ASSUME NEW s \in Requests
      PROVE  Charging(s)' => \/ /\ Charging(s) /\ req'[s].root = req[s].root
                                /\ Finalizing(s)' => Finalizing(s)
                             \/ /\ ~Finalizing(s)' /\ req'[s].root \subseteq roots'
                                /\ \E n \in Root : req'[s].root = {n}
  <2>1. CASE s = r
    BY <2>1
  <2>2. CASE s # r
    BY <2>2, <1>1
  <2> QED BY <2>1, <2>2
<1>4. ASSUME NEW s \in Requests PROVE req'[s].phase = "resolve" => Settled'
  <2>1. CASE s = r
    BY <2>1
  <2>2. CASE s # r
    <3>1. req'[s] = req[s]
      BY <2>2, <1>1
    <3> QED BY <3>1 DEF NamesHold
  <2> QED BY <2>1, <2>2
<1> QED BY <1>2, <1>3, <1>4, NamesKept

LEMMA NamesInner ==
  ASSUME Typed, NamesHold, [Next]_vars, NEW r \in Requests, Inner(r)
  PROVE  NamesHold'
<1>1. Settled => Settled'
  BY SettledStays
<1>2. Others(r) /\ (Completing(r)' => Completing(r))
  BY DEF Inner
<1>3. Charging(r)' => /\ ~Finalizing(r)' /\ req'[r].root \subseteq roots'
                      /\ \E n \in Root : req'[r].root = {n}
  <2> SUFFICES ASSUME Charging(r)'
               PROVE  /\ ~Finalizing(r)' /\ req'[r].root \subseteq roots'
                      /\ \E n \in Root : req'[r].root = {n}
    OBVIOUS
  <2>1. req'[r].phase = "charge"
    BY DEF Inner, Charging
  <2>2. req'[r].root = roots /\ Cardinality(roots) = 1 /\ roots' = roots /\ ~Finalizing(r)'
    BY <2>1 DEF Inner, Finalizing
  <2> QED BY <2>2, OneRootIs
<1>4. req'[r].phase = "resolve" => Settled'
  BY <1>1 DEF Inner
<1>5. returned' = returned /\ undercut' = undercut /\ roots' = roots /\ status' = status
  BY DEF Inner, upload
<1>6. Live' => Live
  BY <1>5 DEF Live
<1> QED BY <1>1, <1>2, <1>3, <1>4, <1>5, <1>6, NamesKeptBy

\* A request that ends, or that is on its way to hand its claim back, gives no
\* answer.
LEMMA NamesLet ==
  ASSUME Typed, NamesHold, Settled => Settled',
         NEW r \in Requests, Others(r),
         Completing(r)' => Completing(r), req'[r].phase \in {"done", "release", "rows"},
         returned' = returned, undercut' = undercut,
         Live' => Live /\ roots' = roots
  PROVE  NamesHold'
<1>1. ~Charging(r)' /\ req'[r].phase # "resolve"
  BY DEF Charging
<1> QED BY <1>1, NamesKeptBy

LEMMA NamesOuter ==
  ASSUME Typed, NamesHold, [Next]_vars, NEW r \in Requests, Outer(r)
  PROVE  NamesHold'
<1>s. Settled => Settled'
  BY SettledStays
<1>1. CASE Claim(r) /\ Claimable
  <2>1. /\ Others(r) /\ ~Settled /\ Live' /\ Live /\ req'[r].phase = "claimed" /\ roots' = roots
        /\ returned' = returned /\ undercut' = undercut
    BY <1>1, ClaimGranted DEF Claimable, Settled, Live, blocks
  <2>2. ~Charging(r)' /\ req'[r].phase # "resolve"
    BY <2>1 DEF Charging
  <2> QED BY <2>1, <2>2, <1>s, NamesKeptBy
<1>2. CASE Resolve(r)
  <2>1. /\ Ends(r) /\ req[r].phase = "resolve" /\ ~Completing(r) /\ ~Completing(r)'
        /\ status' = status /\ roots' = roots /\ undercut' = undercut
    BY <1>2, ResolveStep DEF upload, blocks, hist
  <2>2. CASE Live /\ Cardinality(roots) = 1
    <3>1. PICK n \in Root : roots = {n}
      BY <2>2, OneRootIs
    <3>2. returned' = returned \cup {n}
      BY <1>2, <2>2, <3>1, ResolveStep
    <3>3. /\ \A s \in Requests : (Completing(s)' <=> Completing(s))
          /\ \A s \in Requests : (Charging(s)' <=> Charging(s)) /\ (Finalizing(s)' <=> Finalizing(s))
          /\ \A s \in Requests : Charging(s) => req'[s].root = req[s].root
      BY <2>1 DEF Ends, Others, Completing, Charging, Finalizing
    <3>4. Answers' = Answers \cup {n}
      <4>1. \A s \in Requests : Finalizing(s)' => Finalizing(s) /\ req'[s].root = req[s].root
        BY <3>3 DEF Finalizing, Charging
      <4>2. \A s \in Requests : Finalizing(s) => Finalizing(s)' /\ req'[s].root = req[s].root
        BY <3>3 DEF Finalizing, Charging
      <4> QED BY <3>2, <4>1, <4>2 DEF Answers
    <3>5. Settled /\ Settled'
      BY <2>1, <1>s DEF NamesHold
    <3>6. \A s \in Requests : Charging(s)' => \E m \in Root : req'[s].root = {m}
      BY <3>3 DEF NamesHold
    <3>7. ~undercut => /\ \A s \in Requests : Charging(s)' => req'[s].root \subseteq roots'
                       /\ Answers \subseteq {n}
      BY <2>1, <2>2, <3>1, <3>3 DEF NamesHold, Emptied
    <3> QED BY <2>1, <3>1, <3>4, <3>5, <3>6, <3>7 DEF NamesHold
  <2>3. CASE ~(Live /\ Cardinality(roots) = 1)
    <3>1. returned' = returned
      BY <1>2, <2>3, ResolveStep
    <3> QED BY <1>s, <2>1, <3>1, NamesLet DEF Ends, Done, Live
  <2> QED BY <2>2, <2>3
<1>3. CASE DeriveRoot(r)
  <2>1. /\ Others(r) /\ Completing(r) /\ Completing(r)' /\ status' = status
        /\ returned' = returned /\ undercut' = undercut /\ req'[r].phase \in {"charge", "release"}
    BY <1>3, DeriveRootStep DEF upload, hist
  <2>3. Charging(r)' => /\ ~Finalizing(r)' /\ req'[r].root \subseteq roots'
                        /\ \E n \in Root : req'[r].root = {n}
    <3> SUFFICES ASSUME Charging(r)'
                 PROVE  /\ ~Finalizing(r)' /\ req'[r].root \subseteq roots'
                        /\ \E n \in Root : req'[r].root = {n}
      OBVIOUS
    <3>1. req'[r].phase = "charge"
      BY <2>1 DEF Charging
    <3>2. Live
      BY <1>3, <3>1, DeriveRootStep
    <3>3. req'[r].root = {RootNode} /\ roots' = roots \cup {RootNode} /\ RootNode \in Root
      BY <1>3, <3>2, DeriveRootStep
    <3> QED BY <3>1, <3>3 DEF Finalizing
  <2>4. roots \subseteq roots' /\ ~Emptied
    BY <1>3, <2>1, DeriveRootStep DEF blocks, Emptied
  <2>5. Live' => Live
    BY <2>1 DEF Live
  <2> QED BY <1>s, <2>1, <2>3, <2>4, <2>5, NamesKeptBy
<1>4. CASE Charge(r)
  <2>1. /\ Others(r) /\ Completing(r) /\ Completing(r)' /\ req[r].phase = "charge"
        /\ req'[r].root = req[r].root /\ status' = status /\ roots' = roots
        /\ returned' = returned /\ undercut' = undercut
    BY <1>4, ChargeStep DEF upload, blocks, hist
  <2>2. CASE req'[r].phase = "release"
    BY <1>s, <2>1, <2>2, NamesLet DEF Live
  <2>3. CASE Live /\ Cardinality(roots) = 1 /\ req'[r].phase = "finalize"
    <3>1. PICK n \in Root : roots = {n}
      BY <2>3, OneRootIs
    <3>2. /\ Charging(r) /\ ~Finalizing(r) /\ Charging(r)' /\ Finalizing(r)'
          /\ \A s \in Requests : s # r => /\ req'[s] = req[s]
                                         /\ (Completing(s)' <=> Completing(s))
                                         /\ (Charging(s)' <=> Charging(s))
                                         /\ (Finalizing(s)' <=> Finalizing(s))
      BY <2>1, <2>3 DEF Others, Completing, Charging, Finalizing
    <3>3. Answers' = Answers \cup req[r].root
      <4>1. req[r].root \subseteq Root
        BY <3>2 DEF NamesHold
      <4> QED BY <2>1, <3>2, <4>1 DEF Answers
    <3>4. ~undercut => req[r].root \subseteq {n} /\ Answers \subseteq {n}
      BY <2>1, <2>3, <3>1, <3>2 DEF NamesHold, Emptied
    <3>5. /\ \A s \in Requests : Charging(s)' => \E m \in Root : req'[s].root = {m}
          /\ \A s \in Requests : req'[s].phase = "resolve" => Settled'
          /\ returned' # {} => Settled'
      BY <1>s, <2>1, <2>3, <3>2 DEF NamesHold
    <3>6. ~undercut => \A s \in Requests : Charging(s)' => req'[s].root \subseteq roots'
      BY <2>1, <2>3, <3>1, <3>2 DEF NamesHold
    <3> QED BY <2>1, <3>1, <3>3, <3>4, <3>5, <3>6 DEF NamesHold
  <2> QED BY <1>4, <2>2, <2>3, ChargeStep
<1>5. CASE Finalize(r)
  <2>1. /\ Ends(r) /\ Completing(r) /\ ~Completing(r)' /\ req[r].phase = "finalize"
        /\ IF Live THEN status' = "MIGRATING" ELSE status' = status
        /\ returned' = returned \cup req[r].root /\ roots' = roots /\ undercut' = undercut
    BY <1>5, FinalizeStep DEF upload, blocks, hist
  <2>2. Settled' /\ (Live' => Live) /\ ~Emptied
    BY <2>1 DEF Settled, Live, Emptied
  <2>3. /\ Finalizing(r) /\ ~Charging(r)' /\ ~Finalizing(r)'
        /\ \A s \in Requests : s # r => /\ req'[s] = req[s]
                                       /\ (Charging(s)' <=> Charging(s))
                                       /\ (Finalizing(s)' <=> Finalizing(s))
    BY <2>1 DEF Ends, Others, Completing, Charging, Finalizing
  <2>4. Answers' \subseteq Answers
    <3>1. req[r].root \subseteq Answers
      BY <2>3 DEF Answers, NamesHold, Charging, Finalizing
    <3>2. \A s \in Requests : Finalizing(s)' => Finalizing(s) /\ req'[s].root = req[s].root
      BY <2>3
    <3> QED BY <2>1, <3>1, <3>2 DEF Answers
  <2>5. /\ \A s \in Requests : Charging(s)' => \E m \in Root : req'[s].root = {m}
        /\ ~undercut /\ Live => \A s \in Requests : Charging(s)' => req'[s].root \subseteq roots'
    BY <2>1, <2>3 DEF NamesHold
  <2>6. ~undercut => (\A m, n \in Answers' : m = n) /\ (Live => Answers' \subseteq roots')
    BY <2>1, <2>2, <2>4 DEF NamesHold
  <2> QED BY <2>1, <2>2, <2>5, <2>6 DEF NamesHold
<1>6. CASE Release(r)
  <2>a. Ends(r) /\ Completing(r)
    BY <1>6, ReleaseStep
  <2>1. Others(r) /\ Completing(r) /\ req'[r].phase = "done"
    BY <2>a DEF Ends, Done
  <2>2. roots' = roots /\ returned' = returned /\ undercut' = undercut
    BY <1>6, ReleaseStep DEF blocks
  <2>3. Live' => Live
    BY <1>6, ReleaseStep DEF upload, Live
  <2> QED BY <1>s, <2>1, <2>2, <2>3, NamesLet
<1>7. CASE DeleteBlocks(r)
  <2>1. /\ Others(r) /\ ~Completing(r) /\ ~Completing(r)' /\ req'[r].phase = "rows"
        /\ roots' = {} /\ status' = status /\ returned' = returned
        /\ undercut' = (undercut \/ (roots # {} /\ \E s \in Requests : Completing(s)))
    BY <1>7, DeleteBlocksStep DEF upload
  <2>2. /\ \A s \in Requests : (Completing(s)' <=> Completing(s))
        /\ \A s \in Requests : s # r => /\ req'[s] = req[s]
        /\ \A s \in Requests : (Charging(s)' <=> Charging(s)) /\ (Finalizing(s)' <=> Finalizing(s))
        /\ \A s \in Requests : Charging(s) => req'[s].root = req[s].root
    BY <2>1 DEF Others, Completing, Charging, Finalizing
  <2>3. Answers' = Answers
    <3>1. \A s \in Requests : (Finalizing(s)' <=> Finalizing(s))
      BY <2>2
    <3>2. \A s \in Requests : Finalizing(s) => req'[s].root = req[s].root
      BY <2>2 DEF Finalizing, Charging
    <3> QED BY <2>1, <3>1, <3>2 DEF Answers
  <2>4. /\ \A s \in Requests : Charging(s)' => \E m \in Root : req'[s].root = {m}
        /\ \A s \in Requests : req'[s].phase = "resolve" => Settled'
        /\ returned' # {} => Settled'
    BY <1>s, <2>1, <2>2 DEF NamesHold
  <2>5. CASE undercut'
    BY <2>4, <2>5 DEF NamesHold
  <2>6. CASE ~undercut' /\ roots = {}
    <3>1. ~undercut /\ (Live' <=> Live) /\ (Emptied => Emptied')
      BY <2>1, <2>2, <2>6, <1>s DEF Live, Emptied
    <3> QED BY <2>1, <2>2, <2>3, <2>4, <2>6, <3>1 DEF NamesHold
  <2>7. CASE ~undercut' /\ ~\E s \in Requests : Completing(s)
    <3>1. ~undercut /\ (\A s \in Requests : ~Completing(s)' /\ ~Charging(s)' /\ ~Finalizing(s))
      BY <2>1, <2>2, <2>7 DEF Charging, Finalizing
    <3>2. Answers = returned
      BY <3>1 DEF Answers
    <3>3. Answers' \subseteq roots' \/ Emptied'
      BY <2>1, <2>3, <2>4, <3>1, <3>2 DEF Emptied
    <3> QED BY <2>3, <2>4, <3>1, <3>3 DEF NamesHold
  <2> QED BY <2>1, <2>5, <2>6, <2>7
<1>8. CASE DeleteRows(r)
  <2>1. Others(r) /\ ~Completing(r)' /\ req'[r].phase = "done"
    BY <1>8, DeleteRowsStep DEF Ends, Done
  <2>2. returned' = returned /\ undercut' = undercut
    BY <1>8, DeleteRowsStep DEF hist
  <2>3. ~Live'
    BY <1>8, DeleteRowsStep, RemoveRowTyped DEF Live
  <2> QED BY <1>s, <2>1, <2>2, <2>3, NamesLet
<1>9. CASE Fail(r)
  <2>1. /\ Others(r) /\ (Completing(r)' => Completing(r)) /\ req'[r].phase \in {"done", "release"}
        /\ returned' = returned /\ undercut' = undercut /\ roots' = roots /\ (Live' => Live)
    BY <1>9, FailStep DEF Ends, Done, MovesTo, upload, blocks, Live
  <2> QED BY <1>s, <2>1, NamesLet
<1> QED BY <1>1, <1>2, <1>3, <1>4, <1>5, <1>6, <1>7, <1>8, <1>9 DEF Outer

LEMMA NamesStep ==
  ASSUME Typed, NamesHold, [Next]_vars
  PROVE  NamesHold'
<1>s. Settled => Settled'
  BY SettledStays
<1>1. ASSUME NEW p \in Procs, Crash(p) PROVE NamesHold'
  <2>1. /\ \A r \in Requests : req'[r] = IF r \in Of(p) THEN Done ELSE req[r]
        /\ status' = status /\ roots' = roots /\ returned' = returned /\ undercut' = undercut
    BY <1>1, CrashStep DEF upload, blocks
  <2>2. \A s \in Requests : \/ req'[s] = Done /\ ~Completing(s)' /\ ~Charging(s)' /\ ~Finalizing(s)'
                            \/ /\ req'[s] = req[s] /\ (Completing(s)' <=> Completing(s))
                               /\ (Charging(s)' <=> Charging(s)) /\ (Finalizing(s)' <=> Finalizing(s))
    BY <2>1 DEF Completing, Charging, Finalizing, Claimed, Done
  <2>3. \A s \in Requests : req'[s].phase = "resolve" => Settled'
    BY <1>s, <2>2 DEF NamesHold, Done
  <2>4. Live' => Live
    BY <2>1 DEF Live
  <2> QED BY <1>s, <2>1, <2>2, <2>3, <2>4, NamesKept
<1>2. ASSUME GoesStale \/ Migrate \/ UNCHANGED vars PROVE NamesHold'
  <2>1. req' = req /\ returned' = returned /\ undercut' = undercut
    BY <1>2, GoesStaleStep, MigrateStep DEF hist, vars
  <2>2. Live' => Live /\ roots' = roots
    BY <1>2, GoesStaleStep, MigrateStep, RemoveRowTyped DEF blocks, vars, upload, Live
  <2>3. \A s \in Requests : /\ req'[s] = req[s] /\ (Completing(s)' <=> Completing(s))
                            /\ (Charging(s)' <=> Charging(s)) /\ (Finalizing(s)' <=> Finalizing(s))
    BY <2>1 DEF Completing, Charging, Finalizing
  <2>4. \A s \in Requests : req'[s].phase = "resolve" => Settled'
    BY <1>s, <2>3 DEF NamesHold
  <2> QED BY <1>s, <2>1, <2>2, <2>3, <2>4, NamesKept
<1> QED BY <1>1, <1>2, NamesInner, NamesOuter, Steps

LEMMA NamesAgree == Typed /\ NamesHold => ReturnedAgree
<1> SUFFICES ASSUME Typed, NamesHold, ~undercut PROVE Cardinality(returned) <= 1
  BY DEF ReturnedAgree
<1>1. returned \subseteq Answers
  BY DEF Answers
<1>2. \A m, n \in returned : m = n
  BY <1>1 DEF NamesHold
<1>3. CASE returned = {}
  BY <1>3, FS_EmptySet
<1>4. CASE returned # {}
  <2>1. PICK n : n \in returned
    BY <1>4
  <2>2. returned = {n}
    BY <1>2, <2>1
  <2> QED BY <2>2, FS_Singleton
<1> QED BY <1>3, <1>4

LEMMA NamesInit == Init => NamesHold
<1> SUFFICES ASSUME Init PROVE NamesHold
  OBVIOUS
<1>1. \A r \in Requests : req[r].phase = "idle"
  BY DEF Init, Idle
<1>2. \A r \in Requests : ~Completing(r) /\ ~Charging(r) /\ ~Finalizing(r)
  BY <1>1 DEF Completing, Charging, Finalizing, Claimed
<1>3. returned = {} /\ Answers = {}
  BY <1>2 DEF Init, Answers
<1> QED BY <1>1, <1>2, <1>3 DEF NamesHold

LEMMA CountedInit == Init => ClaimsCounted
<1> SUFFICES ASSUME Init PROVE ClaimsCounted
  OBVIOUS
<1>1. \A r \in Requests : req[r].phase = "idle"
  BY DEF Init, Idle
<1>2. Uncharged = {}
  BY <1>1 DEF Uncharged, Completing, Claimed
<1>3. Cardinality(Uncharged) = 0
  BY <1>2, FS_EmptySet
<1>4. charges = 0 /\ recharges = 0 /\ takeovers = 0 /\ Open = 1
  BY DEF Init, Open
<1> QED BY <1>3, <1>4 DEF ClaimsCounted

(***************************************************************************)
(* What is derived                                                         *)
(***************************************************************************)
Deriving(r) == Completing(r) /\ req[r].phase \in {"flush", "clear", "derive"}

\* The completions at work, and those that have looked and found no root.
Completers == {r \in Requests : Completing(r)}
Derivers   == {r \in Requests : Deriving(r)}

\* A claim is given by a pending row or taken over; while there is a root, no
\* completion joins those that are to derive one.
CompletersCounted == Cardinality(Completers) + Open <= 1 + takeovers
RootsCounted      == roots = {} \/ Cardinality(roots) + Cardinality(Derivers) <= 1 + takeovers

LEMMA CompletersFinite ==
  /\ IsFiniteSet(Completers) /\ IsFiniteSet(Completers')
  /\ IsFiniteSet(Derivers) /\ IsFiniteSet(Derivers')
  /\ Cardinality(Completers) \in Nat /\ Cardinality(Completers') \in Nat
  /\ Cardinality(Derivers) \in Nat /\ Cardinality(Derivers') \in Nat
<1>1. /\ Completers \in SUBSET Requests /\ Completers' \in SUBSET Requests
      /\ Derivers \in SUBSET Requests /\ Derivers' \in SUBSET Requests
  BY DEF Completers, Derivers
<1> QED BY <1>1, FewRequests

LEMMA TakeoversGrow ==
  ASSUME Typed, [Next]_vars
  PROVE  takeovers \in Nat /\ takeovers' \in Nat /\ takeovers <= takeovers'
<1>1. takeovers \in Nat /\ takeovers' \in Nat
  BY Steps DEF Typed
<1>2. ASSUME NEW r \in Requests, Claim(r), Claimable PROVE takeovers <= takeovers'
  <2>1. takeovers' = takeovers + (IF status = "COMPLETING" THEN 1 ELSE 0)
    BY <1>2, ClaimGranted
  <2> QED BY <1>1, <2>1
<1>3. ASSUME NEW r \in Requests, Inner(r) \/ Outer(r), ~(Claim(r) /\ Claimable)
      PROVE  takeovers' = takeovers
  BY <1>3, ResolveStep, DeriveRootStep, ChargeStep, FinalizeStep, ReleaseStep,
     DeleteBlocksStep, DeleteRowsStep, FailStep DEF Inner, Outer, hist
<1>4. ASSUME NEW p \in Procs, Crash(p) PROVE takeovers' = takeovers
  BY <1>4, CrashStep
<1>5. ASSUME GoesStale \/ Migrate \/ UNCHANGED vars PROVE takeovers' = takeovers
  BY <1>5, GoesStaleStep, MigrateStep DEF hist, vars
<1>6. takeovers' = takeovers => takeovers <= takeovers'
  BY <1>1
<1>7. takeovers' = takeovers \/ \E r \in Requests : Claim(r) /\ Claimable
  BY <1>3, <1>4, <1>5, Steps
<1> QED BY <1>1, <1>2, <1>6, <1>7

\* Completions end, and the row is not pending unless one of them hands it back.
LEMMA CompletersFewer ==
  ASSUME Typed, CompletersCounted, [Next]_vars, Completers' \subseteq Completers,
         status' = "PENDING" => status = "PENDING" \/ Completers' # Completers
  PROVE  CompletersCounted'
<1>1. PICK a \in Nat, b \in Nat, o \in Nat, q \in Nat, t \in Nat, u \in Nat :
        /\ a = Cardinality(Completers) /\ b = Cardinality(Completers')
        /\ o = Open /\ q = Open' /\ t = takeovers /\ u = takeovers'
  BY CompletersFinite, TakeoversGrow DEF Open
<1>2. o \in {0, 1} /\ q \in {0, 1} /\ t <= u /\ a + o <= 1 + t
  BY <1>1, TakeoversGrow DEF Open, CompletersCounted
<1>3. b <= a /\ (Completers' # Completers => b < a)
  BY <1>1, CompletersFinite, FS_Subset
<1>4. q = 1 => o = 1 \/ b < a
  BY <1>1, <1>3 DEF Open
<1>5. b + q <= 1 + u
  BY <1>2, <1>3, <1>4
<1> QED BY <1>1, <1>5 DEF CompletersCounted

LEMMA CompletersStep ==
  ASSUME Typed, CompletersCounted, [Next]_vars
  PROVE  CompletersCounted'
<1>o. ASSUME NEW r \in Requests, Others(r), Completing(r)' => Completing(r)
      PROVE  Completers' \subseteq Completers
  BY <1>o DEF Others, Completing, Completers
<1>1. ASSUME NEW r \in Requests, Inner(r) PROVE CompletersCounted'
  <2>1. Others(r) /\ (Completing(r)' => Completing(r)) /\ status' = status
    BY <1>1 DEF Inner, upload
  <2> QED BY <1>o, <2>1, CompletersFewer
<1>2. ASSUME NEW r \in Requests, Claim(r), Claimable PROVE CompletersCounted'
  <2>1. /\ Others(r) /\ ~Completing(r) /\ Completing(r)' /\ status' = "COMPLETING"
        /\ takeovers' = takeovers + (IF status = "COMPLETING" THEN 1 ELSE 0)
    BY <1>2, ClaimGranted
  <2>2. Completers' = Completers \cup {r} /\ r \notin Completers
    BY <2>1 DEF Others, Completing, Completers
  <2>3. Cardinality(Completers') = Cardinality(Completers) + 1
    BY <2>2, CompletersFinite, FS_AddElement
  <2>4. Open' = 0 /\ takeovers \in Nat
    BY <2>1, TakeoversGrow DEF Open
  <2>5. status = "PENDING" \/ status = "COMPLETING"
    BY <1>2 DEF Claimable
  <2>6. takeovers' = takeovers + (1 - Open) /\ Open \in {0, 1}
    BY <2>1, <2>4, <2>5 DEF Open
  <2>7. Cardinality(Completers) + Open <= 1 + takeovers
    BY DEF CompletersCounted
  <2>8. Cardinality(Completers') + Open' <= 1 + takeovers'
    BY <2>3, <2>4, <2>6, <2>7, CompletersFinite
  <2> QED BY <2>8 DEF CompletersCounted
<1>3. ASSUME NEW r \in Requests,
             Resolve(r) \/ DeriveRoot(r) \/ Charge(r) \/ DeleteBlocks(r) \/ DeleteRows(r) \/ Fail(r)
      PROVE  CompletersCounted'
  <2>1. Others(r) /\ (Completing(r)' => Completing(r)) /\ (status' = status \/ status' = "GONE")
    BY <1>3, ResolveStep, DeriveRootStep, ChargeStep, DeleteBlocksStep, DeleteRowsStep, FailStep,
       RemoveRowTyped DEF upload, Ends
  <2> QED BY <1>o, <2>1, CompletersFewer
<1>4. ASSUME NEW r \in Requests, Finalize(r) \/ Release(r) PROVE CompletersCounted'
  <2>1. Others(r) /\ Completing(r) /\ ~Completing(r)'
    BY <1>4, FinalizeStep, ReleaseStep DEF Ends
  <2>2. Completers' \subseteq Completers /\ Completers' # Completers
    BY <1>o, <2>1 DEF Completers
  <2> QED BY <2>2, CompletersFewer
<1>5. ASSUME NEW p \in Procs, Crash(p) PROVE CompletersCounted'
  <2>1. /\ \A r \in Requests : req'[r] = IF r \in Of(p) THEN Done ELSE req[r]
        /\ status' = status
    BY <1>5, CrashStep DEF upload
  <2>2. Completers' \subseteq Completers
    BY <2>1 DEF Completers, Completing, Claimed, Done
  <2> QED BY <2>1, <2>2, CompletersFewer
<1>6. ASSUME GoesStale \/ Migrate \/ UNCHANGED vars PROVE CompletersCounted'
  <2>1. req' = req /\ (status' = status \/ status' \in {"GONE", "FAILED"})
    BY <1>6, GoesStaleStep, MigrateStep, RemoveRowTyped DEF vars, upload
  <2>2. Completers' = Completers
    BY <2>1 DEF Completers, Completing
  <2> QED BY <2>1, <2>2, CompletersFewer
<1> QED BY <1>1, <1>2, <1>3, <1>4, <1>5, <1>6, Steps DEF Outer

\* No root appears, and none is to be derived that was not before.
LEMMA RootsFewer ==
  ASSUME Typed, RootsCounted, [Next]_vars, roots' = roots,
         roots = {} \/ Derivers' \subseteq Derivers
  PROVE  RootsCounted'
<1>1. CASE roots = {}
  BY <1>1 DEF RootsCounted
<1>2. CASE roots # {}
  <2>1. PICK a \in Nat, b \in Nat, n \in Nat, t \in Nat, u \in Nat :
          /\ a = Cardinality(Derivers) /\ b = Cardinality(Derivers') /\ n = Cardinality(roots)
          /\ t = takeovers /\ u = takeovers'
    BY CompletersFinite, TakeoversGrow, FS_CardinalityType DEF Typed
  <2>2. n + a <= 1 + t /\ t <= u
    BY <1>2, <2>1, TakeoversGrow DEF RootsCounted
  <2>3. b <= a
    BY <1>2, <2>1, CompletersFinite, FS_Subset
  <2>4. n + b <= 1 + u
    BY <2>2, <2>3
  <2> QED BY <2>1, <2>4 DEF RootsCounted
<1> QED BY <1>1, <1>2

LEMMA RootsFewerBy ==
  ASSUME Typed, RootsCounted, [Next]_vars, roots' = roots,
         NEW r \in Requests, Others(r), Deriving(r)' => Deriving(r) \/ roots = {}
  PROVE  RootsCounted'
<1>1. roots = {} \/ Derivers' \subseteq Derivers
  BY DEF Others, Deriving, Completing, Derivers
<1> QED BY <1>1, RootsFewer

LEMMA RootsDerived ==
  ASSUME Typed, CompletersCounted, RootsCounted, [Next]_vars,
         NEW r \in Requests, DeriveRoot(r), Live
  PROVE  RootsCounted'
<1>1. /\ Others(r) /\ Deriving(r) /\ ~Deriving(r)'
      /\ roots' = roots \cup {RootNode} /\ takeovers' = takeovers
  BY DeriveRootStep DEF Deriving, hist
<1>2. r \in Derivers /\ Derivers' = Derivers \ {r} /\ Derivers \subseteq Completers
  BY <1>1 DEF Others, Deriving, Completing, Derivers, Completers
<1>3. PICK a \in Nat, b \in Nat, c \in Nat, t \in Nat, n \in Nat, m \in Nat :
        /\ a = Cardinality(Derivers) /\ b = Cardinality(Derivers') /\ c = Cardinality(Completers)
        /\ t = takeovers /\ n = Cardinality(roots) /\ m = Cardinality(roots')
        /\ m <= n + 1
  <2>1. IsFiniteSet(roots) /\ IsFiniteSet(roots')
    BY Steps DEF Typed
  <2>2. Cardinality(roots) \in Nat /\ Cardinality(roots') \in Nat
    BY <2>1, FS_CardinalityType
  <2>3. Cardinality(roots') <= Cardinality(roots) + 1
    BY <1>1, <2>1, <2>2, FS_AddElement
  <2> QED BY <2>2, <2>3, CompletersFinite, TakeoversGrow
<1>4. b = a - 1 /\ a <= c
  BY <1>2, <1>3, CompletersFinite, FS_RemoveElement, FS_Subset
<1>5. c <= 1 + t
  <2>1. c + Open <= 1 + t /\ Open \in {0, 1}
    BY <1>3 DEF CompletersCounted, Open
  <2> QED BY <2>1
<1>6. n + a <= 1 + t
  <2>1. CASE roots = {}
    <3>1. n = 0
      BY <1>3, <2>1, FS_EmptySet
    <3> QED BY <1>4, <1>5, <3>1
  <2>2. CASE roots # {}
    BY <1>3, <2>2 DEF RootsCounted
  <2> QED BY <2>1, <2>2
<1>7. m + b <= 1 + t
  BY <1>3, <1>4, <1>6
<1> QED BY <1>1, <1>3, <1>7 DEF RootsCounted

LEMMA RootsStep ==
  ASSUME Typed, CompletersCounted, RootsCounted, [Next]_vars
  PROVE  RootsCounted'
<1>1. ASSUME NEW r \in Requests, Inner(r) PROVE RootsCounted'
  <2>1. Others(r) /\ (Completing(r)' <=> Completing(r)) /\ roots' = roots
    BY <1>1 DEF Inner
  <2>2. Deriving(r)' => Deriving(r) \/ roots = {}
    BY <1>1, <2>1 DEF Inner, Deriving
  <2> QED BY <2>1, <2>2, RootsFewerBy
<1>2. ASSUME NEW r \in Requests, DeriveRoot(r) PROVE RootsCounted'
  <2>1. CASE Live
    BY <1>2, <2>1, RootsDerived
  <2>2. CASE ~Live
    <3>1. Others(r) /\ roots' = roots /\ ~Deriving(r)'
      BY <1>2, <2>2, DeriveRootStep DEF blocks, Deriving
    <3> QED BY <3>1, RootsFewerBy
  <2> QED BY <2>1, <2>2
<1>3. ASSUME NEW r \in Requests, DeleteBlocks(r) \/ DeleteRows(r) PROVE RootsCounted'
  <2>1. roots' = {}
    BY <1>3, DeleteBlocksStep, DeleteRowsStep, RemoveRowTyped
  <2> QED BY <2>1 DEF RootsCounted
<1>4. ASSUME NEW r \in Requests,
             (Claim(r) /\ Claimable) \/ Resolve(r) \/ Charge(r) \/ Finalize(r) \/ Release(r) \/ Fail(r)
      PROVE  RootsCounted'
  <2>1. Others(r) /\ roots' = roots /\ ~Deriving(r)'
    BY <1>4, ClaimGranted, ResolveStep, ChargeStep, FinalizeStep, ReleaseStep, FailStep
       DEF blocks, Deriving, Ends, MovesTo
  <2> QED BY <2>1, RootsFewerBy
<1>5. ASSUME NEW p \in Procs, Crash(p) PROVE RootsCounted'
  <2>1. /\ \A r \in Requests : req'[r] = IF r \in Of(p) THEN Done ELSE req[r]
        /\ roots' = roots
    BY <1>5, CrashStep DEF blocks
  <2>2. Derivers' \subseteq Derivers
    BY <2>1 DEF Derivers, Deriving, Completing, Claimed, Done
  <2> QED BY <2>1, <2>2, RootsFewer
<1>6. ASSUME GoesStale \/ Migrate \/ UNCHANGED vars PROVE RootsCounted'
  <2>1. req' = req /\ (roots' = roots \/ roots' = {})
    BY <1>6, GoesStaleStep, MigrateStep, RemoveRowTyped DEF blocks, vars
  <2>2. Derivers' = Derivers
    BY <2>1 DEF Derivers, Deriving, Completing
  <2>3. roots' = {} => RootsCounted'
    BY DEF RootsCounted
  <2> QED BY <2>1, <2>2, <2>3, RootsFewer
<1> QED BY <1>1, <1>2, <1>3, <1>4, <1>5, <1>6, Steps DEF Outer

LEMMA RootsInit == Init => CompletersCounted /\ RootsCounted
<1> SUFFICES ASSUME Init PROVE CompletersCounted /\ RootsCounted
  OBVIOUS
<1>1. Completers = {}
  BY DEF Init, Idle, Completers, Completing, Claimed
<1>2. Cardinality(Completers) = 0
  BY <1>1, FS_EmptySet
<1>3. takeovers = 0 /\ Open = 1 /\ roots = {}
  BY DEF Init, Open
<1> QED BY <1>2, <1>3 DEF CompletersCounted, RootsCounted

LEMMA CountedRoots == Typed /\ RootsCounted => RootsAccounted
<1> SUFFICES ASSUME Typed, RootsCounted PROVE RootsAccounted
  OBVIOUS
<1>1. PICK n \in Nat, a \in Nat, t \in Nat :
        n = Cardinality(roots) /\ a = Cardinality(Derivers) /\ t = takeovers
  BY CompletersFinite, FS_CardinalityType DEF Typed
<1>2. CASE roots = {}
  <2>1. n = 0
    BY <1>1, <1>2, FS_EmptySet
  <2> QED BY <1>1, <2>1 DEF RootsAccounted
<1>3. CASE roots # {}
  <2>1. n + a <= 1 + t
    BY <1>1, <1>3 DEF RootsCounted
  <2>2. n <= 1 + t
    BY <2>1
  <2> QED BY <1>1, <2>2 DEF RootsAccounted
<1> QED BY <1>2, <1>3

\* An upload is charged once, plus once for every completion that failed after
\* its charge and every claim taken over, all CIDs that completeUpload ever
\* answers with are one, and it has one root, plus at most one for every claim
\* taken over (OnceChargedAndNamed), whatever calls overlap.
THEOREM ChargedOnceNamedOnce == Spec => []OnceChargedAndNamed
<1> DEFINE I == Typed /\ ClaimsCounted /\ NamesHold /\ CompletersCounted /\ RootsCounted
<1>1. Init => I
  BY TypedInit, CountedInit, NamesInit, RootsInit
<1>2. I /\ [Next]_vars => I'
  BY Steps, CountedStep, NamesStep, CompletersStep, RootsStep
<1>3. I => OnceChargedAndNamed
  BY CountedIsAccounted, NamesAgree, CountedRoots DEF OnceChargedAndNamed
<1> HIDE DEF I
<1> QED BY <1>1, <1>2, <1>3, PTL DEF Spec

(***************************************************************************)
(* What a request leaves behind                                            *)
(***************************************************************************)
LEMMA OuterOthers ==
  ASSUME Typed, NEW r \in Requests, Outer(r)
  PROVE  Others(r)
BY ClaimGranted, ResolveStep, DeriveRootStep, ChargeStep, FinalizeStep, ReleaseStep,
   DeleteBlocksStep, DeleteRowsStep, FailStep DEF Outer, Ends

LEMMA ClaimHeldStep ==
  ASSUME Typed, NoStrandedClaim, [Next]_vars
  PROVE  NoStrandedClaim'
<1>t. stranded \in Nat
  BY DEF Typed
<1>1. ASSUME NEW r \in Requests, Inner(r) \/ Outer(r), Completing(r) => Completing(r)',
             stranded' \in Nat, stranded' >= stranded,
             status' = "COMPLETING" => status = "COMPLETING" \/ Completing(r)'
      PROVE  NoStrandedClaim'
  <2>1. Others(r)
    BY <1>1, OuterOthers DEF Inner
  <2>2. \A s \in Requests : Completing(s) => Completing(s)'
    BY <1>1, <2>1 DEF Others, Completing
  <2> QED BY <1>1, <1>t, <2>2 DEF NoStrandedClaim
<1>2. ASSUME NEW r \in Requests, Inner(r) PROVE NoStrandedClaim'
  <2>1. stranded' = stranded /\ status' = status /\ (Completing(r)' <=> Completing(r))
    BY <1>2 DEF Inner, upload
  <2> QED BY <1>1, <1>2, <1>t, <2>1
<1>3. ASSUME NEW r \in Requests, Outer(r) PROVE NoStrandedClaim'
  <2>1. CASE Claim(r) /\ Claimable
    <3>1. Completing(r)' /\ stranded' = stranded
      BY <2>1, ClaimGranted
    <3> QED BY <1>1, <1>3, <1>t, <3>1
  <2>2. CASE Resolve(r) \/ DeleteBlocks(r)
    <3>1. ~Completing(r) /\ status' = status /\ stranded' = stranded
      BY <2>2, ResolveStep, DeleteBlocksStep DEF upload, hist
    <3> QED BY <1>1, <1>3, <1>t, <3>1
  <2>3. CASE DeriveRoot(r) \/ Charge(r)
    <3>1. Completing(r)' /\ status' = status /\ stranded' = stranded
      BY <2>3, DeriveRootStep, ChargeStep DEF upload, hist
    <3> QED BY <1>1, <1>3, <1>t, <3>1
  <2>4. CASE Finalize(r)
    <3>1. status' # "COMPLETING"
      BY <2>4, FinalizeStep DEF upload, Live
    <3> QED BY <3>1 DEF NoStrandedClaim
  <2>5. CASE Release(r)
    <3>1. status' # "COMPLETING" \/ stranded' = stranded + 1
      BY <2>5, ReleaseStep DEF upload
    <3>2. stranded' = stranded + 1 => stranded' > 0
      BY <1>t
    <3> QED BY <3>1, <3>2 DEF NoStrandedClaim
  <2>6. CASE DeleteRows(r)
    <3>1. status' = "GONE"
      BY <2>6, DeleteRowsStep, RemoveRowTyped
    <3> QED BY <3>1 DEF NoStrandedClaim
  <2>7. CASE Fail(r)
    <3>1. CASE req[r].phase = "claimed"
      <4>1. stranded' = stranded + 1
        BY <2>7, <3>1, FailStep
      <4>2. stranded' > 0
        BY <1>t, <4>1
      <4> QED BY <4>2 DEF NoStrandedClaim
    <3>2. CASE req[r].phase # "claimed"
      <4>1. (Completing(r) => Completing(r)') /\ stranded' = stranded + 0 /\ status' = status
        BY <2>7, <3>2, FailStep DEF upload
      <4> QED BY <1>1, <1>3, <1>t, <4>1
    <3> QED BY <3>1, <3>2
  <2> QED BY <1>3, <2>1, <2>2, <2>3, <2>4, <2>5, <2>6, <2>7 DEF Outer
<1>4. ASSUME NEW p \in Procs, Crash(p) PROVE NoStrandedClaim'
  <2> DEFINE S == {r \in Of(p) : Completing(r)}
  <2>1. /\ \A r \in Requests : req'[r] = IF r \in Of(p) THEN Done ELSE req[r]
        /\ stranded' = stranded + Cardinality(S) /\ Cardinality(S) \in Nat /\ status' = status
    BY <1>4, CrashStep DEF upload
  <2>2. S \in SUBSET Requests
    BY DEF Of
  <2>3. CASE S = {}
    <3>1. \A r \in Requests : Completing(r) => Completing(r)'
      BY <2>1, <2>3 DEF Completing
    <3>2. Cardinality(S) = 0
      BY <2>3, FS_EmptySet
    <3>3. stranded' = stranded
      BY <1>t, <2>1, <3>2
    <3> QED BY <2>1, <3>1, <3>3 DEF NoStrandedClaim
  <2>4. CASE S # {}
    <3>1. Cardinality(S) # 0
      BY <2>2, <2>4, FewRequests, FS_EmptySet
    <3> HIDE DEF S
    <3>2. stranded' > 0
      BY <1>t, <2>1, <3>1
    <3> QED BY <3>2 DEF NoStrandedClaim
  <2> QED BY <2>3, <2>4
<1>5. CASE GoesStale \/ Migrate \/ UNCHANGED vars
  <2>1. /\ req' = req /\ stranded' = stranded
        /\ status' = "COMPLETING" => status = "COMPLETING"
    BY <1>5, GoesStaleStep, MigrateStep, RemoveRowTyped DEF hist, vars, upload, Live
  <2>2. \A r \in Requests : Completing(r)' <=> Completing(r)
    BY <2>1 DEF Completing
  <2> QED BY <2>1, <2>2 DEF NoStrandedClaim
<1> QED BY <1>2, <1>3, <1>4, <1>5, Steps

LockPhases == {"guard", "store", "drain", "cursor"}

\* Who holds a lock goes on under it, or lets it go.
LEMMA LockKept ==
  ASSUME Typed, LockHolderDrains, NEW r \in Requests, Others(r),
         \/ holder' = Unlocked(r)
         \/ /\ holder' = holder
            /\ req[r].phase \in LockPhases =>
                 req'[r].phase \in LockPhases /\ req'[r].proc = req[r].proc
  PROVE  LockHolderDrains'
<1> SUFFICES ASSUME NEW p \in Procs, holder'[p] # Free
             PROVE  req'[holder'[p]].phase \in LockPhases /\ req'[holder'[p]].proc = p
  BY DEF LockHolderDrains, LockPhases
<1>1. holder'[p] = holder[p] /\ (holder'[p] = r => holder' = holder)
  BY UploadsAssumption DEF Unlocked
<1>2. holder[p] \in Requests
  BY <1>1 DEF Typed
<1>3. req[holder[p]].phase \in LockPhases /\ req[holder[p]].proc = p
  BY <1>1 DEF LockHolderDrains, LockPhases
<1>4. CASE holder[p] = r
  BY <1>1, <1>3, <1>4, UploadsAssumption DEF Unlocked
<1>5. CASE holder[p] # r
  BY <1>1, <1>2, <1>3, <1>5 DEF Others
<1> QED BY <1>4, <1>5

LEMMA StepPhase ==
  ASSUME Typed, NEW r \in Requests, NEW p, ~AtRest(req[r]), Step(r, p)
  PROVE  req'[r].phase = p /\ req'[r].proc = req[r].proc
<1>1. req'[r] = [req[r] EXCEPT !.phase = p]
  BY DEF Step, Typed
<1>2. req[r] \in ChunkReqs \/ req[r] \in CompleteReqs \/ req[r] \in AbortReqs
  BY KindOf DEF AtRest
<1>3. CASE req[r] \in ChunkReqs
  BY <1>1, <1>3 DEF ChunkReqs
<1>4. CASE req[r] \in CompleteReqs
  BY <1>1, <1>4 DEF CompleteReqs
<1>5. CASE req[r] \in AbortReqs
  BY <1>1, <1>5 DEF AbortReqs
<1> QED BY <1>2, <1>3, <1>4, <1>5

LEMMA AnswerPhase ==
  ASSUME Typed, NEW r \in Requests, Answer(r)
  PROVE  req'[r].phase = "done"
BY AnswerEnds DEF Ends, Done

LEMMA ThrowPhase ==
  ASSUME Typed, NEW r \in Requests, ~AtRest(req[r]), Throw(r)
  PROVE  req'[r].phase \in {"release", "done"}
BY StepPhase, AnswerPhase DEF Throw

\* What a step of a request at work does about the drain locks: it takes one,
\* goes on under it, lets it go, or has nothing to do with it.
LEMMA LockMoves ==
  ASSUME Typed, NEW r \in Requests, Proceed(r)
  PROVE  \/ /\ req[r].phase = "lock" /\ req'[r].phase \in LockPhases /\ req'[r].proc = req[r].proc
            /\ req[r].proc \in Procs
            /\ holder[req[r].proc] = Free /\ holder' = [holder EXCEPT ![req[r].proc] = r]
         \/ /\ req[r].phase \in LockPhases /\ req'[r].phase \in LockPhases
            /\ req'[r].proc = req[r].proc /\ holder' = holder
         \/ req[r].phase \in LockPhases /\ req'[r].phase \notin LockPhases /\ holder' = Unlocked(r)
         \/ req[r].phase \notin LockPhases /\ req'[r].phase \notin LockPhases /\ holder' = holder
<1>1. CASE AcquireLock(r)
  <2> DEFINE a == IF req[r].kind = "chunk" THEN "guard" ELSE "drain"
  <2>1. /\ req[r].phase = "lock" /\ Step(r, a) /\ holder[req[r].proc] = Free
        /\ holder' = [holder EXCEPT ![req[r].proc] = r]
    BY <1>1 DEF AcquireLock
  <2>2. a \in LockPhases /\ ~AtRest(req[r])
    BY <2>1 DEF LockPhases, AtRest
  <2> HIDE DEF a
  <2> QED BY <2>1, <2>2, StepPhase, AtWork DEF AtRest
<1>2. CASE PutChunks(r)
  <2> DEFINE l == LeftOver(pending \o <<parts[processed]>>)
             x == [req[r] EXCEPT !.phase = "cursor", !.next = processed + 1, !.left = l]
  <2>1. req[r].phase = "drain" /\ holder' = holder /\ req' = [req EXCEPT ![r] = x]
    BY <1>2 DEF PutChunks
  <2>2. req'[r] = x
    BY <2>1 DEF Typed
  <2> HIDE DEF l
  <2>3. req'[r].phase = "cursor" /\ req'[r].proc = req[r].proc
    <3>1. req[r] \in ChunkReqs \/ req[r] \in CompleteReqs
      BY <2>1, KindOf
    <3> QED BY <2>2, <3>1 DEF ChunkReqs, CompleteReqs
  <2> QED BY <2>1, <2>3 DEF LockPhases
<1>3. CASE SetCursor(r)
  <2>1. req[r].phase = "cursor" /\ holder' = holder /\ Step(r, "drain") /\ ~AtRest(req[r])
    BY <1>3 DEF SetCursor, AtRest
  <2> QED BY <2>1, StepPhase DEF LockPhases
<1>4. CASE GuardChunk(r) \/ StoreChunk(r)
  <2>1. /\ req[r].phase \in {"guard", "store"} /\ ~AtRest(req[r])
        /\ \/ holder' = holder /\ (Step(r, "store") \/ Step(r, "drain"))
           \/ holder' = Unlocked(r) /\ Answer(r)
    BY <1>4 DEF GuardChunk, StoreChunk, AtRest
  <2> QED BY <2>1, StepPhase, AnswerPhase DEF LockPhases
<1>5. CASE DrainDone(r)
  <2>1. /\ req[r].phase = "drain" /\ ~AtRest(req[r]) /\ holder' = Unlocked(r)
        /\ Step(r, "check") \/ Throw(r)
    BY <1>5 DEF DrainDone, AtRest
  <2> QED BY <2>1, StepPhase, ThrowPhase DEF LockPhases
<1>6. CASE CheckRoot(r)
  <2>1. req[r].phase = "check" /\ holder' = holder /\ ~AtRest(req[r]) /\ req[r] \in CompleteReqs
    BY <1>6, KindOf DEF CheckRoot, AtRest, CompletePhases, Claimed
  <2>2. CASE Throw(r)
    BY <2>1, <2>2, ThrowPhase DEF LockPhases
  <2>3. CASE req' = [req EXCEPT ![r].phase = IF pending = <<>> THEN "derive" ELSE "flush",
                                ![r].left = pending, ![r].next = processed]
    <3>1. req'[r].phase \in {"derive", "flush"}
      BY <2>1, <2>3 DEF Typed, CompleteReqs
    <3> QED BY <2>1, <3>1 DEF LockPhases
  <2>4. CASE req' = [req EXCEPT ![r].phase = "charge", ![r].root = roots]
    <3>1. req'[r].phase = "charge"
      BY <2>1, <2>4 DEF Typed, CompleteReqs
    <3> QED BY <2>1, <3>1 DEF LockPhases
  <2> QED BY <1>6, <2>2, <2>3, <2>4 DEF CheckRoot
<1>7. CASE \/ Claim(r) \/ ReadClaimed(r) \/ Reread(r) \/ Resolve(r) \/ FlushTail(r) \/ ClearTail(r)
           \/ Charge(r) \/ Finalize(r) \/ Release(r) \/ AbortAge(r) \/ DeleteBlocks(r) \/ DeleteRows(r)
  <2>1. /\ holder' = holder /\ req[r].phase \notin LockPhases /\ ~AtRest(req[r])
        /\ \/ \E p : Step(r, p) /\ p \notin LockPhases
           \/ Answer(r) \/ Throw(r)
    BY <1>7 DEF Claim, ReadClaimed, Reread, Resolve, FlushTail, ClearTail, Charge, Finalize, Release,
       AbortAge, DeleteBlocks, DeleteRows, LockPhases, AtRest
  <2>2. req'[r].phase \notin LockPhases
    BY <2>1, StepPhase, AnswerPhase, ThrowPhase DEF LockPhases
  <2> QED BY <2>1, <2>2
<1>8. CASE DeriveRoot(r)
  <2>1. req[r].phase = "derive" /\ req'[r].phase \in {"charge", "release"} /\ holder' = holder
    BY <1>8, DeriveRootStep
  <2> QED BY <2>1 DEF LockPhases
<1> QED BY <1>1, <1>2, <1>3, <1>4, <1>5, <1>6, <1>7, <1>8 DEF Proceed

LEMMA ProceedOthers ==
  ASSUME Typed, NEW r \in Requests, Proceed(r) \/ Fail(r) \/ (\E p \in Procs : Arrive(r, p))
  PROVE  Others(r)
BY ProceedSteps, ArriveSteps, OuterOthers, FailStep DEF Inner

LEMMA LockStep ==
  ASSUME Typed, LockHolderDrains, [Next]_vars
  PROVE  LockHolderDrains'
<1>1. ASSUME NEW r \in Requests, Proceed(r) PROVE LockHolderDrains'
  <2>1. Others(r)
    BY <1>1, ProceedOthers
  <2>2. CASE /\ req[r].phase = "lock" /\ req'[r].phase \in LockPhases /\ req'[r].proc = req[r].proc
             /\ req[r].proc \in Procs
             /\ holder[req[r].proc] = Free /\ holder' = [holder EXCEPT ![req[r].proc] = r]
    <3> SUFFICES ASSUME NEW p \in Procs, holder'[p] # Free
                 PROVE  req'[holder'[p]].phase \in LockPhases /\ req'[holder'[p]].proc = p
      BY DEF LockHolderDrains, LockPhases
    <3>1. CASE p = req[r].proc
      BY <2>2, <3>1 DEF Typed
    <3>2. CASE p # req[r].proc
      <4>1. holder'[p] = holder[p] /\ holder[p] \in Requests
        BY <2>2, <3>2 DEF Typed
      <4>2. req[holder[p]].phase \in LockPhases /\ req[holder[p]].proc = p
        BY <4>1 DEF LockHolderDrains, LockPhases
      <4> QED BY <2>1, <3>2, <4>1, <4>2 DEF Others
    <3> QED BY <3>1, <3>2
  <2>3. CASE holder' = holder \/ holder' = Unlocked(r)
    <3>1. holder' # Unlocked(r) /\ req[r].phase \in LockPhases =>
            req'[r].phase \in LockPhases /\ req'[r].proc = req[r].proc
      BY <1>1, <2>3, LockMoves DEF LockPhases
    <3> QED BY <2>1, <2>3, <3>1, LockKept
  <2> QED BY <1>1, <2>2, <2>3, LockMoves
<1>2. ASSUME NEW r \in Requests, NEW p \in Procs, Arrive(r, p) PROVE LockHolderDrains'
  <2>1. Others(r)
    BY <1>2, ArriveSteps DEF Inner
  <2>2. holder' = holder /\ req[r].phase \notin LockPhases
    BY <1>2 DEF Arrive, ChunkRead, CompleteRead, AbortRead, MayStart, Idle, LockPhases
  <2> QED BY <2>1, <2>2, LockKept
<1>3. ASSUME NEW r \in Requests, Fail(r) PROVE LockHolderDrains'
  <2>1. Others(r) /\ holder' = Unlocked(r)
    BY <1>3, FailStep
  <2> QED BY <2>1, LockKept
<1>4. ASSUME NEW p \in Procs, Crash(p) PROVE LockHolderDrains'
  <2>1. /\ \A r \in Requests : req'[r] = IF r \in Of(p) THEN Done ELSE req[r]
        /\ holder' = [holder EXCEPT ![p] = Free]
    BY <1>4, CrashStep
  <2> SUFFICES ASSUME NEW q \in Procs, holder'[q] # Free
               PROVE  req'[holder'[q]].phase \in LockPhases /\ req'[holder'[q]].proc = q
    BY DEF LockHolderDrains, LockPhases
  <2>2. q # p /\ holder'[q] = holder[q] /\ holder[q] \in Requests
    BY <2>1 DEF Typed
  <2>3. req[holder[q]].phase \in LockPhases /\ req[holder[q]].proc = q
    BY <2>2 DEF LockHolderDrains, LockPhases
  <2>4. req'[holder[q]] = req[holder[q]]
    BY <2>1, <2>2, <2>3 DEF Of
  <2> QED BY <2>2, <2>3, <2>4
<1>5. CASE GoesStale \/ Migrate \/ UNCHANGED vars
  BY <1>5 DEF GoesStale, Migrate, vars, LockHolderDrains
<1> QED BY <1>1, <1>2, <1>3, <1>4, <1>5 DEF Next

\* However a request ends, it leaves neither the completion claim nor a drain
\* lock behind that nobody will hand back (NothingLeftHeld): only a holder that
\* died, or whose re-read or release failed, strands the claim.
THEOREM NothingIsLeftHeld == Spec => []NothingLeftHeld
<1> DEFINE I == Typed /\ NoStrandedClaim /\ LockHolderDrains
<1>1. Init => I
  BY TypedInit DEF Init, NoStrandedClaim, LockHolderDrains
<1>2. I /\ [Next]_vars => I'
  BY Steps, ClaimHeldStep, LockStep
<1>3. I => NothingLeftHeld
  BY DEF NothingLeftHeld
<1> HIDE DEF I
<1> QED BY <1>1, <1>2, <1>3, PTL DEF Spec

(***************************************************************************)
(* The kinds of the requests at work                                       *)
(***************************************************************************)
OneKind ==
  \A r, s \in Requests : ~AtRest(req[r]) /\ ~AtRest(req[s]) => req[r].kind = req[s].kind

LEMMA OuterKeepsKind ==
  ASSUME Typed, NEW r \in Requests, Outer(r)
  PROVE  Others(r) /\ ~AtRest(req[r]) /\ (AtRest(req'[r]) \/ req'[r].kind = req[r].kind)
<1>1. CASE Claim(r) /\ Claimable
  <2>1. Others(r) /\ req[r] \in CompleteReqs /\ ~AtRest(req[r]) /\ req'[r].kind = "complete"
    BY <1>1, ClaimGranted
  <2> QED BY <2>1 DEF CompleteReqs
<1>2. CASE Resolve(r)
  <2>1. Ends(r) /\ req[r].phase = "resolve"
    BY <1>2, ResolveStep
  <2> QED BY <2>1 DEF Ends, Done, AtRest
<1>3. CASE DeriveRoot(r) \/ Charge(r)
  <2>1. Others(r) /\ Completing(r) /\ ~AtRest(req[r]) /\ req'[r].kind = "complete"
    BY <1>3, DeriveRootStep, ChargeStep
  <2> QED BY <2>1 DEF Completing
<1>4. CASE Finalize(r) \/ Release(r) \/ DeleteRows(r)
  <2>1. Ends(r) /\ ~AtRest(req[r])
    BY <1>4, FinalizeStep, ReleaseStep, DeleteRowsStep
  <2> QED BY <2>1 DEF Ends, Done, AtRest
<1>5. CASE DeleteBlocks(r)
  BY <1>5, DeleteBlocksStep
<1>6. CASE Fail(r)
  <2>1. Others(r) /\ ~AtRest(req[r]) /\ (MovesTo(r, "release") \/ Ends(r))
    BY <1>6, FailStep
  <2> QED BY <2>1 DEF MovesTo, Ends, Done, AtRest
<1> QED BY <1>1, <1>2, <1>3, <1>4, <1>5, <1>6 DEF Outer

\* A client that is Ordered has requests of one kind at work at a time.
LEMMA OneKindStep ==
  ASSUME Ordered, Typed, OneKind, [Next]_vars
  PROVE  OneKind'
<1>1. ASSUME NEW r \in Requests, Others(r),
             \/ ~AtRest(req[r]) /\ (AtRest(req'[r]) \/ req'[r].kind = req[r].kind)
             \/ MayStart(r, req'[r].kind)
      PROVE  OneKind'
  <2>1. \A s \in Requests : s # r /\ ~AtRest(req'[s]) /\ ~AtRest(req'[r]) =>
          req'[s].kind = req'[r].kind
    BY <1>1 DEF OneKind, Others, MayStart, AtRest
  <2>2. \A s, t \in Requests : s # r /\ t # r /\ ~AtRest(req'[s]) /\ ~AtRest(req'[t]) =>
          req'[s].kind = req'[t].kind
    BY <1>1 DEF OneKind, Others
  <2> QED BY <2>1, <2>2 DEF OneKind
<1>2. ASSUME NEW r \in Requests, Inner(r) PROVE OneKind'
  <2>1. \/ ~AtRest(req[r]) /\ (AtRest(req'[r]) \/ req'[r].kind = req[r].kind)
        \/ MayStart(r, req'[r].kind)
    BY <1>2 DEF Inner
  <2>2. Others(r)
    BY <1>2 DEF Inner
  <2> QED BY <1>1, <2>1, <2>2
<1>3. ASSUME NEW r \in Requests, Outer(r) PROVE OneKind'
  BY <1>1, <1>3, OuterKeepsKind
<1>4. ASSUME NEW p \in Procs, Crash(p) PROVE OneKind'
  <2>a. \A r \in Requests : req'[r] = IF r \in Of(p) THEN Done ELSE req[r]
    BY <1>4, CrashStep
  <2>1. \A r \in Requests : ~AtRest(req'[r]) => req'[r] = req[r]
    BY <2>a DEF Done, AtRest
  <2> QED BY <2>1 DEF OneKind
<1>5. CASE GoesStale \/ Migrate \/ UNCHANGED vars
  <2>1. req' = req
    BY <1>5, GoesStaleStep, MigrateStep DEF vars
  <2> QED BY <2>1 DEF OneKind
<1> QED BY <1>2, <1>3, <1>4, <1>5, Steps

\* The root of a completion that is about to charge or to flip the row has the
\* size of the stored parts.
SizeCovers == Live => \A r \in Requests : Charging(r) => \A n \in req[r].root : n.size = storedSize

LEMMA SizeStep ==
  ASSUME Ordered, Typed, OneKind, SizeCovers, [Next]_vars
  PROVE  SizeCovers'
<1>1. ASSUME NEW r \in Requests, Others(r), Live' => Live /\ parts' = parts,
             Live' /\ Charging(r)' => \/ Charging(r) /\ req'[r].root = req[r].root
                                      \/ \A n \in req'[r].root : n.size = storedSize
      PROVE  SizeCovers'
  <2> SUFFICES ASSUME Live', NEW s \in Requests, Charging(s)'
               PROVE  \A n \in req'[s].root : n.size = storedSize'
    BY DEF SizeCovers
  <2>1. storedSize' = storedSize /\ Live
    BY <1>1 DEF storedSize
  <2>2. CASE s = r
    BY <1>1, <2>1, <2>2 DEF SizeCovers
  <2>3. CASE s # r
    <3>1. req'[s] = req[s]
      BY <1>1, <2>3 DEF Others
    <3>2. Charging(s)
      BY <3>1 DEF Charging, Completing
    <3> QED BY <2>1, <3>1, <3>2 DEF SizeCovers
  <2> QED BY <2>2, <2>3
<1>2. ASSUME NEW r \in Requests, Inner(r) PROVE SizeCovers'
  <2>1. Others(r) /\ status' = status /\ (Completing(r)' <=> Completing(r))
    BY <1>2 DEF Inner, upload
  <2>2. CASE req[r].phase = "store"
    <3>1. req[r].kind = "chunk" /\ ~AtRest(req[r]) /\ ~Completing(r)
      BY <2>2, KindOf DEF ChunkReqs, AtRest, Completing
    <3>2. ASSUME NEW s \in Requests PROVE ~Completing(s)'
      <4>1. CASE s = r
        BY <2>1, <3>1, <4>1
      <4>2. CASE s # r
        <5>1. req'[s] = req[s]
          BY <2>1, <4>2 DEF Others
        <5> QED BY <3>1, <5>1 DEF OneKind, Completing, Claimed, AtRest
      <4> QED BY <4>1, <4>2
    <3> QED BY <3>2 DEF SizeCovers, Charging
  <2>3. CASE req[r].phase # "store"
    <3>1. parts' = parts /\ (Live' => Live)
      BY <1>2, <2>1, <2>3 DEF Inner, Live
    <3>2. Charging(r)' => \A n \in req'[r].root : n.size = storedSize
      BY <1>2 DEF Inner, Charging
    <3> QED BY <1>1, <2>1, <3>1, <3>2
  <2> QED BY <2>2, <2>3
<1>3. ASSUME NEW r \in Requests, Outer(r) PROVE SizeCovers'
  <2>o. Others(r)
    BY <1>3, OuterKeepsKind
  <2>1. CASE Claim(r) /\ Claimable
    <3>1. req'[r].phase = "claimed" /\ parts' = parts
      BY <2>1, ClaimGranted DEF files
    <3>2. Live /\ ~Charging(r)'
      BY <2>1, <3>1 DEF Claimable, Live, Charging
    <3> QED BY <1>1, <2>o, <3>1, <3>2
  <2>2. CASE Resolve(r) \/ Finalize(r) \/ Release(r) \/ DeleteBlocks(r)
    <3>1. ~Completing(r)' /\ parts' = parts /\ (Live' => Live)
      BY <2>2, ResolveStep, FinalizeStep, ReleaseStep, DeleteBlocksStep DEF files, upload, Live
    <3> QED BY <1>1, <2>o, <3>1 DEF Charging
  <2>3. CASE DeriveRoot(r)
    <3>1. parts' = parts /\ status' = status
      BY <2>3, DeriveRootStep DEF files, upload
    <3>2. Live => \A n \in req'[r].root : n.size = storedSize
      BY <2>3, DeriveRootStep DEF RootNode
    <3> QED BY <1>1, <2>o, <3>1, <3>2 DEF Live
  <2>4. CASE Charge(r)
    <3>1. /\ parts' = parts /\ status' = status /\ req'[r].root = req[r].root
          /\ Completing(r) /\ req[r].phase = "charge"
      BY <2>4, ChargeStep DEF files, upload
    <3> QED BY <1>1, <2>o, <3>1 DEF Live, Charging
  <2>5. CASE DeleteRows(r)
    <3>1. ~Live'
      BY <2>5, DeleteRowsStep, RemoveRowTyped DEF Live
    <3> QED BY <3>1 DEF SizeCovers
  <2>6. CASE Fail(r)
    <3>1. parts' = parts /\ status' = status /\ (MovesTo(r, "release") \/ Ends(r))
      BY <2>6, FailStep DEF files, upload
    <3>2. ~Charging(r)'
      BY <3>1 DEF MovesTo, Ends, Done, Charging
    <3> QED BY <1>1, <2>o, <3>1, <3>2 DEF Live
  <2> QED BY <1>3, <2>1, <2>2, <2>3, <2>4, <2>5, <2>6 DEF Outer
<1>4. ASSUME \A s \in Requests : Charging(s)' => Charging(s) /\ req'[s] = req[s],
             Live' => Live /\ parts' = parts
      PROVE  SizeCovers'
  BY <1>4 DEF SizeCovers, storedSize
<1>5. ASSUME NEW p \in Procs, Crash(p) PROVE SizeCovers'
  <2>1. /\ \A r \in Requests : req'[r] = IF r \in Of(p) THEN Done ELSE req[r]
        /\ status' = status /\ parts' = parts
    BY <1>5, CrashStep DEF upload, files
  <2>2. \A s \in Requests : Charging(s)' => Charging(s) /\ req'[s] = req[s]
    BY <2>1 DEF Charging, Completing, Done
  <2> QED BY <1>4, <2>1, <2>2 DEF Live
<1>6. CASE GoesStale \/ Migrate \/ UNCHANGED vars
  <2>1. req' = req /\ (Live' => Live /\ parts' = parts)
    BY <1>6, GoesStaleStep, MigrateStep, RemoveRowTyped DEF vars, files, upload, Live
  <2>2. \A s \in Requests : Charging(s)' => Charging(s) /\ req'[s] = req[s]
    BY <2>1 DEF Charging, Completing
  <2> QED BY <1>4, <2>1, <2>2
<1> QED BY <1>2, <1>3, <1>5, <1>6, Steps

\* A client that does not overlap its calls never sees an upload flipped whose
\* stored parts its root does not cover (CompletionCoversParts), whatever
\* fails, crashes or goes stale, in any number of processes.
THEOREM CompletionCovers ==
  ASSUME Ordered
  PROVE  Spec => CompletionCoversParts
<1> DEFINE I == Typed /\ OneKind /\ SizeCovers
           A == \A r \in Requests :
                  (Completing(r) /\ req[r].phase = "finalize" /\ Live /\ status' = "MIGRATING"
                   /\ req'[r] = Done) => \A n \in req[r].root : n.size = storedSize
<1>1. Init => I
  <2> SUFFICES ASSUME Init PROVE OneKind /\ SizeCovers
    BY TypedInit
  <2>1. \A r \in Requests : req[r].phase = "idle"
    BY DEF Init, Idle
  <2> QED BY <2>1 DEF OneKind, SizeCovers, Charging, Completing, Claimed, AtRest
<1>2. I /\ [Next]_vars => I'
  BY Steps, OneKindStep, SizeStep
<1>3. I /\ [Next]_vars => [A]_vars
  BY DEF SizeCovers, Charging
<1> HIDE DEF I, A
<1>4. Spec => [][A]_vars
  BY <1>1, <1>2, <1>3, PTL DEF Spec
<1> QED BY <1>4 DEF A, CompletionCoversParts

(***************************************************************************)
(* One claim at a time, one root                                           *)
(***************************************************************************)
TasksSettled == tasks > 0 => Settled

\* While the row exists, whoever completes the upload is alone and its claim
\* is fresh.
ClaimIsOne ==
  Live => \A r \in Requests : Completing(r) =>
            status = "COMPLETING" /\ ~stale /\ \A s \in Requests : Completing(s) => s = r

RootIsOne ==
  /\ Live => \A r \in Requests : Deriving(r) => roots = {}
  /\ ~Live => roots = {}
  /\ \A m, n \in roots : m = n

LEMMA TasksStep ==
  ASSUME Typed, TasksSettled, NamesHold, [Next]_vars
  PROVE  TasksSettled'
<1>1. Settled => Settled'
  BY SettledStays
<1>2. tasks' = tasks => TasksSettled'
  BY <1>1 DEF TasksSettled
<1>3. ASSUME NEW r \in Requests, Inner(r) PROVE TasksSettled'
  BY <1>2, <1>3 DEF Inner
<1>4. ASSUME NEW r \in Requests, Outer(r) PROVE TasksSettled'
  <2>1. CASE Resolve(r)
    <3>1. Settled
      BY <2>1, ResolveStep DEF NamesHold
    <3> QED BY <1>1, <3>1 DEF TasksSettled
  <2>2. CASE Finalize(r)
    <3>1. Settled'
      BY <2>2, FinalizeStep DEF Settled, Live, upload
    <3> QED BY <3>1 DEF TasksSettled
  <2>3. CASE ~Resolve(r) /\ ~Finalize(r)
    <3>1. tasks' = tasks
      BY <1>4, <2>3, ClaimGranted, DeriveRootStep, ChargeStep, ReleaseStep, DeleteBlocksStep,
         DeleteRowsStep, FailStep DEF Outer
    <3> QED BY <1>2, <3>1
  <2> QED BY <2>1, <2>2, <2>3
<1>5. ASSUME NEW p \in Procs, Crash(p) PROVE TasksSettled'
  BY <1>2, <1>5, CrashStep
<1>6. CASE Migrate
  <2>1. tasks > 0
    BY <1>6 DEF Migrate
  <2> QED BY <1>1, <2>1 DEF TasksSettled
<1>7. CASE GoesStale \/ UNCHANGED vars
  BY <1>2, <1>7, GoesStaleStep DEF vars
<1> QED BY <1>3, <1>4, <1>5, <1>6, <1>7, Steps

LEMMA ClaimKept ==
  ASSUME ClaimIsOne, \A s \in Requests : Completing(s)' => Completing(s),
         Live' => Live,
         \A s \in Requests : Live' /\ Completing(s) /\ Completing(s)' => status' = status /\ stale' = stale
  PROVE  ClaimIsOne'
<1> SUFFICES ASSUME Live', NEW r \in Requests, Completing(r)'
             PROVE  status' = "COMPLETING" /\ ~stale' /\ \A s \in Requests : Completing(s)' => s = r
  BY DEF ClaimIsOne
<1>1. status = "COMPLETING" /\ ~stale /\ \A s \in Requests : Completing(s) => s = r
  BY DEF ClaimIsOne
<1> QED BY <1>1

LEMMA OthersComplete ==
  ASSUME NEW r \in Requests, Others(r), Completing(r)' => Completing(r)
  PROVE  \A s \in Requests : Completing(s)' => Completing(s)
<1> SUFFICES ASSUME NEW s \in Requests, Completing(s)' PROVE Completing(s)
  OBVIOUS
<1>1. CASE s = r
  BY <1>1
<1>2. CASE s # r
  BY <1>2 DEF Others, Completing
<1> QED BY <1>1, <1>2

LEMMA ClaimStep ==
  ASSUME ~Slow, Typed, TasksSettled, ClaimIsOne, [Next]_vars
  PROVE  ClaimIsOne'
<1>1. ASSUME NEW r \in Requests, Inner(r) PROVE ClaimIsOne'
  <2>1. Others(r) /\ (Completing(r)' => Completing(r)) /\ status' = status /\ stale' = stale
    BY <1>1 DEF Inner, upload
  <2> QED BY <2>1, OthersComplete, ClaimKept DEF Live
<1>2. ASSUME NEW r \in Requests, Outer(r) PROVE ClaimIsOne'
  <2>o. Others(r)
    BY <1>2, OuterKeepsKind
  <2>1. CASE Claim(r) /\ Claimable
    <3>1. status' = "COMPLETING" /\ stale' = FALSE /\ ~Completing(r)
      BY <2>1, ClaimGranted
    <3>2. \A s \in Requests : ~Completing(s)
      BY <2>1 DEF Claimable, ClaimIsOne, Live
    <3>3. \A s \in Requests : Completing(s)' => s = r
      BY <2>o, <3>2 DEF Others, Completing
    <3> QED BY <3>1, <3>3 DEF ClaimIsOne
  <2>2. CASE Resolve(r) \/ DeriveRoot(r) \/ Charge(r) \/ DeleteBlocks(r)
    <3>1. (Completing(r)' => Completing(r)) /\ status' = status /\ stale' = stale
      BY <2>2, ResolveStep, DeriveRootStep, ChargeStep, DeleteBlocksStep DEF upload
    <3> QED BY <2>o, <3>1, OthersComplete, ClaimKept DEF Live
  <2>3. CASE Finalize(r) \/ Release(r)
    <3>1. /\ Completing(r) /\ ~Completing(r)'
          /\ Live' => Live
      BY <2>3, FinalizeStep, ReleaseStep DEF upload, Live
    <3>2. ASSUME Live', NEW s \in Requests PROVE ~Completing(s)'
      <4>1. CASE s = r
        BY <3>1, <4>1
      <4>2. CASE s # r
        <5>1. ~Completing(s)
          BY <3>1, <3>2, <4>2 DEF ClaimIsOne
        <5> QED BY <2>o, <4>2, <5>1 DEF Others, Completing
      <4> QED BY <4>1, <4>2
    <3> QED BY <3>2 DEF ClaimIsOne
  <2>4. CASE DeleteRows(r)
    <3>1. ~Live'
      BY <2>4, DeleteRowsStep, RemoveRowTyped DEF Live
    <3> QED BY <3>1 DEF ClaimIsOne
  <2>5. CASE Fail(r)
    <3>1. (Completing(r)' => Completing(r)) /\ status' = status /\ stale' = stale
      BY <2>5, FailStep DEF upload
    <3> QED BY <2>o, <3>1, OthersComplete, ClaimKept DEF Live
  <2> QED BY <1>2, <2>1, <2>2, <2>3, <2>4, <2>5 DEF Outer
<1>3. ASSUME NEW p \in Procs, Crash(p) PROVE ClaimIsOne'
  <2>1. /\ \A r \in Requests : req'[r] = IF r \in Of(p) THEN Done ELSE req[r]
        /\ status' = status /\ stale' = stale
    BY <1>3, CrashStep DEF upload
  <2>2. \A s \in Requests : Completing(s)' => Completing(s)
    BY <2>1 DEF Completing, Claimed, Done
  <2> QED BY <2>1, <2>2, ClaimKept DEF Live
<1>4. CASE GoesStale
  <2>1. req' = req /\ status' = status
    BY <1>4, GoesStaleStep
  <2>2. \A s \in Requests : ~Completing(s)
    BY <1>4, GoesStaleStep DEF ClaimIsOne, Live
  <2>3. \A s \in Requests : ~Completing(s)'
    BY <2>1, <2>2 DEF Completing
  <2> QED BY <2>3 DEF ClaimIsOne
<1>5. CASE Migrate
  <2>1. Settled /\ req' = req /\ (Live' => Live)
    BY <1>5, MigrateStep, RemoveRowTyped DEF TasksSettled, Live, Migrate
  <2>2. Live' => \A s \in Requests : ~Completing(s)
    BY <2>1 DEF ClaimIsOne, Settled
  <2>3. Live' => \A s \in Requests : ~Completing(s)'
    BY <2>1, <2>2 DEF Completing
  <2> QED BY <2>3 DEF ClaimIsOne
<1>6. CASE UNCHANGED vars
  BY <1>6 DEF vars, upload, ClaimIsOne, Live, Completing
<1> QED BY <1>1, <1>2, <1>3, <1>4, <1>5, <1>6, Steps

\* No root appears, and none is derived anew.
LEMMA RootKept ==
  ASSUME RootIsOne, roots' \subseteq roots, Live => Live' \/ roots' = {},
         Live' => Live,
         \A s \in Requests : Deriving(s)' => Deriving(s) \/ roots' = {}
  PROVE  RootIsOne'
<1>1. Live' => \A r \in Requests : Deriving(r)' => roots' = {}
  BY DEF RootIsOne
<1>2. ~Live' => roots' = {}
  BY DEF RootIsOne
<1>3. \A m, n \in roots' : m = n
  BY DEF RootIsOne
<1> QED BY <1>1, <1>2, <1>3 DEF RootIsOne

LEMMA RootKeptBy ==
  ASSUME RootIsOne, NEW r \in Requests, Others(r), roots' = roots,
         status' = status \/ (Live /\ Live'), Deriving(r)' => Deriving(r) \/ roots = {}
  PROVE  RootIsOne'
<1>1. ASSUME NEW s \in Requests PROVE Deriving(s)' => Deriving(s) \/ roots' = {}
  <2>1. CASE s = r
    BY <2>1
  <2>2. CASE s # r
    BY <2>2 DEF Others, Deriving, Completing
  <2> QED BY <2>1, <2>2
<1>2. Live' <=> Live
  BY DEF Live
<1> QED BY <1>1, <1>2, RootKept

LEMMA RootStep ==
  ASSUME Typed, ClaimIsOne, RootIsOne, [Next]_vars
  PROVE  RootIsOne'
<1>1. ASSUME NEW r \in Requests, Inner(r) PROVE RootIsOne'
  <2>1. Others(r) /\ (Completing(r)' <=> Completing(r)) /\ status' = status /\ roots' = roots
    BY <1>1 DEF Inner, upload
  <2>2. Deriving(r)' => Deriving(r) \/ roots = {}
    BY <1>1, <2>1 DEF Inner, Deriving
  <2> QED BY <2>1, <2>2, RootKeptBy
<1>2. ASSUME NEW r \in Requests, Outer(r) PROVE RootIsOne'
  <2>o. Others(r)
    BY <1>2, OuterKeepsKind
  <2>1. CASE Claim(r) /\ Claimable
    <3>1. req'[r].phase = "claimed" /\ roots' = roots /\ Live /\ Live'
      BY <2>1, ClaimGranted DEF blocks, Claimable, Live
    <3>2. ~Deriving(r)'
      BY <3>1 DEF Deriving
    <3> QED BY <2>o, <3>1, <3>2, RootKeptBy
  <2>2. CASE Resolve(r)
    <3>1. ~Completing(r)' /\ status' = status /\ roots' = roots
      BY <2>2, ResolveStep DEF upload, blocks
    <3> QED BY <2>o, <3>1, RootKeptBy DEF Deriving
  <2>3. CASE DeriveRoot(r)
    <3>1. Completing(r) /\ Deriving(r) /\ status' = status /\ req'[r].phase \in {"charge", "release"}
      BY <2>3, DeriveRootStep DEF upload, Deriving
    <3>2. CASE ~Live
      <4>1. roots' = roots
        BY <2>3, <3>2, DeriveRootStep DEF blocks
      <4> QED BY <2>o, <3>1, <4>1, RootKeptBy
    <3>3. CASE Live
      <4>1. roots = {} /\ roots' = roots \cup {RootNode}
        BY <2>3, <3>1, <3>3, DeriveRootStep DEF RootIsOne
      <4>2. ~Deriving(r)'
        BY <3>1 DEF Deriving
      <4>3. \A s \in Requests : Completing(s) => s = r
        BY <3>1, <3>3 DEF ClaimIsOne
      <4>4. \A s \in Requests : ~Deriving(s)'
        BY <2>o, <4>2, <4>3 DEF Others, Deriving, Completing
      <4>5. \A m, n \in roots' : m = n
        BY <4>1
      <4> QED BY <3>1, <3>3, <4>4, <4>5 DEF RootIsOne, Live
    <3> QED BY <3>2, <3>3
  <2>4. CASE Charge(r)
    <3>1. req'[r].phase \in {"finalize", "release"} /\ status' = status /\ roots' = roots
      BY <2>4, ChargeStep DEF upload, blocks
    <3> QED BY <2>o, <3>1, RootKeptBy DEF Deriving
  <2>5. CASE Finalize(r) \/ Release(r)
    <3>1. ~Completing(r)' /\ roots' = roots
      BY <2>5, FinalizeStep, ReleaseStep DEF blocks
    <3>2. status' = status \/ (Live /\ Live')
      BY <2>5, FinalizeStep, ReleaseStep DEF upload, Live
    <3> QED BY <2>o, <3>1, <3>2, RootKeptBy DEF Deriving
  <2>6. CASE DeleteBlocks(r)
    <3>1. status' = status /\ roots' = {}
      BY <2>6, DeleteBlocksStep DEF upload
    <3> QED BY <3>1, RootKept DEF Live
  <2>7. CASE DeleteRows(r)
    <3>1. ~Live' /\ roots' = {}
      BY <2>7, DeleteRowsStep, RemoveRowTyped DEF Live
    <3> QED BY <3>1, RootKept
  <2>8. CASE Fail(r)
    <3>1. status' = status /\ roots' = roots /\ (MovesTo(r, "release") \/ Ends(r))
      BY <2>8, FailStep DEF upload, blocks
    <3>2. ~Deriving(r)'
      BY <3>1 DEF MovesTo, Ends, Done, Deriving
    <3> QED BY <2>o, <3>1, <3>2, RootKeptBy
  <2> QED BY <1>2, <2>1, <2>2, <2>3, <2>4, <2>5, <2>6, <2>7, <2>8 DEF Outer
<1>3. ASSUME NEW p \in Procs, Crash(p) PROVE RootIsOne'
  <2>1. /\ \A r \in Requests : req'[r] = IF r \in Of(p) THEN Done ELSE req[r]
        /\ status' = status /\ roots' = roots
    BY <1>3, CrashStep DEF upload, blocks
  <2>2. \A s \in Requests : Deriving(s)' => Deriving(s)
    BY <2>1 DEF Deriving, Completing, Claimed, Done
  <2> QED BY <2>1, <2>2, RootKept DEF Live
<1>4. CASE GoesStale \/ UNCHANGED vars
  <2>1. req' = req /\ status' = status /\ roots' = roots
    BY <1>4, GoesStaleStep DEF vars, blocks, upload
  <2>2. \A s \in Requests : Deriving(s)' => Deriving(s)
    BY <2>1 DEF Deriving, Completing
  <2> QED BY <2>1, <2>2, RootKept DEF Live
<1>5. CASE Migrate
  <2>1. req' = req
    BY <1>5, MigrateStep
  <2>2. \A s \in Requests : Deriving(s)' => Deriving(s)
    BY <2>1 DEF Deriving, Completing
  <2>3. (roots' = {} /\ ~Live') \/ (roots' = roots /\ (Live' <=> Live))
    BY <1>5, MigrateStep, RemoveRowTyped DEF Live, blocks
  <2> QED BY <2>2, <2>3, RootKept
<1> QED BY <1>1, <1>2, <1>3, <1>4, <1>5, Steps

LEMMA OneRootInit == Init => TasksSettled /\ ClaimIsOne /\ RootIsOne
<1> SUFFICES ASSUME Init PROVE TasksSettled /\ ClaimIsOne /\ RootIsOne
  OBVIOUS
<1>1. \A r \in Requests : ~Completing(r)
  BY DEF Init, Idle, Completing, Claimed
<1> QED BY <1>1 DEF Init, TasksSettled, ClaimIsOne, RootIsOne, Deriving, Live

LEMMA OneRootIsOne == Typed /\ RootIsOne => OneRoot
<1> SUFFICES ASSUME Typed, RootIsOne PROVE Cardinality(roots) <= 1
  BY DEF OneRoot
<1>1. CASE roots = {}
  BY <1>1, FS_EmptySet
<1>2. CASE roots # {}
  <2>1. PICK n : n \in roots
    BY <1>2
  <2>2. roots = {n}
    BY <2>1 DEF RootIsOne
  <2> QED BY <2>2, FS_Singleton
<1> QED BY <1>1, <1>2

\* As long as no completion outlasts the staleness window one root node is
\* derived (OneRoot), however calls overlap, fail and crash in any number of
\* processes: a claim is never held twice while the row exists.
THEOREM OneRootIsDerived ==
  ASSUME ~Slow
  PROVE  Spec => []OneRoot
<1> DEFINE I == Typed /\ NamesHold /\ TasksSettled /\ ClaimIsOne /\ RootIsOne
<1>1. Init => I
  BY TypedInit, NamesInit, OneRootInit
<1>2. I /\ [Next]_vars => I'
  BY Steps, NamesStep, TasksStep, ClaimStep, RootStep
<1>3. I => OneRoot
  BY OneRootIsOne
<1> HIDE DEF I
<1> QED BY <1>1, <1>2, <1>3, PTL DEF Spec

(***************************************************************************)
(* What the root holds                                                     *)
(***************************************************************************)
Bytes == Flat(chunks)[Len(chunks)]

\* The sequence holds the first n parts.
Covers(s, n) == Len(s) = n /\ \A k \in 1..n : k - 1 \in DOMAIN parts /\ s[k] = parts[k - 1]

\* Between taking the drain lock and the root: at the parts, the cursor or the tree.
BusyPhases == LockPhases \cup {"check", "flush", "clear", "derive"}

OneProcess == \A p, q \in Procs : p = q

LockIsHeld == \A r \in Requests : req[r].phase \in LockPhases => holder[req[r].proc] = r

\* Nothing drained is stored again, and the cursor only moves on.
StoreSafe == \A r \in Requests :
  /\ req[r].phase = "store" => processed <= req[r].index
  /\ req[r].phase = "cursor" => req[r].next = processed + 1

\* The tree and the tail hold the drained parts, but for what is half done.
TreeCovers ==
  roots = {} =>
    /\ (\A r \in Requests : ~HalfDone(r)) => Covers(Bytes \o pending, processed)
    /\ \A r \in Requests : req[r].phase = "cursor" => Covers(Bytes \o req[r].left, req[r].next)
    /\ \A r \in Requests : req[r].phase = "clear" => Covers(Bytes, processed)

\* A completion past its drain has drained everything.
CompletionReads == \A r \in Requests :
  /\ req[r].phase \in {"check", "flush", "clear", "derive"} =>
       \A i \in DOMAIN parts : i < processed
  /\ req[r].phase \in {"flush", "clear"} => req[r].next = processed
  /\ req[r].phase = "flush" => req[r].left = pending
  /\ req[r].phase = "derive" => pending = <<>>

RootsCover == \A n \in roots : n.size <= processed /\ Covers(n.content, n.size)

ContentHolds ==
  torn = 0 /\ Live => StoreSafe /\ TreeCovers /\ CompletionReads /\ RootsCover

\* What is known of the requests of an orderly client of one process.
Ground == Typed /\ OneKind /\ ClaimIsOne /\ RootIsOne /\ LockIsHeld

\* A lock that a request works under is its own.
LEMMA LockHeldStep ==
  ASSUME Typed, LockIsHeld, [Next]_vars
  PROVE  LockIsHeld'
<1>1. ASSUME NEW r \in Requests, Proceed(r) PROVE LockIsHeld'
  <2>1. Others(r)
    BY <1>1, ProceedOthers
  <2> SUFFICES ASSUME NEW s \in Requests, req'[s].phase \in LockPhases
               PROVE  holder'[req'[s].proc] = s
    BY DEF LockIsHeld
  <2>2. CASE s = r
    <3>1. CASE req[r].phase = "lock"
      BY <1>1, <2>2, <3>1, LockMoves DEF LockPhases, Typed
    <3>2. CASE req[r].phase # "lock"
      BY <1>1, <2>2, <3>2, LockMoves DEF LockIsHeld
    <3> QED BY <3>1, <3>2
  <2>3. CASE s # r
    <3>1. req'[s] = req[s]
      BY <2>1, <2>3 DEF Others
    <3>2. holder[req[s].proc] = s /\ req[s].proc \in Procs
      <4>1. req[s].phase \notin {"idle", "done"}
        BY <3>1 DEF LockPhases
      <4> QED BY <3>1, <4>1, AtWork DEF LockIsHeld
    <3>3. s # Free
      BY UploadsAssumption
    <3>4. CASE holder' = holder
      BY <3>1, <3>2, <3>4
    <3>5. CASE holder' = Unlocked(r)
      BY <2>3, <3>1, <3>2, <3>5 DEF Unlocked
    <3>6. CASE holder[req[r].proc] = Free /\ holder' = [holder EXCEPT ![req[r].proc] = r]
      BY <3>1, <3>2, <3>3, <3>6 DEF Typed
    <3> QED BY <1>1, <3>4, <3>5, <3>6, LockMoves
  <2> QED BY <2>2, <2>3
<1>2. ASSUME NEW r \in Requests, Others(r), req'[r].phase \notin LockPhases,
             holder' = holder \/ holder' = Unlocked(r)
      PROVE  LockIsHeld'
  <2> SUFFICES ASSUME NEW s \in Requests, req'[s].phase \in LockPhases
               PROVE  holder'[req'[s].proc] = s
    BY DEF LockIsHeld
  <2>1. s # r /\ req'[s] = req[s]
    BY <1>2 DEF Others
  <2>2. holder[req[s].proc] = s /\ req[s].proc \in Procs
    <3>1. req[s].phase \notin {"idle", "done"}
      BY <2>1 DEF LockPhases
    <3> QED BY <2>1, <3>1, AtWork DEF LockIsHeld
  <2> QED BY <1>2, <2>1, <2>2 DEF Unlocked
<1>3. ASSUME NEW r \in Requests, NEW p \in Procs, Arrive(r, p) PROVE LockIsHeld'
  <2>1. Others(r) /\ holder' = holder
    BY <1>3, ArriveSteps DEF Inner, Arrive, ChunkRead, CompleteRead, AbortRead
  <2>2. req'[r].phase \notin LockPhases
    <3>1. CASE \E i \in 0..(NParts - 1), d \in Data : ChunkRead(r, p, i, d)
      <4>1. req'[r].phase = "lock"
        BY <3>1 DEF ChunkRead, Typed
      <4> QED BY <4>1 DEF LockPhases
    <3>2. CASE CompleteRead(r, p)
      <4>1. req'[r].phase \in {"resolve", "claim"}
        BY <3>2 DEF CompleteRead, Typed
      <4> QED BY <4>1 DEF LockPhases
    <3>3. CASE AbortRead(r, p)
      <4>1. req'[r].phase \in {"blocks", "age"}
        BY <3>3 DEF AbortRead, Typed
      <4> QED BY <4>1 DEF LockPhases
    <3> QED BY <1>3, <3>1, <3>2, <3>3 DEF Arrive
  <2> QED BY <1>2, <2>1, <2>2
<1>4. ASSUME NEW r \in Requests, Fail(r) PROVE LockIsHeld'
  <2>1. Others(r) /\ holder' = Unlocked(r) /\ (MovesTo(r, "release") \/ Ends(r))
    BY <1>4, FailStep
  <2>2. req'[r].phase \notin LockPhases
    BY <2>1 DEF MovesTo, Ends, Done, LockPhases
  <2> QED BY <1>2, <2>1, <2>2
<1>5. ASSUME NEW p \in Procs, Crash(p) PROVE LockIsHeld'
  <2>1. /\ \A r \in Requests : req'[r] = IF r \in Of(p) THEN Done ELSE req[r]
        /\ holder' = [holder EXCEPT ![p] = Free]
    BY <1>5, CrashStep
  <2> SUFFICES ASSUME NEW s \in Requests, req'[s].phase \in LockPhases
               PROVE  holder'[req'[s].proc] = s
    BY DEF LockIsHeld
  <2>2. s \notin Of(p) /\ req'[s] = req[s]
    BY <2>1 DEF Done, LockPhases
  <2>3. req[s].proc # p
    BY <2>2 DEF Of, LockPhases
  <2>4. holder[req[s].proc] = s
    BY <2>2 DEF LockIsHeld
  <2> QED BY <2>1, <2>2, <2>3, <2>4 DEF Typed
<1>6. CASE GoesStale \/ Migrate \/ UNCHANGED vars
  BY <1>6 DEF GoesStale, Migrate, vars, LockIsHeld
<1> QED BY <1>1, <1>3, <1>4, <1>5, <1>6 DEF Next

\* At most one request is at the parts, the cursor or the tree at a time.
LEMMA Alone ==
  ASSUME OneProcess, Ground, Live, NEW r \in Requests, NEW s \in Requests,
         req[r].phase \in BusyPhases, req[s].phase \in BusyPhases \cup {"rows", "blocks"}
  PROVE  s = r
<1>t. Typed
  BY DEF Ground
<1>1. req[r].kind = req[s].kind /\ req[r].proc = req[s].proc
  <2>1. ~AtRest(req[r]) /\ ~AtRest(req[s])
    BY DEF AtRest, BusyPhases, LockPhases
  <2> QED BY <1>t, <2>1, AtWork DEF Ground, OneKind, OneProcess, AtRest
<1>2. \/ req[r].kind = "chunk" /\ req[r].phase \in LockPhases
      \/ req[r].kind = "complete" /\ Completing(r)
  <2>1. req[r] \in ChunkReqs \/ req[r] \in CompleteReqs
    BY <1>t, KindOf DEF BusyPhases, LockPhases, CompletePhases, Claimed
  <2> QED BY <2>1 DEF ChunkReqs, ChunkPhases, CompleteReqs, CompletePhases, BusyPhases, LockPhases,
                      Completing, Claimed
<1>3. \/ req[s].kind = "chunk" /\ req[s].phase \in LockPhases
      \/ req[s].kind = "complete" /\ Completing(s)
      \/ req[s].kind = "abort"
  <2>1. req[s] \in ChunkReqs \/ req[s] \in CompleteReqs \/ req[s] \in AbortReqs
    BY <1>t, KindOf DEF BusyPhases, LockPhases
  <2> QED BY <2>1 DEF ChunkReqs, ChunkPhases, CompleteReqs, CompletePhases, BusyPhases, LockPhases,
                      Completing, Claimed, AbortReqs, AbortPhases
<1>4. CASE req[r].kind = "chunk"
  BY <1>1, <1>2, <1>3, <1>4 DEF Ground, LockIsHeld
<1>5. CASE req[r].kind = "complete"
  BY <1>1, <1>2, <1>3, <1>5 DEF Ground, ClaimIsOne
<1> QED BY <1>2, <1>4, <1>5

\* One more part.
LEMMA CoversMore ==
  ASSUME NEW s \in Seq(Data), NEW n \in DOMAIN parts, n \in Nat, parts[n] \in Data, Covers(s, n)
  PROVE  Covers(s \o <<parts[n]>>, n + 1)
<1> DEFINE t == <<parts[n]>>
<1>1. t \in Seq(Data) /\ Len(t) = 1 /\ t[1] = parts[n]
  OBVIOUS
<1>2. Len(s) = n /\ \A k \in 1..n : k - 1 \in DOMAIN parts /\ s[k] = parts[k - 1]
  BY DEF Covers
<1> HIDE DEF t
<1>3. /\ Len(s \o t) = Len(s) + Len(t)
      /\ \A i \in 1..(Len(s) + Len(t)) : (s \o t)[i] = IF i <= Len(s) THEN s[i] ELSE t[i - Len(s)]
  BY <1>1, ConcatProperties
<1>4. Len(s \o t) = n + 1
  BY <1>1, <1>2, <1>3
<1>5. ASSUME NEW k \in 1..(n + 1) PROVE k - 1 \in DOMAIN parts /\ (s \o t)[k] = parts[k - 1]
  <2>1. (s \o t)[k] = IF k <= n THEN s[k] ELSE t[k - n]
    BY <1>1, <1>2, <1>3
  <2>2. CASE k <= n
    BY <1>2, <2>1, <2>2
  <2>3. CASE k = n + 1
    <3>1. k - n = 1 /\ k - 1 = n /\ ~(k <= n)
      BY <2>3
    <3>2. (s \o t)[k] = t[k - n]
      BY <2>1, <3>1
    <3>3. (s \o t)[k] = t[1]
      BY <3>1, <3>2
    <3>4. t[1] = parts[n] /\ n \in DOMAIN parts
      BY <1>1
    <3> HIDE DEF t
    <3>5. k - 1 \in DOMAIN parts /\ parts[k - 1] = parts[n]
      BY <3>1, <3>4
    <3> QED BY <3>3, <3>4, <3>5
  <2>4. k <= n \/ k = n + 1
    OBVIOUS
  <2> QED BY <2>2, <2>3, <2>4, Zenon
<1> QED BY <1>4, <1>5 DEF Covers, t

\* Parts that are not covered may change.
LEMMA CoversKept ==
  ASSUME NEW s, NEW n \in Nat, Covers(s, n), NEW i \in Nat, n <= i,
         DOMAIN parts \subseteq DOMAIN parts',
         \A j \in DOMAIN parts : j # i => parts'[j] = parts[j]
  PROVE  (Len(s) = n /\ \A k \in 1..n : k - 1 \in DOMAIN parts' /\ s[k] = parts'[k - 1])
<1> SUFFICES ASSUME NEW k \in 1..n PROVE k - 1 \in DOMAIN parts' /\ s[k] = parts'[k - 1]
  BY DEF Covers
<1>1. k - 1 \in DOMAIN parts /\ s[k] = parts[k - 1]
  BY DEF Covers
<1>2. k - 1 # i
  OBVIOUS
<1> QED BY <1>1, <1>2

LEMMA BytesAreData == Typed => Bytes \in Seq(Data)
<1> SUFFICES ASSUME Typed PROVE Bytes \in Seq(Data)
  OBVIOUS
<1>1. chunks \in Seq(Seq(Data)) /\ Len(chunks) \in Nat
  BY DEF Typed
<1>2. Len(chunks) \in 0..Len(chunks)
  BY <1>1
<1> QED BY <1>1, <1>2, FlatIsData DEF Bytes

\* A step that leaves parts, cursor and tree alone, and that does not take a
\* request past its drain.
LEMMA ContentKept ==
  ASSUME ContentHolds, UNCHANGED <<parts, processed, pending, chunks, roots>>,
         torn' = 0 => torn = 0, Live' => Live,
         \A s \in Requests : \/ req'[s] = req[s]
                             \/ /\ torn' = 0 => ~HalfDone(s)
                                /\ req'[s].phase \notin {"store", "cursor", "check", "flush", "clear",
                                                          "derive", "rows"}
  PROVE  ContentHolds'
<1> SUFFICES ASSUME torn' = 0, Live' PROVE StoreSafe' /\ TreeCovers' /\ CompletionReads' /\ RootsCover'
  BY DEF ContentHolds
<1>1. torn = 0 /\ StoreSafe /\ TreeCovers /\ CompletionReads /\ RootsCover
  BY DEF ContentHolds
<1>2. \A s \in Requests : req'[s].phase \in {"store", "cursor", "check", "flush", "clear", "derive", "rows"}
                            \/ HalfDone(s) => req'[s] = req[s]
  OBVIOUS
<1>3. Bytes' = Bytes
  BY DEF Bytes
<1>4. StoreSafe'
  BY <1>1, <1>2 DEF StoreSafe
<1>5. CompletionReads'
  BY <1>1, <1>2 DEF CompletionReads
<1>6. RootsCover'
  BY <1>1 DEF RootsCover, Covers
<1>7. TreeCovers'
  <2>1. (\A s \in Requests : ~HalfDone(s)') => \A s \in Requests : ~HalfDone(s)
    BY <1>1, <1>2 DEF HalfDone
  <2>2. ASSUME roots' = {}, \A s \in Requests : ~HalfDone(s)'
        PROVE  Covers(Bytes \o pending, processed)'
    <3>1. Covers(Bytes \o pending, processed)
      BY <1>1, <2>1, <2>2 DEF TreeCovers
    <3> QED BY <1>3, <3>1 DEF Covers
  <2>3. ASSUME roots' = {}, NEW s \in Requests, req'[s].phase = "cursor"
        PROVE  Covers(Bytes \o req[s].left, req[s].next)'
    <3>1. req'[s] = req[s]
      BY <1>2, <2>3
    <3>2. Covers(Bytes \o req[s].left, req[s].next)
      BY <1>1, <2>3, <3>1 DEF TreeCovers
    <3> QED BY <1>3, <3>1, <3>2 DEF Covers
  <2>4. ASSUME roots' = {}, NEW s \in Requests, req'[s].phase = "clear"
        PROVE  Covers(Bytes, processed)'
    <3>1. req'[s] = req[s]
      BY <1>2, <2>4
    <3>2. Covers(Bytes, processed)
      BY <1>1, <2>4, <3>1 DEF TreeCovers
    <3> QED BY <1>3, <3>2 DEF Covers
  <2> QED BY <2>2, <2>3, <2>4 DEF TreeCovers
<1> QED BY <1>4, <1>5, <1>6, <1>7

LEMMA ContentKeptBy ==
  ASSUME ContentHolds, NEW r \in Requests, Others(r), UNCHANGED <<parts, processed, pending, chunks, roots>>,
         torn' = 0 => torn = 0 /\ ~HalfDone(r), Live' => Live,
         req'[r].phase \notin {"store", "cursor", "check", "flush", "clear", "derive", "rows"}
  PROVE  ContentHolds'
<1>1. \A s \in Requests : \/ req'[s] = req[s]
                          \/ /\ torn' = 0 => ~HalfDone(s)
                             /\ req'[s].phase \notin {"store", "cursor", "check", "flush", "clear",
                                                       "derive", "rows"}
  BY DEF Others
<1> QED BY <1>1, ContentKept

\* Everyone else is away from the parts, the cursor and the tree.
Away(s) == req[s].phase \notin {"store", "cursor", "check", "flush", "clear", "derive", "rows"}

LEMMA OthersAway ==
  ASSUME OneProcess, Ground, Live, NEW r \in Requests, Others(r), req[r].phase \in BusyPhases \cup {"blocks"}
  PROVE  \A s \in Requests : s # r => \/ req'[s] = req[s] /\ Away(s) /\ ~HalfDone(s)
                                      \/ req'[s] = req[s] /\ req[s].phase = "rows" /\ req[r].phase = "blocks"
<1> SUFFICES ASSUME NEW s \in Requests, s # r
             PROVE  \/ req'[s] = req[s] /\ Away(s) /\ ~HalfDone(s)
                    \/ req'[s] = req[s] /\ req[s].phase = "rows" /\ req[r].phase = "blocks"
  OBVIOUS
<1>1. req'[s] = req[s]
  BY DEF Others
<1>2. CASE req[r].phase \in BusyPhases
  <2>1. req[s].phase \notin BusyPhases \cup {"rows", "blocks"}
    BY <1>2, Alone
  <2> QED BY <1>1, <2>1 DEF BusyPhases, LockPhases, Away, HalfDone
<1>3. CASE req[r].phase = "blocks"
  <2>1. req[s].phase \notin BusyPhases
    BY <1>3, Alone
  <2> QED BY <1>1, <1>3, <2>1 DEF BusyPhases, LockPhases, Away, HalfDone
<1> QED BY <1>2, <1>3

LEMMA ContentPut ==
  ASSUME OneProcess, Ground, ContentHolds, NEW r \in Requests, PutChunks(r)
  PROVE  ContentHolds'
<1> DEFINE p == parts[processed]
           bytes == pending \o <<p>>
           d == FullChunks(bytes)
           l == LeftOver(bytes)
           x == [req[r] EXCEPT !.phase = "cursor", !.next = processed + 1, !.left = l]
<1> SUFFICES ASSUME torn' = 0, Live' PROVE StoreSafe' /\ TreeCovers' /\ CompletionReads' /\ RootsCover'
  BY DEF ContentHolds
<1>t. Typed
  BY DEF Ground
<1>1. /\ req[r].phase = "drain" /\ processed \in DOMAIN parts /\ chunks' = chunks \o d
      /\ req' = [req EXCEPT ![r] = x]
      /\ UNCHANGED <<upload, files, roots, hist>>
  BY DEF PutChunks
<1>2. torn = 0 /\ Live /\ StoreSafe /\ TreeCovers /\ CompletionReads /\ RootsCover
  BY <1>1 DEF ContentHolds, hist, upload, Live
<1>3. Others(r)
  BY <1>t, PutChunksInner DEF Inner
<1>4. \A s \in Requests : s # r => req'[s] = req[s] /\ Away(s) /\ ~HalfDone(s)
  BY <1>1, <1>2, <1>3, OthersAway DEF BusyPhases, LockPhases
<1>5. req'[r].phase = "cursor" /\ req'[r].next = processed + 1 /\ req'[r].left = l
  <2>1. req[r] \in ChunkReqs \/ req[r] \in CompleteReqs
    BY <1>1, <1>t, KindOf
  <2>2. req'[r] = x
    BY <1>1, <1>t DEF Typed
  <2> HIDE DEF l
  <2> QED BY <2>1, <2>2 DEF ChunkReqs, CompleteReqs
<1>6. p \in Data /\ pending \in Seq(Data) /\ processed \in Nat
  BY <1>1, <1>t, UploadsAssumption DEF Typed, PartsTyped
<1>7. StoreSafe'
  BY <1>1, <1>4, <1>5 DEF StoreSafe, Away, files
<1>8. CompletionReads'
  BY <1>4, <1>5 DEF CompletionReads, Away
<1>9. RootsCover'
  BY <1>1, <1>2 DEF RootsCover, Covers, files
<1>10. TreeCovers'
  <2> SUFFICES ASSUME roots' = {}
               PROVE  Covers(Bytes \o req[r].left, req[r].next)'
    <3>1. HalfDone(r)'
      BY <1>5 DEF HalfDone
    <3> QED BY <3>1, <1>4, <1>5 DEF TreeCovers, Away
  <2>1. ~HalfDone(r)
    BY <1>1 DEF HalfDone
  <2>2. Covers(Bytes \o pending, processed)
    BY <1>1, <1>2, <1>4, <2>1 DEF TreeCovers
  <2>3. bytes \in Seq(Data) /\ <<p>> \in Seq(Data)
    <3>1. <<p>> \in Seq(Data)
      BY <1>6
    <3> QED BY <1>6, <3>1, ConcatProperties
  <2>4. Bytes \in Seq(Data) /\ chunks \in Seq(Seq(Data))
    BY <1>t, BytesAreData DEF Typed
  <2> HIDE DEF bytes
  <2>5. d \in Seq(Seq(Data)) /\ l \in Seq(Data) /\ Flat(d)[Len(d)] \o l = bytes
    BY <2>3, CutTypes, CutIsWhole
  <2> HIDE DEF d, l, p
  <2>6. Bytes' = Bytes \o Flat(d)[Len(d)]
    BY <1>1, <2>4, <2>5, FlatOfMore DEF Bytes
  <2>7. Flat(d)[Len(d)] \in Seq(Data)
    <3>1. Len(d) \in Nat
      BY <2>5
    <3>2. Len(d) \in 0..Len(d)
      BY <3>1
    <3> QED BY <2>5, <3>2, FlatIsData
  <2>8. Bytes' \o l = Bytes \o bytes
    <3> DEFINE f == Flat(d)[Len(d)]
    <3>1. f \in Seq(Data) /\ Bytes' = Bytes \o f /\ f \o l = bytes
      BY <2>5, <2>6, <2>7
    <3> HIDE DEF f
    <3>2. (Bytes \o f) \o l = Bytes \o (f \o l)
      <4>1. Bytes \in Seq(Data) /\ l \in Seq(Data) /\ f \in Seq(Data)
        BY <2>4, <2>5, <3>1
      <4>2. Associates(Data)
        BY JoinsAssociate, Zenon
      <4> QED BY <4>1, <4>2, Zenon DEF Associates
    <3> QED BY <3>1, <3>2
  <2>9. Bytes \o bytes = (Bytes \o pending) \o <<p>>
    <3>1. Associates(Data)
      BY JoinsAssociate, Zenon
    <3> QED BY <1>6, <2>3, <2>4, <3>1, Zenon DEF Associates, bytes
  <2>10. Bytes \o pending \in Seq(Data)
    BY <1>6, <2>4, ConcatProperties
  <2>11. Covers((Bytes \o pending) \o <<p>>, processed + 1)
    BY <1>1, <1>6, <2>2, <2>10, CoversMore DEF p
  <2>12. Covers(Bytes' \o l, processed + 1)
    BY <2>8, <2>9, <2>11
  <2>13. parts' = parts
    BY <1>1 DEF files
  <2> QED BY <1>5, <2>12, <2>13 DEF Covers
<1> QED BY <1>7, <1>8, <1>9, <1>10

LEMMA ContentCursor ==
  ASSUME OneProcess, Ground, ContentHolds, NEW r \in Requests, SetCursor(r)
  PROVE  ContentHolds'
<1> SUFFICES ASSUME torn' = 0, Live' PROVE StoreSafe' /\ TreeCovers' /\ CompletionReads' /\ RootsCover'
  BY DEF ContentHolds
<1>t. Typed
  BY DEF Ground
<1>1. /\ req[r].phase = "cursor" /\ Step(r, "drain")
      /\ IF Live THEN processed' = req[r].next /\ pending' = req[r].left
                 ELSE UNCHANGED <<processed, pending>>
      /\ UNCHANGED <<upload, parts, blocks, hist>>
  BY DEF SetCursor
<1>2. torn = 0 /\ Live /\ StoreSafe /\ TreeCovers /\ CompletionReads /\ RootsCover
  BY <1>1 DEF ContentHolds, hist, upload, Live
<1>3. Others(r)
  BY <1>t, SetCursorInner DEF Inner
<1>4. \A s \in Requests : s # r => req'[s] = req[s] /\ Away(s) /\ ~HalfDone(s)
  BY <1>1, <1>2, <1>3, OthersAway DEF BusyPhases, LockPhases
<1>5. req'[r].phase = "drain"
  BY <1>1, <1>t, StepPhase DEF AtRest
<1>6. processed' = processed + 1 /\ processed' = req[r].next /\ pending' = req[r].left /\ processed \in Nat
  BY <1>1, <1>2, <1>t, UploadsAssumption DEF StoreSafe, Typed
<1>7. StoreSafe'
  BY <1>4, <1>5 DEF StoreSafe, Away
<1>8. CompletionReads'
  BY <1>4, <1>5 DEF CompletionReads, Away
<1>9. RootsCover'
  <2> SUFFICES ASSUME NEW n \in roots PROVE n.size <= processed' /\ Covers(n.content, n.size)'
    BY <1>1 DEF RootsCover, blocks
  <2>1. n.size <= processed /\ Covers(n.content, n.size) /\ n.size \in Nat
    BY <1>2, <1>t DEF RootsCover, Typed, Root
  <2>2. n.size <= processed'
    BY <1>6, <2>1
  <2> QED BY <1>1, <2>1, <2>2 DEF Covers
<1>10. TreeCovers'
  <2> SUFFICES ASSUME roots' = {} PROVE Covers(Bytes \o pending, processed)'
    BY <1>4, <1>5 DEF TreeCovers, Away
  <2>1. Covers(Bytes \o req[r].left, req[r].next)
    BY <1>1, <1>2 DEF TreeCovers, blocks
  <2>2. Bytes' = Bytes /\ parts' = parts
    BY <1>1 DEF Bytes, blocks
  <2> QED BY <1>6, <2>1, <2>2 DEF Covers
<1> QED BY <1>7, <1>8, <1>9, <1>10

LEMMA ContentDrained ==
  ASSUME OneProcess, Ground, ContentHolds, NEW r \in Requests, DrainDone(r)
  PROVE  ContentHolds'
<1>t. Typed
  BY DEF Ground
<1>1. /\ req[r].phase = "drain" /\ ~AtRest(req[r]) /\ UNCHANGED <<upload, files, blocks, hist>>
      /\ IF Live /\ req[r].kind = "complete" /\ \A i \in DOMAIN parts : i < processed
         THEN Step(r, "check") ELSE Throw(r)
  BY DEF DrainDone, AtRest
<1>2. Others(r) /\ ~HalfDone(r)
  BY <1>t, <1>1, DrainDoneInner DEF Inner, HalfDone
<1>3. CASE Throw(r)
  <2>1. req'[r].phase \in {"release", "done"}
    BY <1>1, <1>3, <1>t, ThrowPhase
  <2> QED BY <1>1, <1>2, <2>1, ContentKeptBy DEF upload, files, blocks, hist, Live
<1>4. CASE Step(r, "check") /\ Live /\ \A i \in DOMAIN parts : i < processed
  <2> SUFFICES ASSUME torn' = 0 PROVE StoreSafe' /\ TreeCovers' /\ CompletionReads' /\ RootsCover'
    BY DEF ContentHolds
  <2>1. torn = 0 /\ StoreSafe /\ TreeCovers /\ CompletionReads /\ RootsCover
    BY <1>1, <1>4 DEF ContentHolds, hist
  <2>2. \A s \in Requests : s # r => req'[s] = req[s] /\ Away(s) /\ ~HalfDone(s)
    BY <1>1, <1>2, <1>4, OthersAway DEF BusyPhases, LockPhases
  <2>3. req'[r].phase = "check" /\ ~HalfDone(r)'
    BY <1>1, <1>4, <1>t, StepPhase DEF HalfDone
  <2>4. UNCHANGED <<parts, processed, pending, chunks, roots>> /\ Bytes' = Bytes
    BY <1>1 DEF files, blocks, Bytes
  <2>5. StoreSafe'
    BY <2>2, <2>3 DEF StoreSafe, Away
  <2>6. CompletionReads'
    BY <1>4, <2>2, <2>3, <2>4 DEF CompletionReads, Away
  <2>7. RootsCover'
    BY <2>1, <2>4 DEF RootsCover, Covers
  <2>8. TreeCovers'
    <3> SUFFICES ASSUME roots' = {} PROVE Covers(Bytes \o pending, processed)'
      BY <2>2, <2>3 DEF TreeCovers, Away
    <3>1. Covers(Bytes \o pending, processed)
      BY <1>2, <2>1, <2>2, <2>4 DEF TreeCovers
    <3> QED BY <2>4, <3>1 DEF Covers
  <2> QED BY <2>5, <2>6, <2>7, <2>8
<1> QED BY <1>1, <1>3, <1>4

LEMMA ContentGuard ==
  ASSUME OneProcess, Ground, ContentHolds, NEW r \in Requests, GuardChunk(r)
  PROVE  ContentHolds'
<1>t. Typed
  BY DEF Ground
<1>1. /\ req[r].phase = "guard" /\ ~AtRest(req[r]) /\ UNCHANGED <<upload, files, blocks, hist>>
      /\ req[r] \in ChunkReqs
      /\ IF Live /\ req[r].index < processed THEN Answer(r) ELSE Step(r, "store")
  BY <1>t, KindOf DEF GuardChunk, AtRest
<1>2. Others(r) /\ ~HalfDone(r)
  BY <1>t, <1>1, GuardChunkInner DEF Inner, HalfDone
<1>3. CASE Answer(r)
  <2>1. req'[r].phase = "done"
    BY <1>3, <1>t, AnswerPhase
  <2> QED BY <1>1, <1>2, <2>1, ContentKeptBy DEF upload, files, blocks, hist, Live
<1>4. CASE Step(r, "store") /\ ~(Live /\ req[r].index < processed)
  <2> SUFFICES ASSUME torn' = 0, Live' PROVE StoreSafe' /\ TreeCovers' /\ CompletionReads' /\ RootsCover'
    BY DEF ContentHolds
  <2>1. torn = 0 /\ Live /\ StoreSafe /\ TreeCovers /\ CompletionReads /\ RootsCover
    BY <1>1 DEF ContentHolds, hist, upload, Live
  <2>2. \A s \in Requests : s # r => req'[s] = req[s] /\ Away(s) /\ ~HalfDone(s)
    BY <1>1, <1>2, <2>1, OthersAway DEF BusyPhases, LockPhases
  <2>3. req'[r].phase = "store"
    BY <1>1, <1>4, <1>t, StepPhase
  <2>4. req'[r].index = req[r].index
    <3>1. req'[r] = [req[r] EXCEPT !.phase = "store"]
      BY <1>4, <1>t DEF Step, Typed
    <3> QED BY <1>1, <3>1 DEF ChunkReqs
  <2>5. UNCHANGED <<parts, processed, pending, chunks, roots>> /\ Bytes' = Bytes
    BY <1>1 DEF files, blocks, Bytes
  <2>6. processed <= req[r].index
    <3>1. processed \in Int /\ req[r].index \in Int /\ ~(req[r].index < processed)
      BY <1>1, <1>4, <1>t, <2>1, UploadsAssumption DEF Typed, ChunkReqs
    <3> QED BY <3>1
  <2>7. StoreSafe'
    BY <2>2, <2>3, <2>4, <2>5, <2>6 DEF StoreSafe, Away
  <2>8. CompletionReads'
    BY <2>2, <2>3 DEF CompletionReads, Away
  <2>9. RootsCover'
    BY <2>1, <2>5 DEF RootsCover, Covers
  <2>10. TreeCovers'
    <3> SUFFICES ASSUME roots' = {} PROVE Covers(Bytes \o pending, processed)'
      BY <2>2, <2>3 DEF TreeCovers, Away
    <3>1. Covers(Bytes \o pending, processed)
      BY <1>2, <2>1, <2>2, <2>5 DEF TreeCovers
    <3> QED BY <2>5, <3>1 DEF Covers
  <2> QED BY <2>7, <2>8, <2>9, <2>10
<1> QED BY <1>1, <1>3, <1>4

LEMMA ContentStore ==
  ASSUME OneProcess, Ground, ContentHolds, NEW r \in Requests, StoreChunk(r)
  PROVE  ContentHolds'
<1>t. Typed
  BY DEF Ground
<1> SUFFICES ASSUME torn' = 0, Live' PROVE StoreSafe' /\ TreeCovers' /\ CompletionReads' /\ RootsCover'
  BY DEF ContentHolds
<1>1. /\ req[r].phase = "store" /\ ~AtRest(req[r]) /\ UNCHANGED <<upload, processed, pending, blocks, hist>>
      /\ req[r] \in ChunkReqs
  BY <1>t, KindOf DEF StoreChunk, AtRest
<1>2. torn = 0 /\ Live /\ StoreSafe /\ TreeCovers /\ CompletionReads /\ RootsCover
  BY <1>1 DEF ContentHolds, hist, upload, Live
<1>3. /\ Step(r, "drain")
      /\ parts' = [i \in DOMAIN parts \cup {req[r].index} |->
                     IF i = req[r].index THEN req[r].data ELSE parts[i]]
  BY <1>2 DEF StoreChunk
<1>4. Others(r) /\ ~HalfDone(r)
  BY <1>t, <1>1, StoreChunkInner DEF Inner, HalfDone
<1>5. \A s \in Requests : s # r => req'[s] = req[s] /\ Away(s) /\ ~HalfDone(s)
  BY <1>1, <1>2, <1>4, OthersAway DEF BusyPhases, LockPhases
<1>6. req'[r].phase = "drain"
  BY <1>1, <1>3, <1>t, StepPhase
<1>7. /\ req[r].index \in Nat /\ processed \in Nat /\ processed <= req[r].index
      /\ DOMAIN parts \subseteq DOMAIN parts'
      /\ \A j \in DOMAIN parts : j # req[r].index => parts'[j] = parts[j]
  BY <1>1, <1>2, <1>3, <1>t, UploadsAssumption DEF StoreSafe, Typed, ChunkReqs
<1>8. ASSUME NEW s, NEW n \in Nat, n <= processed, Covers(s, n)
      PROVE  Len(s) = n /\ \A k \in 1..n : k - 1 \in DOMAIN parts' /\ s[k] = parts'[k - 1]
  <2>1. n <= req[r].index
    BY <1>7, <1>8
  <2> QED BY <1>7, <1>8, <2>1, CoversKept
<1>9. StoreSafe'
  BY <1>5, <1>6 DEF StoreSafe, Away
<1>10. CompletionReads'
  BY <1>5, <1>6 DEF CompletionReads, Away
<1>11. RootsCover'
  <2> SUFFICES ASSUME NEW n \in roots PROVE n.size <= processed' /\ Covers(n.content, n.size)'
    BY <1>1 DEF RootsCover, blocks
  <2>1. n.size <= processed /\ Covers(n.content, n.size) /\ n.size \in Nat
    BY <1>2, <1>t DEF RootsCover, Typed, Root
  <2> QED BY <1>1, <1>8, <2>1 DEF Covers
<1>12. TreeCovers'
  <2> SUFFICES ASSUME roots' = {} PROVE Covers(Bytes \o pending, processed)'
    BY <1>5, <1>6 DEF TreeCovers, Away
  <2>1. Covers(Bytes \o pending, processed)
    BY <1>1, <1>2, <1>4, <1>5 DEF TreeCovers, blocks
  <2>2. Bytes' = Bytes /\ pending' = pending /\ processed' = processed
    BY <1>1 DEF blocks, Bytes
  <2> QED BY <1>7, <1>8, <2>1, <2>2 DEF Covers
<1> QED BY <1>9, <1>10, <1>11, <1>12

LEMMA ContentCheck ==
  ASSUME OneProcess, Ground, ContentHolds, NEW r \in Requests, CheckRoot(r)
  PROVE  ContentHolds'
<1>t. Typed
  BY DEF Ground
<1>1. /\ req[r].phase = "check" /\ ~AtRest(req[r]) /\ UNCHANGED <<upload, files, blocks, hist>>
      /\ req[r] \in CompleteReqs
  BY <1>t, KindOf DEF CheckRoot, AtRest, CompletePhases, Claimed
<1>2. Others(r) /\ ~HalfDone(r)
  BY <1>t, <1>1, CheckRootInner DEF Inner, HalfDone
<1>3. CASE Throw(r)
  <2>1. req'[r].phase \in {"release", "done"}
    BY <1>1, <1>3, <1>t, ThrowPhase
  <2> QED BY <1>1, <1>2, <2>1, ContentKeptBy DEF upload, files, blocks, hist, Live
<1>4. CASE req' = [req EXCEPT ![r].phase = "charge", ![r].root = roots]
  <2>1. req'[r].phase = "charge"
    BY <1>1, <1>4, <1>t DEF Typed, CompleteReqs
  <2> QED BY <1>1, <1>2, <2>1, ContentKeptBy DEF upload, files, blocks, hist, Live
<1>5. CASE Live /\ req' = [req EXCEPT ![r].phase = IF pending = <<>> THEN "derive" ELSE "flush",
                                      ![r].left = pending, ![r].next = processed]
  <2> SUFFICES ASSUME torn' = 0 PROVE StoreSafe' /\ TreeCovers' /\ CompletionReads' /\ RootsCover'
    BY DEF ContentHolds
  <2>1. torn = 0 /\ StoreSafe /\ TreeCovers /\ CompletionReads /\ RootsCover
    BY <1>1, <1>5 DEF ContentHolds, hist
  <2>2. \A s \in Requests : s # r => req'[s] = req[s] /\ Away(s) /\ ~HalfDone(s)
    BY <1>1, <1>2, <1>5, OthersAway DEF BusyPhases
  <2>3. /\ req'[r].phase = IF pending = <<>> THEN "derive" ELSE "flush"
        /\ req'[r].left = pending /\ req'[r].next = processed
    BY <1>1, <1>5, <1>t DEF Typed, CompleteReqs
  <2>4. UNCHANGED <<parts, processed, pending, chunks, roots>> /\ Bytes' = Bytes
    BY <1>1 DEF files, blocks, Bytes
  <2>5. StoreSafe'
    BY <2>2, <2>3 DEF StoreSafe, Away
  <2>6. \A i \in DOMAIN parts : i < processed
    BY <1>1, <2>1 DEF CompletionReads
  <2>7. CompletionReads'
    <3> SUFFICES ASSUME NEW s \in Requests
                 PROVE  /\ req'[s].phase \in {"check", "flush", "clear", "derive"} =>
                             \A i \in DOMAIN parts' : i < processed'
                        /\ req'[s].phase \in {"flush", "clear"} => req'[s].next = processed'
                        /\ req'[s].phase = "flush" => req'[s].left = pending'
                        /\ req'[s].phase = "derive" => pending' = <<>>
      BY DEF CompletionReads
    <3>1. CASE s = r
      BY <2>3, <2>4, <2>6, <3>1
    <3>2. CASE s # r
      BY <2>2, <3>2 DEF Away
    <3> QED BY <3>1, <3>2
  <2>8. RootsCover'
    BY <2>1, <2>4 DEF RootsCover, Covers
  <2>9. TreeCovers'
    <3> SUFFICES ASSUME roots' = {} PROVE Covers(Bytes \o pending, processed)'
      BY <2>2, <2>3 DEF TreeCovers, Away
    <3>1. Covers(Bytes \o pending, processed)
      BY <1>2, <2>1, <2>2, <2>4 DEF TreeCovers
    <3> QED BY <2>4, <3>1 DEF Covers
  <2> QED BY <2>5, <2>7, <2>8, <2>9
<1> QED BY <1>3, <1>4, <1>5 DEF CheckRoot

LEMMA ContentFlush ==
  ASSUME OneProcess, Ground, ContentHolds, NEW r \in Requests, FlushTail(r)
  PROVE  ContentHolds'
<1>t. Typed
  BY DEF Ground
<1> SUFFICES ASSUME torn' = 0, Live' PROVE StoreSafe' /\ TreeCovers' /\ CompletionReads' /\ RootsCover'
  BY DEF ContentHolds
<1>1. /\ req[r].phase = "flush" /\ ~AtRest(req[r]) /\ UNCHANGED <<upload, files, roots, hist>>
      /\ req[r] \in CompleteReqs
  BY <1>t, KindOf DEF FlushTail, AtRest, CompletePhases, Claimed
<1>2. torn = 0 /\ Live /\ StoreSafe /\ TreeCovers /\ CompletionReads /\ RootsCover
  BY <1>1 DEF ContentHolds, hist, upload, Live
<1>3. Step(r, "clear") /\ chunks' = Append(chunks, req[r].left)
  BY <1>2 DEF FlushTail
<1>4. Others(r) /\ ~HalfDone(r) /\ Completing(r)
  BY <1>t, <1>1, FlushTailInner DEF Inner, HalfDone, Completing, Claimed, CompleteReqs
<1>5. \A s \in Requests : s # r => req'[s] = req[s] /\ Away(s) /\ ~HalfDone(s)
  BY <1>1, <1>2, <1>4, OthersAway DEF BusyPhases
<1>6. req'[r].phase = "clear" /\ req'[r].next = req[r].next
  BY <1>1, <1>3, <1>t, StepPhase, StepMoves DEF CompletePhases, Claimed
<1>7. UNCHANGED <<parts, processed, pending, roots>>
  BY <1>1 DEF files
<1>8. req[r].left = pending /\ req[r].next = processed /\ \A i \in DOMAIN parts : i < processed
  BY <1>1, <1>2 DEF CompletionReads
<1>9. StoreSafe'
  BY <1>5, <1>6 DEF StoreSafe, Away
<1>10. CompletionReads'
  <2> SUFFICES ASSUME NEW s \in Requests
               PROVE  /\ req'[s].phase \in {"check", "flush", "clear", "derive"} =>
                           \A i \in DOMAIN parts' : i < processed'
                      /\ req'[s].phase \in {"flush", "clear"} => req'[s].next = processed'
                      /\ req'[s].phase = "flush" => req'[s].left = pending'
                      /\ req'[s].phase = "derive" => pending' = <<>>
    BY DEF CompletionReads
  <2>1. CASE s = r
    BY <1>6, <1>7, <1>8, <2>1
  <2>2. CASE s # r
    BY <1>5, <2>2 DEF Away
  <2> QED BY <2>1, <2>2
<1>11. RootsCover'
  BY <1>2, <1>7 DEF RootsCover, Covers
<1>12. TreeCovers'
  <2> SUFFICES ASSUME roots' = {} PROVE Covers(Bytes, processed)'
    <3>1. HalfDone(r)'
      BY <1>6 DEF HalfDone
    <3> QED BY <3>1, <1>5, <1>6 DEF TreeCovers, Away
  <2>1. Covers(Bytes \o pending, processed)
    BY <1>2, <1>4, <1>5, <1>7 DEF TreeCovers
  <2>2. chunks \in Seq(Seq(Data)) /\ pending \in Seq(Data)
    BY <1>t DEF Typed
  <2>3. chunks' = chunks \o <<pending>> /\ <<pending>> \in Seq(Seq(Data))
    BY <1>3, <1>8, <2>2, AppendIsConcat
  <2>4. Bytes' = Bytes \o Flat(<<pending>>)[Len(<<pending>>)]
    BY <2>2, <2>3, FlatOfMore DEF Bytes
  <2>5. Flat(<<pending>>)[Len(<<pending>>)] = pending
    <3> DEFINE c == <<pending>>
    <3>1. Len(c) = 1 /\ c[1] = pending
      OBVIOUS
    <3> HIDE DEF c
    <3>2. Flat(c)[0] = <<>> /\ \A n \in Nat \ {0} : Flat(c)[n] = Flat(c)[n - 1] \o c[n]
      BY FlatRecursion, Zenon
    <3>3. Flat(c)[1] = <<>> \o pending
      <4> DEFINE f == Flat(c)
      <4>1. f[0] = <<>> /\ \A n \in Nat \ {0} : f[n] = f[n - 1] \o c[n]
        BY <3>2
      <4> HIDE DEF f
      <4>2. 1 \in Nat \ {0} /\ 1 - 1 = 0
        OBVIOUS
      <4>3. f[1] = f[1 - 1] \o c[1]
        BY <4>1, <4>2, Zenon
      <4>4. f[1] = <<>> \o pending
        BY <3>1, <4>1, <4>2, <4>3
      <4> QED BY <4>4 DEF f
    <3> QED BY <2>2, <3>1, <3>3, ConcatEmptySeq DEF c
  <2> QED BY <1>7, <2>1, <2>4, <2>5 DEF Covers
<1> QED BY <1>9, <1>10, <1>11, <1>12

LEMMA ContentClear ==
  ASSUME OneProcess, Ground, ContentHolds, NEW r \in Requests, ClearTail(r)
  PROVE  ContentHolds'
<1>t. Typed
  BY DEF Ground
<1> SUFFICES ASSUME torn' = 0, Live' PROVE StoreSafe' /\ TreeCovers' /\ CompletionReads' /\ RootsCover'
  BY DEF ContentHolds
<1>1. /\ req[r].phase = "clear" /\ ~AtRest(req[r]) /\ UNCHANGED <<upload, parts, blocks, hist>>
      /\ Step(r, "derive")
  BY DEF ClearTail, AtRest
<1>2. torn = 0 /\ Live /\ StoreSafe /\ TreeCovers /\ CompletionReads /\ RootsCover
  BY <1>1 DEF ContentHolds, hist, upload, Live
<1>3. processed' = req[r].next /\ pending' = <<>>
  BY <1>2 DEF ClearTail
<1>4. Others(r)
  BY <1>t, ClearTailInner DEF Inner
<1>5. \A s \in Requests : s # r => req'[s] = req[s] /\ Away(s) /\ ~HalfDone(s)
  BY <1>1, <1>2, <1>4, OthersAway DEF BusyPhases
<1>6. req'[r].phase = "derive"
  BY <1>1, <1>t, StepPhase
<1>7. processed' = processed /\ \A i \in DOMAIN parts : i < processed
  BY <1>1, <1>2, <1>3 DEF CompletionReads
<1>8. StoreSafe'
  BY <1>5, <1>6 DEF StoreSafe, Away
<1>9. CompletionReads'
  <2> SUFFICES ASSUME NEW s \in Requests
               PROVE  /\ req'[s].phase \in {"check", "flush", "clear", "derive"} =>
                           \A i \in DOMAIN parts' : i < processed'
                      /\ req'[s].phase \in {"flush", "clear"} => req'[s].next = processed'
                      /\ req'[s].phase = "flush" => req'[s].left = pending'
                      /\ req'[s].phase = "derive" => pending' = <<>>
    BY DEF CompletionReads
  <2>1. CASE s = r
    BY <1>1, <1>3, <1>6, <1>7, <2>1
  <2>2. CASE s # r
    BY <1>5, <2>2 DEF Away
  <2> QED BY <2>1, <2>2
<1>10. RootsCover'
  BY <1>1, <1>2, <1>7 DEF RootsCover, Covers, blocks
<1>11. TreeCovers'
  <2> SUFFICES ASSUME roots' = {} PROVE Covers(Bytes \o pending, processed)'
    BY <1>5, <1>6 DEF TreeCovers, Away
  <2>1. Covers(Bytes, processed)
    BY <1>1, <1>2 DEF TreeCovers, blocks
  <2>2. Bytes' = Bytes /\ parts' = parts
    BY <1>1 DEF Bytes, blocks
  <2>3. Bytes \o <<>> = Bytes
    BY <1>t, BytesAreData, ConcatEmptySeq
  <2> QED BY <1>3, <1>7, <2>1, <2>2, <2>3 DEF Covers
<1> QED BY <1>8, <1>9, <1>10, <1>11

LEMMA ContentDerive ==
  ASSUME OneProcess, Ground, ContentHolds, NEW r \in Requests, DeriveRoot(r)
  PROVE  ContentHolds'
<1>t. Typed
  BY DEF Ground
<1> SUFFICES ASSUME torn' = 0, Live' PROVE StoreSafe' /\ TreeCovers' /\ CompletionReads' /\ RootsCover'
  BY DEF ContentHolds
<1>1. /\ req[r].phase = "derive" /\ Completing(r) /\ Others(r) /\ UNCHANGED <<upload, files, hist>>
  BY <1>t, DeriveRootStep
<1>2. torn = 0 /\ Live /\ StoreSafe /\ TreeCovers /\ CompletionReads /\ RootsCover
  BY <1>1 DEF ContentHolds, hist, upload, Live
<1>3. roots' = roots \cup {RootNode} /\ req'[r].phase = "charge"
  BY <1>2, <1>t, DeriveRootStep
<1>4. roots = {}
  BY <1>1, <1>2 DEF Ground, RootIsOne, Deriving
<1>5. \A s \in Requests : s # r => req'[s] = req[s] /\ Away(s) /\ ~HalfDone(s)
  BY <1>1, <1>2, OthersAway DEF BusyPhases
<1>6. pending = <<>> /\ \A i \in DOMAIN parts : i < processed
  BY <1>1, <1>2 DEF CompletionReads
<1>7. Covers(Bytes, processed)
  <2>1. ~HalfDone(r)
    BY <1>1 DEF HalfDone
  <2>2. Covers(Bytes \o pending, processed)
    BY <1>2, <1>4, <1>5, <2>1 DEF TreeCovers
  <2>3. Bytes \o <<>> = Bytes
    BY <1>t, BytesAreData, ConcatEmptySeq
  <2> QED BY <1>6, <2>2, <2>3
<1>8. storedSize = processed
  <2>1. processed \in Nat /\ DOMAIN parts \subseteq Nat
    BY <1>t, UploadsAssumption DEF Typed, PartsTyped
  <2>2. DOMAIN parts = 0..(processed - 1)
    <3>1. ASSUME NEW i \in 0..(processed - 1) PROVE i \in DOMAIN parts
      <4>1. i + 1 \in 1..processed /\ (i + 1) - 1 = i
        BY <2>1
      <4>2. (i + 1) - 1 \in DOMAIN parts
        BY <1>7, <4>1 DEF Covers
      <4> QED BY <4>1, <4>2
    <3>2. ASSUME NEW i \in DOMAIN parts PROVE i \in 0..(processed - 1)
      <4>1. i \in Nat /\ i < processed
        BY <1>6, <2>1
      <4> QED BY <2>1, <4>1
    <3> QED BY <3>1, <3>2
  <2>3. Cardinality(0..(processed - 1)) = processed
    <3>1. 0 \in Int /\ processed - 1 \in Int
      BY <2>1
    <3>2. Cardinality(0..(processed - 1)) = IF 0 > processed - 1 THEN 0 ELSE (processed - 1) - 0 + 1
      BY <3>1, FS_Interval
    <3> QED BY <2>1, <3>2
  <2> QED BY <2>2, <2>3 DEF storedSize
<1>9. RootNode.size = processed /\ RootNode.content = Bytes /\ processed \in Nat
  BY <1>8, <1>t, FlattenIsFlat, UploadsAssumption DEF RootNode, Bytes, Typed
<1>10. StoreSafe'
  BY <1>3, <1>5 DEF StoreSafe, Away
<1>11. CompletionReads'
  BY <1>3, <1>5 DEF CompletionReads, Away
<1>12. RootsCover'
  <2>1. roots' = {RootNode} /\ processed' = processed /\ parts' = parts
    BY <1>1, <1>3, <1>4 DEF files
  <2>2. processed <= processed
    BY <1>9
  <2> HIDE DEF RootNode
  <2> DEFINE n == RootNode
  <2>3. n.size = processed /\ n.content = Bytes
    BY <1>9
  <2> HIDE DEF n
  <2>4. roots' = {n}
    BY <2>1 DEF n
  <2>5. n.size <= processed' /\ Covers(n.content, n.size)
    BY <1>7, <2>1, <2>2, <2>3
  <2> QED BY <2>1, <2>4, <2>5 DEF RootsCover, Covers
<1>13. TreeCovers'
  BY <1>3 DEF TreeCovers
<1> QED BY <1>10, <1>11, <1>12, <1>13

LEMMA ContentDelete ==
  ASSUME OneProcess, Ground, ContentHolds, NEW r \in Requests, DeleteBlocks(r)
  PROVE  ContentHolds'
<1>t. Typed
  BY DEF Ground
<1> SUFFICES ASSUME torn' = 0, Live' PROVE StoreSafe' /\ TreeCovers' /\ CompletionReads' /\ RootsCover'
  BY DEF ContentHolds
<1>1. /\ req[r].phase = "blocks" /\ req'[r].phase = "rows" /\ Others(r) /\ roots' = {}
      /\ torn' = torn /\ UNCHANGED upload
  BY <1>t, DeleteBlocksStep
<1>2. Live
  BY <1>1 DEF upload, Live
<1>3. \A s \in Requests : s # r => req'[s] = req[s] /\ (Away(s) \/ req[s].phase = "rows")
  BY <1>1, <1>2, OthersAway
<1>4. \A s \in Requests : req'[s].phase \notin {"store", "cursor", "check", "flush", "clear", "derive"}
  BY <1>1, <1>3 DEF Away
<1>5. HalfDone(r)'
  BY <1>1 DEF HalfDone
<1> QED BY <1>1, <1>4, <1>5 DEF StoreSafe, TreeCovers, CompletionReads, RootsCover

LEMMA ContentProceed ==
  ASSUME OneProcess, Ground, ContentHolds, NEW r \in Requests, Proceed(r)
  PROVE  ContentHolds'
<1>t. Typed /\ Others(r)
  BY ProceedOthers DEF Ground
<1>1. CASE AcquireLock(r)
  <2>1. /\ req[r].phase = "lock" /\ ~AtRest(req[r]) /\ UNCHANGED <<upload, files, blocks, hist>>
        /\ Step(r, "guard") \/ Step(r, "drain")
    BY <1>1 DEF AcquireLock, AtRest
  <2>2. req'[r].phase \in {"guard", "drain"}
    BY <1>t, <2>1, StepPhase
  <2>3. ~HalfDone(r)
    BY <2>1 DEF HalfDone
  <2> QED BY <1>t, <2>1, <2>2, <2>3, ContentKeptBy DEF upload, files, blocks, hist, Live
<1>2. CASE Claim(r)
  <2>1. /\ req[r].phase \in {"claim", "claimAgain"} /\ ~AtRest(req[r]) /\ UNCHANGED <<files, blocks, torn>>
        /\ Step(r, "claimed") \/ Step(r, "reread") \/ Answer(r)
        /\ Live' => Live
    BY <1>2 DEF Claim, AtRest, Claimable, Live, upload
  <2>2. req'[r].phase \in {"claimed", "reread", "done"}
    BY <1>t, <2>1, StepPhase, AnswerPhase
  <2>3. ~HalfDone(r)
    BY <2>1 DEF HalfDone
  <2> QED BY <1>t, <2>1, <2>2, <2>3, ContentKeptBy DEF files, blocks
<1>3. CASE ReadClaimed(r) \/ Reread(r) \/ Resolve(r) \/ AbortAge(r) \/ Charge(r)
  <2>1. /\ req[r].phase \in {"claimed", "reread", "resolve", "age", "charge"} /\ ~AtRest(req[r])
        /\ UNCHANGED <<upload, files, blocks, hist>>
        /\ \/ Step(r, "lock") \/ Step(r, "resolve") \/ Step(r, "claimAgain") \/ Step(r, "blocks")
           \/ Step(r, "finalize") \/ Answer(r) \/ Throw(r)
    BY <1>3 DEF ReadClaimed, Reread, Resolve, AbortAge, Charge, AtRest
  <2>2. req'[r].phase \in {"lock", "resolve", "claimAgain", "blocks", "finalize", "done", "release"}
    BY <1>t, <2>1, StepPhase, AnswerPhase, ThrowPhase
  <2>3. ~HalfDone(r)
    BY <2>1 DEF HalfDone
  <2> QED BY <1>t, <2>1, <2>2, <2>3, ContentKeptBy DEF upload, files, blocks, hist, Live
<1>4. CASE Finalize(r) \/ Release(r)
  <2>1. /\ req[r].phase \in {"finalize", "release"} /\ Answer(r) /\ UNCHANGED <<files, blocks, torn>>
        /\ Live' => Live
    BY <1>4 DEF Finalize, Release, Live, upload, hist
  <2>2. req'[r].phase = "done" /\ ~HalfDone(r)
    BY <1>t, <2>1, AnswerPhase DEF HalfDone
  <2> QED BY <1>t, <2>1, <2>2, ContentKeptBy DEF files, blocks
<1>5. CASE DeleteRows(r)
  <2>1. ~Live'
    BY <1>5 DEF DeleteRows, RemoveRow, Live
  <2> QED BY <2>1 DEF ContentHolds
<1> QED
  BY <1>1, <1>2, <1>3, <1>4, <1>5, ContentPut, ContentCursor, ContentDrained, ContentGuard, ContentStore,
     ContentCheck, ContentFlush, ContentClear, ContentDerive, ContentDelete DEF Proceed

LEMMA ContentStep ==
  ASSUME OneProcess, Ground, ContentHolds, [Next]_vars
  PROVE  ContentHolds'
<1>t. Typed
  BY DEF Ground
<1>1. ASSUME NEW r \in Requests, NEW p \in Procs, Arrive(r, p) PROVE ContentHolds'
  <2>1. /\ Others(r) /\ req[r] = Idle /\ UNCHANGED <<upload, files, blocks, hist>>
    BY <1>1, <1>t, ArriveSteps DEF Inner, Arrive, ChunkRead, CompleteRead, AbortRead, MayStart
  <2>2. req'[r].phase \in {"lock", "resolve", "claim", "blocks", "age"}
    <3>1. CASE \E i \in 0..(NParts - 1), d \in Data : ChunkRead(r, p, i, d)
      BY <1>t, <3>1 DEF ChunkRead, Typed
    <3>2. CASE CompleteRead(r, p)
      BY <1>t, <3>2 DEF CompleteRead, Typed
    <3>3. CASE AbortRead(r, p)
      BY <1>t, <3>3 DEF AbortRead, Typed
    <3> QED BY <1>1, <3>1, <3>2, <3>3 DEF Arrive
  <2>3. ~HalfDone(r)
    BY <2>1 DEF HalfDone, Idle
  <2> QED BY <2>1, <2>2, <2>3, ContentKeptBy DEF upload, files, blocks, hist, Live
<1>2. ASSUME NEW r \in Requests, Fail(r) PROVE ContentHolds'
  <2>1. /\ Others(r) /\ UNCHANGED <<upload, files, blocks>> /\ (MovesTo(r, "release") \/ Ends(r))
        /\ torn' = torn + (IF HalfDone(r) THEN 1 ELSE 0)
    BY <1>2, <1>t, FailStep
  <2>2. req'[r].phase \in {"release", "done"}
    BY <2>1 DEF MovesTo, Ends, Done
  <2>3. torn' = 0 => torn = 0 /\ ~HalfDone(r)
    <3>1. torn \in Nat
      BY <1>t DEF Typed
    <3>2. CASE HalfDone(r)
      <4>1. torn' = torn + 1
        BY <2>1, <3>2
      <4> QED BY <3>1, <4>1
    <3>3. CASE ~HalfDone(r)
      <4>1. torn' = torn + 0
        BY <2>1, <3>3
      <4> QED BY <3>1, <3>3, <4>1
    <3> QED BY <3>2, <3>3
  <2> QED BY <2>1, <2>2, <2>3, ContentKeptBy DEF upload, files, blocks, Live
<1>3. ASSUME NEW p \in Procs, Crash(p) PROVE ContentHolds'
  <2> DEFINE C == {r \in Of(p) : HalfDone(r)}
  <2>1. /\ \A r \in Requests : req'[r] = IF r \in Of(p) THEN Done ELSE req[r]
        /\ torn' = torn + Cardinality(C) /\ Cardinality(C) \in Nat
        /\ UNCHANGED <<upload, files, blocks>>
    BY <1>3, <1>t, CrashStep
  <2>2. C \in SUBSET Requests
    BY DEF Of
  <2>3. torn' = 0 => torn = 0 /\ C = {}
    <3>1. C # {} => Cardinality(C) # 0
      BY <2>2, FewRequests, FS_EmptySet
    <3>2. torn \in Nat
      BY <1>t DEF Typed
    <3>3. torn' = 0 => torn = 0 /\ Cardinality(C) = 0
      <4> HIDE DEF C
      <4>1. \A x, y \in Nat : x + y = 0 => x = 0 /\ y = 0
        OBVIOUS
      <4> QED BY <2>1, <3>2, <4>1, Zenon
    <3> QED BY <3>1, <3>3
  <2>4. \A s \in Requests : \/ req'[s] = req[s]
                            \/ /\ torn' = 0 => ~HalfDone(s)
                               /\ req'[s].phase \notin {"store", "cursor", "check", "flush", "clear",
                                                         "derive", "rows"}
    BY <2>1, <2>3 DEF Done
  <2> QED BY <2>1, <2>3, <2>4, ContentKept DEF upload, files, blocks, Live
<1>4. CASE Migrate /\ ~Live'
  BY <1>4 DEF ContentHolds
<1>5. CASE GoesStale \/ (Migrate /\ Live') \/ UNCHANGED vars
  <2>1. /\ req' = req /\ torn' = torn /\ (Live' => Live)
        /\ UNCHANGED <<parts, processed, pending, chunks, roots>>
    BY <1>5, <1>t, GoesStaleStep, MigrateStep, RemoveRowTyped
    DEF hist, vars, upload, files, blocks, Live
  <2> QED BY <2>1, ContentKept
<1> QED BY <1>1, <1>2, <1>3, <1>4, <1>5, ContentProceed DEF Next

LEMMA ContentInit == Init => OneKind /\ LockIsHeld /\ ContentHolds
<1> SUFFICES ASSUME Init PROVE OneKind /\ LockIsHeld /\ ContentHolds
  OBVIOUS
<1>1. \A r \in Requests : req[r].phase = "idle"
  BY DEF Init, Idle
<1>2. OneKind /\ LockIsHeld
  BY <1>1 DEF OneKind, LockIsHeld, AtRest, LockPhases
<1>3. StoreSafe /\ CompletionReads /\ RootsCover
  BY <1>1 DEF Init, StoreSafe, CompletionReads, RootsCover
<1>4. Covers(Bytes \o pending, processed)
  <2>1. chunks = <<>> /\ pending = <<>> /\ processed = 0 /\ Len(<<>>) = 0
    BY DEF Init
  <2>2. Flat(chunks)[0] = <<>>
    BY FlatRecursion
  <2>3. Bytes = <<>>
    BY <2>1, <2>2 DEF Bytes
  <2>4. Bytes \o pending = <<>>
    BY <2>1, <2>3, ConcatEmptySeq, EmptySeq
  <2> QED BY <2>1, <2>4 DEF Covers
<1> QED BY <1>1, <1>2, <1>3, <1>4 DEF ContentHolds, TreeCovers

\* What a client that does not overlap its calls uploads to one process, whose
\* completions never outlast the staleness window, gets one root, and the root
\* holds exactly the stored parts it claims to cover, in order and without
\* repetition (RootIsUpload), unless a request died between a write to the
\* blockstore and the write that goes with it.
THEOREM RootIsTheUpload ==
  ASSUME Ordered, ~Slow, OneProcess
  PROVE  Spec => []RootIsUpload
<1> DEFINE I == /\ Typed /\ NamesHold /\ TasksSettled /\ ClaimIsOne /\ RootIsOne
                /\ OneKind /\ LockIsHeld /\ ContentHolds
<1>1. Init => I
  BY TypedInit, NamesInit, OneRootInit, ContentInit
<1>2. I /\ [Next]_vars => I'
  BY Steps, NamesStep, TasksStep, ClaimStep, RootStep, OneKindStep, LockHeldStep, ContentStep DEF Ground
<1>3. I => RootIsUpload
  <2> SUFFICES ASSUME Typed, RootIsOne, ContentHolds PROVE RootIsUpload
    OBVIOUS
  <2>1. RootCoversParts
    BY DEF RootCoversParts, ContentHolds, RootsCover, Covers
  <2> QED BY <2>1, OneRootIsOne DEF RootIsUpload
<1> HIDE DEF I
<1> QED BY <1>1, <1>2, <1>3, PTL DEF Spec
=============================================================================
