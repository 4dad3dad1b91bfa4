---------------------- MODULE TransactionManagerProofs ----------------------
(***************************************************************************)
(* Theorems about TransactionManager for any accounts, calls, depth of     *)
(* confirmation, slots and faults.                                         *)
(***************************************************************************)
EXTENDS TransactionManager, FiniteSetTheorems, SequenceTheorems, WellFoundedInduction, TLAPS

(***************************************************************************)
(* Nonces that are free                                                    *)
(***************************************************************************)
\* A non-empty set of numbers has a least one.
LEMMA HasLeast ==
  ASSUME NEW S \in SUBSET Nat, S # {}
  PROVE  \E m \in S : \A n \in S : m <= n
<1>1. PICK m \in S : \A n \in S : ~ (<<n, m>> \in OpToRel(<, Nat))
  BY NatLessThanWellFounded, WFMin
<1>2. \A n \in S : m <= n
  <2> SUFFICES ASSUME NEW n \in S PROVE m <= n
    OBVIOUS
  <2>1. m \in Nat /\ n \in Nat
    OBVIOUS
  <2>2. ~ (n < m)
    BY <1>1, <2>1, Zenon DEF OpToRel
  <2> QED BY <2>1, <2>2
<1> QED BY <1>2

\* FirstFree(M, a, k, n): n is the first nonce of a from k on that M lacks.
FirstFree(M, a, k, n) ==
  ~Holds(M, a, n) /\ \A m \in k..(n - 1) : Holds(M, a, m)

\* There is such a nonce: a finite set does not hold more nonces than it has
\* members.
LEMMA SomeAreFree ==
  ASSUME NEW M, IsFiniteSet(M), NEW a, NEW k \in Nat
  PROVE  \E n \in k..(k + Cardinality(M)) : FirstFree(M, a, k, n)
<1> DEFINE c == Cardinality(M)
           I == k..(k + c)
           F == {n \in I : ~Holds(M, a, n)}
<1>1. c \in Nat
  BY FS_CardinalityType
<1>2. IsFiniteSet(I) /\ Cardinality(I) = c + 1
  BY <1>1, FS_Interval
<1>3. F # {}
  <2> SUFFICES ASSUME F = {} PROVE FALSE
    OBVIOUS
  <2>1. \A n \in I : \E e \in M : e.account = a /\ e.nonce = n
    BY DEF Holds
  <2> DEFINE f == [n \in I |-> CHOOSE e \in M : e.account = a /\ e.nonce = n]
  <2>2. \A n \in I : f[n] \in M /\ f[n].nonce = n
    BY <2>1
  <2>3. f \in [I -> M]
    BY <2>2
  <2> HIDE DEF f, I, c
  <2>4. Cardinality(M) < Cardinality(I)
    BY <1>1, <1>2 DEF c
  <2>5. \E x, y \in I : x # y /\ f[x] = f[y]
    BY <1>2, <2>3, <2>4, FS_PigeonHole
  <2> QED BY <2>2, <2>5
<1>4. F \in SUBSET Nat
  BY <1>1
<1>5. PICK n \in F : \A m \in F : n <= m
  BY <1>3, <1>4, HasLeast
<1>6. \A m \in k..(n - 1) : m \in I /\ ~ (n <= m)
  BY <1>1, <1>5
<1>7. \A m \in k..(n - 1) : Holds(M, a, m)
  BY <1>5, <1>6
<1> QED BY <1>5, <1>7 DEF FirstFree

\* The nonces of a in X are those below k, each used once.
At(X, a) == {e \in X : e.account = a}
Numbered(X, a, k) ==
  /\ \A e \in At(X, a) : e.nonce \in 0..(k - 1)
  /\ \A n \in 0..(k - 1) : Holds(X, a, n)
  /\ \A e, d \in At(X, a) : e.nonce = d.nonce => e = d

\* Then k is their number, which is how the chain counts.
LEMMA Counted ==
  ASSUME NEW X, NEW a, NEW k \in Nat, Numbered(X, a, k)
  PROVE  NonceAfter(X, a) = k
<1> DEFINE E == At(X, a)
           I == 0..(k - 1)
           f == [n \in I |-> CHOOSE e \in E : e.nonce = n]
<1>1. IsFiniteSet(I) /\ Cardinality(I) = k
  BY FS_Interval
<1>2. \A n \in I : \E e \in E : e.nonce = n
  BY DEF Numbered, Holds, At
<1>3. \A n \in I : f[n] \in E /\ f[n].nonce = n
  BY <1>2
<1>4. f \in [I -> E]
  BY <1>3
<1>5. \A e \in E : e.nonce \in I /\ f[e.nonce] = e
  <2>1. \A e \in E : e.nonce \in I
    BY DEF Numbered
  <2>2. \A e, d \in E : e.nonce = d.nonce => e = d
    BY DEF Numbered
  <2> HIDE DEF f, E, I
  <2> QED BY <2>1, <2>2, <1>3
<1>6. f \in Bijection(I, E)
  <2> HIDE DEF f, E, I
  <2>1. \A n, m \in I : f[n] = f[m] => n = m
    BY <1>3
  <2>2. \A e \in E : \E n \in I : f[n] = e
    BY <1>5
  <2>3. DOMAIN f = I
    BY <1>4
  <2> QED BY <1>4, <2>1, <2>2, <2>3 DEF Bijection, Injection, Surjection, IsInjective
<1>7. ExistsBijection(I, E)
  BY <1>6 DEF ExistsBijection
<1>8. Cardinality(E) = k
  <2> HIDE DEF E, I
  <2> QED BY <1>1, <1>7, FS_Bijection
<1> QED BY <1>8 DEF NonceAfter, At

\* Every account's nonces in X start at 0 and have no gap; M has no two
\* extrinsics with one nonce; M is ahead of X.
Contiguous(X) ==
  \A a \in Signers : NonceAfter(X, a) \in Nat /\ Numbered(X, a, NonceAfter(X, a))
Distinct(M) == \A e, d \in M : (e.account = d.account /\ e.nonce = d.nonce) => e = d
Ahead(M, X) == \A e \in M : e.nonce >= NonceAfter(X, e.account)

\* A block continues the nonces where the chain ends, and what stays in the
\* pool is ahead of it.
LEMMA BlockFollows ==
  ASSUME NEW X \in SUBSET Extrinsic, NEW M \in SUBSET Extrinsic, IsFiniteSet(M),
         Contiguous(X), Distinct(M), Ahead(M, X), NEW S \in Block(X, M)
  PROVE  /\ Contiguous(X \cup S) /\ Ahead(M \ S, X \cup S)
         /\ \A e \in S : e \notin X /\ e.nonce < NonceAfter(X \cup S, e.account)
         /\ \A a \in Signers : NonceAfter(X, a) <= NonceAfter(X \cup S, a)
<1>0. S \subseteq M /\ S \subseteq Ready(X, M) /\ IsFiniteSet(S)
  BY FS_Subset DEF Block, Ready
<1>1. \A e \in Extrinsic : e.account \in Signers /\ e.nonce \in Nat
  BY DEF Extrinsic
<1>2. ASSUME NEW a \in Signers
      PROVE  \E k \in Nat :
               /\ NonceAfter(X, a) <= k /\ Numbered(X \cup S, a, k)
               /\ \A e \in At(S, a) : e \notin X /\ e.nonce < k
               /\ \A e \in At(M \ S, a) : e.nonce >= k
  <2> DEFINE n == NonceAfter(X, a)
  <2>1. n \in Nat /\ Numbered(X, a, n)
    BY DEF Contiguous
  <2> HIDE DEF n
  <2>2. PICK k \in n..(n + Cardinality(S)) : FirstFree(S, a, n, k)
    BY <1>0, <2>1, SomeAreFree
  <2>3. k \in Nat /\ n <= k
    BY <1>0, <2>1, <2>2, FS_CardinalityType
  <2>4. \A e \in At(M, a) : e.nonce \in Nat /\ e.nonce >= n
    BY <1>1 DEF Ahead, At, n
  <2>5. ASSUME NEW e \in At(S, a) PROVE e.nonce \in n..(k - 1)
    <3> SUFFICES ASSUME e.nonce >= k PROVE FALSE
      BY <1>0, <2>3, <2>4, <2>1 DEF At
    <3>1. e.nonce # k
      BY <2>2 DEF FirstFree, Holds, At
    <3>2. e \in Ready(X, M) /\ e.account = a /\ e.nonce \in Nat
      BY <1>0, <2>4 DEF At
    <3>3. k \in n..(e.nonce - 1)
      BY <3>1, <3>2, <2>3, <2>1
    <3>4. Holds(M, a, k)
      BY <3>2, <3>3 DEF Ready, n
    <3>5. PICK d \in M : d.account = a /\ d.nonce = k
      BY <3>4 DEF Holds
    <3>6. d.nonce < e.nonce
      BY <3>3, <3>5, <3>2, <2>3
    <3>7. d \in S
      BY <3>2, <3>5, <3>6 DEF Block, At
    <3> QED BY <3>5, <3>7, <2>2 DEF FirstFree, Holds
  <2>6. \A m \in n..(k - 1) : Holds(S, a, m)
    BY <2>2 DEF FirstFree
  <2>7. \A e \in At(X, a) : e.nonce \in 0..(n - 1)
    BY <2>1 DEF Numbered
  <2>8. Numbered(X \cup S, a, k)
    <3>1. \A e \in At(X \cup S, a) : e \in At(X, a) \/ e \in At(S, a)
      BY DEF At
    <3>2. \A e \in At(X \cup S, a) : e.nonce \in 0..(k - 1)
      BY <3>1, <2>5, <2>7, <2>1, <2>3
    <3>3. ASSUME NEW m \in 0..(k - 1) PROVE Holds(X \cup S, a, m)
      <4>1. CASE m < n
        <5>1. Holds(X, a, m)
          BY <4>1, <2>1, <2>3 DEF Numbered
        <5> QED BY <5>1 DEF Holds
      <4>2. CASE m >= n
        <5>1. Holds(S, a, m)
          BY <4>2, <2>1, <2>3, <2>6
        <5> QED BY <5>1 DEF Holds
      <4> QED BY <4>1, <4>2, <2>1, <2>3
    <3>4. ASSUME NEW e \in At(X \cup S, a), NEW d \in At(X \cup S, a), e.nonce = d.nonce
          PROVE  e = d
      <4>1. CASE e \in At(X, a) /\ d \in At(X, a)
        BY <4>1, <3>4, <2>1 DEF Numbered
      <4>2. CASE e \in At(S, a) /\ d \in At(S, a)
        BY <4>2, <3>4, <1>0 DEF Distinct, At
      <4>3. CASE e \in At(X, a) /\ d \in At(S, a)
        BY <4>3, <3>4, <2>5, <2>7, <2>1, <2>3
      <4>4. CASE e \in At(S, a) /\ d \in At(X, a)
        BY <4>4, <3>4, <2>5, <2>7, <2>1, <2>3
      <4> QED BY <3>1, <4>1, <4>2, <4>3, <4>4
    <3> QED BY <3>2, <3>3, <3>4 DEF Numbered
  <2>9. \A e \in At(S, a) : e \notin X /\ e.nonce < k
    <3> SUFFICES ASSUME NEW e \in At(S, a) PROVE e \notin X /\ e.nonce < k
      OBVIOUS
    <3>1. e.nonce \in n..(k - 1)
      BY <2>5
    <3>2. e \in X => e.nonce \in 0..(n - 1)
      BY <2>7 DEF At
    <3> QED BY <3>1, <3>2, <2>1, <2>3
  <2>10. \A e \in At(M \ S, a) : e.nonce >= k
    <3> SUFFICES ASSUME NEW e \in At(M \ S, a), e.nonce < k PROVE FALSE
      BY <2>3, <2>4 DEF At
    <3>1. e \in M /\ e \notin S /\ e.account = a /\ e.nonce \in n..(k - 1)
      BY <2>4, <2>3, <2>1 DEF At
    <3>2. PICK d \in S : d.account = a /\ d.nonce = e.nonce
      BY <3>1, <2>6 DEF Holds
    <3> QED BY <3>1, <3>2, <1>0 DEF Distinct
  <2> QED BY <2>3, <2>8, <2>9, <2>10 DEF n
<1>3. ASSUME NEW a \in Signers
      PROVE  /\ NonceAfter(X \cup S, a) \in Nat
             /\ NonceAfter(X, a) <= NonceAfter(X \cup S, a)
             /\ Numbered(X \cup S, a, NonceAfter(X \cup S, a))
             /\ \A e \in At(S, a) : e \notin X /\ e.nonce < NonceAfter(X \cup S, a)
             /\ \A e \in At(M \ S, a) : e.nonce >= NonceAfter(X \cup S, a)
  BY <1>2, Counted
<1>4. \A e \in M : e.account \in Signers
  BY <1>1
<1>5. Ahead(M \ S, X \cup S)
  BY <1>3, <1>4 DEF Ahead, At
<1>6. \A e \in S : e \notin X /\ e.nonce < NonceAfter(X \cup S, e.account)
  BY <1>0, <1>3, <1>4 DEF At
<1> QED BY <1>3, <1>5, <1>6 DEF Contiguous

(***************************************************************************)
(* Types                                                                   *)
(***************************************************************************)
Typed ==
  /\ TypeOK
  /\ IsFiniteSet(mempool) /\ IsFiniteSet(buried)
  /\ \A i \in 1..Depth : IsFiniteSet(fork[i])

PlainType   == [phase : {"idle", "register", "failed", "ok"}]
QueuedType  == [phase : {"queued"}, account : Signers, nonce : Nat]
SentType    == [phase : {"sent"}, account : Signers, nonce : Nat, inclusionSeq : Nat,
                lookups : SUBSET BlockType, target : BlockType, checking : Nat]
RecoverType == [phase : {"recover"}, account : Signers, invalid : BOOLEAN]

LEMMA TxUnion == TxTypes = PlainType \cup QueuedType \cup SentType \cup RecoverType
BY DEF TxTypes, PlainType, QueuedType, SentType, RecoverType

\* What a transaction is, by its phase.
LEMMA TxByPhase ==
  ASSUME tx \in [Txs -> TxTypes], NEW t \in Txs
  PROVE  /\ tx[t].phase = "queued" => tx[t] \in QueuedType
         /\ tx[t].phase = "sent" => tx[t] \in SentType
         /\ tx[t].phase = "recover" => tx[t] \in RecoverType
<1>1. tx[t] \in PlainType \cup QueuedType \cup SentType \cup RecoverType
  BY TxUnion
<1>2. CASE tx[t] \in PlainType
  <2>1. tx[t].phase \in {"idle", "register", "failed", "ok"}
    BY <1>2 DEF PlainType
  <2> QED BY <2>1
<1>3. CASE tx[t] \in QueuedType
  <2>1. tx[t].phase = "queued"
    BY <1>3 DEF QueuedType
  <2> QED BY <1>3, <2>1
<1>4. CASE tx[t] \in SentType
  <2>1. tx[t].phase = "sent"
    BY <1>4 DEF SentType
  <2> QED BY <1>4, <2>1
<1>5. CASE tx[t] \in RecoverType
  <2>1. tx[t].phase = "recover"
    BY <1>5 DEF RecoverType
  <2> QED BY <1>5, <2>1
<1> QED BY <1>1, <1>2, <1>3, <1>4, <1>5

LEMMA PendingTypes ==
  ASSUME tx \in [Txs -> TxTypes]
  PROVE  \A t \in Pending :
           /\ t \in Txs /\ tx[t].account \in Signers /\ tx[t].nonce \in Nat
           /\ ExtrinsicOf(t) \in Extrinsic
<1> SUFFICES ASSUME NEW t \in Pending
             PROVE  /\ t \in Txs /\ tx[t].account \in Signers /\ tx[t].nonce \in Nat
                    /\ ExtrinsicOf(t) \in Extrinsic
  OBVIOUS
<1>1. t \in Txs /\ (tx[t].phase = "queued" \/ tx[t].phase = "sent")
  BY DEF Pending, Phase
<1>2. tx[t] \in QueuedType \/ tx[t] \in SentType
  BY <1>1, TxByPhase
<1>3. tx[t].account \in Signers /\ tx[t].nonce \in Nat
  <2>1. CASE tx[t] \in QueuedType
    BY <2>1 DEF QueuedType
  <2>2. CASE tx[t] \in SentType
    BY <2>2 DEF SentType
  <2> QED BY <1>2, <2>1, <2>2
<1> QED BY <1>1, <1>3 DEF ExtrinsicOf, Extrinsic

LEMMA BlankIsBlock == NoBlock \in BlockType
BY TransactionConstants DEF NoBlock, BlockType

\* The states that the actions write.
LEMMA TxMade ==
  /\ \A p \in {"idle", "register", "failed", "ok"} : [phase |-> p] \in TxTypes
  /\ Failed \in TxTypes /\ Succeeded \in TxTypes
  /\ \A a \in Signers, n \in Nat : Queued(a, n) \in TxTypes /\ Sent(a, n) \in TxTypes
  /\ \A a \in Signers, b \in BOOLEAN : Settled(a, b) \in TxTypes
<1>1. \A p \in {"idle", "register", "failed", "ok"} : [phase |-> p] \in PlainType
  BY DEF PlainType
<1>2. \A a \in Signers, n \in Nat : Queued(a, n) \in QueuedType
  BY DEF QueuedType, Queued
<1>3. \A a \in Signers, n \in Nat : Sent(a, n) \in SentType
  BY BlankIsBlock DEF SentType, Sent
<1>4. \A a \in Signers, b \in BOOLEAN : Settled(a, b) \in RecoverType
  BY DEF RecoverType, Settled
<1> QED BY <1>1, <1>2, <1>3, <1>4, TxUnion DEF Failed, Succeeded

\* Transactions on their way may fail together.
LEMMA FailsTyped ==
  ASSUME tx \in [Txs -> TxTypes], NEW S \in SUBSET Pending, NEW invalid \in BOOLEAN
  PROVE  Fails(S, invalid) \in [Txs -> TxTypes]
<1>1. \A t \in S : Settled(tx[t].account, invalid) \in TxTypes
  BY PendingTypes, TxMade
<1> QED BY <1>1 DEF Fails

\* Blocks get deeper.
AgedAll(L, d) == {Aged(b, d) : b \in L}
NewBlock(seq, above) == [at |-> seq, above |-> above, live |-> TRUE]

LEMMA AgedTyped ==
  ASSUME NEW b \in BlockType, NEW d \in Nat
  PROVE  /\ Aged(b, d) \in BlockType /\ Aged(b, d).at = b.at
         /\ b = NoBlock => Aged(b, d) = NoBlock
         /\ b # NoBlock =>
              /\ Aged(b, d).live = (b.live /\ b.above >= d)
              /\ Aged(b, d).above = IF b.above < Depth THEN b.above + 1 ELSE Depth
<1>1. b.at \in Nat /\ b.above \in 0..Depth /\ b.live \in BOOLEAN
      /\ b = [at |-> b.at, above |-> b.above, live |-> b.live]
  BY DEF BlockType
<1>2. CASE b = NoBlock
  BY <1>2 DEF Aged
<1>3. CASE b # NoBlock
  <2> DEFINE l == b.live /\ b.above >= d
             n == IF b.above < Depth THEN b.above + 1 ELSE Depth
  <2>1. Aged(b, d) = [at |-> b.at, above |-> n, live |-> l]
    BY <1>1, <1>3 DEF Aged
  <2>2. n \in 0..Depth
    BY <1>1, TransactionConstants
  <2>3. l \in BOOLEAN
    OBVIOUS
  <2> HIDE DEF n, l
  <2>4. Aged(b, d) \in BlockType
    BY <2>1, <2>2, <2>3, <1>1 DEF BlockType
  <2>5. Aged(b, d).at = b.at /\ Aged(b, d).above = n /\ Aged(b, d).live = l
    BY <2>1
  <2> QED BY <2>4, <2>5, <1>3 DEF n, l
<1> QED BY <1>2, <1>3

\* What a new head does to the transactions.
WatchedTx(t, w, S, above, d) ==
  LET seq == tx[t].inclusionSeq + 1
      old == AgedAll(tx[t].lookups, d)
  IN /\ w.phase = tx[t].phase
     /\ tx[t].phase # "sent" => w = tx[t]
     /\ tx[t].phase = "sent" =>
          /\ w.account = tx[t].account /\ w.nonce = tx[t].nonce
          /\ w.checking = tx[t].checking /\ w.target = Aged(tx[t].target, d)
          /\ ExtrinsicOf(t) \in S =>
               w.inclusionSeq = seq /\ w.lookups = old \cup {NewBlock(seq, above)}
          /\ ExtrinsicOf(t) \notin S =>
               w.inclusionSeq = tx[t].inclusionSeq /\ w.lookups = old

LEMMA Watched ==
  ASSUME tx \in [Txs -> TxTypes], NEW S, NEW above \in 0..Depth, NEW d \in Nat
  PROVE  /\ Watch(S, above, d) \in [Txs -> TxTypes]
         /\ \A t \in Txs : WatchedTx(t, Watch(S, above, d)[t], S, above, d)
<1> DEFINE W == Watch(S, above, d)
<1>1. DOMAIN W = Txs
  BY DEF Watch
<1>2. ASSUME NEW t \in Txs, tx[t].phase # "sent"
      PROVE  W[t] = tx[t]
  BY <1>2 DEF Watch
<1>3. ASSUME NEW t \in Txs, tx[t].phase = "sent"
      PROVE  LET w == W[t]
                 old == AgedAll(tx[t].lookups, d)
                 seq == tx[t].inclusionSeq + 1
             IN /\ w \in SentType
                /\ w.account = tx[t].account /\ w.nonce = tx[t].nonce
                /\ w.checking = tx[t].checking /\ w.target = Aged(tx[t].target, d)
                /\ ExtrinsicOf(t) \in S =>
                     /\ w.inclusionSeq = seq
                     /\ w.lookups = old \cup {NewBlock(seq, above)}
                /\ ExtrinsicOf(t) \notin S =>
                     w.inclusionSeq = tx[t].inclusionSeq /\ w.lookups = old
  <2> DEFINE r == tx[t]
             old == AgedAll(r.lookups, d)
             seq == r.inclusionSeq + 1
             hit == ExtrinsicOf(t) \in S
             q == IF hit THEN seq ELSE r.inclusionSeq
             k == IF hit THEN old \cup {NewBlock(seq, above)} ELSE old
             g == Aged(r.target, d)
  <2>1. r \in SentType
    BY <1>3, TxByPhase
  <2>2. r = [phase |-> "sent", account |-> r.account, nonce |-> r.nonce,
             inclusionSeq |-> r.inclusionSeq, lookups |-> r.lookups,
             target |-> r.target, checking |-> r.checking]
        /\ r.account \in Signers /\ r.nonce \in Nat /\ r.checking \in Nat
        /\ r.inclusionSeq \in Nat /\ r.lookups \in SUBSET BlockType /\ r.target \in BlockType
    BY <2>1 DEF SentType
  <2>3. W[t] = [r EXCEPT !.target = g, !.inclusionSeq = q, !.lookups = k]
    BY <1>3 DEF Watch, AgedAll, NewBlock
  <2>4. W[t] = [phase |-> "sent", account |-> r.account, nonce |-> r.nonce,
                inclusionSeq |-> q, lookups |-> k, target |-> g, checking |-> r.checking]
    <3>1. r = [phase |-> "sent", account |-> r.account, nonce |-> r.nonce,
               inclusionSeq |-> r.inclusionSeq, lookups |-> r.lookups,
               target |-> r.target, checking |-> r.checking]
      BY <2>2
    <3> HIDE DEF W, r, q, k, g
    <3> DEFINE v == [phase |-> "sent", account |-> r.account, nonce |-> r.nonce,
                     inclusionSeq |-> r.inclusionSeq, lookups |-> r.lookups,
                     target |-> r.target, checking |-> r.checking]
    <3> DEFINE v1 == [v EXCEPT !.target = g]
               v2 == [v1 EXCEPT !.inclusionSeq = q]
               v3 == [v2 EXCEPT !.lookups = k]
    <3>a. [v EXCEPT !.target = g, !.inclusionSeq = q, !.lookups = k] = v3
      <4> HIDE DEF v
      <4> QED OBVIOUS
    <3>b. v1 = [phase |-> "sent", account |-> r.account, nonce |-> r.nonce,
                inclusionSeq |-> r.inclusionSeq, lookups |-> r.lookups,
                target |-> g, checking |-> r.checking]
      OBVIOUS
    <3>c. v2 = [phase |-> "sent", account |-> r.account, nonce |-> r.nonce,
                inclusionSeq |-> q, lookups |-> r.lookups,
                target |-> g, checking |-> r.checking]
      <4> HIDE DEF v1
      <4> QED BY <3>b
    <3>d. v3 = [phase |-> "sent", account |-> r.account, nonce |-> r.nonce,
                inclusionSeq |-> q, lookups |-> k,
                target |-> g, checking |-> r.checking]
      <4> HIDE DEF v2
      <4> QED BY <3>c
    <3>2. [v EXCEPT !.target = g, !.inclusionSeq = q, !.lookups = k]
          = [phase |-> "sent", account |-> r.account, nonce |-> r.nonce,
             inclusionSeq |-> q, lookups |-> k, target |-> g, checking |-> r.checking]
      BY <3>a, <3>d, Zenon
    <3>3. W[t] = [v EXCEPT !.target = g, !.inclusionSeq = q, !.lookups = k]
      BY <2>3, <3>1, Zenon
    <3> QED BY <3>2, <3>3, Zenon
  <2>5. seq \in Nat /\ q \in Nat
    BY <2>2
  <2>6. g \in BlockType /\ old \subseteq BlockType
    BY <2>2, AgedTyped DEF AgedAll
  <2>7. NewBlock(seq, above) \in BlockType
    BY <2>5 DEF BlockType, NewBlock
  <2>8. k \in SUBSET BlockType
    BY <2>6, <2>7
  <2>9. hit => (q = seq /\ k = old \cup {NewBlock(seq, above)})
    OBVIOUS
  <2>10. ~hit => (q = r.inclusionSeq /\ k = old)
    OBVIOUS
  <2> HIDE DEF W, r, q, k, g, old, seq, hit
  <2>11. W[t] \in SentType
    BY <2>2, <2>4, <2>5, <2>6, <2>8 DEF SentType
  <2>12. W[t].account = r.account /\ W[t].nonce = r.nonce /\ W[t].checking = r.checking
         /\ W[t].target = g /\ W[t].inclusionSeq = q /\ W[t].lookups = k
    BY <2>4
  <2> QED BY <2>9, <2>10, <2>11, <2>12 DEF r, g, old, seq, hit
<1> HIDE DEF W
<1>4. ASSUME NEW t \in Txs PROVE W[t] \in TxTypes /\ W[t].phase = tx[t].phase
  <2>1. CASE tx[t].phase = "sent"
    <3>1. W[t] \in SentType
      BY <1>3, <2>1
    <3>2. W[t].phase = "sent"
      BY <3>1 DEF SentType
    <3> QED BY <2>1, <3>1, <3>2, TxUnion
  <2>2. CASE tx[t].phase # "sent"
    BY <1>2, <2>2
  <2> QED BY <2>1, <2>2
<1>5. W \in [Txs -> TxTypes]
  <2>1. W = [t \in Txs |-> W[t]]
    BY DEF W, Watch
  <2> QED BY <1>4, <2>1
<1>6. ASSUME NEW t \in Txs PROVE WatchedTx(t, W[t], S, above, d)
  BY <1>2, <1>3, <1>4 DEF WatchedTx
<1> QED BY <1>5, <1>6 DEF W

(***************************************************************************)
(* New heads                                                               *)
(***************************************************************************)
\* The extrinsics in the chain up to the k-th of the last Depth blocks.
Upto(k) == buried \cup UNION {fork[j] : j \in 1..k}

\* The last n blocks give way to n + 1, the i-th of which has the extrinsics
\* of S: one block more if n is 0, otherwise a reorganisation.
NewHead(n, i, S) ==
  /\ n \in 0..Depth /\ i \in 1..(n + 1)
  /\ S \subseteq Extrinsic /\ IsFiniteSet(S)
  /\ fork' \in [1..Depth -> SUBSET Extrinsic]
  /\ \A j \in 1..Depth :
       fork'[j] = IF j < Depth - n THEN fork[j + 1] ELSE IF j + 1 = Depth - n + i THEN S ELSE {}
  /\ buried' = buried \cup (IF n < Depth THEN fork[1] ELSE IF i = 1 THEN S ELSE {})
  /\ tx' = Watch(S, n + 1 - i, n)

LEMMA ForkIsSeq ==
  ASSUME Typed
  PROVE  /\ fork \in Seq(SUBSET Extrinsic) /\ Len(fork) = Depth /\ DOMAIN fork = 1..Depth
         /\ fork # <<>> /\ \A j \in 1..Depth : fork[j] \subseteq Extrinsic
         /\ buried \cup InBlocks(fork) = Upto(Depth)
<1>1. fork \in [1..Depth -> SUBSET Extrinsic] /\ Depth \in Nat /\ Depth >= 1
  BY TransactionConstants DEF Typed, TypeOK
<1>2. fork \in Seq(SUBSET Extrinsic)
  <2>1. Seq(SUBSET Extrinsic) = UNION {[1..m -> SUBSET Extrinsic] : m \in Nat}
    BY SeqDef, Zenon
  <2> QED BY <1>1, <2>1, Zenon
<1>3. DOMAIN fork = 1..Depth /\ DOMAIN fork = 1..Len(fork) /\ Len(fork) \in Nat
  BY <1>1, <1>2, LenProperties
<1>4. Len(fork) = Depth
  BY <1>1, <1>3
<1>5. fork # <<>>
  BY <1>1, <1>2, <1>4
<1> QED BY <1>1, <1>2, <1>3, <1>4, <1>5 DEF InBlocks, Upto

LEMMA ProduceIsHead ==
  ASSUME Typed, NEW S \in SUBSET mempool, Produce(S)
  PROVE  NewHead(0, 1, S)
<1> DEFINE T == SUBSET Extrinsic
           g == Append(Tail(fork), S)
<1>1. fork \in Seq(T) /\ Len(fork) = Depth /\ fork # <<>> /\ Depth \in Nat /\ Depth >= 1
  BY ForkIsSeq, TransactionConstants
<1>2. S \in T /\ IsFiniteSet(S)
  BY FS_Subset DEF Typed, TypeOK
<1>3. Tail(fork) \in Seq(T) /\ Len(Tail(fork)) = Depth - 1
      /\ \A j \in 1..(Depth - 1) : Tail(fork)[j] = fork[j + 1]
  <2> HIDE DEF T
  <2> QED BY <1>1, HeadTailProperties
<1>4. g \in Seq(T) /\ Len(g) = Depth
      /\ \A j \in 1..Depth : g[j] = IF j < Depth THEN fork[j + 1] ELSE S
  <2> HIDE DEF T
  <2>1. \A s \in Seq(T), x \in T :
          /\ Append(s, x) \in Seq(T) /\ Len(Append(s, x)) = Len(s) + 1
          /\ \A j \in 1..Len(s) + 1 : Append(s, x)[j] = IF j <= Len(s) THEN s[j] ELSE x
    OBVIOUS
  <2>2. g \in Seq(T) /\ Len(g) = Depth
        /\ \A j \in 1..Depth : g[j] = IF j <= Depth - 1 THEN Tail(fork)[j] ELSE S
    BY <1>1, <1>2, <1>3, <2>1
  <2> HIDE DEF g
  <2> QED BY <1>1, <1>3, <2>2
<1>5. g \in [1..Depth -> T]
  <2> HIDE DEF T, g
  <2> QED BY <1>4, LenProperties
<1>6. fork' = g /\ buried' = buried \cup fork[1] /\ tx' = Watch(S, 0, 0)
  BY DEF Produce
<1>7. \A j \in 1..Depth : g[j] = IF j < Depth - 0 THEN fork[j + 1] ELSE IF j + 1 = Depth - 0 + 1 THEN S ELSE {}
  <2> HIDE DEF g
  <2> QED BY <1>1, <1>4
<1>8. 0 \in 0..Depth /\ 1 \in 1..(0 + 1) /\ 0 < Depth /\ 0 + 1 - 1 = 0
  BY <1>1
<1> HIDE DEF g
<1> QED BY <1>2, <1>5, <1>6, <1>7, <1>8 DEF NewHead

\* What a reorganisation keeps and what it takes away.
LEMMA ReorgParts ==
  ASSUME Typed, NEW n \in 1..Depth
  PROVE  LET kept == SubSeq(fork, 1, Depth - n)
             gone == InBlocks(SubSeq(fork, Depth - n + 1, Depth))
         IN /\ kept \in Seq(SUBSET Extrinsic) /\ Len(kept) = Depth - n
            /\ \A j \in 1..(Depth - n) : kept[j] = fork[j]
            /\ buried \cup InBlocks(kept) = Upto(Depth - n)
            /\ gone = UNION {fork[j] : j \in (Depth - n + 1)..Depth}
            /\ gone \subseteq Extrinsic /\ IsFiniteSet(gone)
<1> DEFINE T == SUBSET Extrinsic
           kept == SubSeq(fork, 1, Depth - n)
           last == SubSeq(fork, Depth - n + 1, Depth)
           gone == InBlocks(last)
<1>1. Depth \in Nat /\ n \in Nat /\ n >= 1 /\ n <= Depth
      /\ \A j \in 1..Depth : fork[j] \in T
  BY ForkIsSeq, TransactionConstants
<1>2. kept \in Seq(T) /\ Len(kept) = Depth - n /\ \A j \in 1..(Depth - n) : kept[j] = fork[j]
  <2>1. \A j \in 1..(Depth - n) : fork[j] \in T
    BY <1>1
  <2> HIDE DEF T
  <2>2. Depth - n \in Int /\ 1 \in Int
    BY <1>1
  <2>3. kept \in Seq(T) /\ Len(kept) = (IF 1 <= Depth - n THEN (Depth - n) - 1 + 1 ELSE 0)
        /\ \A j \in 1..((Depth - n) - 1 + 1) : kept[j] = fork[1 + j - 1]
    BY <2>1, <2>2, SubSeqProperties
  <2> HIDE DEF kept
  <2> QED BY <1>1, <2>3
<1>3. last \in Seq(T) /\ Len(last) = n /\ \A j \in 1..n : last[j] = fork[Depth - n + j]
  <2>1. \A j \in (Depth - n + 1)..Depth : fork[j] \in T
    BY <1>1
  <2> HIDE DEF T
  <2>2. Depth - n + 1 \in Int /\ Depth \in Int
    BY <1>1
  <2>3. last \in Seq(T)
        /\ Len(last) = (IF Depth - n + 1 <= Depth THEN Depth - (Depth - n + 1) + 1 ELSE 0)
        /\ \A j \in 1..(Depth - (Depth - n + 1) + 1) : last[j] = fork[Depth - n + 1 + j - 1]
    BY <2>1, <2>2, SubSeqProperties
  <2> HIDE DEF last
  <2> QED BY <1>1, <2>3
<1>4. DOMAIN kept = 1..(Depth - n) /\ DOMAIN last = 1..n
  <2> HIDE DEF T, kept, last
  <2> QED BY <1>2, <1>3, LenProperties
<1>5. InBlocks(kept) = UNION {fork[j] : j \in 1..(Depth - n)}
  <2> HIDE DEF kept
  <2> QED BY <1>2, <1>4 DEF InBlocks
<1>6. gone = UNION {fork[j] : j \in (Depth - n + 1)..Depth}
  <2>1. \A j \in 1..n : Depth - n + j \in (Depth - n + 1)..Depth
    BY <1>1
  <2>2. \A j \in (Depth - n + 1)..Depth : j - (Depth - n) \in 1..n /\ last[j - (Depth - n)] = fork[j]
    <3> SUFFICES ASSUME NEW j \in (Depth - n + 1)..Depth
                 PROVE  j - (Depth - n) \in 1..n /\ last[j - (Depth - n)] = fork[j]
      OBVIOUS
    <3>1. j - (Depth - n) \in 1..n /\ Depth - n + (j - (Depth - n)) = j
      BY <1>1
    <3> HIDE DEF last
    <3> QED BY <1>3, <3>1
  <2> HIDE DEF last
  <2>3. \A e \in gone : \E j \in (Depth - n + 1)..Depth : e \in fork[j]
    BY <1>3, <1>4, <2>1 DEF InBlocks
  <2>4. \A j \in (Depth - n + 1)..Depth : fork[j] \subseteq gone
    BY <1>4, <2>2 DEF InBlocks
  <2> QED BY <2>3, <2>4
<1>7. gone \subseteq Extrinsic
  BY <1>1, <1>6
<1>8. IsFiniteSet(gone)
  <2> DEFINE J == (Depth - n + 1)..Depth
             F == {fork[j] : j \in J}
  <2>1. IsFiniteSet(J)
    BY <1>1, FS_Interval
  <2>2. IsFiniteSet(F)
    <3> HIDE DEF J
    <3> DEFINE f == [j \in J |-> fork[j]]
    <3>1. f \in Surjection(J, F)
      BY DEF Surjection
    <3> HIDE DEF f, F
    <3> QED BY <2>1, <3>1, FS_Surjection
  <2>3. \A B \in F : IsFiniteSet(B)
    BY <1>1 DEF Typed
  <2>4. IsFiniteSet(UNION F)
    <3> HIDE DEF F
    <3> QED BY <2>2, <2>3, FS_UNION
  <2> QED BY <2>4, <1>6
<1> QED BY <1>2, <1>5, <1>6, <1>7, <1>8 DEF Upto

LEMMA ReorgIsHead ==
  ASSUME Typed, NEW n \in 1..Depth, NEW i \in 1..(n + 1), NEW lost, NEW S, Reorg(n, i, lost, S)
  PROVE  NewHead(n, i, S)
<1> DEFINE T == SUBSET Extrinsic
           kept == SubSeq(fork, 1, Depth - n)
           gone == InBlocks(SubSeq(fork, Depth - n + 1, Depth))
           news == [j \in 1..(n + 1) |-> IF j = i THEN S ELSE {}]
           blocks == kept \o news
           back == mempool \cup (gone \ lost)
<1>1. Depth \in Nat /\ n \in Nat /\ n >= 1 /\ n <= Depth /\ i \in Nat /\ 1 <= i /\ i <= n + 1
  BY TransactionConstants
<1>2. /\ kept \in Seq(T) /\ Len(kept) = Depth - n
      /\ \A j \in 1..(Depth - n) : kept[j] = fork[j]
      /\ gone \subseteq Extrinsic /\ IsFiniteSet(gone)
  BY ReorgParts
<1>3. S \subseteq back
  BY DEF Reorg, Block, Ready
<1>4. S \in T /\ IsFiniteSet(S)
  <2>1. back \subseteq Extrinsic
    BY <1>2 DEF Typed, TypeOK
  <2>2. IsFiniteSet(gone \ lost)
    BY <1>2, FS_Subset
  <2>3. IsFiniteSet(back)
    BY <2>2, FS_Union DEF Typed
  <2> HIDE DEF back
  <2> QED BY <1>3, <2>1, <2>3, FS_Subset
<1>5. news \in Seq(T) /\ Len(news) = n + 1
      /\ \A j \in 1..(n + 1) : news[j] = IF j = i THEN S ELSE {}
  <2>1. news \in [1..(n + 1) -> T] /\ \A j \in 1..(n + 1) : news[j] = IF j = i THEN S ELSE {}
    BY <1>4
  <2>2. n + 1 \in Nat /\ Seq(T) = UNION {[1..m -> T] : m \in Nat}
    BY <1>1, SeqDef
  <2> HIDE DEF news, T
  <2>3. news \in Seq(T)
    BY <2>1, <2>2
  <2>4. DOMAIN news = 1..(n + 1) /\ DOMAIN news = 1..Len(news) /\ Len(news) \in Nat
    BY <2>1, <2>3, LenProperties
  <2>5. Len(news) = n + 1
    BY <2>4, <1>1
  <2> QED BY <2>1, <2>3, <2>5
<1> HIDE DEF T, kept, news
<1>6. blocks \in Seq(T) /\ Len(blocks) = Depth + 1
      /\ \A j \in 1..(Depth + 1) :
           blocks[j] = IF j <= Depth - n THEN kept[j] ELSE news[j - (Depth - n)]
  <2>1. /\ blocks \in Seq(T) /\ Len(blocks) = Len(kept) + Len(news)
        /\ \A j \in 1..(Len(kept) + Len(news)) :
             blocks[j] = IF j <= Len(kept) THEN kept[j] ELSE news[j - Len(kept)]
    BY <1>2, <1>5, ConcatProperties
  <2>2. Len(kept) + Len(news) = Depth + 1 /\ Len(kept) = Depth - n
    BY <1>1, <1>2, <1>5
  <2> HIDE DEF blocks
  <2> QED BY <2>1, <2>2
<1>7. \A j \in 1..(Depth + 1) :
        blocks[j] = IF j <= Depth - n THEN fork[j] ELSE IF j = Depth - n + i THEN S ELSE {}
  <2> SUFFICES ASSUME NEW j \in 1..(Depth + 1)
               PROVE  blocks[j] = IF j <= Depth - n THEN fork[j]
                                  ELSE IF j = Depth - n + i THEN S ELSE {}
    OBVIOUS
  <2> HIDE DEF blocks
  <2>1. CASE j <= Depth - n
    BY <2>1, <1>1, <1>2, <1>6
  <2>2. CASE j > Depth - n
    <3>1. j - (Depth - n) \in 1..(n + 1) /\ ~ (j <= Depth - n)
          /\ (j - (Depth - n) = i <=> j = Depth - n + i)
      BY <2>2, <1>1
    <3>2. blocks[j] = news[j - (Depth - n)]
      BY <3>1, <1>6
    <3>3. news[j - (Depth - n)] = IF j - (Depth - n) = i THEN S ELSE {}
      BY <3>1, <1>5
    <3> QED BY <3>1, <3>2, <3>3
  <2> QED BY <2>1, <2>2, <1>1
<1>8. Tail(blocks) \in Seq(T) /\ Len(Tail(blocks)) = Depth
      /\ \A j \in 1..Depth : Tail(blocks)[j] = blocks[j + 1]
  <2>1. blocks # <<>>
    BY <1>6, <1>1, EmptySeq
  <2> HIDE DEF blocks
  <2>2. blocks \in Seq(T)
    BY <1>6
  <2>3. Tail(blocks) \in Seq(T) /\ Len(Tail(blocks)) = Len(blocks) - 1
        /\ \A j \in 1..Len(Tail(blocks)) : Tail(blocks)[j] = blocks[j + 1]
    BY <2>1, <2>2, HeadTailProperties, Zenon
  <2>4. Len(blocks) - 1 = Depth
    BY <1>6, <1>1
  <2> QED BY <2>3, <2>4
<1>9. fork' = Tail(blocks) /\ buried' = buried \cup blocks[1] /\ tx' = Watch(S, n + 1 - i, n)
  BY DEF Reorg, kept, news
<1> HIDE DEF blocks
<1>10. fork' \in [1..Depth -> T]
  BY <1>8, <1>9, LenProperties
<1>11. \A j \in 1..Depth :
         fork'[j] = IF j < Depth - n THEN fork[j + 1] ELSE IF j + 1 = Depth - n + i THEN S ELSE {}
  <2> SUFFICES ASSUME NEW j \in 1..Depth
               PROVE  fork'[j] = IF j < Depth - n THEN fork[j + 1]
                                 ELSE IF j + 1 = Depth - n + i THEN S ELSE {}
    OBVIOUS
  <2>1. j + 1 \in 1..(Depth + 1) /\ (j + 1 <= Depth - n <=> j < Depth - n)
    BY <1>1
  <2>2. fork'[j] = blocks[j + 1]
    BY <1>8, <1>9
  <2> QED BY <2>1, <2>2, <1>7
<1>12. blocks[1] = IF n < Depth THEN fork[1] ELSE IF i = 1 THEN S ELSE {}
  <2>1. 1 \in 1..(Depth + 1) /\ (1 <= Depth - n <=> n < Depth)
        /\ (n = Depth => (1 = Depth - n + i <=> i = 1))
    BY <1>1
  <2> QED BY <1>7, <2>1, <1>1
<1>13. n \in 0..Depth
  BY <1>1
<1> QED BY <1>4, <1>9, <1>10, <1>11, <1>12, <1>13 DEF NewHead, T

\* The types of the chain after a new head.
LEMMA HeadTyped ==
  ASSUME Typed, NEW n, NEW i, NEW S, NewHead(n, i, S)
  PROVE  /\ fork' \in [1..Depth -> SUBSET Extrinsic] /\ buried' \subseteq Extrinsic
         /\ tx' \in [Txs -> TxTypes] /\ IsFiniteSet(buried')
         /\ \A j \in 1..Depth : IsFiniteSet(fork'[j])
<1>1. Depth \in Nat /\ Depth >= 1 /\ n \in 0..Depth /\ i \in 1..(n + 1) /\ n \in Nat
  BY TransactionConstants DEF NewHead
<1>2. n + 1 - i \in 0..Depth
  BY <1>1
<1>3. tx' \in [Txs -> TxTypes]
  BY <1>1, <1>2, Watched DEF Typed, TypeOK, NewHead
<1>4. IsFiniteSet({}) /\ IsFiniteSet(S) /\ S \subseteq Extrinsic
  BY FS_EmptySet DEF NewHead
<1>5. 1 \in 1..Depth /\ \A j \in 1..Depth : j < Depth - n => j + 1 \in 1..Depth
  BY <1>1
<1>6. \A j \in 1..Depth : fork[j] \subseteq Extrinsic /\ IsFiniteSet(fork[j])
  BY ForkIsSeq DEF Typed
<1>7. \A j \in 1..Depth : IsFiniteSet(fork'[j])
  BY <1>4, <1>5, <1>6 DEF NewHead
<1> DEFINE B == IF n < Depth THEN fork[1] ELSE IF i = 1 THEN S ELSE {}
<1>8. B \subseteq Extrinsic /\ IsFiniteSet(B)
  BY <1>4, <1>5, <1>6
<1>9. buried' = buried \cup B
  BY DEF NewHead
<1> HIDE DEF B
<1>10. buried' \subseteq Extrinsic
  BY <1>8, <1>9 DEF Typed, TypeOK
<1>11. IsFiniteSet(buried')
  BY <1>8, <1>9, FS_Union DEF Typed
<1> QED BY <1>3, <1>7, <1>10, <1>11 DEF NewHead

(***************************************************************************)
(* Nonces and accounts                                                     *)
(***************************************************************************)
LEMMA NonceIsCounted ==
  ASSUME Typed
  PROVE  \A a \in Signers : OnChain(a) \in Nat
<1>1. IsFiniteSet(InBlocks(fork))
  <2> DEFINE J == 1..Depth
             F == {fork[j] : j \in J}
  <2>1. IsFiniteSet(J)
    BY TransactionConstants, FS_Interval
  <2>2. IsFiniteSet(F)
    <3> HIDE DEF J
    <3> DEFINE f == [j \in J |-> fork[j]]
    <3>1. f \in Surjection(J, F)
      BY DEF Surjection
    <3> HIDE DEF f, F
    <3> QED BY <2>1, <3>1, FS_Surjection
  <2>3. \A B \in F : IsFiniteSet(B)
    BY DEF Typed
  <2>4. IsFiniteSet(UNION F)
    <3> HIDE DEF F
    <3> QED BY <2>2, <2>3, FS_UNION
  <2>5. DOMAIN fork = J
    BY ForkIsSeq
  <2> QED BY <2>4, <2>5 DEF InBlocks
<1>2. IsFiniteSet(buried \cup InBlocks(fork))
  BY <1>1, FS_Union DEF Typed
<1> DEFINE X == buried \cup InBlocks(fork)
<1>3. ASSUME NEW a \in Signers PROVE NonceAfter(X, a) \in Nat
  <2>1. {e \in X : e.account = a} \in SUBSET X
    OBVIOUS
  <2> HIDE DEF X
  <2> QED BY <1>2, <2>1, FS_Subset, FS_CardinalityType DEF NonceAfter, X
<1> QED BY <1>3 DEF OnChain

\* The nonce that is read is the first free one: the pool cannot hold all.
LEMMA NonceIsRead ==
  ASSUME Typed, NEW a \in Signers
  PROVE  /\ getOnChainNonce(a) \in Nat /\ getOnChainNonce(a) >= OnChain(a)
         /\ FirstFree(mempool, a, OnChain(a), getOnChainNonce(a))
<1> DEFINE k == OnChain(a)
           I == k..(k + Cardinality(mempool))
           P(n) == ~Holds(mempool, a, n) /\ \A m \in k..(n - 1) : Holds(mempool, a, m)
<1>1. k \in Nat /\ IsFiniteSet(mempool)
  BY NonceIsCounted DEF Typed
<1>2. \E n \in I : P(n)
  <2> HIDE DEF k
  <2> QED BY <1>1, SomeAreFree DEF FirstFree
<1>3. getOnChainNonce(a) = CHOOSE n \in I : P(n)
  BY DEF getOnChainNonce
<1>4. getOnChainNonce(a) \in I /\ P(getOnChainNonce(a))
  <2> HIDE DEF I, P
  <2> QED BY <1>2, <1>3
<1>5. \A n \in I : n \in Nat /\ n >= k
  BY <1>1, FS_CardinalityType
<1> QED BY <1>4, <1>5 DEF FirstFree

\* A pool has accounts, none twice.
PoolType == {p \in Seq(Signers) : \A i, j \in DOMAIN p : p[i] = p[j] => i = j}
InPool(a, p) == a \in {p[i] : i \in DOMAIN p}

LEMMA AccountsArePool ==
  /\ Accounts \in PoolType /\ Accounts # <<>> /\ <<>> \in PoolType
  /\ \A a \in Signers : InPool(a, Accounts)
<1>1. <<>> \in PoolType
  BY DEF PoolType
<1> QED BY <1>1, TransactionConstants DEF PoolType, InPool, Signers

LEMMA WithPool ==
  ASSUME pool \in PoolType, NEW a \in Signers
  PROVE  With(a) \in PoolType /\ \A b : InPool(b, With(a)) => InPool(b, pool) \/ b = a
<1>1. CASE InPool(a, pool)
  BY <1>1 DEF With, InPool
<1>2. CASE ~InPool(a, pool)
  <2> DEFINE q == Append(pool, a)
  <2>1. pool \in Seq(Signers) /\ Len(pool) \in Nat /\ DOMAIN pool = 1..Len(pool)
    BY LenProperties DEF PoolType
  <2>2. q \in Seq(Signers) /\ Len(q) = Len(pool) + 1
        /\ \A i \in 1..(Len(pool) + 1) : q[i] = IF i <= Len(pool) THEN pool[i] ELSE a
    BY <2>1
  <2>3. DOMAIN q = 1..(Len(pool) + 1)
    BY <2>2, LenProperties
  <2>4. With(a) = q
    BY <1>2 DEF With, InPool
  <2> HIDE DEF q
  <2>5. \A i \in 1..Len(pool) : pool[i] # a
    BY <1>2, <2>1 DEF InPool
  <2>6. ASSUME NEW i \in DOMAIN q, NEW j \in DOMAIN q, q[i] = q[j] PROVE i = j
    <3>1. CASE i <= Len(pool) /\ j <= Len(pool)
      <4>1. i \in DOMAIN pool /\ j \in DOMAIN pool /\ pool[i] = pool[j]
        BY <3>1, <2>1, <2>2, <2>3, <2>6
      <4> QED BY <4>1 DEF PoolType
    <3>2. CASE i <= Len(pool) /\ ~(j <= Len(pool))
      BY <3>2, <2>1, <2>2, <2>3, <2>5, <2>6
    <3>3. CASE ~(i <= Len(pool)) /\ j <= Len(pool)
      BY <3>3, <2>1, <2>2, <2>3, <2>5, <2>6
    <3>4. CASE ~(i <= Len(pool)) /\ ~(j <= Len(pool))
      BY <3>4, <2>1, <2>3
    <3> QED BY <3>1, <3>2, <3>3, <3>4
  <2>7. \A b : InPool(b, q) => InPool(b, pool) \/ b = a
    BY <2>1, <2>2, <2>3 DEF InPool
  <2> QED BY <2>2, <2>4, <2>6, <2>7 DEF PoolType
<1> QED BY <1>1, <1>2

LEMMA WithoutPool ==
  ASSUME pool \in PoolType, NEW a
  PROVE  /\ Without(a) \in PoolType
         /\ \A b : InPool(b, Without(a)) => InPool(b, pool) /\ b # a
<1>0. pool \in Seq(Signers) /\ Len(pool) \in Nat /\ DOMAIN pool = 1..Len(pool)
      /\ \A i \in 1..Len(pool) : pool[i] \in Signers
  BY LenProperties DEF PoolType
<1>1. CASE \A i \in DOMAIN pool : pool[i] # a
  <2>1. Without(a) = pool
    BY <1>1 DEF Without
  <2> QED BY <1>1, <2>1 DEF InPool
<1>2. CASE ~ \A i \in DOMAIN pool : pool[i] # a
  <2> DEFINE k == CHOOSE i \in DOMAIN pool : pool[i] = a
             n == Len(pool)
             l == SubSeq(pool, 1, k - 1)
             r == SubSeq(pool, k + 1, n)
  <2>1. k \in 1..n /\ pool[k] = a
    BY <1>0, <1>2
  <2>2. Without(a) = l \o r
    BY <1>2 DEF Without
  <2> HIDE DEF k
  <2>3. l \in Seq(Signers) /\ Len(l) = k - 1 /\ \A i \in 1..(k - 1) : l[i] = pool[i]
    <3>1. \A i \in 1..(k - 1) : pool[i] \in Signers
      BY <1>0, <2>1
    <3>2. l \in Seq(Signers) /\ Len(l) = (IF 1 <= k - 1 THEN (k - 1) - 1 + 1 ELSE 0)
          /\ \A i \in 1..((k - 1) - 1 + 1) : l[i] = pool[1 + i - 1]
      BY <3>1, <2>1, SubSeqProperties
    <3> HIDE DEF l
    <3> QED BY <3>2, <2>1, <1>0
  <2>4. r \in Seq(Signers) /\ Len(r) = n - k /\ \A i \in 1..(n - k) : r[i] = pool[k + i]
    <3>1. \A i \in (k + 1)..n : pool[i] \in Signers
      BY <1>0, <2>1
    <3>2. r \in Seq(Signers) /\ Len(r) = (IF k + 1 <= n THEN n - (k + 1) + 1 ELSE 0)
          /\ \A i \in 1..(n - (k + 1) + 1) : r[i] = pool[k + 1 + i - 1]
      BY <3>1, <2>1, <1>0, SubSeqProperties
    <3>3. n \in Nat /\ k \in 1..n
      BY <1>0, <2>1
    <3> HIDE DEF r, n
    <3>4. n - (k + 1) + 1 = n - k /\ (IF k + 1 <= n THEN n - (k + 1) + 1 ELSE 0) = n - k
      BY <3>3
    <3>5. \A i \in 1..(n - k) : k + 1 + i - 1 = k + i
      BY <3>3
    <3> QED BY <3>2, <3>4, <3>5
  <2> DEFINE q == l \o r
             at(i) == IF i <= k - 1 THEN i ELSE i + 1
  <2>5. q \in Seq(Signers) /\ Len(q) = Len(l) + Len(r)
        /\ \A i \in 1..(Len(l) + Len(r)) : q[i] = IF i <= Len(l) THEN l[i] ELSE r[i - Len(l)]
    <3> HIDE DEF l, r
    <3> QED BY <2>3, <2>4, ConcatProperties
  <2>6. n \in Nat /\ k \in Nat /\ k >= 1 /\ k <= n /\ Len(l) + Len(r) = n - 1
    <3> HIDE DEF l, r
    <3> QED BY <2>1, <2>3, <2>4, <1>0
  <2>7. DOMAIN q = 1..(n - 1)
    <3> HIDE DEF l, r, q, n
    <3>1. DOMAIN q = 1..Len(q)
      BY <2>5, LenProperties
    <3> QED BY <2>5, <2>6, <3>1
  <2> HIDE DEF l, r, q, n
  <2>8. ASSUME NEW i \in 1..(n - 1)
        PROVE  at(i) \in 1..n /\ at(i) # k /\ q[i] = pool[at(i)]
    <3>1. CASE i <= k - 1
      <4>1. q[i] = l[i] /\ i \in 1..(k - 1)
        BY <3>1, <2>3, <2>5, <2>6
      <4> QED BY <4>1, <3>1, <2>3, <2>6
    <3>2. CASE ~(i <= k - 1)
      <4>1. i - (k - 1) \in 1..(n - k) /\ k + (i - (k - 1)) = i + 1
        BY <3>2, <2>6
      <4>2. q[i] = r[i - (k - 1)]
        BY <3>2, <2>3, <2>5, <2>6
      <4>3. q[i] = pool[i + 1]
        BY <4>1, <4>2, <2>4
      <4> QED BY <4>3, <3>2, <2>6
    <3> QED BY <3>1, <3>2
  <2>9. \A i, j \in 1..(n - 1) : at(i) = at(j) => i = j
    BY <2>6
  <2> HIDE DEF at
  <2>10. DOMAIN pool = 1..n /\ \A i, j \in DOMAIN pool : pool[i] = pool[j] => i = j
    BY <1>0 DEF PoolType, n
  <2>11. \A i, j \in DOMAIN q : q[i] = q[j] => i = j
    BY <2>7, <2>8, <2>9, <2>10
  <2>12. \A i \in DOMAIN q : InPool(q[i], pool) /\ q[i] # a
    BY <2>1, <2>7, <2>8, <2>10 DEF InPool, n
  <2>13. \A b : InPool(b, q) => InPool(b, pool) /\ b # a
    BY <2>12 DEF InPool
  <2> QED BY <2>2, <2>5, <2>11, <2>13 DEF PoolType, q
<1> QED BY <1>1, <1>2

\* The account whose turn it is.
TakenFrom(p) == p[(trxCounter % Len(p)) + 1]

LEMMA TurnTaken ==
  ASSUME trxCounter \in 0..(Turns - 1), NEW p \in PoolType, p # <<>>
  PROVE  /\ TakenFrom(p) \in Signers /\ InPool(TakenFrom(p), p)
         /\ (trxCounter + 1) % Turns \in 0..(Turns - 1)
<1>1. p \in Seq(Signers) /\ Len(p) \in Nat /\ Len(p) > 0 /\ DOMAIN p = 1..Len(p)
  BY EmptySeq, LenProperties DEF PoolType
<1>2. \A x \in Nat, y \in Nat \ {0} : x % y \in 0..(y - 1)
  OBVIOUS
<1>3. trxCounter \in Nat /\ Turns \in Nat \ {0}
  BY TransactionConstants
<1>4. trxCounter % Len(p) \in 0..(Len(p) - 1)
  BY <1>1, <1>2, <1>3
<1>5. (trxCounter % Len(p)) + 1 \in 1..Len(p)
  BY <1>1, <1>4
<1>6. (trxCounter + 1) % Turns \in 0..(Turns - 1)
  <2>1. trxCounter + 1 \in Nat
    BY <1>3
  <2> QED BY <2>1, <1>2, <1>3
<1>7. p[(trxCounter % Len(p)) + 1] \in Signers
  BY <1>1, <1>5, ElementOfSeq
<1> QED BY <1>1, <1>5, <1>6, <1>7 DEF TakenFrom, InPool

(***************************************************************************)
(* Every step keeps the types                                              *)
(***************************************************************************)
LEMMA TypedInit == Init => Typed
<1> SUFFICES ASSUME Init PROVE Typed
  OBVIOUS
<1>1. pool \in PoolType
  BY AccountsArePool DEF Init
<1>2. trxCounter \in 0..(Turns - 1) /\ faults \in 0..MaxFaults
  BY TransactionConstants DEF Init
<1>3. nonceByAccount \in [Signers -> Nat] /\ tx \in [Txs -> TxTypes]
  BY TxMade DEF Init
<1>4. fork \in [1..Depth -> SUBSET Extrinsic] /\ \A j \in 1..Depth : fork[j] = {}
  BY DEF Init
<1>5. IsFiniteSet({})
  BY FS_EmptySet
<1> QED BY <1>1, <1>2, <1>3, <1>4, <1>5 DEF Init, Typed, TypeOK, PoolType

LEMMA FaultCounted ==
  ASSUME faults \in 0..MaxFaults, Fault
  PROVE  faults' \in 0..MaxFaults
BY TransactionConstants DEF Fault

\* For the actions that write neither the pool of accounts nor the chain.
LEMMA TypedByTx ==
  ASSUME Typed, UNCHANGED <<signers, chain>>, tx' \in [Txs -> TxTypes],
         faults' \in 0..MaxFaults, overlapped' \subseteq Txs, leaked' \subseteq Signers
  PROVE  Typed'
BY DEF Typed, TypeOK, signers, chain

SentRecord(r) ==
  [phase |-> "sent", account |-> r.account, nonce |-> r.nonce,
   inclusionSeq |-> r.inclusionSeq, lookups |-> r.lookups,
   target |-> r.target, checking |-> r.checking]

LEMMA SentParts ==
  ASSUME NEW r \in SentType
  PROVE  /\ r = SentRecord(r) /\ r.account \in Signers /\ r.nonce \in Nat /\ r.checking \in Nat
         /\ r.inclusionSeq \in Nat /\ r.lookups \in SUBSET BlockType /\ r.target \in BlockType
BY DEF SentType, SentRecord

\* A transaction that is sent, with other blocks.
LEMMA SentElsewhere ==
  ASSUME NEW r \in SentType, NEW l \in SUBSET BlockType, NEW g \in BlockType,
         NEW w, w = [phase |-> "sent", account |-> r.account, nonce |-> r.nonce,
                     inclusionSeq |-> r.inclusionSeq, lookups |-> l,
                     target |-> g, checking |-> r.checking]
  PROVE  /\ w \in SentType /\ w.phase = "sent" /\ w.account = r.account /\ w.nonce = r.nonce
         /\ w.inclusionSeq = r.inclusionSeq /\ w.lookups = l /\ w.target = g
         /\ w.checking = r.checking
BY SentParts DEF SentType

\* A transaction that is sent, with another check.
LEMMA SentChecked ==
  ASSUME NEW r \in SentType, NEW c \in Nat, NEW w, w = [r EXCEPT !.checking = c]
  PROVE  /\ w \in SentType /\ w.phase = "sent" /\ w.account = r.account /\ w.nonce = r.nonce
         /\ w.inclusionSeq = r.inclusionSeq /\ w.lookups = r.lookups
         /\ w.target = r.target /\ w.checking = c
<1>1. /\ r = SentRecord(r) /\ r.account \in Signers /\ r.nonce \in Nat
      /\ r.inclusionSeq \in Nat /\ r.lookups \in SUBSET BlockType /\ r.target \in BlockType
  BY SentParts
<1>2. w = [phase |-> "sent", account |-> r.account, nonce |-> r.nonce,
           inclusionSeq |-> r.inclusionSeq, lookups |-> r.lookups,
           target |-> r.target, checking |-> c]
  BY <1>1 DEF SentRecord
<1> QED BY <1>1, <1>2 DEF SentType

\* getBlock's answer.
LEMMA TargetStep ==
  ASSUME tx \in [Txs -> TxTypes], NEW t, NEW b, targetInclusion(t, b)
  PROVE  /\ t \in Txs /\ tx[t].phase = "sent" /\ tx[t] \in SentType /\ b \in tx[t].lookups
         /\ b \in BlockType
         /\ tx' \in [Txs -> TxTypes] /\ \A u \in Txs : u # t => tx'[u] = tx[u]
         /\ tx'[t].phase = "sent" /\ tx'[t].account = tx[t].account /\ tx'[t].nonce = tx[t].nonce
         /\ tx'[t].inclusionSeq = tx[t].inclusionSeq /\ tx'[t].lookups = tx[t].lookups \ {b}
         /\ tx'[t].target = (IF b.at = tx[t].inclusionSeq THEN b ELSE tx[t].target)
         /\ tx'[t].checking = tx[t].checking
<1> DEFINE l == tx[t].lookups \ {b}
           g == IF b.at = tx[t].inclusionSeq THEN b ELSE tx[t].target
           w == [[tx[t] EXCEPT !.lookups = l] EXCEPT !.target = g]
<1>1. t \in Txs /\ tx[t].phase = "sent" /\ b \in tx[t].lookups
  BY DEF targetInclusion, Phase
<1>2. tx[t] \in SentType
  BY <1>1, TxByPhase
<1>3. tx[t].lookups \in SUBSET BlockType /\ tx[t].target \in BlockType
  BY <1>2 DEF SentType
<1>4. l \in SUBSET BlockType /\ g \in BlockType /\ b \in BlockType
  BY <1>1, <1>3
<1>5. tx' = [tx EXCEPT ![t].lookups = l, ![t].target = g]
  BY DEF targetInclusion
<1> HIDE DEF l, g
<1>6. tx' = [tx EXCEPT ![t] = w]
  BY <1>1, <1>5
<1>7. w \in SentType /\ w.phase = "sent" /\ w.account = tx[t].account /\ w.nonce = tx[t].nonce
      /\ w.inclusionSeq = tx[t].inclusionSeq /\ w.lookups = l /\ w.target = g
      /\ w.checking = tx[t].checking
  <2> DEFINE r == tx[t]
             v == [r EXCEPT !.lookups = l]
  <2>1. r = SentRecord(r) /\ r \in SentType
    BY <1>2, SentParts
  <2>2. w = [v EXCEPT !.target = g]
    OBVIOUS
  <2> HIDE DEF r, w
  <2>3. v = [phase |-> "sent", account |-> r.account, nonce |-> r.nonce,
             inclusionSeq |-> r.inclusionSeq, lookups |-> l,
             target |-> r.target, checking |-> r.checking]
    BY <2>1 DEF SentRecord
  <2> HIDE DEF v
  <2>4. w = [phase |-> "sent", account |-> r.account, nonce |-> r.nonce,
             inclusionSeq |-> r.inclusionSeq, lookups |-> l,
             target |-> g, checking |-> r.checking]
    BY <2>2, <2>3
  <2>5. w \in SentType /\ w.phase = "sent" /\ w.account = r.account /\ w.nonce = r.nonce
        /\ w.inclusionSeq = r.inclusionSeq /\ w.lookups = l /\ w.target = g
        /\ w.checking = r.checking
    BY <1>4, <2>1, <2>4, SentElsewhere
  <2> QED BY <2>5 DEF r
<1> HIDE DEF w
<1>8. tx'[t] = w /\ \A u \in Txs : u # t => tx'[u] = tx[u]
  BY <1>1, <1>6
<1>9. tx' \in [Txs -> TxTypes]
  BY <1>6, <1>7, TxUnion
<1> QED BY <1>1, <1>2, <1>4, <1>7, <1>8, <1>9 DEF l, g

\* A check begins, or is forgotten.
LEMMA CheckStep ==
  ASSUME tx \in [Txs -> TxTypes], NEW t \in Txs, tx[t].phase = "sent", NEW c \in Nat,
         tx' = [tx EXCEPT ![t].checking = c]
  PROVE  /\ tx[t] \in SentType
         /\ tx' \in [Txs -> TxTypes] /\ \A u \in Txs : u # t => tx'[u] = tx[u]
         /\ tx'[t].phase = "sent" /\ tx'[t].account = tx[t].account /\ tx'[t].nonce = tx[t].nonce
         /\ tx'[t].inclusionSeq = tx[t].inclusionSeq /\ tx'[t].lookups = tx[t].lookups
         /\ tx'[t].target = tx[t].target /\ tx'[t].checking = c
<1> DEFINE w == [tx[t] EXCEPT !.checking = c]
<1>1. tx[t] \in SentType
  BY TxByPhase
<1>3. w \in SentType /\ w.phase = "sent" /\ w.account = tx[t].account /\ w.nonce = tx[t].nonce
      /\ w.inclusionSeq = tx[t].inclusionSeq /\ w.lookups = tx[t].lookups
      /\ w.target = tx[t].target /\ w.checking = c
  BY <1>1, SentChecked
<1>4. tx' = [tx EXCEPT ![t] = w]
  OBVIOUS
<1> HIDE DEF w
<1>5. tx'[t] = w /\ \A u \in Txs : u # t => tx'[u] = tx[u]
  BY <1>4
<1>6. tx' \in [Txs -> TxTypes]
  BY <1>3, <1>4, TxUnion
<1> QED BY <1>1, <1>3, <1>5, <1>6

\* The judgement of a check.
LEMMA ConfirmStep ==
  ASSUME tx \in [Txs -> TxTypes], NEW t, confirm(t)
  PROVE  /\ t \in Txs /\ tx[t].phase = "sent" /\ tx[t].checking # 0
         /\ \/ tx[t].checking # tx[t].target.at /\ tx' = [tx EXCEPT ![t].checking = 0]
            \/ /\ tx[t].checking = tx[t].target.at /\ tx[t].target.live
               /\ tx' = [tx EXCEPT ![t] = Succeeded]
            \/ tx' = Fails({t}, FALSE)
BY DEF confirm, Phase, isStillCanonical

\* The transactions that fail, and the others.
LEMMA FailsSpares ==
  ASSUME NEW S \in SUBSET Txs, NEW invalid
  PROVE  \A t \in Txs : /\ t \in S => Fails(S, invalid)[t] = Settled(tx[t].account, invalid)
                        /\ t \notin S => Fails(S, invalid)[t] = tx[t]
BY DEF Fails

LEMMA TypedFollowing ==
  ASSUME Typed, NEW t \in Txs,
         \/ \E b \in tx[t].lookups : targetInclusion(t, b)
         \/ checkConfirmation(t) \/ confirm(t) \/ confirmFails(t)
         \/ Timeout(t) \/ signAndSendFails(t)
  PROVE  Typed'
<1>0. tx \in [Txs -> TxTypes] /\ faults \in 0..MaxFaults /\ overlapped \subseteq Txs
      /\ leaked \subseteq Signers /\ 0 \in Nat
  BY DEF Typed, TypeOK
<1>f. ASSUME t \in Pending PROVE Fails({t}, FALSE) \in [Txs -> TxTypes]
  <2>1. {t} \in SUBSET Pending /\ FALSE \in BOOLEAN
    BY <1>f
  <2> QED BY <1>0, <2>1, FailsTyped
<1>1. ASSUME NEW b, targetInclusion(t, b) PROVE Typed'
  <2>1. tx' \in [Txs -> TxTypes]
    BY <1>0, <1>1, TargetStep
  <2> QED BY <1>0, <1>1, <2>1, TypedByTx DEF targetInclusion, hist
<1>2. ASSUME checkConfirmation(t) PROVE Typed'
  <2>1. tx[t].phase = "sent" /\ tx' = [tx EXCEPT ![t].checking = tx[t].target.at]
    BY <1>2 DEF checkConfirmation, Phase
  <2>2. tx[t] \in SentType
    BY <1>0, <2>1, TxByPhase
  <2>3. tx[t].target.at \in Nat
    BY <2>2 DEF SentType, BlockType
  <2>4. tx' \in [Txs -> TxTypes]
    BY <1>0, <2>1, <2>3, CheckStep
  <2> QED BY <1>0, <1>2, <2>4, TypedByTx DEF checkConfirmation, hist
<1>3. ASSUME confirm(t) PROVE Typed'
  <2>1. tx[t].phase = "sent"
    BY <1>0, <1>3, ConfirmStep
  <2>2. t \in Pending
    BY <2>1 DEF Pending, Phase
  <2>3. tx' \in [Txs -> TxTypes]
    <3>1. CASE tx' = [tx EXCEPT ![t].checking = 0]
      BY <1>0, <2>1, <3>1, CheckStep
    <3>2. CASE tx' = [tx EXCEPT ![t] = Succeeded]
      BY <1>0, <3>2, TxMade
    <3>3. CASE tx' = Fails({t}, FALSE)
      BY <1>f, <2>2, <3>3
    <3> QED BY <1>0, <1>3, ConfirmStep, <3>1, <3>2, <3>3
  <2> QED BY <1>0, <1>3, <2>3, TypedByTx DEF confirm, hist
<1>4. ASSUME confirmFails(t) PROVE Typed'
  <2>1. tx[t].phase = "sent" /\ tx' = [tx EXCEPT ![t].checking = 0] /\ Fault
    BY <1>4 DEF confirmFails, Phase
  <2>2. tx' \in [Txs -> TxTypes]
    BY <1>0, <2>1, CheckStep
  <2> QED BY <1>0, <1>4, <2>1, <2>2, FaultCounted, TypedByTx DEF confirmFails, hist
<1>5. ASSUME Timeout(t) PROVE Typed'
  <2>1. t \in Pending /\ tx' = Fails({t}, FALSE)
    BY <1>5 DEF Timeout, Pending
  <2> QED BY <1>0, <1>5, <1>f, <2>1, TypedByTx DEF Timeout, hist
<1>6. ASSUME signAndSendFails(t) PROVE Typed'
  <2>1. t \in Pending /\ tx' = Fails({t}, FALSE)
    BY <1>6 DEF signAndSendFails, MaySend, Pending
  <2> QED BY <1>0, <1>6, <1>f, <2>1, TypedByTx DEF signAndSendFails, hist
<1> QED BY <1>1, <1>2, <1>3, <1>4, <1>5, <1>6

LEMMA TypedSubmitting ==
  ASSUME Typed,
         \/ \E c \in Calls : submit(c)
         \/ \E S \in SUBSET Txs : GiveUp(S)
         \/ \E t \in Txs : signAndSend(t)
  PROVE  Typed'
<1>0. tx \in [Txs -> TxTypes] /\ faults \in 0..MaxFaults /\ overlapped \subseteq Txs
      /\ leaked \subseteq Signers /\ FALSE \in BOOLEAN
  BY DEF Typed, TypeOK
<1>1. ASSUME NEW c \in Calls, submit(c) PROVE Typed'
  <2>1. [phase |-> "register"] \in TxTypes
    BY TxMade
  <2>2. tx' = [t \in Txs |-> IF t \in c THEN [phase |-> "register"] ELSE tx[t]]
    BY <1>1 DEF submit
  <2>3. tx' \in [Txs -> TxTypes]
    BY <1>0, <2>1, <2>2
  <2> QED BY <1>0, <1>1, <2>3, TypedByTx DEF submit, hist
<1>2. ASSUME NEW S \in SUBSET Txs, GiveUp(S) PROVE Typed'
  <2>1. S \in SUBSET Pending
    BY <1>2 DEF GiveUp, Pending, Phase
  <2>2. tx' \in [Txs -> TxTypes] /\ Fault
    BY <1>0, <1>2, <2>1, FailsTyped DEF GiveUp
  <2> QED BY <1>0, <1>2, <2>2, FaultCounted, TypedByTx DEF GiveUp, hist
<1>3. ASSUME NEW t \in Txs, signAndSend(t) PROVE Typed'
  <2> DEFINE usurped == {u \in Phase("sent") : ExtrinsicOf(u) \in Rivals(t)}
  <2>1. t \in Pending
    BY <1>3 DEF signAndSend, MaySend, Pending
  <2>2. tx[t].account \in Signers /\ tx[t].nonce \in Nat /\ ExtrinsicOf(t) \in Extrinsic
    BY <1>0, <2>1, PendingTypes
  <2>3. usurped \in SUBSET Pending
    BY DEF Pending
  <2>4. Fails(usurped, FALSE) \in [Txs -> TxTypes]
    <3> HIDE DEF usurped
    <3> QED BY <1>0, <2>3, FailsTyped
  <2>5. Sent(tx[t].account, tx[t].nonce) \in TxTypes
    BY <2>2, TxMade
  <2>6. tx' = [Fails(usurped, FALSE) EXCEPT ![t] = Sent(tx[t].account, tx[t].nonce)]
    BY <1>3 DEF signAndSend
  <2>7. tx' \in [Txs -> TxTypes]
    <3> HIDE DEF usurped
    <3> QED BY <2>4, <2>5, <2>6
  <2>8. mempool' = (mempool \ Rivals(t)) \cup {ExtrinsicOf(t)}
    BY <1>3 DEF signAndSend
  <2>9. mempool' \subseteq Extrinsic /\ IsFiniteSet(mempool')
    <3>1. mempool \ Rivals(t) \in SUBSET mempool
      OBVIOUS
    <3>2. IsFiniteSet(mempool \ Rivals(t))
      BY <3>1, FS_Subset DEF Typed
    <3>3. IsFiniteSet((mempool \ Rivals(t)) \cup {ExtrinsicOf(t)})
      BY <3>2, FS_AddElement
    <3> QED BY <2>2, <2>8, <3>3 DEF Typed, TypeOK
  <2> QED BY <1>3, <2>7, <2>9 DEF Typed, TypeOK, signAndSend, signers, hist
<1> QED BY <1>1, <1>2, <1>3

LEMMA TypedChain ==
  ASSUME Typed,
         \/ \E S \in SUBSET mempool : Produce(S)
         \/ \E n \in 1..Depth : \E i \in 1..(n + 1) :
              \E lost \in SUBSET InBlocks(fork), S \in SUBSET (mempool \cup InBlocks(fork)) :
                Reorg(n, i, lost, S)
         \/ \E e \in mempool : Drop(e) \/ Invalidate(e)
  PROVE  Typed'
<1>0. tx \in [Txs -> TxTypes] /\ faults \in 0..MaxFaults /\ leaked \subseteq Signers
      /\ mempool \subseteq Extrinsic /\ IsFiniteSet(mempool)
      /\ \A e \in Extrinsic : e.account \in Signers
  BY DEF Typed, TypeOK, Extrinsic
<1>1. ASSUME NEW S \in SUBSET mempool, Produce(S) PROVE Typed'
  <2>1. NewHead(0, 1, S)
    BY <1>1, ProduceIsHead
  <2>2. mempool' = mempool \ S
    BY <1>1 DEF Produce
  <2>3. mempool' \in SUBSET mempool
    BY <2>2
  <2>4. mempool' \subseteq Extrinsic /\ IsFiniteSet(mempool')
    BY <1>0, <2>3, FS_Subset
  <2>5. /\ fork' \in [1..Depth -> SUBSET Extrinsic] /\ buried' \subseteq Extrinsic
        /\ tx' \in [Txs -> TxTypes] /\ IsFiniteSet(buried')
        /\ \A j \in 1..Depth : IsFiniteSet(fork'[j])
    BY <2>1, HeadTyped
  <2> QED BY <1>1, <2>4, <2>5 DEF Typed, TypeOK, Produce, signers, hist
<1>2. ASSUME NEW n \in 1..Depth, NEW i \in 1..(n + 1), NEW lost, NEW S, Reorg(n, i, lost, S)
      PROVE  Typed'
  <2> DEFINE gone == InBlocks(SubSeq(fork, Depth - n + 1, Depth))
             back == mempool \cup (gone \ lost)
  <2>1. NewHead(n, i, S)
    BY <1>2, ReorgIsHead
  <2>2. gone \subseteq Extrinsic /\ IsFiniteSet(gone)
    BY ReorgParts
  <2>3. mempool' = back \ S /\ lost \subseteq gone /\ Fault
        /\ leaked' = leaked \cup {e.account : e \in lost}
    BY <1>2 DEF Reorg
  <2>4. back \subseteq Extrinsic
    BY <1>0, <2>2
  <2>5. IsFiniteSet(back)
    <3>1. gone \ lost \in SUBSET gone
      OBVIOUS
    <3>2. IsFiniteSet(gone \ lost)
      <4> HIDE DEF gone
      <4> QED BY <2>2, <3>1, FS_Subset
    <3> QED BY <1>0, <3>2, FS_Union
  <2>6. leaked' \subseteq Signers
    BY <1>0, <2>2, <2>3
  <2> HIDE DEF gone, back
  <2>7. mempool' \in SUBSET back
    BY <2>3
  <2>8. mempool' \subseteq Extrinsic /\ IsFiniteSet(mempool')
    BY <2>4, <2>5, <2>7, FS_Subset
  <2>9. /\ fork' \in [1..Depth -> SUBSET Extrinsic] /\ buried' \subseteq Extrinsic
        /\ tx' \in [Txs -> TxTypes] /\ IsFiniteSet(buried')
        /\ \A j \in 1..Depth : IsFiniteSet(fork'[j])
    BY <2>1, HeadTyped
  <2>10. faults' \in 0..MaxFaults
    BY <1>0, <2>3, FaultCounted
  <2>11. UNCHANGED <<signers, overlapped>>
    BY <1>2 DEF Reorg
  <2> QED BY <2>6, <2>8, <2>9, <2>10, <2>11 DEF Typed, TypeOK, signers
<1>3. ASSUME NEW e \in mempool, Drop(e) \/ Invalidate(e) PROVE Typed'
  <2>1. mempool' = mempool \ {e} /\ faults' \in 0..MaxFaults /\ UNCHANGED <<signers, fork, buried, overlapped>>
    BY <1>0, <1>3, FaultCounted DEF Drop, Invalidate
  <2>2. mempool' \in SUBSET mempool
    BY <2>1
  <2>3. mempool' \subseteq Extrinsic /\ IsFiniteSet(mempool')
    BY <1>0, <2>2, FS_Subset
  <2>4. leaked' \subseteq Signers /\ tx' \in [Txs -> TxTypes]
    <3>1. CASE leaked' = leaked \cup {e.account} /\ tx' = tx
      BY <1>0, <3>1
    <3>2. CASE leaked' = leaked /\ e.tx \in Phase("sent") /\ tx' = Fails({e.tx}, TRUE)
      <4>1. {e.tx} \in SUBSET Pending /\ TRUE \in BOOLEAN
        BY <3>2 DEF Pending
      <4>2. Fails({e.tx}, TRUE) \in [Txs -> TxTypes]
        BY <1>0, <4>1, FailsTyped
      <4> QED BY <1>0, <3>2, <4>2
    <3> QED BY <1>3, <3>1, <3>2 DEF Drop, Invalidate
  <2> QED BY <2>1, <2>3, <2>4 DEF Typed, TypeOK, signers
<1>4. CASE \E S \in SUBSET mempool : Produce(S)
  BY <1>1, <1>4
<1>5. CASE \E n \in 1..Depth : \E i \in 1..(n + 1) :
             \E lost \in SUBSET InBlocks(fork), S \in SUBSET (mempool \cup InBlocks(fork)) :
               Reorg(n, i, lost, S)
  BY <1>2, <1>5
<1>6. CASE \E e \in mempool : Drop(e) \/ Invalidate(e)
  BY <1>3, <1>6
<1> QED BY <1>4, <1>5, <1>6

\* Nonces that are read again are nonces.
LEMMA ResetTyped ==
  ASSUME Typed, NEW S \in SUBSET Signers, Reset(S)
  PROVE  /\ nonceByAccount' \in [Signers -> Nat]
         /\ overlapped' \subseteq Txs /\ leaked' \subseteq Signers
<1>1. \A a \in Signers : getOnChainNonce(a) \in Nat /\ nonceByAccount[a] \in Nat
  BY NonceIsRead DEF Typed, TypeOK
<1>2. nonceByAccount' = [a \in Signers |-> IF a \in S THEN getOnChainNonce(a) ELSE nonceByAccount[a]]
  BY DEF Reset
<1>3. nonceByAccount' \in [Signers -> Nat]
  BY <1>1, <1>2
<1> QED BY <1>3 DEF Reset, Typed, TypeOK, Pending, Phase

\* What a registration sees: a pool that is not empty, and its nonces.
PoolSeen == IF pool = <<>> THEN Accounts ELSE pool
NoncesSeen == IF pool = <<>> THEN [a \in Signers |-> getOnChainNonce(a)] ELSE nonceByAccount

LEMMA Registers ==
  ASSUME Typed, NEW t \in Txs, registerTransaction(t)
  PROVE  LET a == TakenFrom(PoolSeen)
         IN /\ PoolSeen \in PoolType /\ pool' = PoolSeen /\ a \in Signers /\ InPool(a, pool')
            /\ NoncesSeen \in [Signers -> Nat]
            /\ nonceByAccount' = [NoncesSeen EXCEPT ![a] = @ + 1]
            /\ trxCounter' \in 0..(Turns - 1)
            /\ tx[t].phase = "register"
            /\ tx' = [tx EXCEPT ![t] = IF Doomed(CallOf(t)) THEN Failed ELSE Queued(a, NoncesSeen[a])]
            /\ leaked' = (IF pool = <<>> THEN {} ELSE leaked)
                           \cup (IF Doomed(CallOf(t)) THEN {a} ELSE {})
            /\ overlapped' = (overlapped \cup (IF pool = <<>> THEN Pending ELSE {})) \ {t}
            /\ UNCHANGED <<chain, faults>>
<1>1. pool \in PoolType /\ trxCounter \in 0..(Turns - 1)
  BY DEF Typed, TypeOK, PoolType
<1>2. PoolSeen \in PoolType /\ PoolSeen # <<>>
  BY <1>1, AccountsArePool DEF PoolSeen
<1>3. pool' = PoolSeen
  BY DEF registerTransaction, PoolSeen
<1>4. NoncesSeen \in [Signers -> Nat]
  <2>1. \A a \in Signers : getOnChainNonce(a) \in Nat
    BY NonceIsRead
  <2>2. nonceByAccount \in [Signers -> Nat]
    BY DEF Typed, TypeOK
  <2> QED BY <2>1, <2>2 DEF NoncesSeen
<1>5. Register(t, PoolSeen, NoncesSeen) /\ tx[t].phase = "register" /\ UNCHANGED <<chain, faults>>
  BY <1>3 DEF registerTransaction, NoncesSeen, Phase
<1>6. TakenFrom(PoolSeen) \in Signers /\ InPool(TakenFrom(PoolSeen), PoolSeen)
      /\ (trxCounter + 1) % Turns \in 0..(Turns - 1)
  BY <1>1, <1>2, TurnTaken
<1> QED BY <1>2, <1>3, <1>4, <1>5, <1>6 DEF Register, TakenFrom

LEMMA TypedRegister ==
  ASSUME Typed, NEW t \in Txs, registerTransaction(t)
  PROVE  Typed'
<1> DEFINE a == TakenFrom(PoolSeen)
<1>1. PoolSeen \in PoolType /\ pool' = PoolSeen /\ a \in Signers
      /\ NoncesSeen \in [Signers -> Nat]
      /\ nonceByAccount' = [NoncesSeen EXCEPT ![a] = @ + 1]
      /\ trxCounter' \in 0..(Turns - 1)
      /\ tx' = [tx EXCEPT ![t] = IF Doomed(CallOf(t)) THEN Failed ELSE Queued(a, NoncesSeen[a])]
      /\ leaked' = (IF pool = <<>> THEN {} ELSE leaked)
                     \cup (IF Doomed(CallOf(t)) THEN {a} ELSE {})
      /\ overlapped' = (overlapped \cup (IF pool = <<>> THEN Pending ELSE {})) \ {t}
      /\ UNCHANGED <<chain, faults>>
  BY Registers
<1> HIDE DEF a
<1>2. nonceByAccount' \in [Signers -> Nat]
  BY <1>1
<1>3. tx' \in [Txs -> TxTypes]
  <2>1. NoncesSeen[a] \in Nat
    BY <1>1
  <2>2. (IF Doomed(CallOf(t)) THEN Failed ELSE Queued(a, NoncesSeen[a])) \in TxTypes
    BY <1>1, <2>1, TxMade
  <2> QED BY <1>1, <2>2 DEF Typed, TypeOK
<1>4. leaked' \subseteq Signers /\ overlapped' \subseteq Txs
  BY <1>1 DEF Typed, TypeOK, Pending, Phase
<1>5. pool' \in Seq(Signers) /\ \A i, j \in DOMAIN pool' : pool'[i] = pool'[j] => i = j
  BY <1>1 DEF PoolType
<1> QED BY <1>1, <1>2, <1>3, <1>4, <1>5 DEF Typed, TypeOK, chain

LEMMA TypedRegisterFails ==
  ASSUME Typed, NEW t \in Txs, registerFails(t)
  PROVE  Typed'
<1> DEFINE c == CallOf(t) \cap Phase("queued")
<1>1. tx \in [Txs -> TxTypes] /\ leaked \subseteq Signers /\ faults \in 0..MaxFaults /\ overlapped \subseteq Txs
  BY DEF Typed, TypeOK
<1>2. tx' = [u \in Txs |-> IF u = t \/ u \in c THEN Failed ELSE tx[u]]
      /\ leaked' = leaked \cup {tx[u].account : u \in c}
  BY DEF registerFails
<1>3. tx' \in [Txs -> TxTypes]
  <2> HIDE DEF c
  <2> QED BY <1>1, <1>2, TxMade
<1>4. \A u \in c : tx[u].account \in Signers
  BY <1>1, PendingTypes DEF Pending
<1>5. leaked' \subseteq Signers
  BY <1>1, <1>2, <1>4
<1> QED BY <1>1, <1>3, <1>5, TypedByTx DEF registerFails

\* What recovery does to the accounts.
LEMMA TypedRecover ==
  ASSUME Typed, NEW t \in Txs, recover(t) \/ recoverFails(t)
  PROVE  Typed'
<1> DEFINE a == tx[t].account
<1>0. tx \in [Txs -> TxTypes] /\ pool \in PoolType /\ leaked \subseteq Signers /\ overlapped \subseteq Txs
      /\ nonceByAccount \in [Signers -> Nat] /\ faults \in 0..MaxFaults
  BY DEF Typed, TypeOK, PoolType
<1>1. a \in Signers
  <2>1. tx[t] \in RecoverType
    BY <1>0, TxByPhase DEF recover, recoverFails, Phase
  <2> QED BY <2>1 DEF RecoverType
<1> HIDE DEF a
<1>2. Without(a) \in PoolType /\ With(a) \in PoolType /\ Accounts \in PoolType /\ <<>> \in PoolType
  BY <1>0, <1>1, WithPool, WithoutPool, AccountsArePool
<1>3. tx' = [tx EXCEPT ![t] = Failed] /\ UNCHANGED <<trxCounter, chain>>
  BY DEF recover, recoverFails
<1>4. tx' \in [Txs -> TxTypes]
  BY <1>0, <1>3, TxMade
<1>5. pool' \in PoolType /\ nonceByAccount' \in [Signers -> Nat]
      /\ overlapped' \subseteq Txs /\ leaked' \subseteq Signers /\ faults' \in 0..MaxFaults
  <2>1. CASE recover(t)
    <3>1. UNCHANGED faults
      BY <2>1 DEF recover
    <3>2. CASE pool' = Without(a) /\ UNCHANGED <<nonceByAccount, overlapped, leaked>>
      BY <1>0, <1>2, <3>1, <3>2
    <3>3. CASE pool' = Accounts /\ Reset(Signers)
      BY <1>0, <1>2, <3>1, <3>3, ResetTyped
    <3>4. CASE pool' = With(a) /\ Reset({a})
      <4>1. {a} \in SUBSET Signers
        BY <1>1
      <4> QED BY <1>0, <1>2, <3>1, <3>4, <4>1, ResetTyped
    <3> QED BY <2>1, <3>2, <3>3, <3>4 DEF recover, a
  <2>2. CASE recoverFails(t)
    <3>1. UNCHANGED <<nonceByAccount, overlapped>>
      BY <2>2 DEF recoverFails
    <3>2. CASE pool' = <<>> /\ UNCHANGED <<faults, leaked>>
      BY <1>0, <1>2, <3>1, <3>2
    <3>3. CASE Fault /\ pool' = With(a) /\ leaked' = leaked \cup {a}
      BY <1>0, <1>1, <1>2, <3>1, <3>3, FaultCounted
    <3> QED BY <2>2, <3>2, <3>3 DEF recoverFails, a
  <2> QED BY <2>1, <2>2
<1> QED BY <1>3, <1>4, <1>5 DEF Typed, TypeOK, PoolType, chain

LEMMA TypedNext == Typed /\ [Next]_vars => Typed'
<1> SUFFICES ASSUME Typed, [Next]_vars PROVE Typed'
  OBVIOUS
<1>1. ASSUME NEW t \in Txs, Sending(t) PROVE Typed'
  BY <1>1, TypedRegister, TypedRegisterFails, TypedRecover, TypedFollowing, TypedSubmitting
     DEF Sending, Following
<1>2. CASE UNCHANGED vars
  BY <1>2 DEF vars, signers, chain, hist, Typed, TypeOK
<1> QED BY <1>1, <1>2, TypedSubmitting, TypedChain DEF Next

\* Every variable has its type, and no account is in the pool twice, whatever
\* the accounts, calls and faults: the nonce that accountNextIndex answers
\* with always exists.
THEOREM TypeCorrect == Spec => []TypeOK
<1>1. Init => Typed
  BY TypedInit
<1>2. Typed /\ [Next]_vars => Typed'
  BY TypedNext
<1>3. Typed => TypeOK
  BY DEF Typed
<1> QED BY <1>1, <1>2, <1>3, PTL DEF Spec

(***************************************************************************)
(* Published transactions stay                                             *)
(***************************************************************************)
\* The extrinsic e is where a canonical block b is said to be: in the block of
\* f with as many blocks above it, or among the old ones.
Lies(f, old, e, b) == IF b.above < Depth THEN e \in f[Depth - b.above] ELSE e \in old

\* What is held of the blocks of a transaction that was sent, when f are the
\* last blocks and "old" the extrinsics of the others.  Numbers of inclusions
\* are not used twice, so that a check which was begun for one block never
\* decides on another; a block under check has its depth; and a block that is
\* canonical has the extrinsic.
Known(t, r, f, old) ==
  /\ \A b \in r.lookups : b.at \in 1..r.inclusionSeq /\ b.at # r.target.at /\ b.at # r.checking
  /\ \A b, c \in r.lookups : b.at = c.at => b = c
  /\ r.target.at \in 0..r.inclusionSeq /\ r.checking \in 0..r.inclusionSeq
  /\ (r.checking # 0 /\ r.checking = r.target.at) => (r.target # NoBlock /\ r.target.above = Depth)
  /\ \A b \in r.lookups \cup {r.target} :
       b.live => Lies(f, old, [account |-> r.account, nonce |-> r.nonce, tx |-> t], b)

BlocksKnown == \A t \in Txs : tx[t].phase = "sent" => Known(t, tx[t], fork, buried)

\* With it PublishedIsDurable is inductive.
DurableInv == BlocksKnown /\ PublishedIsDurable

\* A block stays where it is said to be, one block deeper, under a new head.
LEMMA StaysUnder ==
  ASSUME Typed, NEW n, NEW i, NEW S, NewHead(n, i, S)
  PROVE  /\ buried \subseteq buried'
         /\ \A b \in BlockType, e \in Extrinsic :
              (Aged(b, n).live /\ (b.live => Lies(fork, buried, e, b)))
                => Lies(fork', buried', e, Aged(b, n))
         /\ \A e \in S : \A k : Lies(fork', buried', e, [at |-> k, above |-> n + 1 - i, live |-> TRUE])
<1>0. Depth \in Nat /\ Depth >= 1 /\ n \in 0..Depth /\ i \in 1..(n + 1) /\ n \in Nat /\ i \in Nat
  BY TransactionConstants DEF NewHead
<1>1. buried' = buried \cup (IF n < Depth THEN fork[1] ELSE IF i = 1 THEN S ELSE {})
  BY DEF NewHead
<1>2. ASSUME NEW b \in BlockType, NEW e \in Extrinsic, Aged(b, n).live,
             b.live => Lies(fork, buried, e, b)
      PROVE  Lies(fork', buried', e, Aged(b, n))
  <2>1. b # NoBlock
    BY <1>2 DEF Aged, NoBlock
  <2>2. b.live /\ b.above >= n /\ b.above \in 0..Depth
        /\ Aged(b, n).above = IF b.above < Depth THEN b.above + 1 ELSE Depth
    <3>1. b.above \in 0..Depth /\ b.live \in BOOLEAN
      BY DEF BlockType
    <3>2. Aged(b, n).live = (b.live /\ b.above >= n)
          /\ Aged(b, n).above = IF b.above < Depth THEN b.above + 1 ELSE Depth
      BY <1>0, <2>1, AgedTyped
    <3> QED BY <1>2, <3>1, <3>2
  <2>3. Lies(fork, buried, e, b)
    BY <1>2, <2>2
  <2>4. CASE b.above = Depth
    <3>1. e \in buried
      BY <1>0, <2>3, <2>4 DEF Lies
    <3>2. Aged(b, n).above = Depth
      BY <1>0, <2>2, <2>4
    <3> QED BY <1>0, <1>1, <3>1, <3>2 DEF Lies
  <2>5. CASE b.above < Depth
    <3>1. e \in fork[Depth - b.above] /\ Aged(b, n).above = b.above + 1
      BY <2>2, <2>3, <2>5 DEF Lies
    <3>2. CASE b.above + 1 = Depth
      <4>1. Depth - b.above = 1 /\ n < Depth
        BY <1>0, <2>2, <2>5, <3>2
      <4>2. e \in buried'
        BY <1>1, <3>1, <4>1
      <4> QED BY <1>0, <3>1, <3>2, <4>2 DEF Lies
    <3>3. CASE b.above + 1 < Depth
      <4> DEFINE j == Depth - (b.above + 1)
      <4>1. j \in 1..Depth /\ j < Depth - n /\ j + 1 = Depth - b.above
        BY <1>0, <2>2, <3>3
      <4>2. fork'[j] = fork[j + 1]
        BY <4>1 DEF NewHead
      <4>3. e \in fork'[Depth - (b.above + 1)]
        BY <3>1, <4>1, <4>2
      <4> QED BY <3>1, <3>3, <4>3 DEF Lies
    <3> QED BY <1>0, <2>2, <2>5, <3>2, <3>3
  <2> QED BY <1>0, <2>2, <2>4, <2>5
<1>3. ASSUME NEW e \in S, NEW k
      PROVE  Lies(fork', buried', e, [at |-> k, above |-> n + 1 - i, live |-> TRUE])
  <2> DEFINE a == n + 1 - i
             b == [at |-> k, above |-> a, live |-> TRUE]
  <2>1. a \in 0..Depth /\ b.above = a
    BY <1>0
  <2>2. CASE a = Depth
    <3>1. n = Depth /\ i = 1
      BY <1>0, <2>2
    <3>2. e \in buried'
      BY <1>0, <1>1, <3>1
    <3>3. ~(b.above < Depth)
      BY <1>0, <2>1, <2>2
    <3> HIDE DEF b
    <3>4. Lies(fork', buried', e, b)
      BY <3>2, <3>3 DEF Lies
    <3> QED BY <3>4 DEF b
  <2>3. CASE a < Depth
    <3> DEFINE j == Depth - a
    <3>1. j \in 1..Depth /\ ~(j < Depth - n) /\ j + 1 = Depth - n + i
      BY <1>0, <2>1, <2>3
    <3>2. fork'[j] = S
      BY <3>1 DEF NewHead
    <3>3. e \in fork'[Depth - b.above]
      BY <2>1, <3>2
    <3>4. b.above < Depth
      BY <2>1, <2>3
    <3> HIDE DEF b
    <3>5. Lies(fork', buried', e, b)
      BY <3>3, <3>4 DEF Lies
    <3> QED BY <3>5 DEF b
  <2> QED BY <1>0, <2>1, <2>2, <2>3
<1> QED BY <1>1, <1>2, <1>3

\* A new head.
LEMMA KnownUnder ==
  ASSUME Typed, NEW n, NEW i, NEW S, NewHead(n, i, S), NEW t \in Txs,
         tx[t].phase = "sent", Known(t, tx[t], fork, buried)
  PROVE  Known(t, tx'[t], fork', buried')
<1> DEFINE r == tx[t]
           w == tx'[t]
           e == ExtrinsicOf(t)
           old == AgedAll(r.lookups, n)
           seq == r.inclusionSeq + 1
           a == n + 1 - i
           new == NewBlock(seq, a)
<1>0. tx \in [Txs -> TxTypes] /\ n \in Nat /\ a \in 0..Depth /\ tx' = Watch(S, a, n)
  BY TransactionConstants DEF Typed, TypeOK, NewHead
<1>1. r \in SentType /\ e = [account |-> r.account, nonce |-> r.nonce, tx |-> t] /\ e \in Extrinsic
  <2>1. t \in Pending
    BY DEF Pending, Phase
  <2> QED BY <1>0, <2>1, TxByPhase, PendingTypes DEF ExtrinsicOf
<1>2. r.inclusionSeq \in Nat /\ r.lookups \in SUBSET BlockType /\ r.target \in BlockType
  BY <1>1, SentParts
<1>9. e \in S => Lies(fork', buried', e, new)
  BY StaysUnder DEF NewBlock
<1> HIDE DEF a
<1>3. /\ w.account = r.account /\ w.nonce = r.nonce
      /\ w.checking = r.checking /\ w.target = Aged(r.target, n)
      /\ e \in S => w.inclusionSeq = seq /\ w.lookups = old \cup {new}
      /\ e \notin S => w.inclusionSeq = r.inclusionSeq /\ w.lookups = old
  <2>1. WatchedTx(t, Watch(S, a, n)[t], S, a, n)
    BY <1>0, Watched
  <2> QED BY <1>0, <2>1 DEF WatchedTx
<1>4. /\ \A b \in r.lookups : b.at \in 1..r.inclusionSeq /\ b.at # r.target.at /\ b.at # r.checking
      /\ \A b, c \in r.lookups : b.at = c.at => b = c
      /\ r.target.at \in 0..r.inclusionSeq /\ r.checking \in 0..r.inclusionSeq
      /\ (r.checking # 0 /\ r.checking = r.target.at) => (r.target # NoBlock /\ r.target.above = Depth)
      /\ \A b \in r.lookups \cup {r.target} : b.live => Lies(fork, buried, e, b)
  BY <1>1 DEF Known
<1>5. \A b \in BlockType : Aged(b, n).at = b.at
  BY <1>0, AgedTyped
<1>6. w.target.at = r.target.at /\ \A c \in old : \E b \in r.lookups : c = Aged(b, n) /\ c.at = b.at
  BY <1>2, <1>3, <1>5 DEF AgedAll
<1>7. (r.checking # 0 /\ r.checking = r.target.at) => (w.target # NoBlock /\ w.target.above = Depth)
  <2> SUFFICES ASSUME r.checking # 0, r.checking = r.target.at
               PROVE  w.target # NoBlock /\ w.target.above = Depth
    OBVIOUS
  <2>1. r.target # NoBlock /\ r.target.above = Depth
    BY <1>4
  <2>2. w.target.above = Depth
    <3>1. Aged(r.target, n).above = IF r.target.above < Depth THEN r.target.above + 1 ELSE Depth
      BY <1>0, <1>2, <2>1, AgedTyped
    <3>2. ~(Depth < Depth)
      BY TransactionConstants
    <3> HIDE DEF r, w
    <3> QED BY <1>3, <2>1, <3>1, <3>2
  <2>3. w.target.at # NoBlock.at
    BY <1>6 DEF NoBlock
  <2> QED BY <2>2, <2>3
<1>8. \A b \in r.lookups \cup {r.target} :
        Aged(b, n).live => Lies(fork', buried', e, Aged(b, n))
  BY <1>1, <1>2, <1>4, StaysUnder
<1>10. new.at = seq /\ seq \in Nat
  BY <1>2 DEF NewBlock
<1> HIDE DEF r, w, e, new, seq
<1>s. seq = r.inclusionSeq + 1
  BY DEF seq, r
<1>11. \A b \in w.lookups : b \in old \/ (e \in S /\ b = new)
  BY <1>3
<1>12. r.inclusionSeq <= w.inclusionSeq /\ w.inclusionSeq \in Nat /\ (e \in S => w.inclusionSeq = seq)
  BY <1>2, <1>3, <1>s
<1>13. \A b \in old : b.at \in 1..r.inclusionSeq /\ b.at # w.target.at /\ b.at # w.checking
  BY <1>3, <1>4, <1>6
<1>14. \A b \in w.lookups : b.at \in 1..w.inclusionSeq /\ b.at # w.target.at /\ b.at # w.checking
  <2>1. CASE e \in S
    <3>1. new.at \in 1..w.inclusionSeq /\ new.at # w.target.at /\ new.at # w.checking
      BY <2>1, <1>2, <1>3, <1>4, <1>6, <1>10, <1>12, <1>s
    <3>2. \A b \in old : b.at \in 1..w.inclusionSeq
      BY <1>2, <1>12, <1>13
    <3> QED BY <1>11, <1>13, <3>1, <3>2
  <2>2. CASE e \notin S
    BY <2>2, <1>3, <1>13
  <2> QED BY <2>1, <2>2
<1>15. \A b, c \in w.lookups : b.at = c.at => b = c
  <2>1. \A b, c \in old : b.at = c.at => b = c
    BY <1>4, <1>6
  <2>2. e \in S => \A b \in old : b.at # new.at
    BY <1>2, <1>10, <1>13, <1>s
  <2> QED BY <1>11, <2>1, <2>2
<1>16. w.target.at \in 0..w.inclusionSeq /\ w.checking \in 0..w.inclusionSeq
  BY <1>2, <1>3, <1>4, <1>6, <1>12
<1>17. \A b \in w.lookups \cup {w.target} : b.live => Lies(fork', buried', e, b)
  <2>1. \A b \in old : b.live => Lies(fork', buried', e, b)
    BY <1>8 DEF AgedAll
  <2>2. w.target.live => Lies(fork', buried', e, w.target)
    BY <1>3, <1>8
  <2> QED BY <1>9, <1>11, <2>1, <2>2
<1>18. e = [account |-> w.account, nonce |-> w.nonce, tx |-> t]
  BY <1>1, <1>3
<1> QED BY <1>3, <1>6, <1>7, <1>14, <1>15, <1>16, <1>17, <1>18 DEF Known, w

LEMMA DurableHead ==
  ASSUME Typed, DurableInv, NEW n, NEW i, NEW S, NewHead(n, i, S)
  PROVE  DurableInv'
<1> DEFINE a == n + 1 - i
<1>1. tx \in [Txs -> TxTypes] /\ n \in Nat /\ a \in 0..Depth /\ tx' = Watch(S, a, n)
  BY TransactionConstants DEF Typed, TypeOK, NewHead
<1> HIDE DEF a
<1>2. \A t \in Txs : tx'[t].phase = tx[t].phase
  <2>1. \A t \in Txs : WatchedTx(t, Watch(S, a, n)[t], S, a, n)
    BY <1>1, Watched
  <2>2. \A t \in Txs : Watch(S, a, n)[t].phase = tx[t].phase
    BY <2>1 DEF WatchedTx
  <2> QED BY <1>1, <2>2
<1>3. \A t \in Txs : tx[t].phase = "sent" => Known(t, tx'[t], fork', buried')
  BY KnownUnder DEF DurableInv, BlocksKnown
<1>4. buried \subseteq buried'
  BY StaysUnder
<1>5. BlocksKnown'
  BY <1>2, <1>3 DEF BlocksKnown
<1>6. PublishedIsDurable'
  BY <1>2, <1>4 DEF DurableInv, PublishedIsDurable, Phase
<1> QED BY <1>5, <1>6 DEF DurableInv

\* A step that leaves the blocks as they are.
LEMMA DurableByTx ==
  ASSUME DurableInv, UNCHANGED <<fork, buried>>,
         \A u \in Txs : tx'[u].phase = "sent" => tx'[u] = tx[u] \/ Known(u, tx'[u], fork, buried),
         \A u \in Txs : tx'[u].phase = "ok" => tx[u].phase = "ok" \/ \E e \in buried : e.tx = u
  PROVE  DurableInv'
<1>1. BlocksKnown'
  BY DEF DurableInv, BlocksKnown
<1>2. PublishedIsDurable'
  BY DEF DurableInv, PublishedIsDurable, Phase
<1> QED BY <1>1, <1>2 DEF DurableInv

LEMMA PhasesMade ==
  /\ Failed.phase = "failed" /\ Succeeded.phase = "ok"
  /\ \A a, n : Queued(a, n).phase = "queued" /\ Sent(a, n).phase = "sent"
  /\ \A a, b : Settled(a, b).phase = "recover"
BY DEF Failed, Succeeded, Queued, Sent, Settled

\* Nothing is known yet of a transaction that was just sent.
LEMMA KnownAtFirst ==
  \A t, a, n : Known(t, Sent(a, n), fork, buried)
BY DEF Known, Sent, NoBlock

LEMMA FailsEffect ==
  ASSUME NEW S \in SUBSET Txs, NEW invalid
  PROVE  \A u \in Txs : Fails(S, invalid)[u] = tx[u] \/ Fails(S, invalid)[u].phase = "recover"
BY FailsSpares, PhasesMade

\* Failing, for some, changes nothing for the others.
LEMMA DurableFails ==
  ASSUME DurableInv, UNCHANGED <<fork, buried>>, NEW S \in SUBSET Txs, NEW invalid,
         tx' = Fails(S, invalid)
  PROVE  DurableInv'
<1>1. \A u \in Txs : tx'[u] = tx[u] \/ tx'[u].phase = "recover"
  BY FailsSpares, PhasesMade
<1>2. \A u \in Txs : tx'[u].phase = "sent" => tx'[u] = tx[u]
  BY <1>1
<1>3. \A u \in Txs : tx'[u].phase = "ok" => tx[u].phase = "ok"
  BY <1>1
<1> QED BY <1>2, <1>3, DurableByTx

LEMMA DurableFollowing ==
  ASSUME Typed, DurableInv, NEW t \in Txs,
         \/ \E b \in tx[t].lookups : targetInclusion(t, b)
         \/ checkConfirmation(t) \/ confirm(t) \/ confirmFails(t)
  PROVE  DurableInv'
<1> DEFINE r == tx[t]
           w == tx'[t]
           e == [account |-> r.account, nonce |-> r.nonce, tx |-> t]
<1>0. tx \in [Txs -> TxTypes] /\ UNCHANGED <<fork, buried>> /\ r.phase = "sent"
  BY DEF Typed, TypeOK, targetInclusion, checkConfirmation, confirm, confirmFails, chain, Phase
<1>1. Known(t, r, fork, buried) /\ r \in SentType
  BY <1>0, TxByPhase DEF DurableInv, BlocksKnown
<1>2. /\ \A b \in r.lookups : b.at \in 1..r.inclusionSeq /\ b.at # r.target.at /\ b.at # r.checking
      /\ \A b, c \in r.lookups : b.at = c.at => b = c
      /\ r.target.at \in 0..r.inclusionSeq /\ r.checking \in 0..r.inclusionSeq
      /\ (r.checking # 0 /\ r.checking = r.target.at) => (r.target # NoBlock /\ r.target.above = Depth)
      /\ \A b \in r.lookups \cup {r.target} : b.live => Lies(fork, buried, e, b)
  BY <1>1 DEF Known
<1>3. r.inclusionSeq \in Nat /\ r.target \in BlockType /\ r.checking \in Nat
  BY <1>1, SentParts
<1>4. ASSUME NEW b, targetInclusion(t, b) PROVE DurableInv'
  <2>1. /\ b \in r.lookups /\ \A u \in Txs : u # t => tx'[u] = tx[u]
        /\ w.phase = "sent" /\ w.account = r.account /\ w.nonce = r.nonce
        /\ w.inclusionSeq = r.inclusionSeq /\ w.lookups = r.lookups \ {b}
        /\ w.target = (IF b.at = r.inclusionSeq THEN b ELSE r.target)
        /\ w.checking = r.checking
    BY <1>0, <1>4, TargetStep
  <2> HIDE DEF r, w
  <2>2. w.target = b \/ w.target = r.target
    BY <2>1
  <2>3. \A c \in w.lookups : c \in r.lookups /\ c # b /\ c.at # b.at
    BY <1>2, <2>1
  <2>4. \A c \in w.lookups : c.at \in 1..w.inclusionSeq /\ c.at # w.target.at /\ c.at # w.checking
    BY <1>2, <2>1, <2>2, <2>3
  <2>5. \A c, d \in w.lookups : c.at = d.at => c = d
    BY <1>2, <2>3
  <2>6. w.target.at \in 0..w.inclusionSeq /\ w.checking \in 0..w.inclusionSeq
    <3>1. b.at \in 0..r.inclusionSeq
      BY <1>2, <1>3, <2>1
    <3> QED BY <1>2, <2>1, <2>2, <3>1
  <2>7. (w.checking # 0 /\ w.checking = w.target.at) => (w.target # NoBlock /\ w.target.above = Depth)
    <3>1. CASE w.target = b
      BY <3>1, <1>2, <2>1
    <3>2. CASE w.target = r.target
      BY <3>2, <1>2, <2>1
    <3> QED BY <2>2, <3>1, <3>2
  <2>8. \A c \in w.lookups \cup {w.target} : c.live => Lies(fork, buried, e, c)
    BY <1>2, <2>1, <2>2, <2>3
  <2>9. e = [account |-> w.account, nonce |-> w.nonce, tx |-> t]
    BY <2>1
  <2> HIDE DEF e
  <2>10. Known(t, w, fork, buried)
    BY <2>4, <2>5, <2>6, <2>7, <2>8, <2>9 DEF Known
  <2>11. \A u \in Txs : tx'[u] = tx[u] \/ (tx'[u].phase = "sent" /\ Known(u, tx'[u], fork, buried))
    BY <2>1, <2>10 DEF w
  <2> QED BY <1>0, <2>11, DurableByTx
<1>5. ASSUME NEW c \in Nat, tx' = [tx EXCEPT ![t].checking = c],
             c = 0 \/ (c = r.target.at /\ hasReachedConfirmationDepth(r.target))
      PROVE  DurableInv'
  <2>1. /\ \A u \in Txs : u # t => tx'[u] = tx[u]
        /\ w.phase = "sent" /\ w.account = r.account /\ w.nonce = r.nonce
        /\ w.inclusionSeq = r.inclusionSeq /\ w.lookups = r.lookups
        /\ w.target = r.target /\ w.checking = c
    BY <1>0, <1>5, CheckStep
  <2>2. hasReachedConfirmationDepth(r.target) => (r.target # NoBlock /\ r.target.above = Depth)
    <3>1. r.target.above \in 0..Depth /\ Depth \in Nat
      BY <1>3, TransactionConstants DEF BlockType
    <3> QED BY <3>1 DEF hasReachedConfirmationDepth
  <2> HIDE DEF r, w
  <2>3. \A b \in w.lookups : b.at \in 1..w.inclusionSeq /\ b.at # w.target.at /\ b.at # w.checking
    <3>1. \A b \in r.lookups : b.at # 0
      BY <1>2, <1>3
    <3> QED BY <1>2, <1>5, <2>1, <3>1
  <2>4. w.target.at \in 0..w.inclusionSeq /\ w.checking \in 0..w.inclusionSeq
    BY <1>2, <1>3, <1>5, <2>1
  <2>5. (w.checking # 0 /\ w.checking = w.target.at) => (w.target # NoBlock /\ w.target.above = Depth)
    BY <1>5, <2>1, <2>2
  <2>6. e = [account |-> w.account, nonce |-> w.nonce, tx |-> t]
    BY <2>1
  <2> HIDE DEF e
  <2>7. Known(t, w, fork, buried)
    BY <1>2, <2>1, <2>3, <2>4, <2>5, <2>6 DEF Known
  <2>8. \A u \in Txs : tx'[u] = tx[u] \/ (tx'[u].phase = "sent" /\ Known(u, tx'[u], fork, buried))
    BY <2>1, <2>7 DEF w
  <2> QED BY <1>0, <2>8, DurableByTx
<1>6. CASE checkConfirmation(t)
  <2>1. r.target.at \in Nat
    BY <1>3 DEF BlockType
  <2> QED BY <1>5, <1>6, <2>1 DEF checkConfirmation
<1>7. CASE confirmFails(t)
  BY <1>5, <1>7 DEF confirmFails
<1>8. CASE confirm(t)
  <2>1. CASE tx' = [tx EXCEPT ![t].checking = 0]
    BY <1>5, <2>1
  <2>2. CASE tx' = Fails({t}, FALSE)
    <3>1. {t} \in SUBSET Txs
      OBVIOUS
    <3> QED BY <1>0, <2>2, <3>1, DurableFails
  <2>3. CASE r.checking = r.target.at /\ r.target.live /\ tx' = [tx EXCEPT ![t] = Succeeded]
    <3>1. r.checking # 0
      BY <1>0, <1>8, ConfirmStep
    <3>2. r.target.above = Depth /\ Lies(fork, buried, e, r.target)
      BY <1>2, <2>3, <3>1
    <3>3. e \in buried /\ e.tx = t
      BY <3>2, TransactionConstants DEF Lies
    <3>4. \A u \in Txs : IF u = t THEN tx'[u].phase = "ok" ELSE tx'[u] = tx[u]
      BY <1>0, <2>3, PhasesMade
    <3> HIDE DEF r, w, e
    <3>5. \A u \in Txs : tx'[u].phase = "sent" => tx'[u] = tx[u]
      BY <3>4
    <3>6. \A u \in Txs : tx'[u].phase = "ok" => (tx[u].phase = "ok" \/ \E x \in buried : x.tx = u)
      BY <3>3, <3>4
    <3> QED BY <1>0, <3>5, <3>6, DurableByTx
  <2> QED BY <1>0, <1>8, <2>1, <2>2, <2>3, ConfirmStep
<1> QED BY <1>4, <1>6, <1>7, <1>8

LEMMA DurableSending ==
  ASSUME Typed, DurableInv, NEW t \in Txs,
         \/ registerTransaction(t) \/ registerFails(t)
         \/ signAndSend(t) \/ signAndSendFails(t)
         \/ Timeout(t) \/ recover(t) \/ recoverFails(t)
  PROVE  DurableInv'
<1>0. tx \in [Txs -> TxTypes] /\ {t} \in SUBSET Txs
  BY DEF Typed, TypeOK
<1>1. ASSUME UNCHANGED <<fork, buried>>, NEW x, tx' = [tx EXCEPT ![t] = x],
             x.phase \in {"failed", "queued"}
      PROVE  DurableInv'
  <2>1. \A u \in Txs : IF u = t THEN tx'[u] = x ELSE tx'[u] = tx[u]
    BY <1>0, <1>1
  <2>2. x.phase # "sent" /\ x.phase # "ok"
    BY <1>1
  <2>3. \A u \in Txs : tx'[u].phase = "sent" => tx'[u] = tx[u]
    BY <2>1, <2>2
  <2>4. \A u \in Txs : tx'[u].phase = "ok" => tx[u].phase = "ok"
    BY <2>1, <2>2
  <2> QED BY <1>1, <2>3, <2>4, DurableByTx
<1>2. CASE registerTransaction(t)
  <2> DEFINE a == TakenFrom(PoolSeen)
             x == IF Doomed(CallOf(t)) THEN Failed ELSE Queued(a, NoncesSeen[a])
  <2>1. tx' = [tx EXCEPT ![t] = x] /\ UNCHANGED chain
    BY <1>2, Registers
  <2>2. x.phase = "failed" \/ x.phase = "queued"
    BY PhasesMade
  <2> HIDE DEF x
  <2> QED BY <1>1, <2>1, <2>2 DEF chain
<1>3. CASE recover(t) \/ recoverFails(t)
  <2>1. tx' = [tx EXCEPT ![t] = Failed] /\ UNCHANGED chain
    BY <1>3 DEF recover, recoverFails
  <2> QED BY <1>1, <2>1, PhasesMade DEF chain
<1>4. CASE registerFails(t)
  <2> DEFINE c == CallOf(t) \cap Phase("queued")
  <2>1. tx' = [u \in Txs |-> IF u = t \/ u \in c THEN Failed ELSE tx[u]] /\ UNCHANGED chain
    BY <1>4 DEF registerFails
  <2> HIDE DEF c
  <2>2. \A u \in Txs : tx'[u] = Failed \/ tx'[u] = tx[u]
    BY <2>1
  <2>3. \A u \in Txs : tx'[u].phase = "failed" \/ tx'[u] = tx[u]
    BY <2>2, PhasesMade
  <2>4. \A u \in Txs : tx'[u].phase = "sent" => tx'[u] = tx[u]
    BY <2>3
  <2>5. \A u \in Txs : tx'[u].phase = "ok" => tx[u].phase = "ok"
    BY <2>3
  <2> QED BY <2>1, <2>4, <2>5, DurableByTx DEF chain
<1>5. CASE signAndSendFails(t) \/ Timeout(t)
  <2>1. tx' = Fails({t}, FALSE) /\ UNCHANGED chain
    BY <1>5 DEF signAndSendFails, Timeout
  <2> QED BY <1>0, <2>1, DurableFails DEF chain
<1>6. CASE signAndSend(t)
  <2> DEFINE usurped == {u \in Phase("sent") : ExtrinsicOf(u) \in Rivals(t)}
             F == Fails(usurped, FALSE)
             s == Sent(tx[t].account, tx[t].nonce)
  <2>1. tx' = [F EXCEPT ![t] = s] /\ UNCHANGED <<fork, buried>>
    BY <1>6 DEF signAndSend
  <2>2. \A u \in Txs : F[u] = tx[u] \/ F[u].phase = "recover"
    <3>1. usurped \in SUBSET Txs
      BY DEF Phase
    <3> HIDE DEF usurped
    <3> QED BY <3>1, FailsEffect
  <2>3. \A u \in Txs : IF u = t THEN tx'[u] = s ELSE tx'[u] = F[u]
    <3>1. DOMAIN F = Txs
      BY DEF Fails
    <3> HIDE DEF F, s
    <3> QED BY <2>1, <3>1
  <2>4. s.phase = "sent" /\ Known(t, s, fork, buried)
    BY PhasesMade, KnownAtFirst
  <2> HIDE DEF F, s
  <2>5. \A u \in Txs : tx'[u].phase = "sent" => tx'[u] = tx[u] \/ Known(u, tx'[u], fork, buried)
    BY <2>2, <2>3, <2>4
  <2>6. \A u \in Txs : tx'[u].phase = "ok" => tx[u].phase = "ok"
    BY <2>2, <2>3, <2>4
  <2> QED BY <2>1, <2>5, <2>6, DurableByTx
<1> QED BY <1>2, <1>3, <1>4, <1>5, <1>6

LEMMA DurableNext == Typed /\ DurableInv /\ [Next]_vars => DurableInv'
<1> SUFFICES ASSUME Typed, DurableInv, [Next]_vars PROVE DurableInv'
  OBVIOUS
<1>1. ASSUME NEW t \in Txs, Sending(t) PROVE DurableInv'
  BY <1>1, DurableSending, DurableFollowing DEF Sending, Following
<1>2. ASSUME NEW c \in Calls, submit(c) PROVE DurableInv'
  <2>1. tx' = [t \in Txs |-> IF t \in c THEN [phase |-> "register"] ELSE tx[t]] /\ UNCHANGED chain
    BY <1>2 DEF submit
  <2>2. \A u \in Txs : tx'[u].phase = "register" \/ tx'[u] = tx[u]
    BY <2>1
  <2>3. \A u \in Txs : tx'[u].phase = "sent" => tx'[u] = tx[u]
    BY <2>2
  <2>4. \A u \in Txs : tx'[u].phase = "ok" => tx[u].phase = "ok"
    BY <2>2
  <2> QED BY <2>1, <2>3, <2>4, DurableByTx DEF chain
<1>3. ASSUME NEW S \in SUBSET Txs, GiveUp(S) PROVE DurableInv'
  BY <1>3, DurableFails DEF GiveUp, chain
<1>4. ASSUME NEW S \in SUBSET mempool, Produce(S) PROVE DurableInv'
  BY <1>4, ProduceIsHead, DurableHead
<1>5. ASSUME NEW n \in 1..Depth, NEW i \in 1..(n + 1), NEW lost, NEW S, Reorg(n, i, lost, S)
      PROVE  DurableInv'
  BY <1>5, ReorgIsHead, DurableHead
<1>6. ASSUME NEW e \in mempool, Drop(e) \/ Invalidate(e) PROVE DurableInv'
  <2>1. UNCHANGED <<fork, buried>>
    BY <1>6 DEF Drop, Invalidate
  <2>2. CASE tx' = tx
    BY <2>1, <2>2, DurableByTx
  <2>3. CASE e.tx \in Phase("sent") /\ tx' = Fails({e.tx}, TRUE)
    <3>1. {e.tx} \in SUBSET Txs
      BY <2>3 DEF Phase
    <3> QED BY <2>1, <2>3, <3>1, DurableFails
  <2> QED BY <1>6, <2>2, <2>3 DEF Drop, Invalidate
<1>7. CASE UNCHANGED vars
  <2>1. UNCHANGED <<fork, buried, tx>>
    BY <1>7 DEF vars, chain
  <2> QED BY <2>1, DurableByTx
<1> QED BY <1>1, <1>2, <1>3, <1>4, <1>5, <1>6, <1>7 DEF Next

LEMMA DurableInit == Init => DurableInv
<1> SUFFICES ASSUME Init PROVE DurableInv
  OBVIOUS
<1>1. \A t \in Txs : tx[t].phase = "idle"
  BY DEF Init
<1> QED BY <1>1 DEF DurableInv, BlocksKnown, PublishedIsDurable, Phase

\* A transaction reported as published is in a block that no reorganisation
\* can take away, for every depth of confirmation, any number of transactions
\* that change blocks, and lookups and checks that are answered in any order.
THEOREM PublishedStays == Spec => []PublishedIsDurable
<1> DEFINE I == Typed /\ DurableInv
<1>1. Init => I
  BY TypedInit, DurableInit
<1>2. I /\ [Next]_vars => I'
  BY TypedNext, DurableNext
<1>3. I => PublishedIsDurable
  BY DEF DurableInv
<1> QED BY <1>1, <1>2, <1>3, PTL DEF Spec

(***************************************************************************)
(* Nonces on chain and in the node's pool                                  *)
(***************************************************************************)
\* However far a reorganisation goes back, the nonces on chain have no gap,
\* and an extrinsic is in one block only.  The node's pool has one extrinsic
\* for a nonce, and none whose nonce is on chain.
ChainHolds ==
  /\ \A k \in 0..Depth : Contiguous(Upto(k))
  /\ \A j \in 1..Depth : \A e \in fork[j] : e \notin Upto(j - 1)
MempoolHolds == Distinct(mempool) /\ Ahead(mempool, Upto(Depth))

\* With these ReuseNeedsReset and NoGapLeft are inductive: a transaction that
\* saw no reset has a nonce behind the next one of its account; and what there
\* is between the chain and that next one is in the node's pool, or queued.
NoncesBehind ==
  \A t \in Pending \ overlapped : tx[t].nonce < nonceByAccount[tx[t].account]

QueuedWith(a, n) == \E u \in Phase("queued") : tx[u].account = a /\ tx[u].nonce = n
InOrder(a) ==
  InPool(a, pool) /\ a \notin leaked /\ \A t \in Phase("recover") : tx[t].account # a
NoGap ==
  \A a \in Signers :
    InOrder(a) => \A m \in OnChain(a)..(nonceByAccount[a] - 1) :
                    Holds(mempool, a, m) \/ QueuedWith(a, m)

NoncesInv == ChainHolds /\ MempoolHolds /\ NoncesBehind /\ ReuseNeedsReset /\ NoGap

LEMMA UptoTyped ==
  ASSUME Typed
  PROVE  /\ \A k \in 0..Depth : Upto(k) \in SUBSET Extrinsic
         /\ \A k, l \in 0..Depth : k <= l => Upto(k) \subseteq Upto(l)
         /\ \A a : OnChain(a) = NonceAfter(Upto(Depth), a)
<1>0. Depth \in Nat /\ \A j \in 1..Depth : fork[j] \subseteq Extrinsic
  BY ForkIsSeq, TransactionConstants
<1>1. \A k \in 0..Depth : 1..k \subseteq 1..Depth
  BY <1>0
<1>2. \A k, l \in 0..Depth : k <= l => 1..k \subseteq 1..l
  BY <1>0
<1>3. buried \subseteq Extrinsic
  BY DEF Typed, TypeOK
<1>4. \A a : OnChain(a) = NonceAfter(Upto(Depth), a)
  BY ForkIsSeq DEF OnChain
<1> QED BY <1>0, <1>1, <1>2, <1>3, <1>4 DEF Upto

\* The chain up to the k-th block, under a new head.
LEMMA UptoUnder ==
  ASSUME Typed, NEW n, NEW i, NEW S, NewHead(n, i, S), NEW k \in 0..Depth
  PROVE  Upto(k)' = IF k < Depth - n THEN Upto(k + 1)
                    ELSE IF k + 1 < Depth - n + i THEN Upto(Depth - n)
                    ELSE Upto(Depth - n) \cup S
<1> DEFINE K == Depth - n
           B(j) == IF j <= K THEN fork[j] ELSE IF j = K + i THEN S ELSE {}
<1>0. Depth \in Nat /\ Depth >= 1 /\ n \in 0..Depth /\ n \in Nat /\ i \in Nat /\ i >= 1
      /\ i <= n + 1 /\ k \in Nat /\ k <= Depth
  BY TransactionConstants DEF NewHead
<1>1. \A j \in 1..Depth : fork'[j] = B(j + 1)
  <2> SUFFICES ASSUME NEW j \in 1..Depth PROVE fork'[j] = B(j + 1)
    OBVIOUS
  <2>1. j < Depth - n <=> j + 1 <= K
    BY <1>0
  <2>2. fork'[j] = IF j < Depth - n THEN fork[j + 1] ELSE IF j + 1 = Depth - n + i THEN S ELSE {}
    BY DEF NewHead
  <2> QED BY <2>1, <2>2
<1>2. buried' = buried \cup B(1)
  <2>1. (n < Depth <=> 1 <= K) /\ (n = Depth => (i = 1 <=> 1 = K + i))
    BY <1>0
  <2>2. buried' = buried \cup (IF n < Depth THEN fork[1] ELSE IF i = 1 THEN S ELSE {})
    BY DEF NewHead
  <2> QED BY <2>1, <2>2, <1>0
<1> HIDE DEF B
<1>3. Upto(k)' = buried \cup UNION {B(j) : j \in 1..(k + 1)}
  <2>1. Upto(k)' = buried' \cup UNION {fork'[j] : j \in 1..k}
    BY DEF Upto
  <2>2. \A j \in 1..k : j \in 1..Depth /\ j + 1 \in 1..(k + 1)
    BY <1>0
  <2>3. \A j \in 1..(k + 1) : j = 1 \/ (j - 1 \in 1..k /\ j - 1 \in 1..Depth /\ (j - 1) + 1 = j)
    BY <1>0
  <2>4. UNION {B(j) : j \in 1..(k + 1)} \subseteq B(1) \cup UNION {fork'[j] : j \in 1..k}
    BY <1>1, <2>3
  <2>5. 1 \in 1..(k + 1)
    BY <1>0
  <2>6. B(1) \cup UNION {fork'[j] : j \in 1..k} \subseteq UNION {B(j) : j \in 1..(k + 1)}
    BY <1>1, <2>2, <2>5
  <2> QED BY <1>2, <2>1, <2>4, <2>6
<1>4. \A j \in 1..(k + 1) :
        B(j) = IF j <= K THEN fork[j] ELSE IF j = K + i THEN S ELSE {}
  BY DEF B
<1>5. CASE k < K
  <2>1. \A j \in 1..(k + 1) : j <= K
    BY <1>0, <1>5
  <2>2. \A j \in 1..(k + 1) : B(j) = fork[j]
    BY <1>4, <2>1
  <2>3. Upto(k)' = Upto(k + 1)
    BY <1>3, <2>2 DEF Upto
  <2> QED BY <1>5, <2>3
<1>6. CASE ~(k < K)
  <2>1. \A j \in 1..K : j \in 1..(k + 1) /\ j <= K
    BY <1>0, <1>6
  <2>2. \A j \in 1..K : B(j) = fork[j]
    BY <1>4, <2>1
  <2>3. \A j \in 1..(k + 1) : j \in 1..K \/ (~(j <= K))
    BY <1>0
  <2>4. CASE k + 1 < K + i
    <3>1. \A j \in 1..(k + 1) : j # K + i
      BY <1>0, <2>4
    <3>2. \A j \in 1..(k + 1) : j \in 1..K \/ B(j) = {}
      BY <1>4, <2>3, <3>1
    <3>3. Upto(k)' = Upto(K)
      BY <1>3, <2>1, <2>2, <3>2 DEF Upto
    <3> QED BY <1>6, <2>4, <3>3
  <2>5. CASE ~(k + 1 < K + i)
    <3>1. K + i \in 1..(k + 1) /\ ~(K + i <= K)
      BY <1>0, <2>5
    <3>2. B(K + i) = S
      BY <1>4, <3>1
    <3>3. \A j \in 1..(k + 1) : j \in 1..K \/ B(j) = {} \/ B(j) = S
      BY <1>4, <2>3
    <3>4. Upto(k)' = Upto(K) \cup S
      BY <1>3, <2>1, <2>2, <3>1, <3>2, <3>3 DEF Upto
    <3> QED BY <1>6, <2>5, <3>4
  <2> QED BY <2>4, <2>5
<1> QED BY <1>5, <1>6

\* A new head whose block follows on what is kept, from a pool M that is ahead
\* of that.
LEMMA ChainUnder ==
  ASSUME Typed, ChainHolds, NEW n, NEW i, NEW S, NewHead(n, i, S),
         NEW M \in SUBSET Extrinsic, IsFiniteSet(M), Distinct(M), Ahead(M, Upto(Depth - n)),
         S \in Block(Upto(Depth - n), M), mempool' = M \ S
  PROVE  /\ ChainHolds' /\ MempoolHolds'
         /\ Upto(Depth)' = Upto(Depth - n) \cup S
         /\ \A a \in Signers : /\ NonceAfter(Upto(Depth - n), a) \in Nat
                               /\ NonceAfter(Upto(Depth)', a) \in Nat
                               /\ NonceAfter(Upto(Depth - n), a) <= NonceAfter(Upto(Depth)', a)
         /\ \A e \in S : e.nonce < NonceAfter(Upto(Depth)', e.account)
<1> DEFINE K == Depth - n
           X == Upto(K)
<1>0. Depth \in Nat /\ Depth >= 1 /\ n \in 0..Depth /\ n \in Nat /\ i \in Nat /\ i >= 1
      /\ i <= n + 1 /\ K \in 0..Depth /\ K \in Nat
  BY TransactionConstants DEF NewHead
<1>1. X \in SUBSET Extrinsic /\ Contiguous(X)
  BY <1>0, UptoTyped DEF ChainHolds
<1> HIDE DEF K, X
<1>2. /\ Contiguous(X \cup S) /\ Ahead(M \ S, X \cup S)
      /\ \A e \in S : e \notin X /\ e.nonce < NonceAfter(X \cup S, e.account)
      /\ \A a \in Signers : NonceAfter(X, a) <= NonceAfter(X \cup S, a)
  BY <1>1, BlockFollows DEF X, K
<1>3. \A k \in 0..Depth : Upto(k)' = IF k < K THEN Upto(k + 1)
                                     ELSE IF k + 1 < K + i THEN X ELSE X \cup S
  BY UptoUnder DEF K, X
<1>4. Upto(Depth)' = X \cup S
  <2>1. Depth \in 0..Depth /\ ~(Depth < K) /\ ~(Depth + 1 < K + i)
    BY <1>0 DEF K
  <2> QED BY <1>3, <2>1
<1>5. ASSUME NEW k \in 0..Depth PROVE Contiguous(Upto(k)')
  <2>1. CASE k < K
    <3>1. k + 1 \in 0..Depth
      BY <1>0, <2>1
    <3>2. Contiguous(Upto(k + 1))
      BY <3>1 DEF ChainHolds
    <3> QED BY <1>3, <2>1, <3>2
  <2>2. CASE ~(k < K)
    BY <1>1, <1>2, <1>3, <2>2
  <2> QED BY <2>1, <2>2
<1>6. ASSUME NEW j \in 1..Depth, NEW e \in fork'[j] PROVE e \notin Upto(j - 1)'
  <2>1. fork'[j] = IF j < K THEN fork[j + 1] ELSE IF j + 1 = K + i THEN S ELSE {}
    BY DEF NewHead, K
  <2>2. j - 1 \in 0..Depth /\ (j - 1) + 1 = j
    BY <1>0
  <2>3. Upto(j - 1)' = IF j - 1 < K THEN Upto(j) ELSE IF j < K + i THEN X ELSE X \cup S
    BY <1>3, <2>2
  <2>4. CASE j < K
    <3>1. j + 1 \in 1..Depth /\ (j + 1) - 1 = j /\ j - 1 < K
      BY <1>0, <2>4
    <3>2. e \in fork[j + 1]
      BY <1>6, <2>1, <2>4
    <3>3. e \notin Upto((j + 1) - 1)
      BY <3>1, <3>2 DEF ChainHolds
    <3> QED BY <2>3, <3>1, <3>3
  <2>5. CASE ~(j < K)
    <3>1. j + 1 = K + i /\ e \in S
      BY <1>6, <2>1, <2>5
    <3>2. e \notin X
      BY <1>2, <3>1
    <3>3. CASE j - 1 < K
      <4>1. j = K
        BY <1>0, <2>5, <3>3
      <4>2. Upto(j - 1)' = X
        BY <2>3, <3>3, <4>1 DEF X
      <4> QED BY <3>2, <4>2
    <3>4. CASE ~(j - 1 < K)
      <4>1. j < K + i
        BY <1>0, <3>1
      <4>2. Upto(j - 1)' = X
        BY <2>3, <3>4, <4>1
      <4> QED BY <3>2, <4>2
    <3> QED BY <3>3, <3>4
  <2> QED BY <2>4, <2>5
<1>7. ChainHolds'
  BY <1>5, <1>6 DEF ChainHolds
<1>8. MempoolHolds'
  <2>1. Distinct(M \ S)
    BY DEF Distinct
  <2>2. mempool' = M \ S
    OBVIOUS
  <2>3. Distinct(mempool')
    BY <2>1, <2>2
  <2>4. Ahead(mempool', Upto(Depth)')
    BY <1>2, <1>4, <2>2
  <2> QED BY <2>3, <2>4 DEF MempoolHolds, Distinct, Ahead
<1>9. \A a \in Signers : NonceAfter(X, a) \in Nat /\ NonceAfter(X \cup S, a) \in Nat
  BY <1>1, <1>2 DEF Contiguous
<1> QED BY <1>2, <1>4, <1>7, <1>8, <1>9 DEF X, K

\* The extrinsics of the last blocks have the last nonces.
LEMMA GoneAhead ==
  ASSUME Typed, ChainHolds, NEW n \in 1..Depth
  PROVE  /\ \A a \in Signers :
              /\ NonceAfter(Upto(Depth - n), a) \in Nat /\ NonceAfter(Upto(Depth), a) \in Nat
              /\ NonceAfter(Upto(Depth - n), a) <= NonceAfter(Upto(Depth), a)
         /\ \A e \in UNION {fork[j] : j \in (Depth - n + 1)..Depth} :
              /\ e \in Upto(Depth)
              /\ e.nonce >= NonceAfter(Upto(Depth - n), e.account)
              /\ e.nonce < NonceAfter(Upto(Depth), e.account)
         /\ \A e \in Upto(Depth) :
              e.nonce >= NonceAfter(Upto(Depth - n), e.account)
                => e \in UNION {fork[j] : j \in (Depth - n + 1)..Depth}
<1> DEFINE K == Depth - n
           X == Upto(K)
           Y == Upto(Depth)
<1>0. Depth \in Nat /\ n \in Nat /\ n >= 1 /\ n <= Depth /\ K \in 0..Depth /\ Depth \in 0..Depth
      /\ K <= Depth /\ K \in Nat
  BY TransactionConstants
<1>1. X \in SUBSET Extrinsic /\ Y \in SUBSET Extrinsic /\ X \subseteq Y /\ Contiguous(X) /\ Contiguous(Y)
  BY <1>0, UptoTyped DEF ChainHolds
<1>2. \A j \in (K + 1)..Depth : j \in 1..Depth
  BY <1>0
<1>3. \A e \in Y : e \in X \/ \E j \in (K + 1)..Depth : e \in fork[j]
  <2>1. \A j \in 1..Depth : j \in 1..K \/ j \in (K + 1)..Depth
    BY <1>0
  <2> QED BY <2>1 DEF Upto
<1>4. ASSUME NEW j \in (K + 1)..Depth, NEW e \in fork[j] PROVE e \in Y /\ e \notin X
  <2>1. e \in Y
    BY <1>2 DEF Upto
  <2>2. j - 1 \in 0..Depth /\ K <= j - 1
    BY <1>0
  <2>3. e \notin Upto(j - 1)
    BY <1>2 DEF ChainHolds
  <2>4. X \subseteq Upto(j - 1)
    BY <1>0, <2>2, UptoTyped
  <2> QED BY <2>1, <2>3, <2>4
<1>5. \A e \in Y : e.account \in Signers /\ e.nonce \in Nat
  BY <1>1 DEF Extrinsic
<1> HIDE DEF K, X, Y
<1>6. ASSUME NEW a \in Signers
      PROVE  NonceAfter(X, a) \in Nat /\ NonceAfter(Y, a) \in Nat /\ NonceAfter(X, a) <= NonceAfter(Y, a)
  <2> DEFINE x == NonceAfter(X, a)
             y == NonceAfter(Y, a)
  <2>1. x \in Nat /\ y \in Nat /\ Numbered(X, a, x) /\ Numbered(Y, a, y)
    BY <1>1 DEF Contiguous
  <2> HIDE DEF x, y
  <2>2. ASSUME y < x PROVE FALSE
    <3>1. y \in 0..(x - 1)
      BY <2>1, <2>2
    <3>2. PICK e \in X : e.account = a /\ e.nonce = y
      BY <2>1, <3>1 DEF Numbered, Holds
    <3>3. e.nonce \in 0..(y - 1)
      BY <1>1, <2>1, <3>2 DEF Numbered, At
    <3> QED BY <2>1, <3>2, <3>3
  <2>3. x <= y
    BY <2>1, <2>2
  <2> QED BY <2>1, <2>3 DEF x, y
<1>7. ASSUME NEW e \in Y
      PROVE  /\ e.nonce < NonceAfter(Y, e.account)
             /\ e \notin X => e.nonce >= NonceAfter(X, e.account)
             /\ e \in X => e.nonce < NonceAfter(X, e.account)
  <2> DEFINE a == e.account
             x == NonceAfter(X, a)
             y == NonceAfter(Y, a)
  <2>1. a \in Signers /\ e.nonce \in Nat
    BY <1>5
  <2>2. x \in Nat /\ y \in Nat /\ Numbered(X, a, x) /\ Numbered(Y, a, y)
    BY <1>1, <2>1 DEF Contiguous
  <2> HIDE DEF x, y
  <2>3. e.nonce \in 0..(y - 1)
    BY <2>2 DEF Numbered, At
  <2>4. e \in X => e.nonce \in 0..(x - 1)
    BY <2>2 DEF Numbered, At
  <2>5. ASSUME e \notin X, e.nonce < x PROVE FALSE
    <3>1. e.nonce \in 0..(x - 1)
      BY <2>1, <2>2, <2>5
    <3>2. PICK d \in X : d.account = a /\ d.nonce = e.nonce
      BY <2>2, <3>1 DEF Numbered, Holds
    <3>3. d = e
      BY <1>1, <2>2, <3>2 DEF Numbered, At
    <3> QED BY <2>5, <3>2, <3>3
  <2>6. (e \notin X => e.nonce >= x) /\ e.nonce < y /\ (e \in X => e.nonce < x)
    BY <2>1, <2>2, <2>3, <2>4, <2>5
  <2> QED BY <2>6 DEF x, y
<1>8. \A e \in UNION {fork[j] : j \in (K + 1)..Depth} :
        e \in Y /\ e.nonce >= NonceAfter(X, e.account) /\ e.nonce < NonceAfter(Y, e.account)
  BY <1>4, <1>7
<1>9. \A e \in Y : e.nonce >= NonceAfter(X, e.account)
                     => e \in UNION {fork[j] : j \in (K + 1)..Depth}
  <2> SUFFICES ASSUME NEW e \in Y, e.nonce >= NonceAfter(X, e.account)
               PROVE  e \in UNION {fork[j] : j \in (K + 1)..Depth}
    OBVIOUS
  <2>1. NonceAfter(X, e.account) \in Nat /\ e.nonce \in Nat
    BY <1>5, <1>6
  <2>2. ~(e.nonce < NonceAfter(X, e.account))
    BY <2>1
  <2>3. e \notin X
    BY <1>7, <2>2
  <2> QED BY <1>3, <2>3
<1> QED BY <1>6, <1>8, <1>9 DEF X, Y, K

(***************************************************************************)
(* What a step leaves alone                                                *)
(***************************************************************************)
\* A transaction that is on its way after a step was so before, with the same
\* account and nonce.
Keeps(u) == u \in Pending /\ tx'[u].account = tx[u].account /\ tx'[u].nonce = tx[u].nonce

LEMMA BehindKept ==
  ASSUME NoncesBehind, ReuseNeedsReset, \A u \in Pending' : Keeps(u), overlapped \subseteq overlapped',
         \A u \in Pending' \ overlapped' :
           nonceByAccount'[tx[u].account] = nonceByAccount[tx[u].account]
  PROVE  NoncesBehind' /\ ReuseNeedsReset'
<1>1. ASSUME NEW u \in Pending' \ overlapped'
      PROVE  tx'[u].nonce < nonceByAccount'[tx'[u].account]
  <2>1. u \in Pending \ overlapped /\ tx'[u].account = tx[u].account /\ tx'[u].nonce = tx[u].nonce
    BY DEF Keeps
  <2> QED BY <2>1 DEF NoncesBehind
<1>2. NoncesBehind'
  BY <1>1 DEF NoncesBehind
<1>3. ASSUME NEW t \in Pending', NEW u \in Pending', t # u,
             tx'[t].account = tx'[u].account, tx'[t].nonce = tx'[u].nonce
      PROVE  {t, u} \cap overlapped' # {}
  <2>1. Keeps(t) /\ Keeps(u)
    OBVIOUS
  <2>2. {t, u} \cap overlapped # {}
    BY <1>3, <2>1 DEF Keeps, ReuseNeedsReset
  <2> QED BY <2>2
<1>4. ReuseNeedsReset'
  BY <1>3 DEF ReuseNeedsReset
<1> QED BY <1>2, <1>4

\* Between the chain and its next nonce an account has no gap.
Filled(a) ==
  \A m \in OnChain(a)..(nonceByAccount[a] - 1) : Holds(mempool, a, m) \/ QueuedWith(a, m)

LEMMA FilledKept ==
  ASSUME NoGap, NEW a \in Signers, InOrder(a), OnChain(a)' = OnChain(a),
         nonceByAccount'[a] = nonceByAccount[a],
         \A m \in Nat : Holds(mempool, a, m) \/ QueuedWith(a, m)
                          => Holds(mempool', a, m) \/ QueuedWith(a, m)',
         OnChain(a) \in Nat, nonceByAccount[a] \in Nat
  PROVE  Filled(a)'
<1>1. \A m \in OnChain(a)..(nonceByAccount[a] - 1) : m \in Nat /\ (Holds(mempool, a, m) \/ QueuedWith(a, m))
  BY DEF NoGap
<1>2. \A m \in OnChain(a)'..(nonceByAccount'[a] - 1) : Holds(mempool', a, m) \/ QueuedWith(a, m)'
  BY <1>1
<1> QED BY <1>2 DEF Filled, Holds

\* Nor has one whose nonce was just read.
LEMMA FilledByReset ==
  ASSUME Typed, NEW a \in Signers, UNCHANGED chain, nonceByAccount'[a] = getOnChainNonce(a)
  PROVE  Filled(a)'
<1>1. FirstFree(mempool, a, OnChain(a), getOnChainNonce(a))
  BY NonceIsRead
<1>2. \A m \in OnChain(a)..(getOnChainNonce(a) - 1) : Holds(mempool, a, m)
  BY <1>1 DEF FirstFree
<1>3. OnChain(a)' = OnChain(a) /\ mempool' = mempool
  BY DEF chain, OnChain, NonceAfter, InBlocks
<1>4. \A m \in OnChain(a)'..(nonceByAccount'[a] - 1) : Holds(mempool', a, m)
  BY <1>2, <1>3
<1> QED BY <1>4 DEF Filled, Holds

LEMMA ChainKept ==
  ASSUME NoncesInv, UNCHANGED chain
  PROVE  /\ ChainHolds' /\ MempoolHolds' /\ \A a : OnChain(a)' = OnChain(a)
         /\ \A a, m : Holds(mempool', a, m) <=> Holds(mempool, a, m)
<1>1. fork' = fork /\ buried' = buried /\ mempool' = mempool
  BY DEF chain
<1>2. \A k : Upto(k)' = Upto(k)
  BY <1>1 DEF Upto
<1>3. ChainHolds'
  <2>1. \A k \in 0..Depth : Contiguous(Upto(k)')
    BY <1>2 DEF NoncesInv, ChainHolds
  <2>2. \A j \in 1..Depth : \A e \in fork'[j] : e \notin Upto(j - 1)'
    BY <1>1, <1>2 DEF NoncesInv, ChainHolds
  <2> QED BY <2>1, <2>2 DEF ChainHolds
<1>4. MempoolHolds'
  <2>1. Ahead(mempool', Upto(Depth)') /\ Distinct(mempool')
    BY <1>1, <1>2 DEF NoncesInv, MempoolHolds
  <2> QED BY <2>1 DEF MempoolHolds, Distinct, Ahead
<1>5. \A a : OnChain(a)' = OnChain(a)
  BY <1>1 DEF OnChain, NonceAfter, InBlocks
<1> QED BY <1>1, <1>3, <1>4, <1>5

\* Most steps on a transaction leave the chain, the accounts and their nonces,
\* and every transaction that stays queued; an account of one that does not
\* has lost its nonce, or has a failure that is to be recovered from.
LEMMA NoncesByTx ==
  ASSUME Typed, NoncesInv, UNCHANGED <<chain, nonceByAccount, overlapped>>,
         \A u \in Pending' : Keeps(u), leaked \subseteq leaked',
         \A a : InPool(a, pool') => InPool(a, pool) \/ a \in leaked',
         \A u \in Phase("recover") :
           \/ u \in Phase("recover")' /\ tx'[u].account = tx[u].account
           \/ tx[u].account \in leaked' \/ ~InPool(tx[u].account, pool'),
         \A u \in Phase("queued") :
           \/ u \in Phase("queued")'
           \/ tx[u].account \in leaked'
           \/ u \in Phase("recover")' /\ tx'[u].account = tx[u].account
  PROVE  NoncesInv'
<1>1. ChainHolds' /\ MempoolHolds' /\ (\A a : OnChain(a)' = OnChain(a))
      /\ \A a, m : Holds(mempool', a, m) <=> Holds(mempool, a, m)
  BY ChainKept
<1>2. NoncesBehind' /\ ReuseNeedsReset'
  BY BehindKept DEF NoncesInv
<1>3. ASSUME NEW a \in Signers, InOrder(a)' PROVE Filled(a)'
  <2>1. InPool(a, pool') /\ a \notin leaked' /\ \A u \in Phase("recover")' : tx'[u].account # a
    BY <1>3 DEF InOrder, InPool
  <2>2. InOrder(a)
    BY <2>1 DEF InOrder
  <2>3. ASSUME NEW m \in Nat, QueuedWith(a, m) PROVE QueuedWith(a, m)'
    <3>1. PICK u \in Phase("queued") : tx[u].account = a /\ tx[u].nonce = m
      BY <2>3 DEF QueuedWith
    <3>2. u \in Phase("queued")'
      BY <2>1, <3>1
    <3>3. u \in Pending'
      BY <3>2 DEF Pending
    <3>4. tx'[u].account = a /\ tx'[u].nonce = m
      BY <3>1, <3>3 DEF Keeps
    <3> QED BY <3>2, <3>4 DEF QueuedWith
  <2>4. \A m \in Nat : Holds(mempool, a, m) \/ QueuedWith(a, m)
                         => Holds(mempool', a, m) \/ QueuedWith(a, m)'
    BY <1>1, <2>3
  <2>5. OnChain(a) \in Nat /\ nonceByAccount[a] \in Nat
    BY NonceIsCounted DEF Typed, TypeOK
  <2>6. OnChain(a)' = OnChain(a) /\ nonceByAccount'[a] = nonceByAccount[a]
    BY <1>1
  <2> QED BY <2>2, <2>4, <2>5, <2>6, FilledKept DEF NoncesInv
<1>4. NoGap'
  BY <1>3 DEF NoGap, Filled
<1> QED BY <1>1, <1>2, <1>4 DEF NoncesInv

\* A new head: the extrinsics that it takes from the chain are in the pool
\* that its block was made from, but for accounts that lost a nonce.
LEMMA NoncesHead ==
  ASSUME Typed, NoncesInv, NEW n, NEW i, NEW S, NewHead(n, i, S),
         NEW M \in SUBSET Extrinsic, IsFiniteSet(M), Distinct(M), Ahead(M, Upto(Depth - n)),
         S \in Block(Upto(Depth - n), M), mempool' = M \ S, Typed',
         mempool \subseteq M, UNCHANGED <<signers, overlapped>>, leaked \subseteq leaked',
         \A e \in Upto(Depth) : e.nonce >= NonceAfter(Upto(Depth - n), e.account)
                                  => e \in M \/ e.account \in leaked'
  PROVE  NoncesInv'
<1>1. /\ ChainHolds' /\ MempoolHolds'
      /\ \A a \in Signers : /\ NonceAfter(Upto(Depth - n), a) \in Nat
                            /\ NonceAfter(Upto(Depth)', a) \in Nat
                            /\ NonceAfter(Upto(Depth - n), a) <= NonceAfter(Upto(Depth)', a)
      /\ \A e \in S : e.nonce < NonceAfter(Upto(Depth)', e.account)
  BY ChainUnder DEF NoncesInv
<1>2. \A u \in Txs : /\ tx'[u].phase = tx[u].phase
                     /\ tx[u].phase # "sent" => tx'[u] = tx[u]
                     /\ tx[u].phase = "sent" => tx'[u].account = tx[u].account /\ tx'[u].nonce = tx[u].nonce
  <2> DEFINE a == n + 1 - i
  <2>1. tx \in [Txs -> TxTypes] /\ n \in Nat /\ a \in 0..Depth /\ tx' = Watch(S, a, n)
    BY TransactionConstants DEF Typed, TypeOK, NewHead
  <2> HIDE DEF a
  <2>2. \A u \in Txs : WatchedTx(u, Watch(S, a, n)[u], S, a, n)
    BY <2>1, Watched
  <2>3. \A u \in Txs : WatchedTx(u, tx'[u], S, a, n)
    BY <2>1, <2>2
  <2> QED BY <2>3 DEF WatchedTx
<1>3. \A u \in Pending' : Keeps(u)
  BY <1>2 DEF Pending, Phase, Keeps
<1>4. NoncesBehind' /\ ReuseNeedsReset'
  BY <1>3, BehindKept DEF NoncesInv, signers
<1>5. ASSUME NEW a \in Signers, InOrder(a)' PROVE Filled(a)'
  <2> DEFINE y == NonceAfter(Upto(Depth), a)
             z == NonceAfter(Upto(Depth)', a)
  <2>1. OnChain(a) = y /\ y \in Nat
    BY UptoTyped, NonceIsCounted
  <2>2. OnChain(a)' = z /\ z \in Nat
    <3>1. DOMAIN fork' = 1..Depth
      BY DEF Typed, TypeOK
    <3>2. (buried \cup InBlocks(fork))' = Upto(Depth)'
      BY <3>1 DEF InBlocks, Upto
    <3>3. OnChain(a)' = NonceAfter(Upto(Depth)', a)
      BY <3>2 DEF OnChain, NonceAfter
    <3> QED BY <1>1, <3>3
  <2>3. NonceAfter(Upto(Depth - n), a) \in Nat /\ NonceAfter(Upto(Depth - n), a) <= z
    BY <1>1
  <2>4. nonceByAccount' = nonceByAccount /\ nonceByAccount[a] \in Nat /\ pool' = pool
    BY DEF signers, Typed, TypeOK
  <2>5. InOrder(a) /\ a \notin leaked'
    BY <1>2, <1>5, <2>4 DEF InOrder, InPool, Phase
  <2>6. \A m \in y..(nonceByAccount[a] - 1) : Holds(mempool, a, m) \/ QueuedWith(a, m)
    BY <2>1, <2>5 DEF NoncesInv, NoGap
  <2>7. Contiguous(Upto(Depth))
    BY TransactionConstants DEF NoncesInv, ChainHolds
  <2>8. Numbered(Upto(Depth), a, y)
    BY <2>7 DEF Contiguous
  <2> HIDE DEF y, z
  <2>9. ASSUME NEW m \in Nat, m >= z, NEW e \in M, e.account = a, e.nonce = m
        PROVE  Holds(mempool', a, m)
    <3>1. e \notin S
      <4>1. e \in S => e.nonce < z
        BY <1>1, <2>9 DEF z
      <4> QED BY <2>2, <2>9, <4>1
    <3> QED BY <2>9, <3>1 DEF Holds
  <2>10. ASSUME NEW m \in z..(nonceByAccount[a] - 1)
         PROVE  Holds(mempool', a, m) \/ QueuedWith(a, m)'
    <3>0. m \in Nat /\ m >= z
      BY <2>2, <2>4
    <3>1. CASE m < y
      <4>1. m \in 0..(y - 1)
        BY <3>0, <3>1, <2>1
      <4>2. PICK e \in Upto(Depth) : e.account = a /\ e.nonce = m
        BY <2>8, <4>1 DEF Numbered, Holds
      <4>3. e.nonce >= NonceAfter(Upto(Depth - n), e.account)
        BY <2>2, <2>3, <3>0, <4>2
      <4>4. e \in M
        BY <2>5, <4>2, <4>3
      <4> QED BY <2>9, <3>0, <4>2, <4>4
    <3>2. CASE ~(m < y)
      <4>1. m \in y..(nonceByAccount[a] - 1)
        BY <3>0, <3>2, <2>1, <2>4
      <4>2. CASE Holds(mempool, a, m)
        <5>1. PICK e \in mempool : e.account = a /\ e.nonce = m
          BY <4>2 DEF Holds
        <5>2. e \in M
          OBVIOUS
        <5> QED BY <2>9, <3>0, <5>1, <5>2
      <4>3. CASE QueuedWith(a, m)
        <5>1. PICK u \in Phase("queued") : tx[u].account = a /\ tx[u].nonce = m
          BY <4>3 DEF QueuedWith
        <5>2. u \in Txs /\ tx[u].phase = "queued" /\ tx'[u] = tx[u]
          BY <1>2, <5>1 DEF Phase
        <5>3. u \in Phase("queued")'
          BY <5>2 DEF Phase
        <5> QED BY <5>1, <5>2, <5>3 DEF QueuedWith
      <4> QED BY <2>6, <4>1, <4>2, <4>3
    <3> QED BY <3>1, <3>2
  <2>11. \A m \in OnChain(a)'..(nonceByAccount'[a] - 1) : Holds(mempool', a, m) \/ QueuedWith(a, m)'
    BY <2>2, <2>4, <2>10
  <2> QED BY <2>11 DEF Filled, Holds
<1>6. NoGap'
  BY <1>5 DEF NoGap, Filled
<1> QED BY <1>1, <1>4, <1>6 DEF NoncesInv

LEMMA NoncesProduce ==
  ASSUME Typed, NoncesInv, NEW S \in SUBSET mempool, Produce(S), Typed'
  PROVE  NoncesInv'
<1>0. Depth \in Nat /\ Depth - 0 = Depth
  BY TransactionConstants
<1>1. NewHead(0, 1, S)
  BY ProduceIsHead
<1>2. mempool \in SUBSET Extrinsic /\ IsFiniteSet(mempool) /\ Distinct(mempool) /\ Ahead(mempool, Upto(Depth))
  BY DEF Typed, TypeOK, NoncesInv, MempoolHolds
<1>3. S \in Block(Upto(Depth), mempool) /\ mempool' = mempool \ S
      /\ UNCHANGED <<signers, overlapped>> /\ leaked \subseteq leaked'
  BY ForkIsSeq DEF Produce, hist
<1>4. ASSUME NEW e \in Upto(Depth), e.nonce >= NonceAfter(Upto(Depth), e.account) PROVE FALSE
  <2>1. e \in Extrinsic /\ Contiguous(Upto(Depth))
    BY <1>0, UptoTyped DEF NoncesInv, ChainHolds
  <2>2. e.account \in Signers /\ e.nonce \in Nat
    BY <2>1 DEF Extrinsic
  <2> DEFINE k == NonceAfter(Upto(Depth), e.account)
  <2>3. k \in Nat /\ Numbered(Upto(Depth), e.account, k)
    BY <2>1, <2>2 DEF Contiguous
  <2> HIDE DEF k
  <2>4. e.nonce \in 0..(k - 1)
    BY <2>3 DEF Numbered, At
  <2> QED BY <1>4, <2>2, <2>3, <2>4 DEF k
<1> QED BY <1>0, <1>1, <1>2, <1>3, <1>4, NoncesHead

LEMMA NoncesReorg ==
  ASSUME Typed, NoncesInv, NEW n \in 1..Depth, NEW i \in 1..(n + 1), NEW lost, NEW S,
         Reorg(n, i, lost, S), Typed'
  PROVE  NoncesInv'
<1> DEFINE K == Depth - n
           kept == SubSeq(fork, 1, Depth - n)
           gone == InBlocks(SubSeq(fork, Depth - n + 1, Depth))
           back == mempool \cup (gone \ lost)
           X == Upto(K)
           Y == Upto(Depth)
<1>0. Depth \in Nat /\ n \in Nat /\ n >= 1 /\ n <= Depth /\ K \in 0..Depth /\ Depth \in 0..Depth
  BY TransactionConstants
<1>1. NewHead(n, i, S)
  BY ReorgIsHead
<1>2. /\ buried \cup InBlocks(kept) = X
      /\ gone = UNION {fork[j] : j \in (K + 1)..Depth}
      /\ gone \subseteq Extrinsic /\ IsFiniteSet(gone)
  BY ReorgParts
<1>3. lost \subseteq gone /\ S \in Block(buried \cup InBlocks(kept), back) /\ mempool' = back \ S
      /\ leaked' = leaked \cup {e.account : e \in lost} /\ UNCHANGED <<signers, overlapped>>
  BY DEF Reorg
<1> HIDE DEF kept, gone
<1>4. S \in Block(X, back)
  BY <1>2, <1>3
<1>5. mempool \in SUBSET Extrinsic /\ IsFiniteSet(mempool) /\ Distinct(mempool) /\ Ahead(mempool, Y)
      /\ Contiguous(Y) /\ Y \in SUBSET Extrinsic /\ ChainHolds
  BY <1>0, UptoTyped DEF Typed, TypeOK, NoncesInv, MempoolHolds, ChainHolds
<1>6. back \in SUBSET Extrinsic /\ IsFiniteSet(back)
  <2>1. gone \ lost \in SUBSET gone
    OBVIOUS
  <2>2. IsFiniteSet(gone \ lost)
    BY <1>2, <2>1, FS_Subset
  <2>3. IsFiniteSet(back)
    BY <1>5, <2>2, FS_Union
  <2> QED BY <1>2, <1>5, <2>3
<1>7. /\ \A a \in Signers : NonceAfter(X, a) \in Nat /\ NonceAfter(Y, a) \in Nat
                            /\ NonceAfter(X, a) <= NonceAfter(Y, a)
      /\ \A e \in gone : /\ e \in Y /\ e.nonce >= NonceAfter(X, e.account)
                         /\ e.nonce < NonceAfter(Y, e.account)
      /\ \A e \in Y : e.nonce >= NonceAfter(X, e.account) => e \in gone
  BY <1>2, <1>5, GoneAhead
<1> HIDE DEF K, X, Y
<1>8. \A e \in Extrinsic : e.account \in Signers /\ e.nonce \in Nat
  BY DEF Extrinsic
<1>9. Ahead(back, X)
  <2> SUFFICES ASSUME NEW e \in back PROVE e.nonce >= NonceAfter(X, e.account)
    BY DEF Ahead
  <2>1. e.account \in Signers /\ e.nonce \in Nat
    BY <1>6, <1>8
  <2>2. CASE e \in gone
    BY <1>7, <2>2
  <2>3. CASE e \in mempool
    <3>1. e.nonce >= NonceAfter(Y, e.account)
      BY <1>5, <2>3 DEF Ahead
    <3> QED BY <1>7, <2>1, <3>1
  <2> QED BY <2>2, <2>3
<1>10. Distinct(back)
  <2> SUFFICES ASSUME NEW e \in back, NEW d \in back, e.account = d.account, e.nonce = d.nonce
               PROVE  e = d
    BY DEF Distinct
  <2>1. e.account \in Signers /\ e.nonce \in Nat
    BY <1>6, <1>8
  <2> DEFINE y == NonceAfter(Y, e.account)
  <2>2. y \in Nat /\ Numbered(Y, e.account, y)
    BY <1>5, <2>1 DEF Contiguous
  <2>3. \A x \in {e, d} : x \in gone => x \in Y /\ x.nonce < y
    BY <1>7
  <2>4. \A x \in {e, d} : x \in mempool => x.nonce >= y
    BY <1>5 DEF Ahead
  <2> HIDE DEF y
  <2>5. CASE e \in mempool /\ d \in mempool
    BY <1>5, <2>5 DEF Distinct
  <2>6. CASE e \in gone /\ d \in gone
    BY <2>2, <2>3, <2>6 DEF Numbered, At
  <2>7. CASE (e \in gone /\ d \in mempool) \/ (e \in mempool /\ d \in gone)
    BY <2>1, <2>2, <2>3, <2>4, <2>7
  <2> QED BY <2>5, <2>6, <2>7
<1>11. \A e \in Y : e.nonce >= NonceAfter(X, e.account) => e \in back \/ e.account \in leaked'
  BY <1>3, <1>7
<1>12. mempool \subseteq back /\ leaked \subseteq leaked'
  BY <1>3
<1> HIDE DEF back
<1> QED BY <1>1, <1>3, <1>4, <1>6, <1>9, <1>10, <1>11, <1>12, NoncesHead DEF X, Y, K

\* An extrinsic leaves the node's pool: its account has lost a nonce, or a
\* failure to recover from.
LEMMA NoncesLost ==
  ASSUME Typed, NoncesInv, NEW e \in mempool, Drop(e) \/ Invalidate(e)
  PROVE  NoncesInv'
<1>1. mempool' = mempool \ {e} /\ UNCHANGED <<signers, fork, buried, overlapped>>
      /\ leaked \subseteq leaked'
  BY DEF Drop, Invalidate
<1>2. e \in Extrinsic
  BY DEF Typed, TypeOK
<1>3. \/ tx' = tx /\ e.account \in leaked'
      \/ /\ e.tx \in Phase("sent") /\ e = ExtrinsicOf(e.tx)
         /\ tx' = Fails({e.tx}, TRUE)
  BY DEF Drop, Invalidate
<1>4. /\ \A u \in Txs : tx'[u] = tx[u] \/ tx'[u].phase = "recover"
      /\ \A u \in Txs : tx[u].phase \in {"queued", "recover"} => tx'[u] = tx[u]
      /\ \/ e.account \in leaked'
         \/ e.tx \in Txs /\ tx'[e.tx].phase = "recover" /\ tx'[e.tx].account = e.account
  <2>1. CASE tx' = tx /\ e.account \in leaked'
    BY <2>1
  <2>2. CASE e.tx \in Phase("sent") /\ e = ExtrinsicOf(e.tx) /\ tx' = Fails({e.tx}, TRUE)
    <3> DEFINE t == e.tx
    <3>1. t \in Txs /\ tx[t].phase = "sent" /\ {t} \in SUBSET Txs
      BY <2>2 DEF Phase
    <3>2. e.account = tx[t].account
      BY <2>2 DEF ExtrinsicOf
    <3> HIDE DEF t
    <3>3. \A u \in Txs : /\ u \in {t} => tx'[u] = Settled(tx[u].account, TRUE)
                         /\ u \notin {t} => tx'[u] = tx[u]
      BY <2>2, <3>1, FailsSpares DEF t
    <3>4. tx'[t] = Settled(e.account, TRUE)
      BY <3>1, <3>2, <3>3
    <3>6. tx'[t].phase = "recover" /\ tx'[t].account = e.account
      BY <3>4 DEF Settled
    <3>5. \A u \in Txs : tx'[u] = tx[u] \/ u = t
      BY <3>3
    <3> QED BY <3>1, <3>5, <3>6 DEF t
  <2> QED BY <1>3, <2>1, <2>2
<1>5. \A u \in Pending' : Keeps(u)
  <2> SUFFICES ASSUME NEW u \in Pending' PROVE Keeps(u)
    OBVIOUS
  <2>1. u \in Txs /\ tx'[u].phase \in {"queued", "sent"}
    BY DEF Pending, Phase
  <2>2. tx'[u] = tx[u]
    BY <1>4, <2>1
  <2> QED BY <2>1, <2>2 DEF Keeps, Pending, Phase
<1>6. NoncesBehind' /\ ReuseNeedsReset'
  BY <1>1, <1>5, BehindKept DEF NoncesInv, signers
<1>7. ChainHolds' /\ \A k : Upto(k)' = Upto(k)
  <2>1. fork' = fork /\ buried' = buried
    BY <1>1
  <2>2. \A k : Upto(k)' = Upto(k)
    BY <2>1 DEF Upto
  <2>3. \A k \in 0..Depth : Contiguous(Upto(k)')
    BY <2>2 DEF NoncesInv, ChainHolds
  <2>4. \A j \in 1..Depth : \A d \in fork'[j] : d \notin Upto(j - 1)'
    BY <2>1, <2>2 DEF NoncesInv, ChainHolds
  <2> QED BY <2>2, <2>3, <2>4 DEF ChainHolds
<1>8. MempoolHolds'
  <2>1. Distinct(mempool') /\ Ahead(mempool', Upto(Depth)')
    BY <1>1, <1>7 DEF NoncesInv, MempoolHolds, Distinct, Ahead
  <2> QED BY <2>1 DEF MempoolHolds, Distinct, Ahead
<1>9. ASSUME NEW a \in Signers, InOrder(a)' PROVE Filled(a)'
  <2>1. InPool(a, pool') /\ a \notin leaked' /\ \A u \in Phase("recover")' : tx'[u].account # a
    BY <1>9 DEF InOrder, InPool
  <2>2. a # e.account
    BY <1>4, <2>1 DEF Phase
  <2>3. InOrder(a)
    BY <1>1, <1>4, <2>1 DEF InOrder, InPool, Phase, signers
  <2>4. ASSUME NEW m \in Nat, Holds(mempool, a, m) PROVE Holds(mempool', a, m)
    BY <1>1, <2>2, <2>4 DEF Holds
  <2>5. ASSUME NEW m \in Nat, QueuedWith(a, m) PROVE QueuedWith(a, m)'
    <3>1. PICK u \in Phase("queued") : tx[u].account = a /\ tx[u].nonce = m
      BY <2>5 DEF QueuedWith
    <3>2. u \in Txs /\ tx[u].phase = "queued" /\ tx'[u] = tx[u]
      BY <1>4, <3>1 DEF Phase
    <3>3. u \in Phase("queued")'
      BY <3>2 DEF Phase
    <3> QED BY <3>1, <3>2, <3>3 DEF QueuedWith
  <2>6. OnChain(a) \in Nat /\ nonceByAccount[a] \in Nat
    BY NonceIsCounted DEF Typed, TypeOK
  <2>7. OnChain(a)' = OnChain(a) /\ nonceByAccount'[a] = nonceByAccount[a]
    BY <1>1 DEF OnChain, NonceAfter, InBlocks, signers
  <2> QED BY <2>3, <2>4, <2>5, <2>6, <2>7, FilledKept DEF NoncesInv
<1>10. NoGap'
  BY <1>9 DEF NoGap, Filled
<1> QED BY <1>6, <1>7, <1>8, <1>10 DEF NoncesInv

\* A transaction is sent: its nonce goes from the queue to the pool, where it
\* takes the place of its rivals.
LEMMA NoncesSend ==
  ASSUME Typed, NoncesInv, NEW t \in Txs, signAndSend(t)
  PROVE  NoncesInv'
<1> DEFINE usurped == {u \in Phase("sent") : ExtrinsicOf(u) \in Rivals(t)}
           F == Fails(usurped, FALSE)
           x == ExtrinsicOf(t)
           s == Sent(tx[t].account, tx[t].nonce)
<1>1. /\ t \in Phase("queued") /\ tx[t].nonce >= OnChain(tx[t].account)
      /\ mempool' = (mempool \ Rivals(t)) \cup {x} /\ tx' = [F EXCEPT ![t] = s]
      /\ UNCHANGED <<signers, fork, buried, overlapped, leaked>>
  BY DEF signAndSend, MaySend, hist
<1>2. t \in Pending /\ tx[t].phase = "queued"
  BY <1>1 DEF Pending, Phase
<1>3. tx \in [Txs -> TxTypes] /\ tx[t].account \in Signers /\ tx[t].nonce \in Nat
  BY <1>2, PendingTypes DEF Typed, TypeOK
<1>4. x.account = tx[t].account /\ x.nonce = tx[t].nonce
  BY DEF ExtrinsicOf
<1>5. s.phase = "sent" /\ s.account = tx[t].account /\ s.nonce = tx[t].nonce
  BY DEF Sent
<1>6. /\ tx'[t] = s
      /\ \A u \in Txs : u # t => tx'[u] = tx[u] \/ (tx[u].phase = "sent" /\ tx'[u].phase = "recover")
  <2>1. usurped \in SUBSET Txs /\ DOMAIN F = Txs /\ \A u \in usurped : tx[u].phase = "sent"
    BY DEF Phase, Fails
  <2> HIDE DEF usurped
  <2>2. \A u \in Txs : /\ u \in usurped => F[u] = Settled(tx[u].account, FALSE)
                       /\ u \notin usurped => F[u] = tx[u]
    BY <2>1 DEF Fails
  <2>3. \A u \in Txs : F[u] = tx[u] \/ (tx[u].phase = "sent" /\ F[u].phase = "recover")
    <3> HIDE DEF F
    <3>1. ASSUME NEW u \in usurped PROVE F[u].phase = "recover"
      <4>1. F[u] = Settled(tx[u].account, FALSE)
        BY <2>1, <2>2, <3>1, Zenon
      <4> QED BY <4>1, PhasesMade, Zenon
    <3>2. ASSUME NEW u \in usurped PROVE u \in Txs /\ tx[u].phase = "sent"
      BY <2>1, Zenon
    <3>3. ASSUME NEW u \in Txs, u \notin usurped PROVE F[u] = tx[u]
      BY <2>2, <3>3, Zenon
    <3> QED BY <3>1, <3>2, <3>3, Zenon
  <2> HIDE DEF F, s
  <2>4. \A u \in Txs : IF u = t THEN tx'[u] = s ELSE tx'[u] = F[u]
    BY <1>1, <2>1
  <2> QED BY <2>3, <2>4
<1> HIDE DEF F, s, x, usurped
<1>7. \A u \in Pending' : Keeps(u)
  <2> SUFFICES ASSUME NEW u \in Pending' PROVE Keeps(u)
    OBVIOUS
  <2>1. u \in Txs /\ tx'[u].phase \in {"queued", "sent"}
    BY DEF Pending, Phase
  <2>2. CASE u = t
    BY <1>2, <1>5, <1>6, <2>2 DEF Keeps
  <2>3. CASE u # t
    <3>1. tx'[u] = tx[u]
      BY <1>6, <2>1, <2>3
    <3> QED BY <2>1, <3>1 DEF Keeps, Pending, Phase
  <2> QED BY <2>2, <2>3
<1>8. NoncesBehind' /\ ReuseNeedsReset'
  BY <1>1, <1>7, BehindKept DEF NoncesInv, signers
<1>9. ChainHolds' /\ \A k : Upto(k)' = Upto(k)
  <2>1. fork' = fork /\ buried' = buried
    BY <1>1
  <2>2. \A k : Upto(k)' = Upto(k)
    BY <2>1 DEF Upto
  <2>3. \A k \in 0..Depth : Contiguous(Upto(k)')
    BY <2>2 DEF NoncesInv, ChainHolds
  <2>4. \A j \in 1..Depth : \A d \in fork'[j] : d \notin Upto(j - 1)'
    BY <2>1, <2>2 DEF NoncesInv, ChainHolds
  <2> QED BY <2>2, <2>3, <2>4 DEF ChainHolds
<1>10. Rivals(t) = {e \in mempool : e.account = x.account /\ e.nonce = x.nonce}
  BY <1>4 DEF Rivals
<1>11. MempoolHolds'
  <2>1. Distinct(mempool) /\ Ahead(mempool, Upto(Depth))
    BY DEF NoncesInv, MempoolHolds
  <2>2. x.nonce >= NonceAfter(Upto(Depth), x.account)
    BY <1>1, <1>4, UptoTyped
  <2>3. Distinct(mempool')
    BY <1>1, <1>10, <2>1 DEF Distinct
  <2>4. Ahead(mempool', Upto(Depth)')
    BY <1>1, <1>9, <2>1, <2>2 DEF Ahead
  <2> QED BY <2>3, <2>4 DEF MempoolHolds, Distinct, Ahead
<1>12. ASSUME NEW a \in Signers, InOrder(a)' PROVE Filled(a)'
  <2>1. InPool(a, pool') /\ a \notin leaked' /\ \A u \in Phase("recover")' : tx'[u].account # a
    BY <1>12 DEF InOrder, InPool
  <2>2. InOrder(a)
    <3>1. InPool(a, pool) /\ a \notin leaked
      BY <1>1, <2>1 DEF signers
    <3>2. ASSUME NEW u \in Phase("recover") PROVE tx[u].account # a
      <4>1. u \in Txs /\ tx[u].phase = "recover" /\ u # t
        BY <1>2 DEF Phase
      <4>2. tx'[u] = tx[u]
        BY <1>6, <4>1
      <4>3. u \in Phase("recover")'
        BY <4>1, <4>2 DEF Phase
      <4> QED BY <2>1, <4>2, <4>3
    <3> QED BY <3>1, <3>2 DEF InOrder
  <2>3. ASSUME NEW m \in Nat, Holds(mempool, a, m) PROVE Holds(mempool', a, m)
    <3>1. PICK e \in mempool : e.account = a /\ e.nonce = m
      BY <2>3 DEF Holds
    <3>2. CASE e \in Rivals(t)
      BY <1>1, <1>10, <3>1, <3>2 DEF Holds
    <3>3. CASE e \notin Rivals(t)
      BY <1>1, <3>1, <3>3 DEF Holds
    <3> QED BY <3>2, <3>3
  <2>4. ASSUME NEW m \in Nat, QueuedWith(a, m) PROVE Holds(mempool', a, m) \/ QueuedWith(a, m)'
    <3>1. PICK u \in Phase("queued") : tx[u].account = a /\ tx[u].nonce = m
      BY <2>4 DEF QueuedWith
    <3>2. CASE u = t
      BY <1>1, <1>4, <3>1, <3>2 DEF Holds
    <3>3. CASE u # t
      <4>1. u \in Txs /\ tx[u].phase = "queued"
        BY DEF Phase
      <4>2. tx'[u] = tx[u]
        BY <1>6, <3>3, <4>1
      <4>3. u \in Phase("queued")'
        BY <4>1, <4>2 DEF Phase
      <4> QED BY <3>1, <4>2, <4>3 DEF QueuedWith
    <3> QED BY <3>2, <3>3
  <2>5. OnChain(a) \in Nat /\ nonceByAccount[a] \in Nat
    BY NonceIsCounted DEF Typed, TypeOK
  <2>6. OnChain(a)' = OnChain(a) /\ nonceByAccount'[a] = nonceByAccount[a]
    BY <1>1 DEF OnChain, NonceAfter, InBlocks, signers
  <2> QED BY <2>2, <2>3, <2>4, <2>5, <2>6, FilledKept DEF NoncesInv
<1>13. NoGap'
  BY <1>12 DEF NoGap, Filled
<1> QED BY <1>8, <1>9, <1>11, <1>13 DEF NoncesInv

\* One transaction changes, and is not on its way after that.
LEMMA OneSettles ==
  ASSUME tx \in [Txs -> TxTypes], NEW t \in Txs, NEW x, x.phase \notin {"queued", "sent"},
         tx' = [tx EXCEPT ![t] = x]
  PROVE  /\ \A u \in Pending' : Keeps(u)
         /\ \A u \in Txs : u # t => tx'[u] = tx[u]
         /\ tx'[t] = x
<1>1. tx'[t] = x /\ \A u \in Txs : u # t => tx'[u] = tx[u]
  OBVIOUS
<1>2. ASSUME NEW u \in Pending' PROVE Keeps(u)
  <2>1. u \in Txs /\ tx'[u].phase \in {"queued", "sent"}
    BY DEF Pending, Phase
  <2>2. tx'[u] = tx[u]
    BY <1>1, <2>1
  <2> QED BY <2>1, <2>2 DEF Keeps, Pending, Phase
<1> QED BY <1>1, <1>2

\* The nonces of the accounts of S are read again, for a failure of one of them.
LEMMA NoncesReset ==
  ASSUME Typed, NoncesInv, NEW S \in SUBSET Signers, Reset(S), UNCHANGED chain,
         NEW t \in Phase("recover"), tx[t].account \in S, tx' = [tx EXCEPT ![t] = Failed],
         \A a : InPool(a, pool') => InPool(a, pool) \/ a \in S
  PROVE  NoncesInv'
<1>1. t \in Txs /\ tx[t].phase = "recover" /\ tx \in [Txs -> TxTypes]
  BY DEF Phase, Typed, TypeOK
<1>2. (\A u \in Pending' : Keeps(u)) /\ \A u \in Txs : u # t => tx'[u] = tx[u]
  BY <1>1, OneSettles, PhasesMade
<1>3. /\ \A a \in Signers : nonceByAccount'[a] = IF a \in S THEN getOnChainNonce(a) ELSE nonceByAccount[a]
      /\ overlapped' = overlapped \cup {u \in Pending : tx[u].account \in S}
      /\ leaked' = leaked \ S
  BY DEF Reset
<1>4. ChainHolds' /\ MempoolHolds' /\ (\A a : OnChain(a)' = OnChain(a))
      /\ \A a, m : Holds(mempool', a, m) <=> Holds(mempool, a, m)
  BY ChainKept
<1>5. NoncesBehind' /\ ReuseNeedsReset'
  <2>1. ASSUME NEW u \in Pending' \ overlapped'
        PROVE  nonceByAccount'[tx[u].account] = nonceByAccount[tx[u].account]
    <3>1. u \in Pending /\ tx[u].account \notin S
      BY <1>2, <1>3 DEF Keeps
    <3>2. tx[u].account \in Signers
      BY <1>1, <3>1, PendingTypes
    <3> QED BY <1>3, <3>1, <3>2
  <2> QED BY <1>2, <1>3, <2>1, BehindKept DEF NoncesInv
<1>6. ASSUME NEW a \in Signers, InOrder(a)' PROVE Filled(a)'
  <2>1. CASE a \in S
    BY <1>3, <2>1, FilledByReset
  <2>2. CASE a \notin S
    <3>1. InPool(a, pool') /\ a \notin leaked' /\ \A u \in Phase("recover")' : tx'[u].account # a
      BY <1>6 DEF InOrder, InPool
    <3>2. InOrder(a)
      <4>1. InPool(a, pool) /\ a \notin leaked
        BY <1>3, <2>2, <3>1
      <4>2. ASSUME NEW u \in Phase("recover") PROVE tx[u].account # a
        <5>1. CASE u = t
          BY <2>2, <5>1
        <5>2. CASE u # t
          <6>1. u \in Txs /\ tx[u].phase = "recover" /\ tx'[u] = tx[u]
            BY <1>2, <5>2 DEF Phase
          <6>2. u \in Phase("recover")'
            BY <6>1 DEF Phase
          <6> QED BY <3>1, <6>1, <6>2
        <5> QED BY <5>1, <5>2
      <4> QED BY <4>1, <4>2 DEF InOrder
    <3>3. ASSUME NEW m \in Nat, QueuedWith(a, m) PROVE QueuedWith(a, m)'
      <4>1. PICK u \in Phase("queued") : tx[u].account = a /\ tx[u].nonce = m
        BY <3>3 DEF QueuedWith
      <4>2. u \in Txs /\ tx[u].phase = "queued" /\ u # t
        BY <1>1 DEF Phase
      <4>3. tx'[u] = tx[u]
        BY <1>2, <4>2
      <4>4. u \in Phase("queued")'
        BY <4>2, <4>3 DEF Phase
      <4> QED BY <4>1, <4>3, <4>4 DEF QueuedWith
    <3>4. OnChain(a) \in Nat /\ nonceByAccount[a] \in Nat
      BY NonceIsCounted DEF Typed, TypeOK
    <3>5. \A m \in Nat : Holds(mempool, a, m) \/ QueuedWith(a, m)
                           => Holds(mempool', a, m) \/ QueuedWith(a, m)'
      BY <1>4, <3>3
    <3>6. OnChain(a)' = OnChain(a) /\ nonceByAccount'[a] = nonceByAccount[a]
      BY <1>3, <1>4, <2>2
    <3> QED BY <3>2, <3>4, <3>5, <3>6, FilledKept DEF NoncesInv
  <2> QED BY <2>1, <2>2
<1>7. NoGap'
  BY <1>6 DEF NoGap, Filled
<1> QED BY <1>4, <1>5, <1>7 DEF NoncesInv

LEMMA NoncesRecover ==
  ASSUME Typed, NoncesInv, NEW t \in Txs, recover(t) \/ recoverFails(t)
  PROVE  NoncesInv'
<1> DEFINE a == tx[t].account
<1>0. tx \in [Txs -> TxTypes] /\ pool \in PoolType /\ t \in Phase("recover") /\ tx[t].phase = "recover"
  BY DEF Typed, TypeOK, PoolType, recover, recoverFails, Phase
<1>1. a \in Signers
  <2>1. tx[t] \in RecoverType
    BY <1>0, TxByPhase
  <2> QED BY <2>1 DEF RecoverType
<1>2. tx' = [tx EXCEPT ![t] = Failed] /\ UNCHANGED chain
  BY DEF recover, recoverFails
<1>3. (\A u \in Pending' : Keeps(u)) /\ \A u \in Txs : u # t => tx'[u] = tx[u]
  BY <1>0, <1>2, OneSettles, PhasesMade
<1>4. ASSUME UNCHANGED <<nonceByAccount, overlapped>>, leaked \subseteq leaked',
             \A b : InPool(b, pool') => InPool(b, pool) \/ b \in leaked',
             a \in leaked' \/ ~InPool(a, pool')
      PROVE  NoncesInv'
  <2>1. ASSUME NEW u \in Phase("recover")
        PROVE  \/ u \in Phase("recover")' /\ tx'[u].account = tx[u].account
               \/ tx[u].account \in leaked' \/ ~InPool(tx[u].account, pool')
    <3>1. CASE u = t
      BY <1>4, <3>1
    <3>2. CASE u # t
      BY <1>3, <3>2 DEF Phase
    <3> QED BY <3>1, <3>2
  <2>2. ASSUME NEW u \in Phase("queued") PROVE u \in Phase("queued")'
    <3>1. u \in Txs /\ tx[u].phase = "queued" /\ u # t
      BY <1>0 DEF Phase
    <3>2. tx'[u] = tx[u]
      BY <1>3, <3>1
    <3> QED BY <3>1, <3>2 DEF Phase
  <2> HIDE DEF a
  <2> QED BY <1>2, <1>3, <1>4, <2>1, <2>2, NoncesByTx
<1>5. CASE recover(t)
  <2>1. CASE pool' = Without(a) /\ UNCHANGED <<nonceByAccount, overlapped, leaked>>
    <3>1. \A b : InPool(b, Without(a)) => InPool(b, pool) /\ b # a
      BY <1>0, WithoutPool
    <3> QED BY <1>4, <2>1, <3>1
  <2>2. CASE pool' = Accounts /\ Reset(Signers)
    <3>1. \A b : InPool(b, pool') => InPool(b, pool) \/ b \in Signers
      BY <2>2 DEF InPool, Signers
    <3> QED BY <1>0, <1>1, <1>2, <2>2, <3>1, NoncesReset
  <2>3. CASE pool' = With(a) /\ Reset({a})
    <3>1. {a} \in SUBSET Signers
      BY <1>1
    <3>2. \A b : InPool(b, pool') => InPool(b, pool) \/ b \in {a}
      <4>1. \A b : InPool(b, With(a)) => InPool(b, pool) \/ b = a
        BY <1>0, <1>1, WithPool
      <4> QED BY <2>3, <4>1
    <3> QED BY <1>0, <1>2, <2>3, <3>1, <3>2, NoncesReset
  <2> QED BY <1>5, <2>1, <2>2, <2>3 DEF recover
<1>6. CASE recoverFails(t)
  <2>1. UNCHANGED <<nonceByAccount, overlapped>>
    BY <1>6 DEF recoverFails
  <2>2. CASE pool' = <<>> /\ UNCHANGED leaked
    <3>1. \A b : ~InPool(b, pool')
      BY <2>2 DEF InPool
    <3> QED BY <1>4, <2>1, <2>2, <3>1
  <2>3. CASE pool' = With(a) /\ leaked' = leaked \cup {a}
    <3>1. \A b : InPool(b, With(a)) => InPool(b, pool) \/ b = a
      BY <1>0, <1>1, WithPool
    <3> QED BY <1>4, <2>1, <2>3, <3>1
  <2> QED BY <1>6, <2>2, <2>3 DEF recoverFails
<1> QED BY <1>5, <1>6

\* A registration takes the next nonce of its account.
LEMMA NoncesRegister ==
  ASSUME Typed, NoncesInv, NEW t \in Txs, registerTransaction(t)
  PROVE  NoncesInv'
<1> DEFINE a == TakenFrom(PoolSeen)
           N == NoncesSeen
           x == IF Doomed(CallOf(t)) THEN Failed ELSE Queued(a, N[a])
<1>0. tx \in [Txs -> TxTypes] /\ nonceByAccount \in [Signers -> Nat]
  BY DEF Typed, TypeOK
<1>1. /\ pool' = PoolSeen /\ a \in Signers /\ N \in [Signers -> Nat]
      /\ nonceByAccount' = [N EXCEPT ![a] = @ + 1]
      /\ tx[t].phase = "register" /\ tx' = [tx EXCEPT ![t] = x]
      /\ leaked' = (IF pool = <<>> THEN {} ELSE leaked) \cup (IF Doomed(CallOf(t)) THEN {a} ELSE {})
      /\ overlapped' = (overlapped \cup (IF pool = <<>> THEN Pending ELSE {})) \ {t}
      /\ UNCHANGED chain
  BY Registers
<1>2. \/ x.phase = "failed" /\ a \in leaked'
      \/ x.phase = "queued" /\ x.account = a /\ x.nonce = N[a]
  <2>1. CASE Doomed(CallOf(t))
    BY <1>1, <2>1, PhasesMade
  <2>2. CASE ~Doomed(CallOf(t))
    <3>1. x = Queued(a, N[a])
      BY <2>2
    <3> QED BY <3>1 DEF Queued
  <2> QED BY <2>1, <2>2
<1>3. \A b \in Signers : N[b] = IF pool = <<>> THEN getOnChainNonce(b) ELSE nonceByAccount[b]
  BY DEF NoncesSeen
<1> HIDE DEF a, N, x
<1>4. tx'[t] = x /\ \A u \in Txs : u # t => tx'[u] = tx[u]
  BY <1>0, <1>1
<1>5. nonceByAccount'[a] = N[a] + 1 /\ N[a] \in Nat
      /\ \A b \in Signers : N[b] \in Nat /\ N[b] <= nonceByAccount'[b] /\ (b # a => nonceByAccount'[b] = N[b])
  BY <1>1
<1>6. ChainHolds' /\ MempoolHolds' /\ (\A b : OnChain(b)' = OnChain(b))
      /\ \A b, m : Holds(mempool', b, m) <=> Holds(mempool, b, m)
  BY <1>1, ChainKept
<1>7. ASSUME NEW u \in Pending', u # t
      PROVE  /\ u \in Pending /\ tx'[u] = tx[u] /\ tx[u].account \in Signers /\ tx[u].nonce \in Nat
             /\ u \notin overlapped' =>
                  /\ pool # <<>> /\ u \notin overlapped /\ tx[u].nonce < N[tx[u].account]
  <2>1. u \in Txs /\ tx'[u].phase \in {"queued", "sent"}
    BY DEF Pending, Phase
  <2>2. tx'[u] = tx[u] /\ u \in Pending
    BY <1>4, <1>7, <2>1 DEF Pending, Phase
  <2>3. tx[u].account \in Signers /\ tx[u].nonce \in Nat
    BY <1>0, <2>2, PendingTypes
  <2>4. ASSUME u \notin overlapped' PROVE pool # <<>> /\ u \notin overlapped
    BY <1>1, <1>7, <2>2, <2>4
  <2>5. ASSUME u \notin overlapped' PROVE tx[u].nonce < N[tx[u].account]
    <3>1. tx[u].nonce < nonceByAccount[tx[u].account]
      BY <2>2, <2>4, <2>5 DEF NoncesInv, NoncesBehind
    <3>2. N[tx[u].account] = nonceByAccount[tx[u].account]
      BY <1>3, <2>3, <2>4, <2>5
    <3> QED BY <3>1, <3>2
  <2> QED BY <2>2, <2>3, <2>4, <2>5
<1>8. t \in Pending' => tx'[t].account = a /\ tx'[t].nonce = N[a]
  <2>1. t \in Pending' => x.phase # "failed"
    BY <1>4 DEF Pending, Phase
  <2> QED BY <1>2, <1>4, <2>1
<1>9. NoncesBehind'
  <2> SUFFICES ASSUME NEW u \in Pending' \ overlapped'
               PROVE  tx'[u].nonce < nonceByAccount'[tx'[u].account]
    BY DEF NoncesBehind
  <2>1. CASE u = t
    BY <1>5, <1>8, <2>1
  <2>2. CASE u # t
    <3>1. tx'[u] = tx[u] /\ tx[u].nonce < N[tx[u].account] /\ tx[u].account \in Signers /\ tx[u].nonce \in Nat
      BY <1>7, <2>2
    <3>2. N[tx[u].account] \in Nat /\ nonceByAccount'[tx[u].account] \in Nat
          /\ N[tx[u].account] <= nonceByAccount'[tx[u].account]
      BY <1>1, <1>5, <3>1
    <3> QED BY <3>1, <3>2
  <2> QED BY <2>1, <2>2
<1>10. ReuseNeedsReset'
  <2>1. ASSUME NEW u \in Pending', u # t, t \in Pending', tx'[u].account = tx'[t].account,
               tx'[u].nonce = tx'[t].nonce
        PROVE  u \in overlapped'
    <3> SUFFICES ASSUME u \notin overlapped' PROVE FALSE
      OBVIOUS
    <3>1. tx[u].nonce < N[tx[u].account] /\ tx'[u] = tx[u] /\ tx[u].nonce \in Nat
      BY <1>7, <2>1
    <3>2. tx[u].account = a /\ tx[u].nonce = N[a]
      BY <1>8, <2>1, <3>1
    <3> QED BY <1>5, <3>1, <3>2
  <2>2. ASSUME NEW u \in Pending', NEW w \in Pending', u # t, w # t, u # w,
               tx'[u].account = tx'[w].account, tx'[u].nonce = tx'[w].nonce
        PROVE  {u, w} \cap overlapped' # {}
    <3>1. u \in Pending /\ w \in Pending /\ tx'[u] = tx[u] /\ tx'[w] = tx[w]
      BY <1>7, <2>2
    <3>2. {u, w} \cap overlapped # {}
      BY <2>2, <3>1 DEF NoncesInv, ReuseNeedsReset
    <3> QED BY <1>1, <2>2, <3>2
  <2>3. ASSUME NEW u \in Pending', NEW w \in Pending', u # w,
               tx'[u].account = tx'[w].account, tx'[u].nonce = tx'[w].nonce
        PROVE  {u, w} \cap overlapped' # {}
    BY <2>1, <2>2, <2>3
  <2> QED BY <2>3 DEF ReuseNeedsReset
<1>11. ASSUME NEW b \in Signers, InOrder(b)' PROVE Filled(b)'
  <2>1. InPool(b, pool') /\ b \notin leaked' /\ \A u \in Phase("recover")' : tx'[u].account # b
    BY <1>11 DEF InOrder, InPool
  <2>2. \A m \in OnChain(b)..(N[b] - 1) : Holds(mempool, b, m) \/ QueuedWith(b, m)
    <3>1. CASE pool = <<>>
      <4>1. N[b] = getOnChainNonce(b)
        BY <1>3, <3>1
      <4>2. FirstFree(mempool, b, OnChain(b), getOnChainNonce(b))
        BY NonceIsRead
      <4> QED BY <4>1, <4>2 DEF FirstFree
    <3>2. CASE pool # <<>>
      <4>1. pool' = pool /\ b \notin leaked /\ N[b] = nonceByAccount[b]
        BY <1>1, <1>3, <2>1, <3>2 DEF PoolSeen
      <4>2. ASSUME NEW u \in Phase("recover") PROVE tx[u].account # b
        <5>1. u \in Txs /\ tx[u].phase = "recover" /\ u # t
          BY <1>1 DEF Phase
        <5>2. tx'[u] = tx[u]
          BY <1>4, <5>1
        <5>3. u \in Phase("recover")'
          BY <5>1, <5>2 DEF Phase
        <5> QED BY <2>1, <5>2, <5>3
      <4>3. InOrder(b)
        BY <2>1, <4>1, <4>2 DEF InOrder
      <4> QED BY <4>1, <4>3 DEF NoncesInv, NoGap
    <3> QED BY <3>1, <3>2
  <2>3. ASSUME NEW m, QueuedWith(b, m) PROVE QueuedWith(b, m)'
    <3>1. PICK u \in Phase("queued") : tx[u].account = b /\ tx[u].nonce = m
      BY <2>3 DEF QueuedWith
    <3>2. u \in Txs /\ tx[u].phase = "queued" /\ u # t
      BY <1>1 DEF Phase
    <3>3. tx'[u] = tx[u]
      BY <1>4, <3>2
    <3>4. u \in Phase("queued")'
      BY <3>2, <3>3 DEF Phase
    <3> QED BY <3>1, <3>3, <3>4 DEF QueuedWith
  <2>4. ASSUME NEW m, m = N[a], b = a PROVE QueuedWith(b, m)'
    <3>1. x.phase = "queued" /\ x.account = b /\ x.nonce = m
      BY <1>2, <2>1, <2>4
    <3>2. t \in Phase("queued")' /\ tx'[t].account = b /\ tx'[t].nonce = m
      BY <1>4, <3>1 DEF Phase
    <3> QED BY <3>2 DEF QueuedWith
  <2>6. OnChain(b) \in Nat /\ OnChain(b)' = OnChain(b) /\ N[b] \in Nat
    BY <1>5, <1>6, NonceIsCounted
  <2>7. ASSUME NEW m \in OnChain(b)..(nonceByAccount'[b] - 1)
        PROVE  Holds(mempool', b, m) \/ QueuedWith(b, m)'
    <3>1. CASE m \in OnChain(b)..(N[b] - 1)
      BY <1>6, <2>2, <2>3, <3>1
    <3>2. CASE m \notin OnChain(b)..(N[b] - 1)
      <4>1. b = a /\ m = N[a]
        BY <1>5, <2>6, <3>2
      <4> QED BY <2>4, <4>1
    <3> QED BY <3>1, <3>2
  <2> QED BY <2>6, <2>7 DEF Filled, Holds
<1>12. NoGap'
  BY <1>11 DEF NoGap, Filled
<1> QED BY <1>6, <1>9, <1>10, <1>12 DEF NoncesInv

\* Failures are to be recovered from.
LEMMA NoncesFails ==
  ASSUME Typed, NoncesInv, UNCHANGED <<signers, chain, hist>>, NEW S \in SUBSET Pending,
         NEW invalid, tx' = Fails(S, invalid)
  PROVE  NoncesInv'
<1>0. S \in SUBSET Txs /\ \A u \in S : tx[u].phase \in {"queued", "sent"}
  BY DEF Pending, Phase
<1>1. \A u \in Txs : /\ u \in S => tx'[u] = Settled(tx[u].account, invalid)
                     /\ u \notin S => tx'[u] = tx[u]
  BY <1>0, FailsSpares
<1>2. \A u \in S : tx'[u].phase = "recover" /\ tx'[u].account = tx[u].account
  <2> SUFFICES ASSUME NEW u \in S PROVE tx'[u].phase = "recover" /\ tx'[u].account = tx[u].account
    OBVIOUS
  <2>1. tx'[u] = Settled(tx[u].account, invalid)
    BY <1>0, <1>1
  <2> QED BY <2>1 DEF Settled
<1>3. ASSUME NEW u \in Pending' PROVE Keeps(u)
  <2>1. u \in Txs /\ tx'[u].phase \in {"queued", "sent"}
    BY DEF Pending, Phase
  <2>2. tx'[u] = tx[u]
    BY <1>1, <1>2, <2>1
  <2> QED BY <2>1, <2>2 DEF Keeps, Pending, Phase
<1>4. ASSUME NEW u \in Phase("recover")
      PROVE  u \in Phase("recover")' /\ tx'[u].account = tx[u].account
  <2>1. u \in Txs /\ tx[u].phase = "recover" /\ u \notin S
    BY <1>0 DEF Phase
  <2>2. tx'[u] = tx[u]
    BY <1>1, <2>1
  <2> QED BY <2>1, <2>2 DEF Phase
<1>5. ASSUME NEW u \in Phase("queued")
      PROVE  u \in Phase("queued")' \/ (u \in Phase("recover")' /\ tx'[u].account = tx[u].account)
  <2>1. u \in Txs /\ tx[u].phase = "queued"
    BY DEF Phase
  <2>2. CASE u \in S
    BY <1>2, <2>1, <2>2 DEF Phase
  <2>3. CASE u \notin S
    BY <1>1, <2>1, <2>3 DEF Phase
  <2> QED BY <2>2, <2>3
<1>6. UNCHANGED <<chain, nonceByAccount, overlapped>> /\ leaked' = leaked /\ pool' = pool
  BY DEF signers, hist
<1>7. \A a : InPool(a, pool') => InPool(a, pool) \/ a \in leaked'
  BY <1>6
<1>8. leaked \subseteq leaked'
  BY <1>6
<1> QED BY <1>3, <1>4, <1>5, <1>6, <1>7, <1>8, NoncesByTx

\* A step of one transaction that leaves those that are queued or recover.
LEMMA NoncesOther ==
  ASSUME Typed, NoncesInv, UNCHANGED <<signers, chain, hist>>,
         \A u \in Txs : \/ tx'[u] = tx[u]
                        \/ /\ tx[u].phase \notin {"queued", "recover"}
                           /\ tx'[u].phase \notin {"queued", "sent"} \/ Keeps(u)
  PROVE  NoncesInv'
<1>1. ASSUME NEW u \in Pending' PROVE Keeps(u)
  <2>1. u \in Txs /\ tx'[u].phase \in {"queued", "sent"}
    BY DEF Pending, Phase
  <2>2. CASE tx'[u] = tx[u]
    BY <2>1, <2>2 DEF Keeps, Pending, Phase
  <2> QED BY <2>1, <2>2
<1>2. ASSUME NEW u \in Phase("recover")
      PROVE  u \in Phase("recover")' /\ tx'[u].account = tx[u].account
  <2>1. u \in Txs /\ tx[u].phase = "recover"
    BY DEF Phase
  <2>2. tx'[u] = tx[u]
    BY <2>1
  <2> QED BY <2>1, <2>2 DEF Phase
<1>3. ASSUME NEW u \in Phase("queued") PROVE u \in Phase("queued")'
  <2>1. u \in Txs /\ tx[u].phase = "queued"
    BY DEF Phase
  <2>2. tx'[u] = tx[u]
    BY <2>1
  <2> QED BY <2>1, <2>2 DEF Phase
<1>4. UNCHANGED <<chain, nonceByAccount, overlapped>> /\ leaked' = leaked /\ pool' = pool
  BY DEF signers, hist
<1>5. (\A a : InPool(a, pool') => InPool(a, pool) \/ a \in leaked') /\ leaked \subseteq leaked'
  BY <1>4
<1> QED BY <1>1, <1>2, <1>3, <1>4, <1>5, NoncesByTx

LEMMA NoncesFollowing ==
  ASSUME Typed, NoncesInv, NEW t \in Txs,
         \/ t \in Phase("sent") /\ \E b \in tx[t].lookups : targetInclusion(t, b)
         \/ checkConfirmation(t) \/ confirm(t) \/ confirmFails(t) \/ Timeout(t)
  PROVE  NoncesInv'
<1>0. tx \in [Txs -> TxTypes] /\ t \in Phase("sent") /\ tx[t].phase = "sent" /\ t \in Pending
      /\ {t} \in SUBSET Pending
  BY DEF Typed, TypeOK, checkConfirmation, confirm, confirmFails, Timeout, Pending, Phase
<1>1. UNCHANGED <<signers, chain, hist>>
  BY DEF targetInclusion, checkConfirmation, confirm, confirmFails, Timeout
<1>2. tx[t] \in SentType
  BY <1>0, TxByPhase
<1>3. ASSUME \A u \in Txs : u # t => tx'[u] = tx[u],
             \/ tx'[t].phase \notin {"queued", "sent"}
             \/ tx'[t].account = tx[t].account /\ tx'[t].nonce = tx[t].nonce
      PROVE  NoncesInv'
  <2>1. tx'[t].phase \notin {"queued", "sent"} \/ Keeps(t)
    BY <1>0, <1>3 DEF Keeps
  <2>2. \A u \in Txs : \/ tx'[u] = tx[u]
                       \/ /\ tx[u].phase \notin {"queued", "recover"}
                          /\ tx'[u].phase \notin {"queued", "sent"} \/ Keeps(u)
    BY <1>0, <1>3, <2>1
  <2> QED BY <1>1, <2>2, NoncesOther
<1>4. ASSUME NEW c \in Nat, tx' = [tx EXCEPT ![t].checking = c] PROVE NoncesInv'
  BY <1>0, <1>3, <1>4, CheckStep
<1>5. ASSUME NEW b \in tx[t].lookups, targetInclusion(t, b) PROVE NoncesInv'
  BY <1>0, <1>3, <1>5, TargetStep
<1>6. CASE checkConfirmation(t)
  <2>1. tx[t].target.at \in Nat
    BY <1>2 DEF SentType, BlockType
  <2> QED BY <1>4, <1>6, <2>1 DEF checkConfirmation
<1>7. CASE confirmFails(t)
  BY <1>4, <1>7 DEF confirmFails
<1>8. CASE confirm(t)
  <2>1. CASE tx' = [tx EXCEPT ![t].checking = 0]
    BY <1>4, <2>1
  <2>2. CASE tx' = [tx EXCEPT ![t] = Succeeded]
    <3>1. tx'[t] = Succeeded /\ \A u \in Txs : u # t => tx'[u] = tx[u]
      BY <1>0, <2>2
    <3> QED BY <1>3, <3>1, PhasesMade
  <2>3. CASE tx' = Fails({t}, FALSE)
    BY <1>0, <1>1, <2>3, NoncesFails
  <2> QED BY <1>0, <1>8, <2>1, <2>2, <2>3, ConfirmStep
<1>9. CASE Timeout(t)
  BY <1>0, <1>1, <1>9, NoncesFails DEF Timeout
<1> QED BY <1>5, <1>6, <1>7, <1>8, <1>9

LEMMA NoncesSending ==
  ASSUME Typed, NoncesInv, NEW t \in Txs, registerFails(t) \/ signAndSendFails(t)
  PROVE  NoncesInv'
<1>1. CASE signAndSendFails(t)
  <2>1. {t} \in SUBSET Pending /\ UNCHANGED <<signers, chain, hist>> /\ tx' = Fails({t}, FALSE)
    BY <1>1 DEF signAndSendFails, MaySend, Pending
  <2> QED BY <2>1, NoncesFails
<1>2. CASE registerFails(t)
  <2> DEFINE c == CallOf(t) \cap Phase("queued")
  <2>1. /\ tx' = [u \in Txs |-> IF u = t \/ u \in c THEN Failed ELSE tx[u]]
        /\ leaked' = leaked \cup {tx[u].account : u \in c}
        /\ UNCHANGED <<signers, chain, faults, overlapped>> /\ tx[t].phase = "register"
    BY <1>2 DEF registerFails, Phase
  <2>2. \A u \in c : u \in Txs /\ tx[u].phase = "queued" /\ tx[u].account \in leaked'
    BY <2>1 DEF Phase
  <2> HIDE DEF c
  <2>3. \A u \in Txs : IF u = t \/ u \in c THEN tx'[u].phase = "failed" ELSE tx'[u] = tx[u]
    <3>1. \A u \in Txs : IF u = t \/ u \in c THEN tx'[u] = Failed ELSE tx'[u] = tx[u]
      BY <2>1
    <3> QED BY <3>1, PhasesMade
  <2>4. ASSUME NEW u \in Pending' PROVE Keeps(u)
    <3>1. u \in Txs /\ tx'[u].phase \in {"queued", "sent"}
      BY DEF Pending, Phase
    <3>2. tx'[u] = tx[u]
      BY <2>3, <3>1
    <3> QED BY <3>1, <3>2 DEF Keeps, Pending, Phase
  <2>5. ASSUME NEW u \in Phase("recover")
        PROVE  u \in Phase("recover")' /\ tx'[u].account = tx[u].account
    <3>1. u \in Txs /\ tx[u].phase = "recover"
      BY DEF Phase
    <3>2. tx'[u] = tx[u]
      BY <2>1, <2>2, <2>3, <3>1
    <3> QED BY <3>1, <3>2 DEF Phase
  <2>6. ASSUME NEW u \in Phase("queued")
        PROVE  u \in Phase("queued")' \/ tx[u].account \in leaked'
    <3>1. u \in Txs /\ tx[u].phase = "queued"
      BY DEF Phase
    <3>2. CASE u \in c
      BY <2>2, <3>2
    <3>3. CASE u \notin c
      <4>1. tx'[u] = tx[u]
        BY <2>1, <2>3, <3>1, <3>3
      <4> QED BY <3>1, <4>1 DEF Phase
    <3> QED BY <3>2, <3>3
  <2>7. UNCHANGED <<chain, nonceByAccount, overlapped>> /\ pool' = pool
    BY <2>1 DEF signers
  <2>8. leaked \subseteq leaked' /\ \A a : InPool(a, pool') => InPool(a, pool) \/ a \in leaked'
    BY <2>1, <2>7
  <2> QED BY <2>4, <2>5, <2>6, <2>7, <2>8, NoncesByTx
<1> QED BY <1>1, <1>2

LEMMA NoncesNext == Typed /\ NoncesInv /\ [Next]_vars => NoncesInv'
<1> SUFFICES ASSUME Typed, NoncesInv, [Next]_vars PROVE NoncesInv'
  OBVIOUS
<1>0. Typed'
  BY TypedNext
<1>1. ASSUME NEW t \in Txs, Sending(t) PROVE NoncesInv'
  BY <1>1, NoncesRegister, NoncesSending, NoncesSend, NoncesFollowing, NoncesRecover
     DEF Sending, Following
<1>2. ASSUME NEW c \in Calls, submit(c) PROVE NoncesInv'
  <2>1. /\ tx' = [t \in Txs |-> IF t \in c THEN [phase |-> "register"] ELSE tx[t]]
        /\ UNCHANGED <<signers, chain, faults, hist>>
    BY <1>2 DEF submit
  <2>2. \A u \in c : tx[u].phase \in {"idle", "ok", "failed"}
    BY <1>2 DEF submit, Phase
  <2>3. \A u \in Txs : IF u \in c THEN tx'[u].phase = "register" ELSE tx'[u] = tx[u]
    BY <2>1
  <2>4. \A u \in Txs : \/ tx'[u] = tx[u]
                       \/ /\ tx[u].phase \notin {"queued", "recover"}
                          /\ tx'[u].phase \notin {"queued", "sent"} \/ Keeps(u)
    BY <2>2, <2>3
  <2> QED BY <2>1, <2>4, NoncesOther
<1>3. ASSUME NEW S \in SUBSET Txs, GiveUp(S) PROVE NoncesInv'
  <2>1. S \in SUBSET Pending /\ UNCHANGED <<signers, chain, hist>> /\ tx' = Fails(S, FALSE)
    BY <1>3 DEF GiveUp, Pending
  <2> QED BY <2>1, NoncesFails
<1>4. ASSUME NEW S \in SUBSET mempool, Produce(S) PROVE NoncesInv'
  BY <1>0, <1>4, NoncesProduce
<1>5. ASSUME NEW n \in 1..Depth, NEW i \in 1..(n + 1), NEW lost, NEW S, Reorg(n, i, lost, S)
      PROVE  NoncesInv'
  BY <1>0, <1>5, NoncesReorg
<1>6. ASSUME NEW e \in mempool, Drop(e) \/ Invalidate(e) PROVE NoncesInv'
  BY <1>6, NoncesLost
<1>7. CASE UNCHANGED vars
  <2>1. UNCHANGED <<signers, chain, hist>> /\ tx' = tx
    BY <1>7 DEF vars
  <2> QED BY <2>1, NoncesOther
<1> QED BY <1>1, <1>2, <1>3, <1>4, <1>5, <1>6, <1>7 DEF Next

LEMMA NoncesInit == Init => NoncesInv
<1> SUFFICES ASSUME Init PROVE NoncesInv
  OBVIOUS
<1>1. \A k \in 0..Depth : Upto(k) = {}
  BY TransactionConstants DEF Init, Upto
<1>2. \A a : NonceAfter({}, a) = 0
  <2>1. \A a : {e \in {} : e.account = a} = {}
    OBVIOUS
  <2> QED BY <2>1, FS_EmptySet DEF NonceAfter
<1>3. Contiguous({})
  <2>1. \A a : Numbered({}, a, 0)
    BY DEF Numbered, At
  <2> QED BY <1>2, <2>1 DEF Contiguous
<1>4. ChainHolds
  BY <1>1, <1>3 DEF ChainHolds, Init
<1>5. MempoolHolds
  BY DEF MempoolHolds, Distinct, Ahead, Init
<1>6. \A t \in Txs : tx[t].phase = "idle"
  BY DEF Init
<1>7. Pending = {}
  BY <1>6 DEF Pending, Phase
<1>8. NoncesBehind /\ ReuseNeedsReset
  BY <1>7 DEF NoncesBehind, ReuseNeedsReset
<1>9. NoGap
  <2>1. Typed /\ Depth \in 0..Depth
    BY TypedInit, TransactionConstants
  <2>2. \A a \in Signers : OnChain(a) = 0 /\ nonceByAccount[a] = 0
    BY <1>1, <1>2, <2>1, UptoTyped DEF Init
  <2> QED BY <2>2 DEF NoGap
<1> QED BY <1>4, <1>5, <1>8, <1>9 DEF NoncesInv

LEMMA NoncesFollow == Typed /\ NoncesInv => NoncesSound
<1> SUFFICES ASSUME Typed, NoncesInv PROVE NoGapLeft
  BY DEF NoncesInv, NoncesSound
<1> SUFFICES ASSUME NEW a \in {pool[i] : i \in DOMAIN pool}, Quiet(a), a \notin leaked
             PROVE  nonceByAccount[a] <= getOnChainNonce(a)
  BY DEF NoGapLeft
<1>1. InPool(a, pool) /\ InOrder(a)
  BY DEF InPool, InOrder, Quiet
<1>2. a \in Signers /\ nonceByAccount[a] \in Nat
  <2>1. pool \in Seq(Signers) /\ nonceByAccount \in [Signers -> Nat]
    BY DEF Typed, TypeOK
  <2>2. PICK i \in DOMAIN pool : a = pool[i]
    OBVIOUS
  <2>3. i \in 1..Len(pool)
    BY <2>1, <2>2, LenProperties
  <2>4. a \in Signers
    BY <2>1, <2>2, <2>3, ElementOfSeq
  <2> QED BY <2>1, <2>4
<1> DEFINE g == getOnChainNonce(a)
<1>3. g \in Nat /\ g >= OnChain(a) /\ FirstFree(mempool, a, OnChain(a), g) /\ OnChain(a) \in Nat
  BY <1>2, NonceIsRead, NonceIsCounted
<1> HIDE DEF g
<1>4. ASSUME g < nonceByAccount[a] PROVE FALSE
  <2>1. g \in OnChain(a)..(nonceByAccount[a] - 1)
    BY <1>2, <1>3, <1>4
  <2>2. Holds(mempool, a, g) \/ QueuedWith(a, g)
    BY <1>1, <1>2, <2>1 DEF NoncesInv, NoGap
  <2>3. ~Holds(mempool, a, g)
    BY <1>3 DEF FirstFree
  <2>4. ~QueuedWith(a, g)
    BY DEF QueuedWith, Quiet, Pending
  <2> QED BY <2>2, <2>3, <2>4
<1>5. nonceByAccount[a] <= g
  BY <1>2, <1>3, <1>4
<1> QED BY <1>5 DEF g

\* Two transactions on their way use one nonce only if the nonces of their
\* account were read again meanwhile; and when nothing of an account is on its
\* way its next nonce is not ahead of the chain, unless an extrinsic was lost
\* since: through every fork, replacement in the node's pool, eviction of an
\* account and failure of its recovery.
THEOREM NoncesAreSound == Spec => []NoncesSound
<1> DEFINE I == Typed /\ NoncesInv
<1>1. Init => I
  BY TypedInit, NoncesInit
<1>2. I /\ [Next]_vars => I'
  BY TypedNext, NoncesNext
<1>3. I => NoncesSound
  BY NoncesFollow
<1> QED BY <1>1, <1>2, <1>3, PTL DEF Spec
=============================================================================
