---------------------------- MODULE CreditsProofs ----------------------------
(***************************************************************************)
(* Theorems about Credits for any number of charges and purchases, any     *)
(* sizes, any cap and any free tier.                                       *)
(***************************************************************************)
EXTENDS Credits, FiniteSetTheorems, WellFoundedInduction, TLAPS

(***************************************************************************)
(* Sums                                                                    *)
(***************************************************************************)
\* A set of numbers that is not empty has a least one.
LEMMA HasLeast ==
  ASSUME NEW S \in SUBSET Nat, S # {}
  PROVE  \E m \in S : \A n \in S : m <= n
<1>1. PICK m \in S : \A n \in S : ~ (<<n, m>> \in OpToRel(<, Nat))
  BY NatLessThanWellFounded, WFMin
<1>2. \A n \in S : m <= n
  <2> SUFFICES ASSUME NEW n \in S PROVE m <= n
    OBVIOUS
  <2>1. m \in Nat /\ n \in Nat
    OBVIOUS
  <2>2. ~ (n < m)
    BY <1>1, <2>1, Zenon DEF OpToRel
  <2> QED BY <2>1, <2>2
<1> QED BY <1>2

\* What holds of a set when it holds of its proper subsets holds of every
\* subset of a finite one.
LEMMA AllSubsets ==
  ASSUME NEW S, IsFiniteSet(S), NEW U,
         \A s \in SUBSET S : (\A r \in SUBSET s : r # s => r \in U) => s \in U
  PROVE  \A s \in SUBSET S : s \in U
<1> SUFFICES ASSUME NEW s0 \in SUBSET S, s0 \notin U PROVE FALSE
  OBVIOUS
<1> DEFINE Bad == {n \in Nat : \E s \in SUBSET S : s \notin U /\ Cardinality(s) = n}
<1>1. \A s \in SUBSET S : IsFiniteSet(s) /\ Cardinality(s) \in Nat
  BY FS_Subset, FS_CardinalityType
<1>2. PICK n \in Bad : \A m \in Bad : n <= m
  <2>1. Cardinality(s0) \in Bad
    BY <1>1
  <2>2. Bad \in SUBSET Nat /\ Bad # {}
    BY <2>1
  <2> HIDE DEF Bad
  <2> QED BY <2>2, HasLeast
<1>3. PICK s \in SUBSET S : s \notin U /\ Cardinality(s) = n
  OBVIOUS
<1>4. ASSUME NEW r \in SUBSET s, r # s PROVE r \in U
  <2>1. IsFiniteSet(s) /\ r \in SUBSET S
    BY <1>1, <1>3
  <2>2. Cardinality(r) \in Nat /\ Cardinality(r) <= n /\ Cardinality(r) # n
    BY <1>1, <1>3, <1>4, <2>1, FS_Subset
  <2>3. Cardinality(r) \notin Bad
    <3> HIDE DEF Bad
    <3>1. n \in Nat
      BY <1>1, <1>3
    <3>2. ~ (n <= Cardinality(r))
      BY <2>2, <3>1
    <3> QED BY <1>2, <3>2
  <2> QED BY <2>1, <2>2, <2>3
<1> QED BY <1>3, <1>4

\* The sums of a function over the subsets of T, one element at a time.
Pick(s) == CHOOSE x \in s : TRUE
Added(f, g, s) == IF s = {} THEN 0 ELSE f[Pick(s)] + g[s \ {Pick(s)}]
Adds(f, g, T) == g = [s \in SUBSET T |-> Added(f, g, s)]

LEMMA SumIsFold ==
  ASSUME NEW f
  PROVE  Sum(f) = (CHOOSE g : Adds(f, g, DOMAIN f))[DOMAIN f]
BY DEF Sum, MapThenSumSet, MapThenFoldSet, Adds, Added, Pick

\* The recursion has a solution on the small subsets of T.
Small(T, n) == {s \in SUBSET T : Cardinality(s) <= n}
AddsSmall(f, g, T, n) == g = [s \in Small(T, n) |-> Added(f, g, s)]

LEMMA PickRemoves ==
  ASSUME NEW T, IsFiniteSet(T), NEW n \in Nat, NEW s \in Small(T, n), s # {}
  PROVE  /\ n # 0 /\ Pick(s) \in s
         /\ s \ {Pick(s)} \in Small(T, n - 1)
<1>1. IsFiniteSet(s) /\ Cardinality(s) \in Nat /\ Cardinality(s) <= n
  BY FS_Subset, FS_CardinalityType DEF Small
<1>2. Pick(s) \in s
  BY DEF Pick
<1>3. Cardinality(s) # 0
  BY <1>1, FS_EmptySet
<1>4. Cardinality(s \ {Pick(s)}) = Cardinality(s) - 1
  BY <1>1, <1>2, FS_RemoveElement
<1> QED BY <1>1, <1>2, <1>3, <1>4 DEF Small

LEMMA AddsSmallExists ==
  ASSUME NEW f, NEW T, IsFiniteSet(T)
  PROVE  \A n \in Nat : \E g : AddsSmall(f, g, T, n)
<1> DEFINE Bad == {n \in Nat : ~ \E g : AddsSmall(f, g, T, n)}
<1> SUFFICES ASSUME Bad # {} PROVE FALSE
  OBVIOUS
<1>1. PICK n \in Bad : \A m \in Bad : n <= m
  <2>1. Bad \in SUBSET Nat
    OBVIOUS
  <2> HIDE DEF Bad
  <2> QED BY <2>1, HasLeast
<1>2. n \in Nat /\ ~ \E g : AddsSmall(f, g, T, n)
  OBVIOUS
<1>3. n # 0
  <2> SUFFICES ASSUME n = 0 PROVE FALSE
    OBVIOUS
  <2> DEFINE g == [s \in Small(T, 0) |-> 0]
  <2>1. \A s \in Small(T, 0) : s = {}
    BY PickRemoves
  <2>2. \A s \in Small(T, 0) : Added(f, g, s) = 0
    BY <2>1 DEF Added
  <2>3. AddsSmall(f, g, T, 0)
    BY <2>2 DEF AddsSmall
  <2> QED BY <1>2, <2>3
<1>4. n - 1 \in Nat /\ n - 1 \notin Bad
  <2>1. n - 1 \in Nat /\ ~ (n <= n - 1)
    BY <1>2, <1>3
  <2> HIDE DEF Bad
  <2> QED BY <1>1, <2>1
<1>5. PICK g : AddsSmall(f, g, T, n - 1)
  BY <1>4
<1> DEFINE h == [s \in Small(T, n) |-> Added(f, g, s)]
<1>6. \A s \in Small(T, n - 1) : s \in Small(T, n) /\ h[s] = g[s]
  <2> SUFFICES ASSUME NEW s \in Small(T, n - 1) PROVE s \in Small(T, n) /\ h[s] = g[s]
    OBVIOUS
  <2>1. s \in SUBSET T /\ Cardinality(s) \in Nat /\ Cardinality(s) <= n - 1
    BY FS_Subset, FS_CardinalityType DEF Small
  <2>2. s \in Small(T, n)
    BY <1>2, <1>4, <2>1 DEF Small
  <2>3. g[s] = Added(f, g, s)
    BY <1>5 DEF AddsSmall
  <2> QED BY <2>2, <2>3
<1>7. \A s \in Small(T, n) : Added(f, g, s) = Added(f, h, s)
  <2> SUFFICES ASSUME NEW s \in Small(T, n) PROVE Added(f, g, s) = Added(f, h, s)
    OBVIOUS
  <2> HIDE DEF h
  <2>1. CASE s = {}
    BY <2>1 DEF Added
  <2>2. CASE s # {}
    <3>1. s \ {Pick(s)} \in Small(T, n - 1)
      BY <1>2, <2>2, PickRemoves
    <3>2. h[s \ {Pick(s)}] = g[s \ {Pick(s)}]
      BY <1>6, <3>1
    <3> QED BY <2>2, <3>2, Zenon DEF Added
  <2> QED BY <2>1, <2>2
<1>8. AddsSmall(f, h, T, n)
  BY <1>7, Zenon DEF AddsSmall
<1> QED BY <1>2, <1>8

LEMMA AddsExists ==
  ASSUME NEW f, NEW T, IsFiniteSet(T)
  PROVE  \E g : Adds(f, g, T)
<1>1. Cardinality(T) \in Nat /\ Small(T, Cardinality(T)) = SUBSET T
  BY FS_CardinalityType, FS_Subset DEF Small
<1>2. PICK g : AddsSmall(f, g, T, Cardinality(T))
  BY <1>1, AddsSmallExists
<1> QED BY <1>1, <1>2, Zenon DEF AddsSmall, Adds

\* It does not depend on the set it is solved on, nor on what f is elsewhere.
LEMMA AddsAgree ==
  ASSUME NEW f, NEW g, NEW T, Adds(f, g, T), NEW h, NEW k, NEW V, Adds(h, k, V),
         IsFiniteSet(V), V \subseteq T, \A x \in V : f[x] = h[x]
  PROVE  g[V] = k[V]
<1> DEFINE U == {s \in SUBSET V : g[s] = k[s]}
<1>1. ASSUME NEW s \in SUBSET V, \A r \in SUBSET s : r # s => r \in U
      PROVE  s \in U
  <2>1. g[s] = Added(f, g, s) /\ k[s] = Added(h, k, s)
    BY DEF Adds
  <2>2. CASE s = {}
    BY <2>1, <2>2 DEF Added
  <2>3. CASE s # {}
    <3>1. Pick(s) \in s
      BY <2>3 DEF Pick
    <3>2. s \ {Pick(s)} \in U
      <4> HIDE DEF U
      <4>1. s \ {Pick(s)} \in SUBSET s /\ s \ {Pick(s)} # s
        BY <3>1
      <4> QED BY <1>1, <4>1
    <3>3. f[Pick(s)] = h[Pick(s)]
      BY <3>1
    <3> QED BY <2>1, <2>3, <3>2, <3>3 DEF Added
  <2> QED BY <2>2, <2>3
<1>2. \A s \in SUBSET V : s \in U
  <2> HIDE DEF U
  <2> QED BY <1>1, AllSubsets
<1> QED BY <1>2

\* The sum of f over T.
Over(f, T) == Sum([i \in T |-> f[i]])

LEMMA OverDomain ==
  ASSUME NEW T, NEW f, f = [i \in T |-> f[i]]
  PROVE  Sum(f) = Over(f, T)
BY DEF Over

LEMMA OverSame ==
  ASSUME NEW T, NEW f, NEW g, \A i \in T : f[i] = g[i]
  PROVE  Over(f, T) = Over(g, T)
<1>1. [i \in T |-> f[i]] = [i \in T |-> g[i]]
  OBVIOUS
<1> QED BY <1>1, Zenon DEF Over

LEMMA OverFold ==
  ASSUME NEW T, IsFiniteSet(T), NEW f
  PROVE  \E g : Adds([i \in T |-> f[i]], g, T) /\ Over(f, T) = g[T]
<1> DEFINE e == [i \in T |-> f[i]]
           g == CHOOSE g : Adds(e, g, T)
<1>1. DOMAIN e = T
  OBVIOUS
<1>2. Over(f, T) = (CHOOSE d : Adds(e, d, DOMAIN e))[DOMAIN e]
  <2> HIDE DEF e
  <2>1. Sum(e) = (CHOOSE d : Adds(e, d, DOMAIN e))[DOMAIN e]
    BY SumIsFold
  <2> QED BY <2>1 DEF Over, e
<1>3. Adds(e, g, T)
  <2> HIDE DEF e
  <2> QED BY AddsExists
<1> HIDE DEF e
<1> QED BY <1>1, <1>2, <1>3 DEF e

LEMMA OverNone ==
  ASSUME NEW f
  PROVE  Over(f, {}) = 0
<1>1. PICK g : Adds([i \in {} |-> f[i]], g, {}) /\ Over(f, {}) = g[{}]
  BY OverFold, FS_EmptySet
<1>2. g[{}] = Added([i \in {} |-> f[i]], g, {})
  <2> DEFINE e == [i \in {} |-> f[i]]
  <2> HIDE DEF e
  <2>1. Adds(e, g, {})
    BY <1>1 DEF e
  <2>2. g[{}] = Added(e, g, {})
    BY <2>1 DEF Adds
  <2> QED BY <2>2 DEF e
<1> QED BY <1>1, <1>2, Zenon DEF Added

LEMMA OverPicked ==
  ASSUME NEW T, IsFiniteSet(T), T # {}, NEW f
  PROVE  Pick(T) \in T /\ Over(f, T) = f[Pick(T)] + Over(f, T \ {Pick(T)})
<1> DEFINE R == T \ {Pick(T)}
           e == [i \in T |-> f[i]]
           d == [i \in R |-> f[i]]
<1>1. Pick(T) \in T
  BY DEF Pick
<1>2. IsFiniteSet(R) /\ R \subseteq T
  BY FS_Subset
<1>3. \A x \in R : e[x] = d[x]
  OBVIOUS
<1>4. e[Pick(T)] = f[Pick(T)]
  BY <1>1
<1>5. PICK g : Adds(e, g, T) /\ Over(f, T) = g[T]
  BY OverFold
<1>6. PICK k : Adds(d, k, R) /\ Over(f, R) = k[R]
  <2> HIDE DEF R
  <2> QED BY <1>2, OverFold
<1>7. g[R] = k[R]
  <2> HIDE DEF R, e, d
  <2> QED BY <1>2, <1>3, <1>5, <1>6, AddsAgree
<1>8. g[T] = Added(e, g, T)
  <2> HIDE DEF e
  <2> QED BY <1>5 DEF Adds
<1>9. Added(e, g, T) = e[Pick(T)] + g[R]
  <2> HIDE DEF e
  <2> QED BY Zenon DEF Added
<1> HIDE DEF R, e, d
<1>10. Over(f, T) = f[Pick(T)] + Over(f, R)
  BY <1>4, <1>5, <1>6, <1>7, <1>8, <1>9
<1> QED BY <1>1, <1>10 DEF R

LEMMA OverIsNat ==
  ASSUME NEW T, IsFiniteSet(T), NEW f, \A i \in T : f[i] \in Nat
  PROVE  Over(f, T) \in Nat
<1> DEFINE U == {s \in SUBSET T : Over(f, s) \in Nat}
<1>1. ASSUME NEW s \in SUBSET T, \A r \in SUBSET s : r # s => r \in U
      PROVE  s \in U
  <2>1. CASE s = {}
    BY <2>1, OverNone
  <2>2. CASE s # {}
    <3>1. IsFiniteSet(s)
      BY FS_Subset
    <3>2. Pick(s) \in s /\ Over(f, s) = f[Pick(s)] + Over(f, s \ {Pick(s)})
      BY <2>2, <3>1, OverPicked
    <3>3. s \ {Pick(s)} \in U
      <4> HIDE DEF U
      <4>1. s \ {Pick(s)} \in SUBSET s /\ s \ {Pick(s)} # s
        BY <3>2
      <4> QED BY <1>1, <4>1
    <3>4. f[Pick(s)] \in Nat /\ Over(f, s \ {Pick(s)}) \in Nat
      BY <3>2, <3>3
    <3>5. Over(f, s) \in Nat
      BY <3>2, <3>4
    <3> QED BY <3>5
  <2> QED BY <2>1, <2>2
<1>2. \A s \in SUBSET T : s \in U
  <2> HIDE DEF U
  <2> QED BY <1>1, AllSubsets
<1> QED BY <1>2

\* It does not matter which element is added first.
LEMMA OverRemove ==
  ASSUME NEW T, IsFiniteSet(T), NEW f, \A i \in T : f[i] \in Nat
  PROVE  \A x \in T : /\ f[x] \in Nat /\ Over(f, T \ {x}) \in Nat
                      /\ Over(f, T) = f[x] + Over(f, T \ {x})
<1> DEFINE P(s) == \A x \in s : Over(f, s) = f[x] + Over(f, s \ {x})
           U == {s \in SUBSET T : P(s)}
<1>0. \A s \in SUBSET T : IsFiniteSet(s) /\ Over(f, s) \in Nat
  <2> SUFFICES ASSUME NEW s \in SUBSET T PROVE IsFiniteSet(s) /\ Over(f, s) \in Nat
    OBVIOUS
  <2>1. IsFiniteSet(s)
    BY FS_Subset
  <2> QED BY <2>1, OverIsNat
<1>1. ASSUME NEW s \in SUBSET T, \A r \in SUBSET s : r # s => r \in U
      PROVE  s \in U
  <2> SUFFICES ASSUME NEW x \in s PROVE Over(f, s) = f[x] + Over(f, s \ {x})
    OBVIOUS
  <2>1. Pick(s) \in s /\ Over(f, s) = f[Pick(s)] + Over(f, s \ {Pick(s)})
    BY <1>0, OverPicked
  <2>2. CASE x = Pick(s)
    BY <2>1, <2>2
  <2>3. CASE x # Pick(s)
    <3> DEFINE p == Pick(s)
               q == s \ {p}
               r == s \ {x}
    <3>1. /\ q \in SUBSET s /\ q # s /\ r \in SUBSET s /\ r # s
          /\ x \in q /\ p \in r /\ q \ {x} = r \ {p} /\ q \ {x} \in SUBSET T
      BY <2>1, <2>3
    <3>2. P(q) /\ P(r)
      <4>1. q \in U /\ r \in U
        <5> HIDE DEF U, q, r
        <5> QED BY <1>1, <3>1
      <4> QED BY <4>1
    <3>3. Over(f, q) = f[x] + Over(f, q \ {x}) /\ Over(f, r) = f[p] + Over(f, r \ {p})
      <4> HIDE DEF q, r, p
      <4> QED BY <3>1, <3>2
    <3>4. f[x] \in Nat /\ f[p] \in Nat /\ Over(f, q \ {x}) \in Nat
      BY <1>0, <2>1, <3>1
    <3> HIDE DEF q, r, p
    <3>5. Over(f, s) = f[p] + Over(f, q)
      BY <2>1 DEF q, p
    <3>6. Over(f, s) = f[x] + Over(f, r)
      <4> DEFINE o == Over(f, q \ {x})
      <4>1. Over(f, r) = f[p] + o /\ Over(f, q) = f[x] + o /\ o \in Nat
        <5>1. Over(f, r \ {p}) = o
          BY <3>1, Zenon
        <5> QED BY <3>3, <3>4, <5>1
      <4> HIDE DEF o
      <4> QED BY <3>4, <3>5, <4>1
    <3> QED BY <3>6 DEF r
  <2> QED BY <2>2, <2>3
<1>2. \A s \in SUBSET T : s \in U
  <2> HIDE DEF U
  <2> QED BY <1>1, AllSubsets
<1>3. P(T)
  BY <1>2
<1>4. \A x \in T : T \ {x} \in SUBSET T
  OBVIOUS
<1> HIDE DEF U
<1> QED BY <1>0, <1>3, <1>4

\* Sums add up.
LEMMA OverPlus ==
  ASSUME NEW T, IsFiniteSet(T), NEW f, NEW g, NEW h,
         \A i \in T : f[i] \in Nat /\ g[i] \in Nat /\ h[i] = f[i] + g[i]
  PROVE  Over(h, T) = Over(f, T) + Over(g, T)
<1> DEFINE U == {s \in SUBSET T : Over(h, s) = Over(f, s) + Over(g, s)}
<1>1. ASSUME NEW s \in SUBSET T, \A r \in SUBSET s : r # s => r \in U
      PROVE  s \in U
  <2>1. CASE s = {}
    <3>1. Over(f, s) = 0 /\ Over(g, s) = 0 /\ Over(h, s) = 0
      BY <2>1, OverNone
    <3> QED BY <3>1
  <2>2. CASE s # {}
    <3> DEFINE x == Pick(s)
               r == s \ {x}
    <3>1. IsFiniteSet(s) /\ x \in s /\ x \in T
      BY <2>2, FS_Subset DEF Pick
    <3>2. \A i \in s : f[i] \in Nat /\ g[i] \in Nat /\ h[i] \in Nat
      OBVIOUS
    <3>3. r \in SUBSET s /\ r # s
      BY <3>1
    <3> HIDE DEF x, r
    <3>4. /\ Over(f, s) = f[x] + Over(f, r) /\ Over(g, s) = g[x] + Over(g, r)
          /\ Over(h, s) = h[x] + Over(h, r)
          /\ f[x] \in Nat /\ g[x] \in Nat /\ Over(f, r) \in Nat /\ Over(g, r) \in Nat
      BY <3>1, <3>2, OverRemove DEF r
    <3>5. Over(h, r) = Over(f, r) + Over(g, r)
      <4> HIDE DEF U
      <4>1. r \in U
        BY <1>1, <3>3
      <4> QED BY <4>1 DEF U
    <3>6. h[x] = f[x] + g[x]
      BY <3>1
    <3>7. Over(h, s) = Over(f, s) + Over(g, s)
      BY <3>4, <3>5, <3>6
    <3> QED BY <3>7
  <2> QED BY <2>1, <2>2
<1>2. \A s \in SUBSET T : s \in U
  <2> HIDE DEF U
  <2> QED BY <1>1, AllSubsets
<1> QED BY <1>2

LEMMA OverAtMost ==
  ASSUME NEW T, IsFiniteSet(T), NEW f, NEW g,
         \A i \in T : f[i] \in Nat /\ g[i] \in Nat /\ f[i] <= g[i]
  PROVE  Over(f, T) <= Over(g, T)
<1> DEFINE d == [i \in T |-> g[i] - f[i]]
<1>1. \A i \in T : f[i] \in Nat /\ d[i] \in Nat /\ g[i] = f[i] + d[i]
  OBVIOUS
<1> HIDE DEF d
<1>2. Over(g, T) = Over(f, T) + Over(d, T)
  BY <1>1, OverPlus
<1>3. Over(f, T) \in Nat /\ Over(d, T) \in Nat
  BY <1>1, OverIsNat
<1> QED BY <1>2, <1>3

LEMMA OverZero ==
  ASSUME NEW T, IsFiniteSet(T), NEW f, \A i \in T : f[i] = 0
  PROVE  Over(f, T) = 0
<1>1. Over(f, T) \in Nat
  BY OverIsNat
<1>2. Over(f, T) = Over(f, T) + Over(f, T)
  BY OverPlus
<1>3. ASSUME NEW n \in Nat, n = n + n PROVE n = 0
  BY <1>3
<1> QED BY <1>1, <1>2, <1>3, Zenon

\* One term changes.
LEMMA OverChanged ==
  ASSUME NEW T, IsFiniteSet(T), NEW f, NEW g, NEW x \in T,
         \A i \in T : f[i] \in Nat /\ g[i] \in Nat /\ (i # x => g[i] = f[i])
  PROVE  Over(g, T) + f[x] = Over(f, T) + g[x]
<1>1. /\ Over(f, T) = f[x] + Over(f, T \ {x}) /\ Over(g, T) = g[x] + Over(g, T \ {x})
      /\ f[x] \in Nat /\ g[x] \in Nat /\ Over(f, T \ {x}) \in Nat
  BY OverRemove
<1>2. Over(f, T \ {x}) = Over(g, T \ {x})
  BY OverSame
<1> QED BY <1>1, <1>2

\* A sum over a part is the sum of the function that is 0 elsewhere.
Part(f, V, T) == [i \in T |-> IF i \in V THEN f[i] ELSE 0]

LEMMA OverPart ==
  ASSUME NEW T, IsFiniteSet(T), NEW V \in SUBSET T, NEW f, \A i \in T : f[i] \in Nat
  PROVE  Over(f, V) = Over(Part(f, V, T), T)
<1> DEFINE m(s) == [i \in T |-> IF i \in s THEN f[i] ELSE 0]
           U == {s \in SUBSET T : Over(f, s) = Over(m(s), T)}
<1>1. ASSUME NEW s \in SUBSET T, \A r \in SUBSET s : r # s => r \in U
      PROVE  s \in U
  <2>1. CASE s = {}
    <3>1. \A i \in T : m(s)[i] = 0
      BY <2>1
    <3>2. Over(m(s), T) = 0
      <4> HIDE DEF m
      <4> QED BY <3>1, OverZero
    <3> QED BY <2>1, <3>2, OverNone
  <2>2. CASE s # {}
    <3> DEFINE x == Pick(s)
               r == s \ {x}
    <3>1. IsFiniteSet(s) /\ x \in s /\ x \in T
      BY <2>2, FS_Subset DEF Pick
    <3>2. \A i \in s : f[i] \in Nat
      OBVIOUS
    <3>3. r \in SUBSET s /\ r # s
      BY <3>1
    <3>4. /\ \A i \in T : m(r)[i] \in Nat /\ m(s)[i] \in Nat /\ (i # x => m(s)[i] = m(r)[i])
          /\ m(r)[x] = 0 /\ m(s)[x] = f[x]
      BY <3>1
    <3> HIDE DEF x, r
    <3>5. Over(f, s) = f[x] + Over(f, r) /\ f[x] \in Nat /\ Over(f, r) \in Nat
      BY <3>1, <3>2, OverRemove DEF r
    <3>6. Over(m(s), T) + m(r)[x] = Over(m(r), T) + m(s)[x]
      <4> HIDE DEF m
      <4> QED BY <3>1, <3>4, OverChanged
    <3>7. Over(f, r) = Over(m(r), T)
      <4> HIDE DEF U
      <4>1. r \in U
        BY <1>1, <3>3
      <4> QED BY <4>1 DEF U
    <3>8. Over(m(s), T) \in Nat
      <4> HIDE DEF m
      <4> QED BY <3>4, OverIsNat
    <3> HIDE DEF m
    <3>9. Over(f, s) = Over(m(s), T)
      BY <3>4, <3>5, <3>6, <3>7, <3>8
    <3> QED BY <3>9
  <2> QED BY <2>1, <2>2
<1>2. \A s \in SUBSET T : s \in U
  <2> HIDE DEF U
  <2> QED BY <1>1, AllSubsets
<1> HIDE DEF m
<1> QED BY <1>2 DEF m, Part

(***************************************************************************)
(* Shares                                                                  *)
(***************************************************************************)
\* The first rows and the next.
LEMMA FirstAndNext ==
  ASSUME NEW k \in Nat \ {0}
  PROVE  /\ k - 1 \in Nat /\ k \in 1..k /\ (1..k) \ {k} = 1..(k - 1)
         /\ IsFiniteSet(1..k)
<1>1. (1..k) \ {k} = 1..(k - 1)
  OBVIOUS
<1>2. IsFiniteSet(1..k)
  BY FS_Interval
<1> QED BY <1>1, <1>2

LEMMA OverNext ==
  ASSUME NEW k \in Nat \ {0}, NEW f, \A i \in 1..k : f[i] \in Nat
  PROVE  /\ Over(f, 1..k) = f[k] + Over(f, 1..(k - 1))
         /\ Over(f, 1..(k - 1)) \in Nat
<1>1. k \in 1..k /\ (1..k) \ {k} = 1..(k - 1) /\ IsFiniteSet(1..k)
  BY FirstAndNext
<1>2. \A x \in 1..k : /\ f[x] \in Nat /\ Over(f, (1..k) \ {x}) \in Nat
                      /\ Over(f, 1..k) = f[x] + Over(f, (1..k) \ {x})
  BY <1>1, OverRemove
<1> QED BY <1>1, <1>2, Zenon

\* More rows hold no less.
LEMMA OverFirst ==
  ASSUME NEW n \in Nat, NEW f, \A i \in 1..n : f[i] \in Nat,
         NEW j \in 1..n, NEW i \in 1..n, j < i
  PROVE  Over(f, 1..(j - 1)) + f[j] <= Over(f, 1..(i - 1))
<1> DEFINE m(V) == [x \in 1..n |-> IF x \in V THEN f[x] ELSE 0]
<1>1. j \in Nat \ {0} /\ i - 1 \in Nat /\ 1..j \in SUBSET (1..n) /\ 1..(i - 1) \in SUBSET (1..n)
  OBVIOUS
<1>2. Over(f, 1..j) = f[j] + Over(f, 1..(j - 1)) /\ Over(f, 1..(j - 1)) \in Nat
  BY <1>1, OverNext
<1>3. IsFiniteSet(1..n)
  BY FS_Interval
<1>4. Over(f, 1..j) = Over(m(1..j), 1..n) /\ Over(f, 1..(i - 1)) = Over(m(1..(i - 1)), 1..n)
  <2>1. \A V \in SUBSET (1..n) : Over(f, V) = Over(m(V), 1..n)
    BY <1>3, OverPart DEF Part
  <2> HIDE DEF m
  <2> QED BY <1>1, <2>1
<1>5. \A x \in 1..n : /\ m(1..j)[x] \in Nat /\ m(1..(i - 1))[x] \in Nat
                      /\ m(1..j)[x] <= m(1..(i - 1))[x]
  OBVIOUS
<1>6. Over(m(1..j), 1..n) <= Over(m(1..(i - 1)), 1..n)
  <2> HIDE DEF m
  <2> QED BY <1>3, <1>5, OverAtMost
<1>7. f[j] \in Nat
  OBVIOUS
<1> HIDE DEF m
<1> QED BY <1>2, <1>4, <1>6, <1>7

LEMMA LeastOfRest ==
  ASSUME NEW a \in Nat, NEW b \in Nat, NEW o \in Nat
  PROVE  /\ Least(a, Minus(b, o)) \in Nat /\ Least(a, Minus(b, o)) <= a
         /\ Least(a, Minus(b, o)) + Least(b, o) = Least(b, a + o)
BY DEF Least, Minus

\* A row is drawn on when those before it are empty.
InOrder(s, f, i) == s[i] > 0 => \A j \in 1..(i - 1) : s[j] = f[j]

\* A share takes from a row no more than it holds, and all of it before the
\* next row.
LEMMA ShareTakes ==
  ASSUME NEW n \in Nat, NEW f, DOMAIN f = 1..n, \A i \in 1..n : f[i] \in Nat, NEW b \in Nat
  PROVE  /\ Share(f, b) = [i \in 1..n |-> Share(f, b)[i]]
         /\ \A i \in 1..n :
              /\ Share(f, b)[i] = Least(f[i], Minus(b, Over(f, 1..(i - 1))))
              /\ Share(f, b)[i] \in Nat /\ Share(f, b)[i] <= f[i]
              /\ Over(f, 1..(i - 1)) \in Nat
              /\ InOrder(Share(f, b), f, i)
<1> DEFINE s == Share(f, b)
<1>1. /\ s = [i \in 1..n |-> Least(f[i], Minus(b, Over(f, 1..(i - 1))))]
  BY Zenon DEF Share, Over
<1>2. \A i \in 1..n : Over(f, 1..(i - 1)) \in Nat
  <2> SUFFICES ASSUME NEW i \in 1..n PROVE Over(f, 1..(i - 1)) \in Nat
    OBVIOUS
  <2>1. i \in Nat \ {0} /\ \A j \in 1..i : f[j] \in Nat
    OBVIOUS
  <2> QED BY <2>1, OverNext
<1> HIDE DEF s
<1>3. \A i \in 1..n : s[i] = Least(f[i], Minus(b, Over(f, 1..(i - 1))))
  BY <1>1
<1>4. \A i \in 1..n : s[i] \in Nat /\ s[i] <= f[i]
  <2> SUFFICES ASSUME NEW i \in 1..n PROVE s[i] \in Nat /\ s[i] <= f[i]
    OBVIOUS
  <2>1. s[i] = Least(f[i], Minus(b, Over(f, 1..(i - 1)))) /\ f[i] \in Nat
    BY <1>3
  <2>2. Over(f, 1..(i - 1)) \in Nat
    BY <1>2
  <2> DEFINE t == Least(f[i], Minus(b, Over(f, 1..(i - 1))))
  <2>3. t \in Nat /\ t <= f[i]
    BY <2>1, <2>2, LeastOfRest, Zenon
  <2>4. s[i] = t
    BY <2>1
  <2> HIDE DEF t
  <2> QED BY <2>3, <2>4
<1>5. ASSUME NEW i \in 1..n, s[i] > 0, NEW j \in 1..(i - 1) PROVE s[j] = f[j]
  <2>1. j \in 1..n /\ j < i
    OBVIOUS
  <2>2. Over(f, 1..(j - 1)) + f[j] <= Over(f, 1..(i - 1))
    BY <2>1, OverFirst
  <2> DEFINE p == Over(f, 1..(j - 1))
             q == Over(f, 1..(i - 1))
  <2>3. /\ p \in Nat /\ q \in Nat /\ p + f[j] <= q /\ f[j] \in Nat /\ f[i] \in Nat
        /\ s[j] = Least(f[j], Minus(b, p)) /\ s[i] = Least(f[i], Minus(b, q))
    BY <1>2, <1>3, <2>1, <2>2
  <2> HIDE DEF p, q
  <2>4. b > q
    BY <1>5, <2>3 DEF Least, Minus
  <2> QED BY <2>3, <2>4 DEF Least, Minus
<1>6. s = [i \in 1..n |-> s[i]]
  BY <1>1
<1>7. \A i \in 1..n : InOrder(s, f, i)
  BY <1>5 DEF InOrder
<1> QED BY <1>2, <1>3, <1>4, <1>6, <1>7 DEF s

\* All of it is taken if the rows together hold as much.
LEMMA ShareTotal ==
  ASSUME NEW n \in Nat, NEW f, DOMAIN f = 1..n, \A i \in 1..n : f[i] \in Nat, NEW b \in Nat
  PROVE  /\ Over(Share(f, b), 1..n) = Least(b, Over(f, 1..n))
         /\ Over(f, 1..n) \in Nat
<1> DEFINE s == Share(f, b)
           P(k) == Over(s, 1..k) = Least(b, Over(f, 1..k))
           Bad == {k \in 0..n : ~ P(k)}
<1>0. IsFiniteSet(1..n)
  BY FS_Interval
<1>1. Over(f, 1..n) \in Nat
  BY <1>0, OverIsNat
<1>2. Bad = {}
  <2> SUFFICES ASSUME Bad # {} PROVE FALSE
    OBVIOUS
  <2>1. PICK k \in Bad : \A m \in Bad : k <= m
    <3>1. Bad \in SUBSET Nat
      OBVIOUS
    <3> HIDE DEF Bad
    <3> QED BY <3>1, HasLeast
  <2>2. k \in 0..n /\ ~ P(k)
    OBVIOUS
  <2>3. k # 0
    <3> SUFFICES ASSUME k = 0 PROVE FALSE
      OBVIOUS
    <3>1. 1..k = {}
      OBVIOUS
    <3>2. Over(s, 1..k) = 0 /\ Over(f, 1..k) = 0
      BY <3>1, OverNone
    <3> QED BY <2>2, <3>2 DEF Least
  <2>4. k \in Nat \ {0} /\ k \in 1..n /\ k - 1 \in 0..n /\ ~ (k <= k - 1)
    BY <2>2, <2>3
  <2>5. P(k - 1)
    <3> HIDE DEF P
    <3>1. k - 1 \notin Bad
      <4> HIDE DEF Bad
      <4> QED BY <2>1, <2>4
    <3> QED BY <2>4, <3>1
  <2>6. /\ \A i \in 1..k : f[i] \in Nat /\ s[i] \in Nat
        /\ s[k] = Least(f[k], Minus(b, Over(f, 1..(k - 1))))
    <3>1. \A i \in 1..k : i \in 1..n
      BY <2>4
    <3>2. \A i \in 1..n : /\ s[i] = Least(f[i], Minus(b, Over(f, 1..(i - 1))))
                          /\ s[i] \in Nat
      BY ShareTakes
    <3> HIDE DEF s
    <3> QED BY <2>4, <3>1, <3>2
  <2>7. /\ Over(f, 1..k) = f[k] + Over(f, 1..(k - 1)) /\ Over(f, 1..(k - 1)) \in Nat
        /\ Over(s, 1..k) = s[k] + Over(s, 1..(k - 1)) /\ f[k] \in Nat
    <3> HIDE DEF s
    <3> QED BY <2>4, <2>6, OverNext
  <2>8. P(k)
    <3> DEFINE o == Over(f, 1..(k - 1))
               t == Over(s, 1..(k - 1))
    <3>1. /\ o \in Nat /\ t = Least(b, o) /\ f[k] \in Nat /\ Over(f, 1..k) = f[k] + o
          /\ Over(s, 1..k) = s[k] + t /\ s[k] = Least(f[k], Minus(b, o))
      BY <2>5, <2>6, <2>7
    <3> HIDE DEF o, t, s
    <3>2. s[k] + t = Least(b, f[k] + o)
      <4>1. Least(f[k], Minus(b, o)) + Least(b, o) = Least(b, f[k] + o)
        BY <3>1, LeastOfRest, Zenon
      <4> QED BY <3>1, <4>1, Zenon
    <3> QED BY <3>1, <3>2, Zenon
  <2> QED BY <2>2, <2>8
<1>3. n \in 0..n
  OBVIOUS
<1>4. P(n)
  <2> HIDE DEF P
  <2> QED BY <1>2, <1>3
<1> QED BY <1>1, <1>4

(***************************************************************************)
(* The inductive invariant                                                 *)
(***************************************************************************)
Row == [original : Nat, remaining : Nat, expired : BOOLEAN, refunded : BOOLEAN]

\* Rows are marked as expired after they lapse.
RowsOK(b, l) ==
  /\ b \in Seq(Row) /\ l \in 0..Len(b)
  /\ \A i \in 1..Len(b) : b[i].remaining <= b[i].original /\ (b[i].expired => i <= l)

Busy == [phase : {"consume", "guard", "paid", "free", "refund"}, size : Nat,
         paid : Nat, free : Nat, account : Account]

\* What a charge has taken and what is left for the free tier make up its size.
CallOK(r) ==
  \/ r = Idle
  \/ r \in [phase : {"done"}, size : Nat]
  \/ r \in Busy /\ r.paid + r.free = r.size /\ (r.phase = "guard" => r.free > 0)

PurchaseOK(r) ==
  \/ r = Idle
  \/ r \in [phase : {"insert", "done"}, size : Nat] /\ (r.phase = "insert" => r.size > 0)

Typed ==
  /\ RowsOK(batches, lapsed)
  /\ purchased \in Nat /\ free \in [past : Nat, month : Nat] /\ account \in Account
  /\ charge = [c \in Charges |-> charge[c]] /\ \A c \in Charges : CallOK(charge[c])
  /\ purchase = [p \in Purchases |-> purchase[p]] /\ \A p \in Purchases : PurchaseOK(purchase[p])
  /\ updates \in 0..MaxUpdates /\ months \in 0..MaxMonths /\ faults \in 0..MaxFaults
  /\ lost \in Nat /\ voided \in Nat /\ returned \in Nat /\ partial \in Nat
  /\ overlapped \subseteq Charges

\* The cap has room for the purchase that has been admitted.
CapSound ==
  /\ CapHeld
  /\ \A p \in Purchases : purchase[p].phase = "insert" =>
       /\ active + purchase[p].size <= Cap + returned
       /\ \A q \in Purchases : purchase[q].phase = "insert" => q = p

\* What rows have given, and could be given back if all were usable.
Given(b) == [i \in DOMAIN b |-> b[i].original - b[i].remaining]
given == Sum(Given(batches))

\* As long as no row has lapsed, what charges hold fits into the rows again.
RoomLeft ==
  /\ LossNeedsExpiryOrFault
  /\ lapsed = 0 => inFlight <= given

\* What a charge was promised of the free tier is still to be had, but for
\* what overlapping charges were charged for meanwhile.
Promised(c) ==
  charge[c].phase = "free" \/ (charge[c].phase = "paid" /\ charge[c].free > 0) =>
    charge[c].free + spentFree(charge[c].account) <= charge[c].account.limit + OverlapSpent(c)

\* Charges that run at the same time know of each other.
TierSound ==
  /\ \A c \in Charges : Promised(c)
  /\ \A c, d \in Charges : c # d /\ Running(c) /\ Running(d) => {c, d} \subseteq overlapped

Inv == Typed /\ CapSound /\ ChargedExactly /\ RoomLeft /\ TierSound

(***************************************************************************)
(* What the rows hold                                                      *)
(***************************************************************************)
\* What rows hold, and what of it can be used.
HeldIn(b) == [i \in DOMAIN b |-> b[i].remaining]
UsableIn(b, l) == [i \in DOMAIN b |-> IF i > l /\ ~b[i].expired THEN b[i].remaining ELSE 0]

LEMMA RowFacts ==
  ASSUME NEW b, NEW l, RowsOK(b, l)
  PROVE  /\ Len(b) \in Nat /\ DOMAIN b = 1..Len(b) /\ l \in 0..Len(b) /\ IsFiniteSet(1..Len(b))
         /\ \A i \in 1..Len(b) :
              /\ b[i] \in Row /\ b[i].remaining \in Nat /\ b[i].original \in Nat
              /\ b[i].remaining <= b[i].original /\ b[i].expired \in BOOLEAN /\ b[i].refunded \in BOOLEAN
              /\ HeldIn(b)[i] = b[i].remaining /\ HeldIn(b)[i] \in Nat
              /\ Given(b)[i] = b[i].original - b[i].remaining /\ Given(b)[i] \in Nat
              /\ UsableIn(b, l)[i] = (IF i > l /\ ~b[i].expired THEN b[i].remaining ELSE 0)
              /\ UsableIn(b, l)[i] \in Nat
         /\ Sum(HeldIn(b)) = Over(HeldIn(b), 1..Len(b)) /\ Sum(HeldIn(b)) \in Nat
         /\ Sum(Given(b)) = Over(Given(b), 1..Len(b)) /\ Sum(Given(b)) \in Nat
         /\ Sum(UsableIn(b, l)) = Over(UsableIn(b, l), 1..Len(b)) /\ Sum(UsableIn(b, l)) \in Nat
<1> DEFINE n == Len(b)
<1>1. n \in Nat /\ DOMAIN b = 1..n /\ l \in 0..n
  BY DEF RowsOK
<1>2. IsFiniteSet(1..n)
  BY <1>1, FS_Interval
<1>3. \A i \in 1..n : b[i] \in Row /\ b[i].remaining <= b[i].original
  BY <1>1 DEF RowsOK
<1>4. \A i \in 1..n : /\ b[i].remaining \in Nat /\ b[i].original \in Nat
                      /\ b[i].expired \in BOOLEAN /\ b[i].refunded \in BOOLEAN
  BY <1>3 DEF Row
<1>5. \A i \in 1..n : HeldIn(b)[i] = b[i].remaining /\ HeldIn(b)[i] \in Nat
  BY <1>1, <1>4 DEF HeldIn
<1>6. \A i \in 1..n : Given(b)[i] = b[i].original - b[i].remaining /\ Given(b)[i] \in Nat
  BY <1>1, <1>3, <1>4 DEF Given
<1>7. \A i \in 1..n : /\ UsableIn(b, l)[i] = (IF i > l /\ ~b[i].expired THEN b[i].remaining ELSE 0)
                      /\ UsableIn(b, l)[i] \in Nat
  BY <1>1, <1>4 DEF UsableIn
<1>8. /\ HeldIn(b) = [i \in 1..n |-> HeldIn(b)[i]]
      /\ Given(b) = [i \in 1..n |-> Given(b)[i]]
      /\ UsableIn(b, l) = [i \in 1..n |-> UsableIn(b, l)[i]]
  BY <1>1 DEF HeldIn, Given, UsableIn
<1> HIDE DEF n
<1>9. /\ Sum(HeldIn(b)) = Over(HeldIn(b), 1..n) /\ Sum(HeldIn(b)) \in Nat
  <2> DEFINE f == HeldIn(b)
  <2>1. f = [i \in 1..n |-> f[i]] /\ \A i \in 1..n : f[i] \in Nat
    BY <1>5, <1>8
  <2> HIDE DEF f
  <2>2. Sum(f) = Over(f, 1..n) /\ Over(f, 1..n) \in Nat
    <3>1. Sum(f) = Over(f, 1..n)
      BY <2>1, OverDomain
    <3> QED BY <1>2, <2>1, <3>1, OverIsNat
  <2> QED BY <2>2 DEF f
<1>10. /\ Sum(Given(b)) = Over(Given(b), 1..n) /\ Sum(Given(b)) \in Nat
  <2> DEFINE f == Given(b)
  <2>1. f = [i \in 1..n |-> f[i]] /\ \A i \in 1..n : f[i] \in Nat
    BY <1>6, <1>8
  <2> HIDE DEF f
  <2>2. Sum(f) = Over(f, 1..n) /\ Over(f, 1..n) \in Nat
    <3>1. Sum(f) = Over(f, 1..n)
      BY <2>1, OverDomain
    <3> QED BY <1>2, <2>1, <3>1, OverIsNat
  <2> QED BY <2>2 DEF f
<1>11. /\ Sum(UsableIn(b, l)) = Over(UsableIn(b, l), 1..n) /\ Sum(UsableIn(b, l)) \in Nat
  <2> DEFINE f == UsableIn(b, l)
  <2>1. f = [i \in 1..n |-> f[i]] /\ \A i \in 1..n : f[i] \in Nat
    BY <1>7, <1>8
  <2> HIDE DEF f
  <2>2. Sum(f) = Over(f, 1..n) /\ Over(f, 1..n) \in Nat
    <3>1. Sum(f) = Over(f, 1..n)
      BY <2>1, OverDomain
    <3> QED BY <1>2, <2>1, <3>1, OverIsNat
  <2> QED BY <2>2 DEF f
<1> QED BY <1>1, <1>2, <1>3, <1>4, <1>5, <1>6, <1>7, <1>9, <1>10, <1>11 DEF n

\* Rows lose what d says of each.
Loses(b, e, d) ==
  \A i \in 1..Len(b) : /\ d[i] \in Nat /\ b[i].remaining = e[i].remaining + d[i]
                       /\ e[i].original = b[i].original

LEMMA RowsLose ==
  ASSUME NEW b, NEW l, RowsOK(b, l), NEW e, NEW k, RowsOK(e, k), Len(e) = Len(b),
         NEW d, Loses(b, e, d)
  PROVE  /\ Sum(HeldIn(b)) = Sum(HeldIn(e)) + Over(d, 1..Len(b))
         /\ Sum(Given(e)) = Sum(Given(b)) + Over(d, 1..Len(b))
         /\ Over(d, 1..Len(b)) \in Nat
<1> DEFINE T == 1..Len(b)
<1>0. IsFiniteSet(T)
  BY RowFacts
<1>1. \A i \in T : /\ HeldIn(e)[i] \in Nat /\ HeldIn(b)[i] = HeldIn(e)[i] + d[i]
                   /\ Given(b)[i] \in Nat /\ Given(e)[i] = Given(b)[i] + d[i]
                   /\ d[i] \in Nat
  <2> SUFFICES ASSUME NEW i \in T
               PROVE  /\ HeldIn(e)[i] \in Nat /\ HeldIn(b)[i] = HeldIn(e)[i] + d[i]
                      /\ Given(b)[i] \in Nat /\ Given(e)[i] = Given(b)[i] + d[i]
                      /\ d[i] \in Nat
    OBVIOUS
  <2>1. /\ HeldIn(b)[i] = b[i].remaining /\ b[i].remaining \in Nat
        /\ b[i].original \in Nat /\ Given(b)[i] = b[i].original - b[i].remaining /\ Given(b)[i] \in Nat
    BY RowFacts
  <2>2. /\ HeldIn(e)[i] = e[i].remaining /\ e[i].remaining \in Nat
        /\ Given(e)[i] = e[i].original - e[i].remaining
    <3>1. i \in 1..Len(e)
      OBVIOUS
    <3> QED BY <3>1, RowFacts
  <2>3. /\ d[i] \in Nat /\ b[i].remaining = e[i].remaining + d[i]
        /\ e[i].original = b[i].original
    BY DEF Loses
  <2> DEFINE r == b[i].remaining
             s == e[i].remaining
             o == b[i].original
  <2>8. r \in Nat /\ s \in Nat /\ o \in Nat /\ d[i] \in Nat /\ r = s + d[i]
    BY <2>1, <2>2, <2>3
  <2>4. /\ HeldIn(b)[i] = r /\ HeldIn(e)[i] = s /\ Given(b)[i] \in Nat
        /\ Given(b)[i] = o - r /\ Given(e)[i] = o - s
    BY <2>1, <2>2, <2>3
  <2> HIDE DEF r, s, o
  <2>5. o - s = (o - r) + d[i]
    <3> DEFINE q == d[i]
    <3>1. r \in Nat /\ s \in Nat /\ o \in Nat /\ q \in Nat /\ r = s + q
      BY <2>8
    <3> HIDE DEF q
    <3>2. o - s = (o - (s + q)) + q
      BY <3>1
    <3>3. o - s = (o - r) + q
      BY <3>1, <3>2, Zenon
    <3> QED BY <3>3 DEF q
  <2>6. HeldIn(e)[i] \in Nat /\ HeldIn(b)[i] = HeldIn(e)[i] + d[i]
    BY <2>4, <2>8, Zenon
  <2>7. Given(e)[i] = Given(b)[i] + d[i]
    BY <2>4, <2>5, Zenon
  <2> QED BY <2>4, <2>6, <2>7, <2>8, Zenon
<1> HIDE DEF T
<1>2. Over(HeldIn(b), T) = Over(HeldIn(e), T) + Over(d, T)
  BY <1>0, <1>1, OverPlus
<1>3. Over(Given(e), T) = Over(Given(b), T) + Over(d, T)
  BY <1>0, <1>1, OverPlus
<1>4. Over(d, T) \in Nat
  BY <1>0, <1>1, OverIsNat
<1>5. /\ Sum(HeldIn(b)) = Over(HeldIn(b), T) /\ Sum(HeldIn(e)) = Over(HeldIn(e), T)
      /\ Sum(Given(b)) = Over(Given(b), T) /\ Sum(Given(e)) = Over(Given(e), T)
  <2>1. /\ Sum(HeldIn(b)) = Over(HeldIn(b), 1..Len(b)) /\ Sum(HeldIn(e)) = Over(HeldIn(e), 1..Len(e))
        /\ Sum(Given(b)) = Over(Given(b), 1..Len(b)) /\ Sum(Given(e)) = Over(Given(e), 1..Len(e))
    BY RowFacts
  <2> QED BY <2>1 DEF T
<1> QED BY <1>2, <1>3, <1>4, <1>5 DEF T

\* No row can be used for more than before.
LEMMA RowsNoMore ==
  ASSUME NEW b, NEW l, RowsOK(b, l), NEW e, NEW k, RowsOK(e, k), Len(e) = Len(b),
         \A i \in 1..Len(b) : /\ e[i].remaining <= b[i].remaining
                              /\ i > k /\ ~e[i].expired => i > l /\ ~b[i].expired
  PROVE  Sum(UsableIn(e, k)) <= Sum(UsableIn(b, l))
<1> DEFINE T == 1..Len(b)
<1>0. IsFiniteSet(T)
  BY RowFacts
<1>1. \A i \in T : /\ UsableIn(e, k)[i] \in Nat /\ UsableIn(b, l)[i] \in Nat
                   /\ UsableIn(e, k)[i] <= UsableIn(b, l)[i]
  <2> SUFFICES ASSUME NEW i \in T
               PROVE  /\ UsableIn(e, k)[i] \in Nat /\ UsableIn(b, l)[i] \in Nat
                      /\ UsableIn(e, k)[i] <= UsableIn(b, l)[i]
    OBVIOUS
  <2>1. /\ UsableIn(b, l)[i] = (IF i > l /\ ~b[i].expired THEN b[i].remaining ELSE 0)
        /\ UsableIn(b, l)[i] \in Nat /\ b[i].remaining \in Nat
    BY RowFacts
  <2>2. /\ UsableIn(e, k)[i] = (IF i > k /\ ~e[i].expired THEN e[i].remaining ELSE 0)
        /\ UsableIn(e, k)[i] \in Nat /\ e[i].remaining \in Nat
    <3>1. i \in 1..Len(e)
      OBVIOUS
    <3> QED BY <3>1, RowFacts
  <2>3. /\ e[i].remaining <= b[i].remaining
        /\ i > k /\ ~e[i].expired => i > l /\ ~b[i].expired
    OBVIOUS
  <2>4. CASE i > k /\ ~e[i].expired
    BY <2>1, <2>2, <2>3, <2>4
  <2>5. CASE ~ (i > k /\ ~e[i].expired)
    BY <2>1, <2>2, <2>5
  <2> QED BY <2>4, <2>5
<1> HIDE DEF T
<1>2. Over(UsableIn(e, k), T) <= Over(UsableIn(b, l), T)
  BY <1>0, <1>1, OverAtMost
<1>3. Sum(UsableIn(b, l)) = Over(UsableIn(b, l), T) /\ Sum(UsableIn(e, k)) = Over(UsableIn(e, k), T)
  <2>1. /\ Sum(UsableIn(b, l)) = Over(UsableIn(b, l), 1..Len(b))
        /\ Sum(UsableIn(e, k)) = Over(UsableIn(e, k), 1..Len(e))
    BY RowFacts
  <2> QED BY <2>1 DEF T
<1> QED BY <1>2, <1>3

\* Usable rows gain what d says of each.
Gains(b, e, l, d) ==
  \A i \in 1..Len(b) : /\ d[i] \in Nat /\ e[i].remaining = b[i].remaining + d[i]
                       /\ e[i].expired = b[i].expired
                       /\ ~ (i > l /\ ~b[i].expired) => d[i] = 0

LEMMA UsableGain ==
  ASSUME NEW b, NEW l, RowsOK(b, l), NEW e, RowsOK(e, l), Len(e) = Len(b),
         NEW d, Gains(b, e, l, d)
  PROVE  Sum(UsableIn(e, l)) = Sum(UsableIn(b, l)) + Over(d, 1..Len(b))
<1> DEFINE T == 1..Len(b)
<1>0. IsFiniteSet(T)
  BY RowFacts
<1>1. \A i \in T : /\ d[i] \in Nat /\ UsableIn(b, l)[i] \in Nat
                   /\ UsableIn(e, l)[i] = UsableIn(b, l)[i] + d[i]
  <2> SUFFICES ASSUME NEW i \in T
               PROVE  /\ d[i] \in Nat /\ UsableIn(b, l)[i] \in Nat
                      /\ UsableIn(e, l)[i] = UsableIn(b, l)[i] + d[i]
    OBVIOUS
  <2>1. /\ UsableIn(b, l)[i] = (IF i > l /\ ~b[i].expired THEN b[i].remaining ELSE 0)
        /\ UsableIn(b, l)[i] \in Nat /\ b[i].remaining \in Nat
    BY RowFacts
  <2>2. UsableIn(e, l)[i] = (IF i > l /\ ~e[i].expired THEN e[i].remaining ELSE 0)
    <3>1. i \in 1..Len(e)
      OBVIOUS
    <3> QED BY <3>1, RowFacts
  <2>3. /\ d[i] \in Nat /\ e[i].remaining = b[i].remaining + d[i] /\ e[i].expired = b[i].expired
        /\ ~ (i > l /\ ~b[i].expired) => d[i] = 0
    BY DEF Gains
  <2>4. CASE i > l /\ ~b[i].expired
    <3>1. UsableIn(e, l)[i] = e[i].remaining /\ UsableIn(b, l)[i] = b[i].remaining
      BY <2>1, <2>2, <2>3, <2>4
    <3> QED BY <2>1, <2>3, <3>1
  <2>5. CASE ~ (i > l /\ ~b[i].expired)
    <3>1. UsableIn(e, l)[i] = 0 /\ UsableIn(b, l)[i] = 0 /\ d[i] = 0
      BY <2>1, <2>2, <2>3, <2>5
    <3> QED BY <2>3, <3>1
  <2> QED BY <2>4, <2>5
<1> HIDE DEF T
<1>2. Over(UsableIn(e, l), T) = Over(UsableIn(b, l), T) + Over(d, T)
  BY <1>0, <1>1, OverPlus
<1>3. Sum(UsableIn(b, l)) = Over(UsableIn(b, l), T) /\ Sum(UsableIn(e, l)) = Over(UsableIn(e, l), T)
  <2>1. /\ Sum(UsableIn(b, l)) = Over(UsableIn(b, l), 1..Len(b))
        /\ Sum(UsableIn(e, l)) = Over(UsableIn(e, l), 1..Len(e))
    BY RowFacts
  <2> QED BY <2>1 DEF T
<1> QED BY <1>2, <1>3 DEF T

\* What rows hold can be used or is left over.
LeftIn(b, l) == [i \in DOMAIN b |-> IF i > l /\ ~b[i].expired THEN 0 ELSE b[i].remaining]

LEMMA RowsSplit ==
  ASSUME NEW b, NEW l, RowsOK(b, l)
  PROVE  /\ Sum(HeldIn(b)) = Sum(UsableIn(b, l)) + Sum(LeftIn(b, l))
         /\ Sum(LeftIn(b, l)) \in Nat /\ Sum(LeftIn(b, l)) = Over(LeftIn(b, l), 1..Len(b))
<1> DEFINE T == 1..Len(b)
           f == LeftIn(b, l)
<1>0. IsFiniteSet(T) /\ DOMAIN b = T
  BY RowFacts
<1>1. \A i \in T : /\ UsableIn(b, l)[i] \in Nat /\ f[i] \in Nat
                   /\ HeldIn(b)[i] = UsableIn(b, l)[i] + f[i]
  <2> SUFFICES ASSUME NEW i \in T
               PROVE  /\ UsableIn(b, l)[i] \in Nat /\ f[i] \in Nat
                      /\ HeldIn(b)[i] = UsableIn(b, l)[i] + f[i]
    OBVIOUS
  <2>1. /\ UsableIn(b, l)[i] = (IF i > l /\ ~b[i].expired THEN b[i].remaining ELSE 0)
        /\ b[i].remaining \in Nat /\ HeldIn(b)[i] = b[i].remaining
    BY RowFacts
  <2>2. f[i] = (IF i > l /\ ~b[i].expired THEN 0 ELSE b[i].remaining)
    BY <1>0 DEF LeftIn
  <2> HIDE DEF f
  <2> QED BY <2>1, <2>2
<1>2. f = [i \in T |-> f[i]]
  BY <1>0 DEF LeftIn
<1> HIDE DEF T, f
<1>3. Over(HeldIn(b), T) = Over(UsableIn(b, l), T) + Over(f, T)
  BY <1>0, <1>1, OverPlus
<1>4. Sum(f) = Over(f, T) /\ Over(f, T) \in Nat
  <2>1. Sum(f) = Over(f, T)
    BY <1>2, OverDomain
  <2> QED BY <1>0, <1>1, <2>1, OverIsNat
<1>5. Sum(HeldIn(b)) = Over(HeldIn(b), T) /\ Sum(UsableIn(b, l)) = Over(UsableIn(b, l), T)
  <2>1. /\ Sum(HeldIn(b)) = Over(HeldIn(b), 1..Len(b))
        /\ Sum(UsableIn(b, l)) = Over(UsableIn(b, l), 1..Len(b))
    BY RowFacts
  <2> QED BY <2>1 DEF T
<1> QED BY <1>3, <1>4, <1>5 DEF f, T

\* No row has more left over than before.
LEMMA LeftNoMore ==
  ASSUME NEW b, NEW l, RowsOK(b, l), NEW e, RowsOK(e, l), Len(e) = Len(b),
         \A i \in 1..Len(b) : e[i].remaining <= b[i].remaining /\ e[i].expired = b[i].expired
  PROVE  Sum(LeftIn(e, l)) <= Sum(LeftIn(b, l))
<1> DEFINE T == 1..Len(b)
<1>0. IsFiniteSet(T) /\ DOMAIN b = T /\ DOMAIN e = T
  <2>1. DOMAIN e = 1..Len(e)
    BY RowFacts
  <2> QED BY <2>1, RowFacts
<1>1. \A i \in T : /\ LeftIn(e, l)[i] \in Nat /\ LeftIn(b, l)[i] \in Nat
                   /\ LeftIn(e, l)[i] <= LeftIn(b, l)[i]
  <2> SUFFICES ASSUME NEW i \in T
               PROVE  /\ LeftIn(e, l)[i] \in Nat /\ LeftIn(b, l)[i] \in Nat
                      /\ LeftIn(e, l)[i] <= LeftIn(b, l)[i]
    OBVIOUS
  <2>1. /\ LeftIn(b, l)[i] = (IF i > l /\ ~b[i].expired THEN 0 ELSE b[i].remaining)
        /\ LeftIn(e, l)[i] = (IF i > l /\ ~e[i].expired THEN 0 ELSE e[i].remaining)
    BY <1>0 DEF LeftIn
  <2>2. b[i].remaining \in Nat
    BY RowFacts
  <2>3. e[i].remaining \in Nat
    <3>1. i \in 1..Len(e)
      OBVIOUS
    <3> QED BY <3>1, RowFacts
  <2>4. e[i].remaining <= b[i].remaining /\ e[i].expired = b[i].expired
    OBVIOUS
  <2> QED BY <2>1, <2>2, <2>3, <2>4
<1> HIDE DEF T
<1>2. Over(LeftIn(e, l), T) <= Over(LeftIn(b, l), T)
  BY <1>0, <1>1, OverAtMost
<1>3. Sum(LeftIn(b, l)) = Over(LeftIn(b, l), T) /\ Sum(LeftIn(e, l)) = Over(LeftIn(e, l), T)
  <2>1. /\ Sum(LeftIn(b, l)) = Over(LeftIn(b, l), 1..Len(b))
        /\ Sum(LeftIn(e, l)) = Over(LeftIn(e, l), 1..Len(e))
    BY RowsSplit
  <2> QED BY <2>1 DEF T
<1> QED BY <1>2, <1>3

\* A new row comes last and is usable.
Appends(b, n, e) ==
  e = Append(b, [original |-> n, remaining |-> n, expired |-> FALSE, refunded |-> FALSE])

LEMMA RowsAppend ==
  ASSUME NEW b, NEW l, RowsOK(b, l), NEW n \in Nat, NEW e, Appends(b, n, e)
  PROVE  /\ RowsOK(e, l)
         /\ Sum(HeldIn(e)) = Sum(HeldIn(b)) + n
         /\ Sum(Given(e)) = Sum(Given(b))
         /\ Sum(UsableIn(e, l)) = Sum(UsableIn(b, l)) + n
<1> DEFINE m == Len(b)
           r == [original |-> n, remaining |-> n, expired |-> FALSE, refunded |-> FALSE]
<1>1. r \in Row
  BY DEF Row
<1>2. m \in Nat /\ l \in 0..m /\ b \in Seq(Row)
  BY RowFacts DEF RowsOK
<1>3. /\ e \in Seq(Row) /\ Len(e) = m + 1 /\ e[m + 1] = r
      /\ \A i \in 1..m : e[i] = b[i]
  <2> HIDE DEF r
  <2>1. e = Append(b, r)
    BY DEF r, Appends
  <2> QED BY <1>1, <1>2, <2>1
<1>4. RowsOK(e, l)
  <2>1. l \in 0..(m + 1)
    BY <1>2
  <2>2. ASSUME NEW i \in 1..(m + 1)
        PROVE  e[i].remaining <= e[i].original /\ (e[i].expired => i <= l)
    <3>1. CASE i = m + 1
      BY <1>3, <3>1
    <3>2. CASE i # m + 1
      <4>1. i \in 1..m
        BY <1>2, <3>2
      <4>2. b[i].remaining <= b[i].original /\ (b[i].expired => i <= l)
        BY <4>1 DEF RowsOK
      <4> QED BY <1>3, <4>1, <4>2
    <3> QED BY <3>1, <3>2
  <2> QED BY <1>3, <2>1, <2>2 DEF RowsOK
<1>5. /\ (m + 1) - 1 = m /\ m + 1 \in Nat \ {0} /\ m + 1 \in 1..(m + 1) /\ m + 1 > l
      /\ \A i \in 1..m : i \in 1..(m + 1)
  BY <1>2
<1>6. /\ HeldIn(e)[m + 1] = n /\ Given(e)[m + 1] = 0 /\ UsableIn(e, l)[m + 1] = n
      /\ \A i \in 1..m : /\ HeldIn(e)[i] = HeldIn(b)[i] /\ Given(e)[i] = Given(b)[i]
                         /\ UsableIn(e, l)[i] = UsableIn(b, l)[i]
      /\ \A i \in 1..(m + 1) : HeldIn(e)[i] \in Nat /\ Given(e)[i] \in Nat /\ UsableIn(e, l)[i] \in Nat
  <2>1. DOMAIN e = 1..(m + 1) /\ DOMAIN b = 1..m
    BY <1>3, RowFacts
  <2>2. HeldIn(e)[m + 1] = n /\ Given(e)[m + 1] = 0 /\ UsableIn(e, l)[m + 1] = n
    BY <1>3, <1>5, <2>1 DEF HeldIn, Given, UsableIn
  <2>3. \A i \in 1..m : /\ HeldIn(e)[i] = HeldIn(b)[i] /\ Given(e)[i] = Given(b)[i]
                        /\ UsableIn(e, l)[i] = UsableIn(b, l)[i]
    BY <1>3, <1>5, <2>1 DEF HeldIn, Given, UsableIn
  <2>4. \A i \in 1..(m + 1) : HeldIn(e)[i] \in Nat /\ Given(e)[i] \in Nat /\ UsableIn(e, l)[i] \in Nat
    <3> HIDE DEF m
    <3> QED BY <1>3, <1>4, RowFacts
  <2> QED BY <2>2, <2>3, <2>4
<1> HIDE DEF m, r
<1>7. ASSUME NEW f, NEW g, \A i \in 1..(m + 1) : f[i] \in Nat, \A i \in 1..m : f[i] = g[i]
      PROVE  Over(f, 1..(m + 1)) = f[m + 1] + Over(g, 1..m) /\ Over(g, 1..m) \in Nat
  <2>1. Over(f, 1..(m + 1)) = f[m + 1] + Over(f, 1..((m + 1) - 1)) /\ Over(f, 1..((m + 1) - 1)) \in Nat
    BY <1>5, <1>7, OverNext
  <2>2. Over(f, 1..m) = Over(g, 1..m)
    BY <1>7, OverSame
  <2> QED BY <1>5, <2>1, <2>2
<1>8. /\ Over(HeldIn(e), 1..(m + 1)) = n + Over(HeldIn(b), 1..m) /\ Over(HeldIn(b), 1..m) \in Nat
      /\ Over(Given(e), 1..(m + 1)) = 0 + Over(Given(b), 1..m) /\ Over(Given(b), 1..m) \in Nat
      /\ Over(UsableIn(e, l), 1..(m + 1)) = n + Over(UsableIn(b, l), 1..m)
      /\ Over(UsableIn(b, l), 1..m) \in Nat
  BY <1>6, <1>7
<1>9. /\ Sum(HeldIn(b)) = Over(HeldIn(b), 1..m) /\ Sum(HeldIn(e)) = Over(HeldIn(e), 1..(m + 1))
      /\ Sum(Given(b)) = Over(Given(b), 1..m) /\ Sum(Given(e)) = Over(Given(e), 1..(m + 1))
      /\ Sum(UsableIn(b, l)) = Over(UsableIn(b, l), 1..m)
      /\ Sum(UsableIn(e, l)) = Over(UsableIn(e, l), 1..(m + 1))
  BY <1>3, <1>4, RowFacts DEF m
<1> QED BY <1>4, <1>8, <1>9

(***************************************************************************)
(* What an operation does to the rows                                      *)
(***************************************************************************)
CapacitiesIn(b, l) == [i \in DOMAIN b |-> IF i > l /\ ~b[i].expired
                                          THEN b[i].original - b[i].remaining ELSE 0]
DrawnFrom(b, take) == [i \in DOMAIN b |-> [b[i] EXCEPT !.remaining = @ - take[i]]]
GivenTo(b, back) == [i \in DOMAIN b |-> [b[i] EXCEPT !.remaining = @ + back[i]]]

\* As many rows, and none marked before it lapsed.
LikeRows(b, e, k) ==
  /\ e = [i \in 1..Len(b) |-> e[i]] /\ k \in Nat /\ k <= Len(b)
  /\ \A i \in 1..Len(b) : /\ e[i] \in Row /\ e[i].remaining <= e[i].original
                          /\ e[i].expired => b[i].expired \/ i <= k

\* Rows of the same number and type are rows.
LEMMA RowsAre ==
  ASSUME NEW b, NEW l, RowsOK(b, l), NEW e, NEW k, l <= k, LikeRows(b, e, k)
  PROVE  RowsOK(e, k) /\ Len(e) = Len(b)
<1>0. /\ e = [i \in 1..Len(b) |-> e[i]] /\ k \in Nat /\ k <= Len(b)
      /\ \A i \in 1..Len(b) : /\ e[i] \in Row /\ e[i].remaining <= e[i].original
                              /\ e[i].expired => b[i].expired \/ i <= k
  BY DEF LikeRows
<1>1. Len(b) \in Nat /\ l \in 0..Len(b)
  BY RowFacts
<1>2. e \in [1..Len(b) -> Row]
  BY <1>0
<1>3. e \in Seq(Row) /\ Len(e) = Len(b)
  <2> DEFINE n == Len(b)
  <2>1. n \in Nat /\ e \in [1..n -> Row]
    BY <1>1, <1>2
  <2> HIDE DEF n
  <2>2. e \in Seq(Row) /\ Len(e) = n
    BY <2>1
  <2> QED BY <2>2 DEF n
<1>4. \A i \in 1..Len(b) : e[i].expired => i <= k
  <2> SUFFICES ASSUME NEW i \in 1..Len(b), e[i].expired PROVE i <= k
    OBVIOUS
  <2>1. b[i].expired => i <= l
    BY DEF RowsOK
  <2>2. b[i].expired \/ i <= k
    BY <1>0
  <2> QED BY <1>0, <1>1, <2>1, <2>2
<1>5. k \in 0..Len(b)
  BY <1>0
<1>6. \A i \in 1..Len(e) : e[i].remaining <= e[i].original /\ (e[i].expired => i <= k)
  BY <1>0, <1>3, <1>4
<1> QED BY <1>3, <1>5, <1>6 DEF RowsOK

LEMMA RowsTake ==
  ASSUME NEW b, NEW l, RowsOK(b, l), NEW n \in Nat,
         NEW take, take = Share(UsableIn(b, l), n), NEW e, e = DrawnFrom(b, take)
  PROVE  /\ RowsOK(e, l) /\ Sum(take) \in Nat /\ Sum(take) <= n
         /\ Sum(HeldIn(b)) = Sum(HeldIn(e)) + Sum(take)
         /\ Sum(Given(e)) = Sum(Given(b)) + Sum(take)
         /\ Sum(UsableIn(b, l)) = Sum(UsableIn(e, l)) + Sum(take)
         /\ \A i \in 1..Len(b) : e[i].remaining < b[i].remaining =>
              /\ i > l /\ ~b[i].expired
              /\ \A j \in 1..(i - 1) : j > l /\ ~b[j].expired => e[j].remaining = 0
<1> DEFINE m == Len(b)
           f == UsableIn(b, l)
<1>1. /\ m \in Nat /\ l \in 0..m /\ DOMAIN b = 1..m /\ DOMAIN f = 1..m
      /\ \A i \in 1..m : f[i] \in Nat /\ f[i] = (IF i > l /\ ~b[i].expired THEN b[i].remaining ELSE 0)
  <2>1. DOMAIN f = DOMAIN b
    BY DEF UsableIn
  <2> HIDE DEF f
  <2> QED BY <2>1, RowFacts DEF f
<1> HIDE DEF f
<1>2. /\ take = [i \in 1..m |-> take[i]]
      /\ \A i \in 1..m : /\ take[i] \in Nat /\ take[i] <= f[i]
                         /\ InOrder(take, f, i)
  <2>1. take = Share(f, n)
    BY DEF f
  <2> HIDE DEF m
  <2>2. /\ Share(f, n) = [i \in 1..m |-> Share(f, n)[i]]
        /\ \A i \in 1..m : /\ Share(f, n)[i] \in Nat /\ Share(f, n)[i] <= f[i]
                           /\ InOrder(Share(f, n), f, i)
    BY <1>1, ShareTakes
  <2> QED BY <2>1, <2>2, Zenon
<1>3. Over(take, 1..m) = Least(n, Over(f, 1..m)) /\ Over(f, 1..m) \in Nat
  <2>1. take = Share(f, n)
    BY DEF f
  <2> HIDE DEF m
  <2> QED BY <1>1, <2>1, ShareTotal
<1>4. Sum(take) = Over(take, 1..m)
  <2> HIDE DEF m
  <2> QED BY <1>2, OverDomain
<1>5. \A i \in 1..m :
        /\ e[i] = [b[i] EXCEPT !.remaining = @ - take[i]]
        /\ b[i] \in Row /\ take[i] <= b[i].remaining /\ b[i].remaining <= b[i].original
        /\ b[i].remaining \in Nat /\ b[i].original \in Nat /\ b[i].expired \in BOOLEAN
  <2> SUFFICES ASSUME NEW i \in 1..m
               PROVE  /\ e[i] = [b[i] EXCEPT !.remaining = @ - take[i]]
                      /\ b[i] \in Row /\ take[i] <= b[i].remaining /\ b[i].remaining <= b[i].original
                      /\ b[i].remaining \in Nat /\ b[i].original \in Nat /\ b[i].expired \in BOOLEAN
    OBVIOUS
  <2>1. /\ b[i] \in Row /\ b[i].remaining \in Nat /\ b[i].remaining <= b[i].original
        /\ b[i].original \in Nat /\ b[i].expired \in BOOLEAN
    BY RowFacts
  <2>2. e[i] = [b[i] EXCEPT !.remaining = @ - take[i]]
    BY <1>1 DEF DrawnFrom
  <2>3. take[i] <= f[i] /\ take[i] \in Nat /\ f[i] <= b[i].remaining
    <3>1. take[i] <= f[i] /\ take[i] \in Nat
      BY <1>2
    <3>2. f[i] = (IF i > l /\ ~b[i].expired THEN b[i].remaining ELSE 0)
      BY <1>1
    <3>3. f[i] <= b[i].remaining
      BY <2>1, <3>2
    <3> QED BY <3>1, <3>3
  <2>4. f[i] \in Nat
    BY <1>1
  <2> QED BY <2>1, <2>2, <2>3, <2>4
<1>6. \A i \in 1..m :
        /\ e[i] \in Row /\ e[i].remaining = b[i].remaining - take[i] /\ e[i].original = b[i].original
        /\ e[i].expired = b[i].expired /\ e[i].remaining <= e[i].original
        /\ e[i].remaining <= b[i].remaining /\ b[i].remaining = e[i].remaining + take[i]
  <2> SUFFICES ASSUME NEW i \in 1..m
               PROVE  /\ e[i] \in Row /\ e[i].remaining = b[i].remaining - take[i]
                      /\ e[i].original = b[i].original
                      /\ e[i].expired = b[i].expired /\ e[i].remaining <= e[i].original
                      /\ e[i].remaining <= b[i].remaining /\ b[i].remaining = e[i].remaining + take[i]
    OBVIOUS
  <2>1. take[i] \in Nat
    BY <1>2
  <2>2. /\ e[i] = [b[i] EXCEPT !.remaining = @ - take[i]] /\ b[i] \in Row
        /\ take[i] <= b[i].remaining /\ b[i].remaining <= b[i].original
        /\ b[i].remaining \in Nat /\ b[i].original \in Nat
    BY <1>5
  <2>3. /\ e[i].remaining = b[i].remaining - take[i] /\ e[i].original = b[i].original
        /\ e[i].expired = b[i].expired
    BY <2>2 DEF Row
  <2>4. b[i].remaining - take[i] \in Nat
    BY <2>1, <2>2
  <2>5. e[i] \in Row
    BY <2>2, <2>4 DEF Row
  <2> QED BY <2>1, <2>2, <2>3, <2>5
<1>7. e = [i \in 1..m |-> e[i]]
  BY <1>1 DEF DrawnFrom
<1>8. RowsOK(e, l) /\ Len(e) = m
  <2>1. l \in Nat /\ l <= m /\ l <= l
    BY <1>1
  <2>2. LikeRows(b, e, l)
    BY <1>6, <1>7, <2>1 DEF LikeRows
  <2> QED BY <2>1, <2>2, RowsAre
<1>9. /\ Sum(HeldIn(b)) = Sum(HeldIn(e)) + Over(take, 1..m)
      /\ Sum(Given(e)) = Sum(Given(b)) + Over(take, 1..m)
      /\ Over(take, 1..m) \in Nat
  <2>1. Loses(b, e, take)
    BY <1>2, <1>6 DEF Loses
  <2> QED BY <1>8, <2>1, RowsLose
<1>10. Sum(UsableIn(b, l)) = Sum(UsableIn(e, l)) + Over(take, 1..m)
  <2>1. \A i \in 1..m : /\ take[i] \in Nat /\ b[i].remaining = e[i].remaining + take[i]
                        /\ b[i].expired = e[i].expired
                        /\ ~ (i > l /\ ~e[i].expired) => take[i] = 0
    <3> SUFFICES ASSUME NEW i \in 1..m
                 PROVE  /\ take[i] \in Nat /\ b[i].remaining = e[i].remaining + take[i]
                        /\ b[i].expired = e[i].expired
                        /\ ~ (i > l /\ ~e[i].expired) => take[i] = 0
      OBVIOUS
    <3>1. take[i] \in Nat /\ take[i] <= f[i]
      BY <1>2
    <3>2. f[i] = (IF i > l /\ ~b[i].expired THEN b[i].remaining ELSE 0)
      BY <1>1
    <3>3. b[i].remaining = e[i].remaining + take[i] /\ e[i].expired = b[i].expired
      BY <1>6
    <3>4. ~ (i > l /\ ~e[i].expired) => take[i] = 0
      BY <3>1, <3>2, <3>3
    <3> QED BY <3>1, <3>3, <3>4
  <2>2. Gains(e, b, l, take) /\ Len(b) = Len(e)
    BY <1>8, <2>1 DEF Gains
  <2> QED BY <1>8, <2>2, UsableGain
<1>11. ASSUME NEW i \in 1..m, e[i].remaining < b[i].remaining
       PROVE  /\ i > l /\ ~b[i].expired
              /\ \A j \in 1..(i - 1) : j > l /\ ~b[j].expired => e[j].remaining = 0
  <2>1. take[i] \in Nat /\ take[i] > 0 /\ take[i] <= f[i]
    <3>1. /\ e[i].remaining = b[i].remaining - take[i] /\ b[i].remaining \in Nat
          /\ take[i] \in Nat /\ take[i] <= f[i]
      BY <1>2, <1>5, <1>6
    <3> QED BY <1>11, <3>1
  <2>2. i > l /\ ~b[i].expired
    BY <1>1, <2>1
  <2>3. ASSUME NEW j \in 1..(i - 1), j > l, ~b[j].expired PROVE e[j].remaining = 0
    <3>1. j \in 1..m
      BY <1>1
    <3>2. take[j] = f[j] /\ f[j] = b[j].remaining
      BY <1>1, <1>2, <2>1, <2>3, <3>1 DEF InOrder
    <3>3. b[j].remaining \in Nat /\ e[j].remaining = b[j].remaining - take[j]
      BY <1>5, <1>6, <3>1
    <3> QED BY <3>2, <3>3
  <2> QED BY <2>2, <2>3
<1>12. Sum(take) \in Nat /\ Sum(take) <= n
  BY <1>3, <1>4, <1>9 DEF Least
<1> QED BY <1>4, <1>8, <1>9, <1>10, <1>11, <1>12

\* As long as no row has lapsed, all that was given is taken back.
TakesAll(l, n, room, bytes) == l = 0 /\ n <= room => bytes = n

LEMMA RowsGetBack ==
  ASSUME NEW b, NEW l, RowsOK(b, l), NEW n \in Nat,
         NEW back, back = Share(CapacitiesIn(b, l), n), NEW e, e = GivenTo(b, back)
  PROVE  /\ RowsOK(e, l) /\ Len(e) = Len(b) /\ Sum(back) \in Nat /\ Sum(back) <= n
         /\ Sum(HeldIn(e)) = Sum(HeldIn(b)) + Sum(back)
         /\ Sum(Given(b)) = Sum(Given(e)) + Sum(back)
         /\ Sum(UsableIn(e, l)) = Sum(UsableIn(b, l)) + Sum(back)
         /\ TakesAll(l, n, Sum(Given(b)), Sum(back))
         /\ \A i \in 1..Len(b) : ~ (e[i].remaining < b[i].remaining)
<1> DEFINE m == Len(b)
           f == CapacitiesIn(b, l)
<1>1. /\ m \in Nat /\ l \in 0..m /\ DOMAIN b = 1..m /\ DOMAIN f = 1..m
      /\ \A i \in 1..m : f[i] \in Nat /\ f[i] = (IF i > l /\ ~b[i].expired
                                                 THEN b[i].original - b[i].remaining ELSE 0)
  <2>1. m \in Nat /\ l \in 0..m /\ DOMAIN b = 1..m
    BY RowFacts
  <2>2. \A i \in 1..m : b[i].remaining \in Nat /\ b[i].original \in Nat /\ b[i].remaining <= b[i].original
    BY RowFacts
  <2>3. f = [i \in 1..m |-> IF i > l /\ ~b[i].expired THEN b[i].original - b[i].remaining ELSE 0]
    BY <2>1 DEF CapacitiesIn
  <2> HIDE DEF f, m
  <2>4. \A i \in 1..m : f[i] = (IF i > l /\ ~b[i].expired THEN b[i].original - b[i].remaining ELSE 0)
    BY <2>3
  <2>5. \A i \in 1..m : f[i] \in Nat
    BY <2>2, <2>4
  <2>6. DOMAIN f = 1..m
    BY <2>3
  <2> QED BY <2>1, <2>4, <2>5, <2>6 DEF m
<1> HIDE DEF f
<1>2. /\ back = [i \in 1..m |-> back[i]]
      /\ \A i \in 1..m : back[i] \in Nat /\ back[i] <= f[i]
  <2>1. back = Share(f, n)
    BY DEF f
  <2> HIDE DEF m
  <2> QED BY <1>1, <2>1, ShareTakes
<1>3. Over(back, 1..m) = Least(n, Over(f, 1..m)) /\ Over(f, 1..m) \in Nat
  <2>1. back = Share(f, n)
    BY DEF f
  <2> HIDE DEF m
  <2> QED BY <1>1, <2>1, ShareTotal
<1>4. Sum(back) = Over(back, 1..m)
  <2> HIDE DEF m
  <2> QED BY <1>2, OverDomain
<1>5. \A i \in 1..m :
        /\ e[i] = [b[i] EXCEPT !.remaining = @ + back[i]] /\ b[i] \in Row /\ back[i] \in Nat
        /\ b[i].remaining \in Nat /\ b[i].original \in Nat /\ b[i].expired \in BOOLEAN
        /\ b[i].remaining + back[i] <= b[i].original
        /\ ~ (i > l /\ ~b[i].expired) => back[i] = 0
  <2> SUFFICES ASSUME NEW i \in 1..m
               PROVE  /\ e[i] = [b[i] EXCEPT !.remaining = @ + back[i]]
                      /\ b[i] \in Row /\ back[i] \in Nat
                      /\ b[i].remaining \in Nat /\ b[i].original \in Nat /\ b[i].expired \in BOOLEAN
                      /\ b[i].remaining + back[i] <= b[i].original
                      /\ ~ (i > l /\ ~b[i].expired) => back[i] = 0
    OBVIOUS
  <2>1. /\ b[i] \in Row /\ b[i].remaining \in Nat /\ b[i].remaining <= b[i].original
        /\ b[i].original \in Nat /\ b[i].expired \in BOOLEAN
    BY RowFacts
  <2>2. e[i] = [b[i] EXCEPT !.remaining = @ + back[i]]
    BY <1>1 DEF GivenTo
  <2>3. /\ back[i] <= f[i] /\ back[i] \in Nat
        /\ f[i] = (IF i > l /\ ~b[i].expired THEN b[i].original - b[i].remaining ELSE 0)
    BY <1>1, <1>2
  <2>4. CASE i > l /\ ~b[i].expired
    <3>1. f[i] = b[i].original - b[i].remaining
      BY <2>3, <2>4
    <3>2. b[i].remaining + back[i] <= b[i].original
      BY <2>1, <2>3, <3>1
    <3> QED BY <2>1, <2>2, <2>3, <2>4, <3>2
  <2>5. CASE ~ (i > l /\ ~b[i].expired)
    <3>1. back[i] = 0
      BY <2>3, <2>5
    <3>2. b[i].remaining + back[i] <= b[i].original
      BY <2>1, <3>1
    <3> QED BY <2>1, <2>2, <2>3, <3>1, <3>2
  <2> QED BY <2>4, <2>5
<1>6. \A i \in 1..m :
        /\ e[i] \in Row /\ e[i].remaining = b[i].remaining + back[i] /\ e[i].original = b[i].original
        /\ b[i].original = e[i].original
        /\ e[i].expired = b[i].expired /\ e[i].remaining <= e[i].original
        /\ b[i].remaining <= e[i].remaining
  <2> SUFFICES ASSUME NEW i \in 1..m
               PROVE  /\ e[i] \in Row /\ e[i].remaining = b[i].remaining + back[i]
                      /\ e[i].original = b[i].original /\ b[i].original = e[i].original
                      /\ e[i].expired = b[i].expired /\ e[i].remaining <= e[i].original
                      /\ b[i].remaining <= e[i].remaining
    OBVIOUS
  <2>1. /\ e[i] = [b[i] EXCEPT !.remaining = @ + back[i]] /\ b[i] \in Row /\ back[i] \in Nat
        /\ b[i].remaining \in Nat /\ b[i].original \in Nat
        /\ b[i].remaining + back[i] <= b[i].original
    BY <1>5
  <2>2. /\ e[i].remaining = b[i].remaining + back[i] /\ e[i].original = b[i].original
        /\ e[i].expired = b[i].expired
    BY <2>1 DEF Row
  <2>3. b[i].remaining + back[i] \in Nat
    BY <2>1
  <2>4. e[i] \in Row
    BY <2>1, <2>3 DEF Row
  <2>5. e[i].remaining <= e[i].original /\ b[i].remaining <= e[i].remaining
    BY <2>1, <2>2
  <2> QED BY <2>1, <2>2, <2>4, <2>5, Zenon
<1>7. e = [i \in 1..m |-> e[i]]
  BY <1>1 DEF GivenTo
<1>8. RowsOK(e, l) /\ Len(e) = m
  <2>1. l \in Nat /\ l <= m /\ l <= l
    BY <1>1
  <2>2. LikeRows(b, e, l)
    BY <1>6, <1>7, <2>1 DEF LikeRows
  <2> QED BY <2>1, <2>2, RowsAre
<1>9. /\ Sum(HeldIn(e)) = Sum(HeldIn(b)) + Over(back, 1..m)
      /\ Sum(Given(b)) = Sum(Given(e)) + Over(back, 1..m)
      /\ Over(back, 1..m) \in Nat
  <2>1. Loses(e, b, back)
    BY <1>5, <1>6, <1>8 DEF Loses
  <2>2. /\ Sum(HeldIn(e)) = Sum(HeldIn(b)) + Over(back, 1..Len(e))
        /\ Sum(Given(b)) = Sum(Given(e)) + Over(back, 1..Len(e))
        /\ Over(back, 1..Len(e)) \in Nat
    <3>1. Len(b) = Len(e)
      BY <1>8
    <3> HIDE DEF m
    <3>2. RowsOK(e, l)
      BY <1>8
    <3> QED BY <2>1, <3>1, <3>2, RowsLose
  <2> QED BY <1>8, <2>2
<1>10. Sum(UsableIn(e, l)) = Sum(UsableIn(b, l)) + Over(back, 1..m)
  <2>1. \A i \in 1..Len(b) : /\ back[i] \in Nat /\ e[i].remaining = b[i].remaining + back[i]
                             /\ e[i].expired = b[i].expired
                             /\ ~ (i > l /\ ~b[i].expired) => back[i] = 0
    BY <1>5, <1>6
  <2>2. RowsOK(e, l) /\ Len(e) = Len(b)
    BY <1>8
  <2> HIDE DEF m
  <2>3. Gains(b, e, l, back)
    BY <2>1, <2>2 DEF Gains
  <2>4. Sum(UsableIn(e, l)) = Sum(UsableIn(b, l)) + Over(back, 1..Len(b))
    BY <2>2, <2>3, UsableGain
  <2> QED BY <2>4 DEF m
<1>11. Sum(back) \in Nat /\ Sum(back) <= n
  BY <1>3, <1>4, <1>9 DEF Least
<1>12. ASSUME l = 0, n <= Sum(Given(b)) PROVE Sum(back) = n
  <2>1. \A i \in 1..m : /\ ~b[i].expired /\ i > l
                        /\ Given(b)[i] = b[i].original - b[i].remaining
    <3> SUFFICES ASSUME NEW i \in 1..m
                 PROVE  ~b[i].expired /\ i > l /\ Given(b)[i] = b[i].original - b[i].remaining
      OBVIOUS
    <3>1. i > l /\ ~ (i <= l)
      BY <1>1, <1>12
    <3>2. b[i].expired => i <= l
      BY DEF RowsOK
    <3>3. Given(b)[i] = b[i].original - b[i].remaining
      BY RowFacts
    <3> QED BY <3>1, <3>2, <3>3
  <2>2. \A i \in 1..m : f[i] = Given(b)[i]
    BY <1>1, <2>1
  <2>3. Over(f, 1..m) = Over(Given(b), 1..m)
    <3> HIDE DEF m
    <3> QED BY <2>2, OverSame
  <2>4. Sum(Given(b)) = Over(Given(b), 1..m)
    BY RowFacts
  <2> QED BY <1>3, <1>4, <1>12, <2>3, <2>4 DEF Least
<1>13. \A i \in 1..m : ~ (e[i].remaining < b[i].remaining)
  <2> SUFFICES ASSUME NEW i \in 1..m PROVE ~ (e[i].remaining < b[i].remaining)
    OBVIOUS
  <2>1. b[i].remaining \in Nat /\ back[i] \in Nat /\ e[i].remaining = b[i].remaining + back[i]
    BY <1>5, <1>6
  <2> QED BY <2>1
<1>14. TakesAll(l, n, Sum(Given(b)), Sum(back))
  BY <1>12 DEF TakesAll
<1> QED BY <1>4, <1>8, <1>9, <1>10, <1>11, <1>13, <1>14

\* Rows of V that were not refunded lose what they hold.
Voids(b, V) == [i \in DOMAIN b |-> IF i \in V /\ ~b[i].refunded
                                   THEN [b[i] EXCEPT !.remaining = 0, !.refunded = TRUE] ELSE b[i]]

LEMMA RowsVoid ==
  ASSUME NEW b, NEW l, RowsOK(b, l), NEW V \in SUBSET DOMAIN b, NEW e, e = Voids(b, V),
         NEW v, v = Sum([i \in {j \in V : ~b[j].refunded} |-> b[i].remaining])
  PROVE  /\ RowsOK(e, l) /\ v \in Nat
         /\ Sum(HeldIn(b)) = Sum(HeldIn(e)) + v
         /\ Sum(Given(e)) = Sum(Given(b)) + v
         /\ Sum(UsableIn(e, l)) <= Sum(UsableIn(b, l)) /\ Sum(LeftIn(e, l)) <= Sum(LeftIn(b, l))
         /\ \A i \in 1..Len(b) : e[i].remaining < b[i].remaining => e[i].refunded /\ ~b[i].refunded
<1> DEFINE m == Len(b)
           W == {j \in V : ~b[j].refunded}
           d == Part(HeldIn(b), W, 1..m)
<1>1. /\ m \in Nat /\ l \in 0..m /\ DOMAIN b = 1..m /\ W \in SUBSET (1..m) /\ IsFiniteSet(1..m)
      /\ \A i \in 1..m : /\ b[i] \in Row /\ b[i].remaining \in Nat /\ b[i].original \in Nat
                         /\ b[i].remaining <= b[i].original
                         /\ HeldIn(b)[i] = b[i].remaining /\ HeldIn(b)[i] \in Nat
  <2>1. DOMAIN b = 1..m
    BY RowFacts
  <2>2. W \in SUBSET (1..m)
    BY <2>1
  <2> HIDE DEF W
  <2> QED BY <2>1, <2>2, RowFacts
<1>2. v = Over(d, 1..m) /\ v \in Nat
  <2>1. [i \in W |-> b[i].remaining] = [i \in W |-> HeldIn(b)[i]]
    <3> HIDE DEF W
    <3> QED BY <1>1
  <2>2. v = Over(HeldIn(b), W)
    <3>1. v = Sum([i \in W |-> b[i].remaining])
      OBVIOUS
    <3> HIDE DEF W
    <3> QED BY <2>1, <3>1 DEF Over
  <2>3. Over(HeldIn(b), W) = Over(d, 1..m)
    <3> HIDE DEF W, m
    <3> QED BY <1>1, OverPart
  <2>4. \A i \in 1..m : d[i] \in Nat
    <3> HIDE DEF W
    <3> QED BY <1>1 DEF Part
  <2>5. Over(d, 1..m) \in Nat
    <3> HIDE DEF d
    <3> QED BY <1>1, <2>4, OverIsNat
  <2> QED BY <2>2, <2>3, <2>5
<1>3. \A i \in 1..m :
        /\ e[i] \in Row /\ e[i].original = b[i].original /\ e[i].expired = b[i].expired
        /\ d[i] \in Nat /\ b[i].remaining = e[i].remaining + d[i]
        /\ e[i].remaining <= e[i].original /\ e[i].remaining <= b[i].remaining
        /\ e[i].remaining < b[i].remaining => e[i].refunded /\ ~b[i].refunded
  <2> SUFFICES ASSUME NEW i \in 1..m
               PROVE  /\ e[i] \in Row /\ e[i].original = b[i].original /\ e[i].expired = b[i].expired
                      /\ d[i] \in Nat /\ b[i].remaining = e[i].remaining + d[i]
                      /\ e[i].remaining <= e[i].original /\ e[i].remaining <= b[i].remaining
                      /\ e[i].remaining < b[i].remaining => e[i].refunded /\ ~b[i].refunded
    OBVIOUS
  <2>1. /\ b[i] \in Row /\ b[i].remaining \in Nat /\ b[i].original \in Nat
        /\ b[i].remaining <= b[i].original /\ HeldIn(b)[i] = b[i].remaining
    BY <1>1
  <2>2. CASE i \in W
    <3>1. e[i] = [b[i] EXCEPT !.remaining = 0, !.refunded = TRUE] /\ ~b[i].refunded
      BY <1>1, <2>2 DEF Voids
    <3>2. /\ e[i] \in Row /\ e[i].original = b[i].original /\ e[i].expired = b[i].expired
          /\ e[i].remaining = 0 /\ e[i].refunded
      <4>1. e[i].refunded = TRUE /\ e[i].remaining = 0
        BY <2>1, <3>1 DEF Row
      <4>2. e[i].original = b[i].original /\ e[i].expired = b[i].expired
        BY <2>1, <3>1 DEF Row
      <4>3. e[i] \in Row
        <5>1. e[i] = [original |-> b[i].original, remaining |-> 0,
                      expired |-> b[i].expired, refunded |-> TRUE]
          BY <2>1, <3>1 DEF Row
        <5>2. b[i].expired \in BOOLEAN
          BY <2>1 DEF Row
        <5> QED BY <2>1, <5>1, <5>2 DEF Row
      <4> QED BY <4>1, <4>2, <4>3
    <3>3. d[i] = b[i].remaining
      BY <2>1, <2>2 DEF Part
    <3> HIDE DEF d
    <3> QED BY <2>1, <3>1, <3>2, <3>3
  <2>3. CASE i \notin W
    <3>1. e[i] = b[i]
      BY <1>1, <2>3 DEF Voids
    <3>2. d[i] = 0
      BY <2>3 DEF Part
    <3> HIDE DEF d
    <3> QED BY <2>1, <3>1, <3>2
  <2> QED BY <2>2, <2>3
<1>4. e = [i \in 1..m |-> e[i]]
  BY <1>1 DEF Voids
<1> HIDE DEF d, W
<1>5. RowsOK(e, l) /\ Len(e) = m
  <2>1. l \in Nat /\ l <= m /\ l <= l
    BY <1>1
  <2>2. LikeRows(b, e, l)
    BY <1>3, <1>4, <2>1 DEF LikeRows
  <2> QED BY <2>1, <2>2, RowsAre
<1>6. /\ Sum(HeldIn(b)) = Sum(HeldIn(e)) + v
      /\ Sum(Given(e)) = Sum(Given(b)) + v
  <2>1. Loses(b, e, d)
    BY <1>3 DEF Loses
  <2> QED BY <1>2, <1>5, <2>1, RowsLose
<1>7. Sum(UsableIn(e, l)) <= Sum(UsableIn(b, l))
  <2>1. \A i \in 1..m : /\ e[i].remaining <= b[i].remaining
                        /\ i > l /\ ~e[i].expired => i > l /\ ~b[i].expired
    BY <1>3
  <2> QED BY <1>5, <2>1, RowsNoMore
<1>8. Sum(LeftIn(e, l)) <= Sum(LeftIn(b, l))
  BY <1>3, <1>5, LeftNoMore
<1> QED BY <1>2, <1>3, <1>5, <1>6, <1>7, <1>8

\* Rows that lapse or are marked as expired keep what they hold, and marking
\* them takes nothing that can be used.
Expires(b, l) == [i \in DOMAIN b |-> IF i <= l /\ b[i].remaining > 0
                                     THEN [b[i] EXCEPT !.expired = TRUE] ELSE b[i]]

LEMMA RowsExpire ==
  ASSUME NEW b, NEW l, RowsOK(b, l), NEW k \in l..Len(b),
         NEW e, e = b \/ e = Expires(b, k)
  PROVE  /\ RowsOK(e, k)
         /\ Sum(HeldIn(e)) = Sum(HeldIn(b)) /\ Sum(Given(e)) = Sum(Given(b))
         /\ Sum(UsableIn(e, k)) <= Sum(UsableIn(b, l))
         /\ k = l => Sum(UsableIn(e, k)) = Sum(UsableIn(b, l))
         /\ \A i \in 1..Len(b) : e[i].remaining = b[i].remaining
<1> DEFINE m == Len(b)
           d == [i \in 1..m |-> 0]
<1>1. /\ m \in Nat /\ l \in 0..m /\ k \in 0..m /\ l <= k
      /\ DOMAIN b = 1..m /\ IsFiniteSet(1..m)
      /\ \A i \in 1..m : /\ b[i] \in Row /\ b[i].remaining \in Nat /\ b[i].original \in Nat
                         /\ b[i].remaining <= b[i].original
  BY RowFacts
<1>2. \A i \in 1..m :
        /\ e[i] \in Row /\ e[i].original = b[i].original /\ e[i].remaining = b[i].remaining
        /\ e[i].expired => b[i].expired \/ i <= k
        /\ ~e[i].expired => ~b[i].expired
  <2> SUFFICES ASSUME NEW i \in 1..m
               PROVE  /\ e[i] \in Row /\ e[i].original = b[i].original /\ e[i].remaining = b[i].remaining
                      /\ e[i].expired => b[i].expired \/ i <= k
                      /\ ~e[i].expired => ~b[i].expired
    OBVIOUS
  <2>1. b[i] \in Row
    BY <1>1
  <2>2. CASE e = b
    BY <2>1, <2>2
  <2>3. CASE e = Expires(b, k)
    <3>1. e[i] = IF i <= k /\ b[i].remaining > 0 THEN [b[i] EXCEPT !.expired = TRUE] ELSE b[i]
      BY <1>1, <2>3 DEF Expires
    <3>2. CASE i <= k /\ b[i].remaining > 0
      <4>1. e[i] = [b[i] EXCEPT !.expired = TRUE]
        BY <3>1, <3>2
      <4> QED BY <2>1, <3>2, <4>1 DEF Row
    <3>3. CASE ~ (i <= k /\ b[i].remaining > 0)
      <4>1. e[i] = b[i]
        BY <3>1, <3>3
      <4> QED BY <2>1, <4>1
    <3> QED BY <3>2, <3>3
  <2> QED BY <2>2, <2>3
<1>3. e = [i \in 1..m |-> e[i]]
  <2>1. CASE e = b
    BY <2>1 DEF RowsOK
  <2>2. CASE e = Expires(b, k)
    BY <1>1, <2>2 DEF Expires
  <2> QED BY <2>1, <2>2
<1>4. RowsOK(e, k) /\ Len(e) = m
  <2>1. \A i \in 1..m : e[i].remaining <= e[i].original
    BY <1>1, <1>2
  <2>2. k \in Nat /\ k <= m /\ l <= k
    BY <1>1
  <2>3. LikeRows(b, e, k)
    BY <1>1, <1>2, <1>3, <2>1, <2>2 DEF LikeRows
  <2> QED BY <2>2, <2>3, RowsAre
<1>5. Over(d, 1..m) = 0
  <2>1. \A i \in 1..m : d[i] = 0
    OBVIOUS
  <2> HIDE DEF d
  <2> QED BY <1>1, <2>1, OverZero
<1>6. Sum(HeldIn(e)) = Sum(HeldIn(b)) /\ Sum(Given(e)) = Sum(Given(b))
  <2>1. Loses(b, e, d)
    BY <1>1, <1>2 DEF Loses
  <2> HIDE DEF d
  <2>2. /\ Sum(HeldIn(b)) = Sum(HeldIn(e)) + Over(d, 1..m)
        /\ Sum(Given(e)) = Sum(Given(b)) + Over(d, 1..m)
    BY <1>4, <2>1, RowsLose
  <2>3. Sum(HeldIn(e)) \in Nat /\ Sum(Given(b)) \in Nat
    BY <1>4, RowFacts
  <2> QED BY <1>5, <2>2, <2>3
<1>7. Sum(UsableIn(e, k)) <= Sum(UsableIn(b, l))
  <2>1. \A i \in 1..m : /\ e[i].remaining <= b[i].remaining
                        /\ i > k /\ ~e[i].expired => i > l /\ ~b[i].expired
    BY <1>1, <1>2
  <2> QED BY <1>4, <2>1, RowsNoMore
<1>8. ASSUME k = l PROVE Sum(UsableIn(e, k)) = Sum(UsableIn(b, l))
  <2>1. \A i \in 1..m : /\ b[i].remaining <= e[i].remaining
                        /\ i > l /\ ~b[i].expired => i > k /\ ~e[i].expired
    BY <1>1, <1>2, <1>8
  <2>2. RowsOK(e, k) /\ RowsOK(b, l) /\ Len(b) = Len(e) /\ Len(e) = m
    BY <1>4
  <2> HIDE DEF m
  <2>3. Sum(UsableIn(b, l)) <= Sum(UsableIn(e, k))
    BY <2>1, <2>2, RowsNoMore
  <2>4. Sum(UsableIn(b, l)) \in Nat /\ Sum(UsableIn(e, k)) \in Nat
    BY <2>2, RowFacts
  <2> QED BY <1>7, <2>3, <2>4
<1> QED BY <1>2, <1>4, <1>6, <1>7, <1>8

(***************************************************************************)
(* What the charges hold                                                   *)
(***************************************************************************)
\* What a call has taken and not recorded, and what it has recorded.
FlightOf(r) == IF r.phase \in {"guard", "paid", "refund"} THEN r.paid ELSE 0
SettledOf(r) == IF r.phase = "done" THEN r.size ELSE IF r.phase = "free" THEN r.paid ELSE 0

FlightIn(ch) == [c \in Charges |-> FlightOf(ch[c])]
SettledIn(ch) == [c \in Charges |-> SettledOf(ch[c])]

Calls(ch) == ch = [c \in Charges |-> ch[c]] /\ \A c \in Charges : CallOK(ch[c])

LEMMA ChargesAreFinite == IsFiniteSet(Charges)
BY CreditsAssumption

LEMMA CallFacts ==
  ASSUME NEW r, CallOK(r)
  PROVE  /\ FlightOf(r) \in Nat /\ SettledOf(r) \in Nat
         /\ r.phase \in {"idle", "done", "consume", "guard", "paid", "free", "refund"}
         /\ r.phase = "idle" => r = Idle
         /\ r.phase = "done" => r.size \in Nat
         /\ r.phase \notin {"idle", "done"} =>
              /\ r \in Busy /\ r.paid \in Nat /\ r.free \in Nat /\ r.size \in Nat
              /\ r.account \in Account /\ r.paid + r.free = r.size
         /\ r.phase = "guard" => r.free > 0
<1>1. CASE r = Idle
  BY <1>1 DEF Idle, FlightOf, SettledOf
<1>2. CASE r \in [phase : {"done"}, size : Nat]
  BY <1>2 DEF FlightOf, SettledOf
<1>3. CASE r \in Busy /\ r.paid + r.free = r.size /\ (r.phase = "guard" => r.free > 0)
  BY <1>3 DEF Busy, FlightOf, SettledOf
<1> QED BY <1>1, <1>2, <1>3 DEF CallOK

LEMMA CallSums ==
  ASSUME NEW ch, Calls(ch)
  PROVE  /\ \A c \in Charges : /\ FlightIn(ch)[c] = FlightOf(ch[c]) /\ FlightIn(ch)[c] \in Nat
                               /\ SettledIn(ch)[c] = SettledOf(ch[c]) /\ SettledIn(ch)[c] \in Nat
         /\ Sum(FlightIn(ch)) = Over(FlightIn(ch), Charges) /\ Sum(FlightIn(ch)) \in Nat
         /\ Sum(SettledIn(ch)) = Over(SettledIn(ch), Charges) /\ Sum(SettledIn(ch)) \in Nat
<1>1. \A c \in Charges : /\ FlightIn(ch)[c] = FlightOf(ch[c]) /\ FlightIn(ch)[c] \in Nat
                         /\ SettledIn(ch)[c] = SettledOf(ch[c]) /\ SettledIn(ch)[c] \in Nat
  BY CallFacts DEF Calls, FlightIn, SettledIn
<1>2. /\ FlightIn(ch) = [c \in Charges |-> FlightIn(ch)[c]]
      /\ SettledIn(ch) = [c \in Charges |-> SettledIn(ch)[c]]
  BY DEF FlightIn, SettledIn
<1> DEFINE f == FlightIn(ch)
           g == SettledIn(ch)
<1> HIDE DEF f, g
<1>3. Sum(f) = Over(f, Charges) /\ Sum(g) = Over(g, Charges)
  BY <1>2, OverDomain DEF f, g
<1>4. Over(f, Charges) \in Nat /\ Over(g, Charges) \in Nat
  <2>1. \A c \in Charges : f[c] \in Nat /\ g[c] \in Nat
    BY <1>1 DEF f, g
  <2> QED BY <2>1, ChargesAreFinite, OverIsNat
<1> QED BY <1>1, <1>3, <1>4 DEF f, g

\* k is ch with c turned into r.
TurnsInto(ch, c, r, k) == k = [ch EXCEPT ![c] = r] /\ CallOK(r)

LEMMA CallTurns ==
  ASSUME NEW ch, Calls(ch), NEW c \in Charges, NEW r, NEW k, TurnsInto(ch, c, r, k)
  PROVE  /\ Calls(k) /\ k[c] = r /\ \A d \in Charges \ {c} : k[d] = ch[d]
         /\ Sum(FlightIn(k)) + FlightOf(ch[c]) = Sum(FlightIn(ch)) + FlightOf(r)
         /\ Sum(SettledIn(k)) + SettledOf(ch[c]) = Sum(SettledIn(ch)) + SettledOf(r)
<1>1. /\ k = [d \in Charges |-> k[d]] /\ k[c] = r
      /\ \A d \in Charges \ {c} : k[d] = ch[d]
  BY DEF Calls, TurnsInto
<1>2. Calls(k)
  <2>1. \A d \in Charges : CallOK(k[d])
    <3> SUFFICES ASSUME NEW d \in Charges PROVE CallOK(k[d])
      OBVIOUS
    <3>1. CASE d = c
      BY <1>1, <3>1 DEF TurnsInto
    <3>2. CASE d # c
      BY <1>1, <3>2 DEF Calls
    <3> QED BY <3>1, <3>2
  <2> QED BY <1>1, <2>1 DEF Calls
<1>3. \A d \in Charges :
        /\ FlightIn(ch)[d] \in Nat /\ FlightIn(k)[d] \in Nat
        /\ d # c => FlightIn(k)[d] = FlightIn(ch)[d]
        /\ SettledIn(ch)[d] \in Nat /\ SettledIn(k)[d] \in Nat
        /\ d # c => SettledIn(k)[d] = SettledIn(ch)[d]
  <2>1. \A d \in Charges : /\ FlightIn(ch)[d] \in Nat /\ FlightIn(k)[d] \in Nat
                           /\ SettledIn(ch)[d] \in Nat /\ SettledIn(k)[d] \in Nat
    BY <1>2, CallSums
  <2>2. \A d \in Charges : d # c => /\ FlightIn(k)[d] = FlightIn(ch)[d]
                                    /\ SettledIn(k)[d] = SettledIn(ch)[d]
    BY <1>1 DEF FlightIn, SettledIn
  <2> QED BY <2>1, <2>2
<1>4. /\ FlightIn(k)[c] = FlightOf(r) /\ FlightIn(ch)[c] = FlightOf(ch[c])
      /\ SettledIn(k)[c] = SettledOf(r) /\ SettledIn(ch)[c] = SettledOf(ch[c])
  BY <1>1 DEF FlightIn, SettledIn
<1>5. Over(FlightIn(k), Charges) + FlightIn(ch)[c] = Over(FlightIn(ch), Charges) + FlightIn(k)[c]
  <2> DEFINE f == FlightIn(ch)
             g == FlightIn(k)
  <2>1. \A d \in Charges : f[d] \in Nat /\ g[d] \in Nat /\ (d # c => g[d] = f[d])
    BY <1>3
  <2> HIDE DEF f, g
  <2>2. Over(g, Charges) + f[c] = Over(f, Charges) + g[c]
    BY <2>1, ChargesAreFinite, OverChanged
  <2> QED BY <2>2 DEF f, g
<1>6. Over(SettledIn(k), Charges) + SettledIn(ch)[c] = Over(SettledIn(ch), Charges) + SettledIn(k)[c]
  <2> DEFINE f == SettledIn(ch)
             g == SettledIn(k)
  <2>1. \A d \in Charges : f[d] \in Nat /\ g[d] \in Nat /\ (d # c => g[d] = f[d])
    BY <1>3
  <2> HIDE DEF f, g
  <2>2. Over(g, Charges) + f[c] = Over(f, Charges) + g[c]
    BY <2>1, ChargesAreFinite, OverChanged
  <2> QED BY <2>2 DEF f, g
<1>7. /\ Sum(FlightIn(k)) = Over(FlightIn(k), Charges) /\ Sum(SettledIn(k)) = Over(SettledIn(k), Charges)
      /\ Sum(FlightIn(ch)) = Over(FlightIn(ch), Charges) /\ Sum(SettledIn(ch)) = Over(SettledIn(ch), Charges)
  BY <1>2, CallSums
<1> QED BY <1>1, <1>2, <1>4, <1>5, <1>6, <1>7

\* Every call under way stops.
Stopped(ch) == [c \in Charges |-> IF ch[c].phase \notin {"idle", "done"} THEN Failed ELSE ch[c]]
WrittenIn(ch) == [c \in Charges |-> IF ch[c].phase = "free" THEN ch[c].paid ELSE 0]

LEMMA CallsStop ==
  ASSUME NEW ch, Calls(ch), NEW k, k = Stopped(ch)
  PROVE  /\ Calls(k) /\ Sum(FlightIn(k)) = 0
         /\ Sum(WrittenIn(ch)) \in Nat
         /\ Sum(SettledIn(ch)) = Sum(SettledIn(k)) + Sum(WrittenIn(ch))
         /\ \A c \in Charges : k[c].phase \in {"idle", "done"}
<1>1. \A c \in Charges :
        /\ CallOK(k[c]) /\ FlightOf(k[c]) = 0 /\ k[c].phase \in {"idle", "done"}
        /\ WrittenIn(ch)[c] \in Nat /\ SettledOf(k[c]) \in Nat
        /\ SettledOf(ch[c]) = SettledOf(k[c]) + WrittenIn(ch)[c]
  <2> SUFFICES ASSUME NEW c \in Charges
               PROVE  /\ CallOK(k[c]) /\ FlightOf(k[c]) = 0 /\ k[c].phase \in {"idle", "done"}
                      /\ WrittenIn(ch)[c] \in Nat /\ SettledOf(k[c]) \in Nat
                      /\ SettledOf(ch[c]) = SettledOf(k[c]) + WrittenIn(ch)[c]
    OBVIOUS
  <2> DEFINE q == ch[c]
  <2>1. CallOK(q)
    BY DEF Calls
  <2>2. /\ k[c] = (IF q.phase \notin {"idle", "done"} THEN Failed ELSE q)
        /\ WrittenIn(ch)[c] = (IF q.phase = "free" THEN q.paid ELSE 0)
    BY DEF Stopped, WrittenIn
  <2> HIDE DEF q
  <2>3. CASE q.phase \notin {"idle", "done"}
    <3>1. k[c] = [phase |-> "done", size |-> 0]
      BY <2>2, <2>3 DEF Failed, Ok
    <3>2. CallOK(k[c]) /\ FlightOf(k[c]) = 0 /\ SettledOf(k[c]) = 0 /\ k[c].phase = "done"
      BY <3>1 DEF CallOK, FlightOf, SettledOf
    <3>3. q.paid \in Nat /\ SettledOf(q) = WrittenIn(ch)[c] /\ WrittenIn(ch)[c] \in Nat
      BY <2>1, <2>2, <2>3, CallFacts DEF SettledOf
    <3> QED BY <3>2, <3>3 DEF q
  <2>4. CASE q.phase \in {"idle", "done"}
    <3>1. k[c] = q /\ WrittenIn(ch)[c] = 0 /\ SettledOf(q) \in Nat
      BY <2>1, <2>2, <2>4, CallFacts
    <3>2. FlightOf(q) = 0
      BY <2>4 DEF FlightOf
    <3> QED BY <2>1, <2>4, <3>1, <3>2 DEF q
  <2> QED BY <2>3, <2>4
<1>2. Calls(k)
  <2>1. k = [c \in Charges |-> k[c]]
    BY DEF Stopped
  <2> QED BY <1>1, <2>1 DEF Calls
<1>3. Over(FlightIn(k), Charges) = 0
  <2>1. \A c \in Charges : FlightIn(k)[c] = 0
    BY <1>1 DEF FlightIn
  <2> QED BY <2>1, ChargesAreFinite, OverZero
<1>4. Over(SettledIn(ch), Charges) = Over(SettledIn(k), Charges) + Over(WrittenIn(ch), Charges)
  <2>1. \A c \in Charges : /\ SettledIn(k)[c] \in Nat /\ WrittenIn(ch)[c] \in Nat
                           /\ SettledIn(ch)[c] = SettledIn(k)[c] + WrittenIn(ch)[c]
    BY <1>1 DEF SettledIn
  <2> QED BY <2>1, ChargesAreFinite, OverPlus
<1>5. Sum(WrittenIn(ch)) = Over(WrittenIn(ch), Charges) /\ Over(WrittenIn(ch), Charges) \in Nat
  <2>1. WrittenIn(ch) = [c \in Charges |-> WrittenIn(ch)[c]]
    BY DEF WrittenIn
  <2>2. \A c \in Charges : WrittenIn(ch)[c] \in Nat
    BY <1>1
  <2> DEFINE f == WrittenIn(ch)
  <2> HIDE DEF f
  <2>3. Sum(f) = Over(f, Charges)
    BY <2>1, OverDomain DEF f
  <2>4. Over(f, Charges) \in Nat
    BY <2>2, ChargesAreFinite, OverIsNat DEF f
  <2> QED BY <2>3, <2>4 DEF f
<1>6. /\ Sum(FlightIn(k)) = Over(FlightIn(k), Charges) /\ Sum(SettledIn(k)) = Over(SettledIn(k), Charges)
      /\ Sum(SettledIn(ch)) = Over(SettledIn(ch), Charges)
  BY <1>2, CallSums
<1> QED BY <1>1, <1>2, <1>3, <1>4, <1>5, <1>6

(***************************************************************************)
(* What an operation does to a charge                                      *)
(***************************************************************************)
held == Sum(HeldIn(batches))
left == Sum(LeftIn(batches, lapsed))
settled == Sum(SettledIn(charge))

\* The sums of the model are those of the lemmas.
LEMMA Names ==
  /\ Remaining = HeldIn(batches) /\ Holdings = UsableIn(batches, lapsed)
  /\ Capacities = CapacitiesIn(batches, lapsed)
  /\ active = Sum(UsableIn(batches, lapsed)) /\ inFlight = Sum(FlightIn(charge))
  /\ settled = Sum([c \in Charges |-> IF charge[c].phase = "done" THEN charge[c].size ELSE Written(c)])
<1>1. Remaining = HeldIn(batches)
  BY DEF Remaining, HeldIn
<1>2. Holdings = UsableIn(batches, lapsed)
  BY DEF Holdings, UsableIn, Usable
<1>3. Capacities = CapacitiesIn(batches, lapsed)
  BY DEF Capacities, CapacitiesIn, Usable
<1>4. active = Sum(UsableIn(batches, lapsed))
  BY <1>2 DEF active
<1>5. inFlight = Sum(FlightIn(charge))
  BY DEF inFlight, FlightIn, FlightOf, InFlight
<1>6. settled = Sum([c \in Charges |-> IF charge[c].phase = "done" THEN charge[c].size ELSE Written(c)])
  BY DEF settled, SettledIn, SettledOf, Written
<1> QED BY <1>1, <1>2, <1>3, <1>4, <1>5, <1>6

LEMMA NamesNext ==
  /\ held' = Sum(HeldIn(batches')) /\ given' = Sum(Given(batches'))
  /\ active' = Sum(UsableIn(batches', lapsed')) /\ inFlight' = Sum(FlightIn(charge'))
  /\ settled' = Sum(SettledIn(charge'))
<1>1. held' = Sum(HeldIn(batches')) /\ given' = Sum(Given(batches')) /\ settled' = Sum(SettledIn(charge'))
  BY DEF held, given, settled
<1>2. active' = Sum(UsableIn(batches', lapsed'))
  BY DEF active, Holdings, UsableIn, Usable
<1>3. inFlight' = Sum(FlightIn(charge'))
  BY DEF inFlight, FlightIn, FlightOf, InFlight
<1> QED BY <1>1, <1>2, <1>3

LEMMA Sums ==
  ASSUME Typed
  PROVE  /\ held \in Nat /\ active \in Nat /\ given \in Nat /\ inFlight \in Nat /\ settled \in Nat
         /\ Calls(charge) /\ RowsOK(batches, lapsed)
<1>1. Calls(charge) /\ RowsOK(batches, lapsed)
  BY DEF Typed, Calls
<1>2. inFlight \in Nat /\ settled \in Nat
  BY <1>1, Names, CallSums DEF settled
<1>3. held \in Nat /\ active \in Nat /\ given \in Nat
  BY <1>1, Names, RowFacts DEF held, given
<1> QED BY <1>1, <1>2, <1>3

\* What the rows hold is usable or left over, before a step and after it.
LEMMA LeftOver ==
  ASSUME Typed
  PROVE  /\ Sum(Leftovers) = left /\ left \in Nat /\ held = active + left
         /\ Sum(Leftovers)' = left' /\ left' = Sum(LeftIn(batches', lapsed'))
<1>1. Leftovers = LeftIn(batches, lapsed)
  BY DEF Leftovers, LeftIn, Usable
<1>2. left \in Nat /\ held = active + left
  <2>1. RowsOK(batches, lapsed)
    BY Sums
  <2> QED BY <2>1, RowsSplit, Names DEF left, held
<1>3. left' = Sum(LeftIn(batches', lapsed'))
  BY DEF left
<1>4. Sum(Leftovers)' = left'
  BY DEF left, Leftovers, LeftIn, Usable
<1> QED BY <1>1, <1>2, <1>3, <1>4 DEF left

LEMMA SameRows ==
  ASSUME UNCHANGED rows
  PROVE  held' = held /\ active' = active /\ given' = given
BY NamesNext, Names DEF rows, held, given

LEMMA SameCharges ==
  ASSUME UNCHANGED charge
  PROVE  inFlight' = inFlight /\ settled' = settled
BY NamesNext, Names DEF settled

\* Charge c turns into r.
Turn(c, r) == charge' = [charge EXCEPT ![c] = r] /\ CallOK(r)

LEMMA Turned ==
  ASSUME Typed, NEW c \in Charges, NEW r, Turn(c, r)
  PROVE  /\ Calls(charge') /\ charge'[c] = r /\ \A d \in Charges \ {c} : charge'[d] = charge[d]
         /\ inFlight' + FlightOf(charge[c]) = inFlight + FlightOf(r)
         /\ settled' + SettledOf(charge[c]) = settled + SettledOf(r)
         /\ inFlight' \in Nat /\ settled' \in Nat
         /\ FlightOf(charge[c]) \in Nat /\ SettledOf(charge[c]) \in Nat
         /\ FlightOf(r) \in Nat /\ SettledOf(r) \in Nat
<1>1. Calls(charge)
  BY Sums
<1> DEFINE k == charge'
<1>2. TurnsInto(charge, c, r, k) /\ CallOK(r)
  BY DEF Turn, TurnsInto
<1> HIDE DEF k
<1>3. /\ Calls(k) /\ k[c] = r /\ \A d \in Charges \ {c} : k[d] = charge[d]
      /\ Sum(FlightIn(k)) + FlightOf(charge[c]) = Sum(FlightIn(charge)) + FlightOf(r)
      /\ Sum(SettledIn(k)) + SettledOf(charge[c]) = Sum(SettledIn(charge)) + SettledOf(r)
  BY <1>1, <1>2, CallTurns
<1>4. Sum(FlightIn(k)) \in Nat /\ Sum(SettledIn(k)) \in Nat
  BY <1>3, CallSums
<1>5. /\ FlightOf(charge[c]) \in Nat /\ SettledOf(charge[c]) \in Nat
      /\ FlightOf(r) \in Nat /\ SettledOf(r) \in Nat
  BY <1>1, <1>2, CallFacts DEF Calls
<1> QED BY <1>3, <1>4, <1>5, Names, NamesNext DEF k, settled

\* The state of a charge under way.
LEMMA CallUnderWay ==
  ASSUME Typed, NEW c \in Charges, charge[c].phase \notin {"idle", "done"}
  PROVE  /\ CallOK(charge[c]) /\ charge[c] \in Busy
         /\ charge[c].paid \in Nat /\ charge[c].free \in Nat /\ charge[c].size \in Nat
         /\ charge[c].account \in Account /\ charge[c].paid + charge[c].free = charge[c].size
         /\ charge[c].phase = "guard" => charge[c].free > 0
<1>1. CallOK(charge[c])
  BY DEF Typed
<1> QED BY <1>1, CallFacts

LEMMA FailedCall ==
  /\ CallOK(Failed) /\ FlightOf(Failed) = 0 /\ SettledOf(Failed) = 0 /\ Failed.phase = "done"
  /\ Failed.size = 0
<1>1. Failed = [phase |-> "done", size |-> 0]
  BY DEF Failed, Ok
<1> QED BY <1>1 DEF CallOK, FlightOf, SettledOf

LEMMA CallEnds ==
  ASSUME NEW n \in Nat
  PROVE  CallOK(Ok(n)) /\ FlightOf(Ok(n)) = 0 /\ SettledOf(Ok(n)) = n /\ Ok(n).phase = "done"
<1>1. Ok(n) = [phase |-> "done", size |-> n]
  BY DEF Ok
<1> QED BY <1>1 DEF CallOK, FlightOf, SettledOf

LEMMA OfRegister ==
  ASSUME Typed, NEW c \in Charges, NEW n \in Sizes, Register(c, n)
  PROVE  \E r : /\ Turn(c, r) /\ charge[c] = Idle
                /\ FlightOf(charge[c]) = 0 /\ SettledOf(charge[c]) = 0
                /\ FlightOf(r) = 0 /\ SettledOf(r) = 0 /\ r.phase = "consume"
<1> DEFINE r == [phase |-> "consume", size |-> n, paid |-> 0, free |-> n, account |-> account]
<1>1. n \in Nat /\ account \in Account
  BY CreditsAssumption DEF Typed
<1>2. CallOK(r)
  <2>1. r \in Busy
    BY <1>1 DEF Busy
  <2> QED BY <1>1, <2>1 DEF CallOK
<1>3. charge' = [charge EXCEPT ![c] = r] /\ charge[c] = Idle
  BY DEF Register
<1>4. FlightOf(charge[c]) = 0 /\ SettledOf(charge[c]) = 0
  BY <1>3 DEF Idle, FlightOf, SettledOf
<1>5. FlightOf(r) = 0 /\ SettledOf(r) = 0 /\ r.phase = "consume"
  BY DEF FlightOf, SettledOf
<1> HIDE DEF r
<1> QED BY <1>2, <1>3, <1>4, <1>5 DEF Turn

\* A charge with another phase.
LEMMA OtherPhase ==
  ASSUME NEW q \in Busy, q.paid + q.free = q.size,
         NEW phase \in {"paid", "free", "refund"}, NEW r, r = [q EXCEPT !.phase = phase]
  PROVE  /\ CallOK(r) /\ r \in Busy /\ r.phase = phase /\ r.paid = q.paid /\ r.free = q.free
         /\ r.size = q.size /\ r.account = q.account
         /\ phase \in {"paid", "refund"} => FlightOf(r) = q.paid /\ SettledOf(r) = 0
         /\ phase = "free" => FlightOf(r) = 0 /\ SettledOf(r) = q.paid
<1>1. /\ r \in Busy /\ r.phase = phase /\ r.paid = q.paid /\ r.free = q.free
      /\ r.size = q.size /\ r.account = q.account
  BY DEF Busy
<1> QED BY <1>1 DEF CallOK, FlightOf, SettledOf

LEMMA OfSplit ==
  ASSUME Typed, NEW c \in Charges, charge[c].phase = "consume",
         NEW taken \in Nat, taken <= charge[c].size, Split(c, taken)
  PROVE  \E r : /\ Turn(c, r) /\ FlightOf(r) = taken /\ SettledOf(r) = 0
                /\ r.phase \in {"guard", "paid", "done"}
                /\ r.phase = "paid" => r.free = 0
<1> DEFINE q == charge[c]
           rest == q.size - taken
<1>1. q \in Busy /\ q.size \in Nat /\ q.account \in Account
  BY CallUnderWay
<1>2. rest \in Nat
  BY <1>1
<1> DEFINE g == [q EXCEPT !.phase = "guard", !.paid = taken, !.free = rest]
           p == [q EXCEPT !.phase = "paid", !.paid = taken, !.free = 0]
           w == CASE rest > 0 -> g [] rest = 0 /\ taken > 0 -> p [] OTHER -> Ok(0)
<1>w. charge' = [charge EXCEPT ![c] = w]
  BY Zenon DEF Split
<1> HIDE DEF q
<1>3. CASE rest > 0
  <2> DEFINE r == g
  <2>1. r \in Busy
    BY <1>1, <1>2 DEF Busy
  <2>2. r.phase = "guard" /\ r.paid = taken /\ r.free = rest /\ r.size = q.size
    BY <1>1 DEF Busy
  <2>3. charge' = [charge EXCEPT ![c] = r]
    <3> HIDE DEF g, p
    <3>1. w = g
      BY <1>3
    <3> HIDE DEF w
    <3> QED BY <1>w, <3>1
  <2> HIDE DEF r
  <2>4. taken + rest = q.size
    BY <1>1
  <2>5. CallOK(r)
    BY <1>3, <2>1, <2>2, <2>4 DEF CallOK
  <2>6. FlightOf(r) = taken /\ SettledOf(r) = 0
    BY <2>2 DEF FlightOf, SettledOf
  <2> QED BY <2>2, <2>3, <2>5, <2>6 DEF Turn
<1>4. CASE ~ (rest > 0) /\ taken > 0
  <2> DEFINE r == p
  <2>0. rest = 0
    BY <1>2, <1>4
  <2>1. r \in Busy
    BY <1>1 DEF Busy
  <2>2. r.phase = "paid" /\ r.paid = taken /\ r.free = 0 /\ r.size = q.size
    BY <1>1 DEF Busy
  <2>3. charge' = [charge EXCEPT ![c] = r]
    <3> HIDE DEF g, p
    <3>1. w = p
      BY <1>4, <2>0
    <3> HIDE DEF w
    <3> QED BY <1>w, <3>1
  <2> HIDE DEF r
  <2>4. taken + 0 = q.size
    BY <1>1, <2>0
  <2>5. CallOK(r)
    BY <2>1, <2>2, <2>4 DEF CallOK
  <2>6. FlightOf(r) = taken /\ SettledOf(r) = 0
    BY <2>2 DEF FlightOf, SettledOf
  <2> QED BY <2>2, <2>3, <2>5, <2>6 DEF Turn
<1>5. CASE ~ (rest > 0) /\ ~ (taken > 0)
  <2>0. taken = 0
    BY <1>5
  <2>1. charge' = [charge EXCEPT ![c] = Failed]
    <3> HIDE DEF g, p
    <3>1. w = Failed
      BY <1>2, <1>5 DEF Failed
    <3> HIDE DEF w
    <3> QED BY <1>w, <3>1
  <2> QED BY <2>0, <2>1, FailedCall DEF Turn
<1> QED BY <1>3, <1>4, <1>5

LEMMA OfDecide ==
  ASSUME Typed, NEW c \in Charges, charge[c].phase = "guard",
         NEW fits \in BOOLEAN, Decide(c, fits)
  PROVE  \E r : /\ Turn(c, r) /\ FlightOf(r) = FlightOf(charge[c])
                /\ SettledOf(charge[c]) = 0 /\ SettledOf(r) = 0
                /\ r.phase \in {"paid", "refund", "free", "done"}
                /\ r.phase \in {"paid", "free"} => /\ fits /\ r.free = charge[c].free
                                                   /\ r.account = charge[c].account
<1> DEFINE q == charge[c]
<1>1. q \in Busy /\ q.paid + q.free = q.size /\ q.paid \in Nat
  BY CallUnderWay
<1>2. FlightOf(q) = q.paid /\ SettledOf(q) = 0
  BY DEF FlightOf, SettledOf
<1> HIDE DEF q
<1>3. CASE q.paid > 0
  <2> DEFINE phase == IF fits THEN "paid" ELSE "refund"
             r == [q EXCEPT !.phase = phase]
  <2>1. charge' = [charge EXCEPT ![c] = r]
    <3>1. charge' = [charge EXCEPT ![c] = [charge[c] EXCEPT !.phase = phase]]
      BY <1>3, Zenon DEF Decide, q
    <3> QED BY <3>1 DEF q
  <2>2. phase \in {"paid", "refund"} /\ (phase = "paid" => fits)
    OBVIOUS
  <2> HIDE DEF phase
  <2>3. /\ CallOK(r) /\ r.phase = phase /\ r.free = q.free /\ r.account = q.account
        /\ FlightOf(r) = q.paid /\ SettledOf(r) = 0
    BY <1>1, <2>2, OtherPhase
  <2> HIDE DEF r
  <2> QED BY <1>2, <2>1, <2>2, <2>3 DEF Turn, q
<1>4. CASE ~ (q.paid > 0) /\ fits
  <2> DEFINE r == [q EXCEPT !.phase = "free"]
  <2>1. charge' = [charge EXCEPT ![c] = r]
    BY <1>4 DEF Decide, q
  <2>2. q.paid = 0
    BY <1>1, <1>4
  <2>3. /\ CallOK(r) /\ r.phase = "free" /\ r.free = q.free /\ r.account = q.account
        /\ FlightOf(r) = 0 /\ SettledOf(r) = q.paid
    BY <1>1, OtherPhase
  <2> HIDE DEF r
  <2> QED BY <1>2, <1>4, <2>1, <2>2, <2>3 DEF Turn, q
<1>5. CASE ~ (q.paid > 0) /\ ~fits
  <2>1. charge' = [charge EXCEPT ![c] = Failed]
    BY <1>5 DEF Decide, q
  <2>2. q.paid = 0
    BY <1>1, <1>5
  <2> QED BY <1>2, <2>1, <2>2, FailedCall DEF Turn, q
<1> QED BY <1>3, <1>4, <1>5

LEMMA OfRecordPurchased ==
  ASSUME Typed, NEW c \in Charges, RecordPurchased(c)
  PROVE  \E r : /\ Turn(c, r) /\ FlightOf(charge[c]) = charge[c].paid /\ FlightOf(r) = 0
                /\ SettledOf(charge[c]) = 0 /\ SettledOf(r) = charge[c].paid
                /\ r.phase \in {"free", "done"}
                /\ r.phase = "free" => /\ charge[c].free > 0 /\ r.free = charge[c].free
                                       /\ r.account = charge[c].account
<1> DEFINE q == charge[c]
<1>0. q.phase = "paid"
  BY DEF RecordPurchased
<1>1. q \in Busy /\ q.paid + q.free = q.size /\ q.paid \in Nat /\ q.free \in Nat /\ q.size \in Nat
  BY <1>0, CallUnderWay
<1>2. FlightOf(q) = q.paid /\ SettledOf(q) = 0
  BY <1>0 DEF FlightOf, SettledOf
<1> HIDE DEF q
<1>3. CASE q.free > 0
  <2> DEFINE r == [q EXCEPT !.phase = "free"]
  <2>1. charge' = [charge EXCEPT ![c] = r]
    BY <1>3 DEF RecordPurchased, q
  <2>2. /\ CallOK(r) /\ r.phase = "free" /\ r.free = q.free /\ r.account = q.account
        /\ FlightOf(r) = 0 /\ SettledOf(r) = q.paid
    BY <1>1, OtherPhase
  <2> HIDE DEF r
  <2> QED BY <1>2, <1>3, <2>1, <2>2 DEF Turn, q
<1>4. CASE ~ (q.free > 0)
  <2>1. charge' = [charge EXCEPT ![c] = Ok(q.size)]
    BY <1>4 DEF RecordPurchased, q
  <2>2. q.size = q.paid
    BY <1>1, <1>4
  <2> QED BY <1>1, <1>2, <2>1, <2>2, CallEnds DEF Turn, q
<1> QED BY <1>3, <1>4

LEMMA OfRecordPurchasedFails ==
  ASSUME Typed, NEW c \in Charges, RecordPurchasedFails(c)
  PROVE  \E r : /\ Turn(c, r) /\ FlightOf(r) = FlightOf(charge[c])
                /\ SettledOf(charge[c]) = 0 /\ SettledOf(r) = 0 /\ r.phase = "refund"
<1> DEFINE q == charge[c]
           r == [q EXCEPT !.phase = "refund"]
<1>0. q.phase = "paid"
  BY DEF RecordPurchasedFails
<1>1. q \in Busy /\ q.paid + q.free = q.size
  BY <1>0, CallUnderWay
<1>2. FlightOf(q) = q.paid /\ SettledOf(q) = 0
  BY <1>0 DEF FlightOf, SettledOf
<1>3. charge' = [charge EXCEPT ![c] = r]
  BY DEF RecordPurchasedFails
<1> HIDE DEF q
<1>4. CallOK(r) /\ r.phase = "refund" /\ FlightOf(r) = q.paid /\ SettledOf(r) = 0
  BY <1>1, OtherPhase
<1> HIDE DEF r
<1> QED BY <1>2, <1>3, <1>4 DEF Turn, q

(***************************************************************************)
(* What an operation does to the account                                   *)
(***************************************************************************)
\* A row is drawn on in the order of expiry, or refunded.
DrawnInOrder(i) ==
  batches'[i].remaining < batches[i].remaining =>
    \/ batches'[i].refunded /\ ~batches[i].refunded
    \/ Usable(i) /\ \A j \in 1..(i - 1) : Usable(j) => batches'[j].remaining = 0

LEMMA OfConsume ==
  ASSUME Typed, NEW c \in Charges, Consume(c)
  PROVE  \E r, t : /\ t \in Nat /\ Turn(c, r)
                   /\ FlightOf(charge[c]) = 0 /\ SettledOf(charge[c]) = 0
                   /\ FlightOf(r) = t /\ SettledOf(r) = 0
                   /\ r.phase \in {"guard", "paid", "done"} /\ (r.phase = "paid" => r.free = 0)
                   /\ RowsOK(batches', lapsed') /\ held = held' + t /\ given' = given + t
                   /\ active = active' + t /\ active' \in Nat
                   /\ \A i \in DOMAIN batches : DrawnInOrder(i)
<1> DEFINE take == Share(Holdings, charge[c].size)
           t == Sum(take)
<1>1. /\ charge[c].phase = "consume" /\ batches' = DrawnFrom(batches, take)
      /\ Split(c, t) /\ lapsed' = lapsed
  BY DEF Consume, Drawn, DrawnFrom
<1>2. charge[c].size \in Nat
  BY <1>1, CallUnderWay
<1>3. RowsOK(batches, lapsed) /\ DOMAIN batches = 1..Len(batches)
  BY Sums, RowFacts
<1>4. /\ take = Share(UsableIn(batches, lapsed), charge[c].size)
      /\ held = Sum(HeldIn(batches)) /\ given = Sum(Given(batches))
      /\ active = Sum(UsableIn(batches, lapsed))
  BY Names DEF held, given
<1>5. /\ held' = Sum(HeldIn(batches')) /\ given' = Sum(Given(batches'))
      /\ active' = Sum(UsableIn(batches', lapsed))
  BY <1>1, NamesNext
<1> DEFINE e == batches'
           n == charge[c].size
<1> HIDE DEF take, e, n
<1>6. /\ RowsOK(e, lapsed) /\ t \in Nat /\ t <= n
      /\ Sum(HeldIn(batches)) = Sum(HeldIn(e)) + t
      /\ Sum(Given(e)) = Sum(Given(batches)) + t
      /\ Sum(UsableIn(batches, lapsed)) = Sum(UsableIn(e, lapsed)) + t
      /\ \A i \in 1..Len(batches) : e[i].remaining < batches[i].remaining =>
              /\ i > lapsed /\ ~batches[i].expired
              /\ \A j \in 1..(i - 1) : j > lapsed /\ ~batches[j].expired => e[j].remaining = 0
  <2>1. n \in Nat /\ take = Share(UsableIn(batches, lapsed), n) /\ e = DrawnFrom(batches, take)
    BY <1>1, <1>2, <1>4 DEF e, n
  <2> QED BY <1>3, <2>1, RowsTake
<1>7. \A i \in DOMAIN batches : DrawnInOrder(i)
  BY <1>3, <1>6 DEF DrawnInOrder, Usable, e
<1> HIDE DEF t
<1>8. PICK r : /\ Turn(c, r) /\ FlightOf(r) = t /\ SettledOf(r) = 0
               /\ r.phase \in {"guard", "paid", "done"}
               /\ r.phase = "paid" => r.free = 0
  BY <1>1, <1>6, OfSplit DEF n
<1>9. FlightOf(charge[c]) = 0 /\ SettledOf(charge[c]) = 0
  BY <1>1 DEF FlightOf, SettledOf
<1>10. /\ RowsOK(batches', lapsed') /\ held = held' + t /\ given' = given + t
       /\ active = active' + t /\ active' \in Nat
  <2>1. Sum(UsableIn(e, lapsed)) \in Nat
    BY <1>6, RowFacts
  <2> QED BY <1>1, <1>4, <1>5, <1>6, <2>1 DEF e
<1> QED BY <1>6, <1>7, <1>8, <1>9, <1>10, Zenon

LEMMA OfGuard ==
  ASSUME Typed, NEW c \in Charges, Guard(c)
  PROVE  \E r : /\ Turn(c, r) /\ FlightOf(r) = FlightOf(charge[c])
                /\ SettledOf(charge[c]) = 0 /\ SettledOf(r) = 0
                /\ r.phase \in {"paid", "refund", "free", "done"}
                /\ r.phase \in {"paid", "free"} =>
                     /\ r.free + spentFree(r.account) <= r.account.limit
                     /\ r.account \in Account
<1> DEFINE q == charge[c]
           room == Minus(q.account.limit, spentFree(q.account))
<1>1. q.phase = "guard" /\ Decide(c, q.free <= room)
  BY DEF Guard
<1>2. q.free \in Nat /\ q.free > 0 /\ q.account \in Account
  BY <1>1, CallUnderWay
<1>3. PICK r : /\ Turn(c, r) /\ FlightOf(r) = FlightOf(q)
               /\ SettledOf(q) = 0 /\ SettledOf(r) = 0
               /\ r.phase \in {"paid", "refund", "free", "done"}
               /\ r.phase \in {"paid", "free"} => /\ q.free <= room /\ r.free = q.free
                                                  /\ r.account = q.account
  <2> HIDE DEF room
  <2> DEFINE fits == q.free <= room
  <2>1. fits \in BOOLEAN /\ Decide(c, fits)
    BY <1>1
  <2> HIDE DEF fits
  <2>2. \E r : /\ Turn(c, r) /\ FlightOf(r) = FlightOf(q)
               /\ SettledOf(q) = 0 /\ SettledOf(r) = 0
               /\ r.phase \in {"paid", "refund", "free", "done"}
               /\ r.phase \in {"paid", "free"} => /\ fits /\ r.free = q.free
                                                  /\ r.account = q.account
    BY <1>1, <2>1, OfDecide
  <2> QED BY <2>2 DEF fits
<1>4. q.account.limit \in Nat /\ spentFree(q.account) \in Nat
  <2>1. q.account.limit \in Nat /\ q.account.monthly \in BOOLEAN
    BY <1>2, CreditsAssumption DEF Account
  <2>2. free.month \in Nat /\ free.past \in Nat
    BY DEF Typed
  <2> QED BY <2>1, <2>2 DEF spentFree
<1>5. q.free <= room => q.free + spentFree(q.account) <= q.account.limit
  <2> DEFINE s == spentFree(q.account)
  <2> HIDE DEF s, q
  <2> QED BY <1>2, <1>4 DEF Minus, s
<1> HIDE DEF q, room
<1>6. r.phase \in {"paid", "free"} => /\ r.free + spentFree(r.account) <= r.account.limit
                                      /\ r.account \in Account
  BY <1>2, <1>3, <1>5
<1> QED BY <1>3, <1>6, Zenon DEF q

LEMMA OfRecordFree ==
  ASSUME Typed, NEW c \in Charges, RecordFree(c)
  PROVE  /\ Turn(c, Ok(charge[c].size)) /\ charge[c].phase = "free"
         /\ FlightOf(charge[c]) = 0 /\ FlightOf(Ok(charge[c].size)) = 0
         /\ SettledOf(Ok(charge[c].size)) = SettledOf(charge[c]) + charge[c].free
         /\ free' = [past |-> free.past, month |-> free.month + charge[c].free]
         /\ charge[c].free \in Nat /\ charge[c].account \in Account
<1>1. charge[c].phase = "free" /\ charge' = [charge EXCEPT ![c] = Ok(charge[c].size)]
  BY DEF RecordFree
<1>2. /\ charge[c].size \in Nat /\ charge[c].paid + charge[c].free = charge[c].size
      /\ charge[c].free \in Nat /\ charge[c].account \in Account
  BY <1>1, CallUnderWay
<1>3. FlightOf(charge[c]) = 0 /\ SettledOf(charge[c]) = charge[c].paid
  BY <1>1 DEF FlightOf, SettledOf
<1>4. free' = [past |-> free.past, month |-> free.month + charge[c].free]
  BY DEF RecordFree, Typed
<1> QED BY <1>1, <1>2, <1>3, <1>4, CallEnds DEF Turn

LEMMA OfRefund ==
  ASSUME Typed, NEW c \in Charges, Refund(c)
  PROVE  \E s : /\ s \in Nat /\ s <= charge[c].paid /\ charge[c].paid \in Nat
                /\ Turn(c, Failed) /\ charge[c].phase = "refund"
                /\ FlightOf(charge[c]) = charge[c].paid /\ SettledOf(charge[c]) = 0
                /\ RowsOK(batches', lapsed') /\ held' = held + s /\ given = given' + s
                /\ active' = active + s /\ returned' = returned + s
                /\ lost' = lost + (charge[c].paid - s)
                /\ TakesAll(lapsed, charge[c].paid, given, s)
                /\ \A i \in DOMAIN batches : DrawnInOrder(i)
<1> DEFINE n == charge[c].paid
           back == Share(Capacities, n)
           s == Sum(back)
<1>1. /\ charge[c].phase = "refund" /\ batches' = GivenTo(batches, back)
      /\ returned' = returned + s /\ lost' = lost + (n - s) /\ lapsed' = lapsed
      /\ charge' = [charge EXCEPT ![c] = Failed]
  BY DEF Refund, GiveBack, GivenTo
<1>2. n \in Nat
  BY <1>1, CallUnderWay
<1>3. RowsOK(batches, lapsed) /\ DOMAIN batches = 1..Len(batches)
  BY Sums, RowFacts
<1>4. /\ back = Share(CapacitiesIn(batches, lapsed), n)
      /\ held = Sum(HeldIn(batches)) /\ given = Sum(Given(batches))
      /\ active = Sum(UsableIn(batches, lapsed))
  BY Names DEF held, given
<1>5. /\ held' = Sum(HeldIn(batches')) /\ given' = Sum(Given(batches'))
      /\ active' = Sum(UsableIn(batches', lapsed))
  BY <1>1, NamesNext
<1> DEFINE e == batches'
<1>6. FlightOf(charge[c]) = n /\ SettledOf(charge[c]) = 0
  BY <1>1 DEF FlightOf, SettledOf
<1> HIDE DEF back, e, n
<1>7. /\ RowsOK(e, lapsed) /\ s \in Nat /\ s <= n
      /\ Sum(HeldIn(e)) = Sum(HeldIn(batches)) + s
      /\ Sum(Given(batches)) = Sum(Given(e)) + s
      /\ Sum(UsableIn(e, lapsed)) = Sum(UsableIn(batches, lapsed)) + s
      /\ TakesAll(lapsed, n, Sum(Given(batches)), s)
      /\ \A i \in 1..Len(batches) : ~ (e[i].remaining < batches[i].remaining)
  <2>1. e = GivenTo(batches, back)
    BY <1>1 DEF e
  <2>2. n \in Nat /\ RowsOK(batches, lapsed) /\ back = Share(CapacitiesIn(batches, lapsed), n)
    BY <1>2, <1>3, <1>4
  <2>3. RowsOK(e, lapsed) /\ s \in Nat /\ s <= n
    BY <2>1, <2>2, RowsGetBack
  <2>4. /\ Sum(HeldIn(e)) = Sum(HeldIn(batches)) + s
        /\ Sum(Given(batches)) = Sum(Given(e)) + s
    BY <2>1, <2>2, RowsGetBack
  <2>5. Sum(UsableIn(e, lapsed)) = Sum(UsableIn(batches, lapsed)) + s
    BY <2>1, <2>2, RowsGetBack
  <2>6. TakesAll(lapsed, n, Sum(Given(batches)), s)
    BY <2>1, <2>2, RowsGetBack
  <2>7. \A i \in 1..Len(batches) : ~ (e[i].remaining < batches[i].remaining)
    BY <2>1, <2>2, RowsGetBack
  <2> QED BY <2>3, <2>4, <2>5, <2>6, <2>7
<1>8. \A i \in DOMAIN batches : DrawnInOrder(i)
  BY <1>3, <1>7 DEF DrawnInOrder, e
<1> HIDE DEF s
<1>9. /\ RowsOK(batches', lapsed') /\ held' = held + s /\ given = given' + s
      /\ active' = active + s /\ TakesAll(lapsed, n, given, s)
  BY <1>1, <1>4, <1>5, <1>7 DEF e
<1>10. Turn(c, Failed)
  BY <1>1, FailedCall DEF Turn
<1> QED BY <1>1, <1>2, <1>6, <1>7, <1>8, <1>9, <1>10, Zenon DEF n

LEMMA OfRegisterFails ==
  ASSUME Typed, NEW c \in Charges, RegisterFails(c)
  PROVE  /\ Turn(c, Failed) /\ Running(c)
         /\ lost' = lost + FlightOf(charge[c]) /\ partial' = partial + SettledOf(charge[c])
<1>1. /\ charge[c].phase \in {"consume", "guard", "refund", "free"}
      /\ charge' = [charge EXCEPT ![c] = Failed]
      /\ lost' = lost + InFlight(c) /\ partial' = partial + Written(c)
  BY DEF RegisterFails
<1>2. InFlight(c) = FlightOf(charge[c]) /\ Written(c) = SettledOf(charge[c])
  BY <1>1 DEF InFlight, Written, FlightOf, SettledOf
<1> QED BY <1>1, <1>2, FailedCall DEF Turn, Running

LEMMA OfInsert ==
  ASSUME Typed, NEW p \in Purchases, Insert(p)
  PROVE  \E n : /\ n \in Nat /\ n > 0 /\ purchase[p].phase = "insert" /\ purchase[p].size = n
                /\ purchase' = [purchase EXCEPT ![p] = Ok(n)]
                /\ RowsOK(batches', lapsed') /\ held' = held + n /\ given' = given
                /\ active' = active + n /\ \A i \in DOMAIN batches : DrawnInOrder(i)
<1> DEFINE n == purchase[p].size
           e == batches'
<1>1. /\ purchase[p].phase = "insert" /\ lapsed' = lapsed
      /\ purchase' = [purchase EXCEPT ![p] = Ok(n)]
      /\ Appends(batches, n, e)
  BY DEF Insert, Appends
<1>2. n \in Nat /\ n > 0
  <2>1. PurchaseOK(purchase[p])
    BY DEF Typed
  <2> QED BY <1>1, <2>1 DEF PurchaseOK, Idle
<1>3. RowsOK(batches, lapsed) /\ DOMAIN batches = 1..Len(batches)
      /\ \A i \in DOMAIN batches : batches[i].remaining \in Nat
  BY Sums, RowFacts
<1>4. /\ held = Sum(HeldIn(batches)) /\ given = Sum(Given(batches))
      /\ active = Sum(UsableIn(batches, lapsed))
      /\ held' = Sum(HeldIn(e)) /\ given' = Sum(Given(e))
      /\ active' = Sum(UsableIn(e, lapsed))
  BY <1>1, Names, NamesNext DEF held, given
<1>5. \A i \in DOMAIN batches : e[i] = batches[i]
  BY <1>1, <1>3 DEF RowsOK, Appends
<1> HIDE DEF n, e
<1>6. /\ RowsOK(e, lapsed)
      /\ Sum(HeldIn(e)) = Sum(HeldIn(batches)) + n
      /\ Sum(Given(e)) = Sum(Given(batches))
      /\ Sum(UsableIn(e, lapsed)) = Sum(UsableIn(batches, lapsed)) + n
  <2>1. RowsOK(batches, lapsed) /\ n \in Nat /\ Appends(batches, n, e)
    BY <1>1, <1>2, <1>3
  <2> QED BY <2>1, RowsAppend
<1>7. \A i \in DOMAIN batches : DrawnInOrder(i)
  <2> SUFFICES ASSUME NEW i \in DOMAIN batches PROVE DrawnInOrder(i)
    OBVIOUS
  <2>1. batches[i].remaining \in Nat /\ batches'[i].remaining = batches[i].remaining
    BY <1>3, <1>5 DEF e
  <2> QED BY <2>1 DEF DrawnInOrder
<1>8. RowsOK(batches', lapsed') /\ held' = held + n /\ given' = given /\ active' = active + n
  BY <1>1, <1>4, <1>6 DEF e
<1> QED BY <1>1, <1>2, <1>7, <1>8, Zenon DEF n

LEMMA OfRefundBatches ==
  ASSUME Typed, NEW S \in SUBSET DOMAIN batches, refundBatches(S)
  PROVE  \E v : /\ v \in Nat /\ voided' = voided + v
                /\ RowsOK(batches', lapsed') /\ held = held' + v /\ given' = given + v
                /\ active' <= active /\ left' <= left /\ lapsed' = lapsed
                /\ \A i \in DOMAIN batches : DrawnInOrder(i)
<1> DEFINE v == Sum([i \in {j \in S : ~batches[j].refunded} |-> batches[i].remaining])
           e == batches'
<1>1. e = Voids(batches, S) /\ voided' = voided + v /\ lapsed' = lapsed
  BY DEF refundBatches, Voids
<1>2. RowsOK(batches, lapsed) /\ DOMAIN batches = 1..Len(batches)
  BY Sums, RowFacts
<1>3. /\ held = Sum(HeldIn(batches)) /\ given = Sum(Given(batches))
      /\ active = Sum(UsableIn(batches, lapsed))
      /\ held' = Sum(HeldIn(e)) /\ given' = Sum(Given(e))
      /\ active' = Sum(UsableIn(e, lapsed))
      /\ left = Sum(LeftIn(batches, lapsed)) /\ left' = Sum(LeftIn(e, lapsed))
  BY <1>1, Names, NamesNext, LeftOver DEF held, given, left
<1>4. v = Sum([i \in {j \in S : ~batches[j].refunded} |-> batches[i].remaining])
  OBVIOUS
<1> HIDE DEF v, e
<1>5. /\ RowsOK(e, lapsed) /\ v \in Nat
      /\ Sum(HeldIn(batches)) = Sum(HeldIn(e)) + v
      /\ Sum(Given(e)) = Sum(Given(batches)) + v
      /\ Sum(UsableIn(e, lapsed)) <= Sum(UsableIn(batches, lapsed))
      /\ Sum(LeftIn(e, lapsed)) <= Sum(LeftIn(batches, lapsed))
      /\ \A i \in 1..Len(batches) : e[i].remaining < batches[i].remaining =>
                                      e[i].refunded /\ ~batches[i].refunded
  BY <1>1, <1>2, <1>4, RowsVoid
<1>6. \A i \in DOMAIN batches : DrawnInOrder(i)
  BY <1>2, <1>5 DEF DrawnInOrder, e
<1>7. /\ RowsOK(batches', lapsed') /\ held = held' + v /\ given' = given + v
      /\ active' <= active /\ left' <= left /\ lapsed' = lapsed
  BY <1>1, <1>3, <1>5 DEF e
<1> QED BY <1>1, <1>5, <1>6, <1>7, Zenon

LEMMA OfTime ==
  ASSUME Typed, Lapse \/ markExpiredCredits
  PROVE  /\ RowsOK(batches', lapsed') /\ held' = held /\ given' = given
         /\ active' <= active /\ \A i \in DOMAIN batches : DrawnInOrder(i)
         /\ lapsed' = 0 => lapsed = 0
         /\ lapsed' = lapsed => active' = active
<1> DEFINE e == batches'
           k == lapsed'
<1>0. RowsOK(batches, lapsed) /\ DOMAIN batches = 1..Len(batches) /\ lapsed \in 0..Len(batches)
      /\ Len(batches) \in Nat /\ \A i \in 1..Len(batches) : batches[i].remaining \in Nat
  BY Sums, RowFacts
<1>1. k \in lapsed..Len(batches) /\ (e = batches \/ e = Expires(batches, k))
  <2>1. CASE Lapse
    BY <1>0, <2>1 DEF Lapse
  <2>2. CASE markExpiredCredits
    BY <1>0, <2>2 DEF markExpiredCredits, Expires
  <2> QED BY <2>1, <2>2
<1>2. /\ held = Sum(HeldIn(batches)) /\ given = Sum(Given(batches))
      /\ active = Sum(UsableIn(batches, lapsed))
      /\ held' = Sum(HeldIn(e)) /\ given' = Sum(Given(e))
      /\ active' = Sum(UsableIn(e, k))
  BY Names, NamesNext DEF held, given
<1> HIDE DEF e, k
<1>3. /\ RowsOK(e, k)
      /\ Sum(HeldIn(e)) = Sum(HeldIn(batches)) /\ Sum(Given(e)) = Sum(Given(batches))
      /\ Sum(UsableIn(e, k)) <= Sum(UsableIn(batches, lapsed))
      /\ k = lapsed => Sum(UsableIn(e, k)) = Sum(UsableIn(batches, lapsed))
      /\ \A i \in 1..Len(batches) : e[i].remaining = batches[i].remaining
  BY <1>0, <1>1, RowsExpire
<1>4. \A i \in DOMAIN batches : DrawnInOrder(i)
  <2> SUFFICES ASSUME NEW i \in DOMAIN batches PROVE DrawnInOrder(i)
    OBVIOUS
  <2>1. batches[i].remaining \in Nat /\ batches'[i].remaining = batches[i].remaining
    BY <1>0, <1>3 DEF e
  <2> QED BY <2>1 DEF DrawnInOrder
<1>5. k = 0 => lapsed = 0
  BY <1>0, <1>1
<1>6. /\ RowsOK(batches', lapsed') /\ held' = held /\ given' = given /\ active' <= active
      /\ lapsed' = 0 => lapsed = 0
      /\ lapsed' = lapsed => active' = active
  BY <1>2, <1>3, <1>5 DEF e, k
<1> QED BY <1>4, <1>6

LEMMA OfCrash ==
  ASSUME Typed, Crash
  PROVE  \E w : /\ w \in Nat /\ Calls(charge') /\ inFlight' = 0
                /\ lost' = lost + inFlight /\ partial' = partial + w
                /\ settled = settled' + w /\ settled' \in Nat
                /\ \A c \in Charges : ~Running(c)'
<1> DEFINE k == charge'
           w == Sum(WrittenIn(charge))
<1>1. /\ k = Stopped(charge) /\ lost' = lost + inFlight
      /\ partial' = partial + Sum([c \in Charges |-> Written(c)])
  BY DEF Crash, Stopped, Running, inFlight
<1>2. Sum([c \in Charges |-> Written(c)]) = w
  BY DEF Written, WrittenIn
<1>3. Calls(charge)
  BY Sums
<1> HIDE DEF k
<1>4. /\ Calls(k) /\ Sum(FlightIn(k)) = 0 /\ w \in Nat
      /\ Sum(SettledIn(charge)) = Sum(SettledIn(k)) + w
      /\ \A c \in Charges : k[c].phase \in {"idle", "done"}
  BY <1>1, <1>3, CallsStop
<1>5. Sum(SettledIn(k)) \in Nat
  BY <1>4, CallSums
<1>6. /\ settled = Sum(SettledIn(charge)) /\ settled' = Sum(SettledIn(k))
      /\ inFlight' = Sum(FlightIn(k))
  BY NamesNext DEF settled, k
<1>7. \A c \in Charges : ~Running(c)'
  BY <1>4 DEF Running, k
<1> HIDE DEF w
<1>8. /\ Calls(charge') /\ inFlight' = 0 /\ lost' = lost + inFlight /\ partial' = partial + w
      /\ settled = settled' + w /\ settled' \in Nat
  BY <1>1, <1>2, <1>4, <1>5, <1>6 DEF k
<1> QED BY <1>4, <1>7, <1>8, Zenon

(***************************************************************************)
(* Type correctness                                                        *)
(***************************************************************************)
Buys(pu) == pu = [p \in Purchases |-> pu[p]] /\ \A p \in Purchases : PurchaseOK(pu[p])

LEMMA FaultCounted ==
  ASSUME Typed, Fault
  PROVE  faults' \in 0..MaxFaults /\ faults' > 0
BY CreditsAssumption DEF Typed, Fault

LEMMA BuyTurns ==
  ASSUME Typed, NEW p \in Purchases, NEW r, PurchaseOK(r), purchase' = [purchase EXCEPT ![p] = r]
  PROVE  /\ Buys(purchase') /\ purchase'[p] = r
         /\ \A q \in Purchases \ {p} : purchase'[q] = purchase[q]
<1>1. purchase = [q \in Purchases |-> purchase[q]] /\ \A q \in Purchases : PurchaseOK(purchase[q])
  BY DEF Typed
<1> DEFINE k == purchase'
<1> HIDE DEF k
<1>2. /\ k = [q \in Purchases |-> k[q]] /\ k[p] = r
      /\ \A q \in Purchases \ {p} : k[q] = purchase[q]
  BY <1>1 DEF k
<1>3. \A q \in Purchases : PurchaseOK(k[q])
  <2> SUFFICES ASSUME NEW q \in Purchases PROVE PurchaseOK(k[q])
    OBVIOUS
  <2>1. CASE q = p
    BY <1>2, <2>1
  <2>2. CASE q # p
    <3>1. k[q] = purchase[q]
      BY <1>2, <2>2
    <3> QED BY <1>1, <3>1
  <2> QED BY <2>1, <2>2
<1> QED BY <1>2, <1>3 DEF Buys, k

\* A purchase ends or is admitted.
LEMMA PurchaseStates ==
  ASSUME NEW n \in Nat
  PROVE  /\ PurchaseOK(Ok(n)) /\ PurchaseOK(Failed) /\ Ok(n).phase = "done" /\ Failed.phase = "done"
         /\ n > 0 => PurchaseOK([phase |-> "insert", size |-> n])
<1>1. Ok(n) = [phase |-> "done", size |-> n] /\ Failed = [phase |-> "done", size |-> 0]
  BY DEF Ok, Failed
<1> QED BY <1>1 DEF PurchaseOK

\* What the accounting of a charge may do to the numbers.
Counted ==
  /\ purchased \in Nat /\ free \in [past : Nat, month : Nat] /\ account \in Account
  /\ updates \in 0..MaxUpdates /\ months \in 0..MaxMonths /\ faults \in 0..MaxFaults
  /\ lost \in Nat /\ voided \in Nat /\ returned \in Nat /\ partial \in Nat
  /\ overlapped \subseteq Charges

LEMMA TypedParts ==
  /\ Typed <=> RowsOK(batches, lapsed) /\ Calls(charge) /\ Buys(purchase) /\ Counted
  /\ Typed' <=> RowsOK(batches', lapsed') /\ Calls(charge') /\ Buys(purchase') /\ Counted'
<1>1. Typed <=> RowsOK(batches, lapsed) /\ Calls(charge) /\ Buys(purchase) /\ Counted
  BY Zenon DEF Typed, Calls, Buys, Counted
<1>2. Typed' <=> RowsOK(batches', lapsed') /\ Calls(charge') /\ Buys(purchase') /\ Counted'
  BY Zenon DEF Typed, Calls, Buys, Counted, RowsOK, CallOK, PurchaseOK, Row, Busy, Idle, Account
<1> QED BY <1>1, <1>2

LEMMA TypedCharge ==
  ASSUME Typed, NEW c \in Charges, ChargeNext(c)
  PROVE  Typed'
<1>0. RowsOK(batches, lapsed) /\ Calls(charge) /\ Buys(purchase) /\ Counted
  BY TypedParts
<1> SUFFICES RowsOK(batches', lapsed') /\ Calls(charge') /\ Buys(purchase') /\ Counted'
  BY TypedParts
<1>b. Buys(purchase')
  <2>1. purchase' = purchase
    BY DEF ChargeNext, Register, Consume, Guard, RecordPurchased, RecordPurchasedFails,
           RecordFree, Refund, RegisterFails
  <2> QED BY <1>0, <2>1
<1>1. ASSUME NEW n \in Sizes, Register(c, n)
      PROVE  RowsOK(batches', lapsed') /\ Calls(charge') /\ Counted'
  <2>1. PICK r : Turn(c, r)
    BY <1>1, OfRegister
  <2>2. Calls(charge')
    BY <2>1, Turned
  <2>3. RowsOK(batches', lapsed')
    BY <1>0, <1>1 DEF Register, rows
  <2>4. overlapped' \subseteq Charges
    <3>1. overlapped \subseteq Charges
      BY <1>0 DEF Counted
    <3> QED BY <1>1, <3>1 DEF Register
  <2>5. Counted'
    BY <1>0, <1>1, <2>4 DEF Register, Counted, ledger, bounds, Account
  <2> QED BY <2>2, <2>3, <2>5
<1>2. ASSUME Consume(c)
      PROVE  RowsOK(batches', lapsed') /\ Calls(charge') /\ Counted'
  <2>1. PICK r, t : Turn(c, r) /\ RowsOK(batches', lapsed')
    BY <1>2, OfConsume
  <2>2. Calls(charge')
    BY <2>1, Turned
  <2>3. Counted'
    BY <1>0, <1>2 DEF Consume, Counted, ledger, bounds, hist, Account
  <2> QED BY <2>1, <2>2, <2>3
<1>3. ASSUME Guard(c)
      PROVE  RowsOK(batches', lapsed') /\ Calls(charge') /\ Counted'
  <2>1. PICK r : Turn(c, r)
    BY <1>3, OfGuard
  <2>2. Calls(charge')
    BY <2>1, Turned
  <2>3. RowsOK(batches', lapsed') /\ Counted'
    BY <1>0, <1>3 DEF Guard, Counted, rows, ledger, bounds, hist, Account
  <2> QED BY <2>2, <2>3
<1>4. ASSUME RecordPurchased(c)
      PROVE  RowsOK(batches', lapsed') /\ Calls(charge') /\ Counted'
  <2>1. PICK r : Turn(c, r)
    BY <1>4, OfRecordPurchased
  <2>2. Calls(charge')
    BY <2>1, Turned
  <2>3. charge[c].paid \in Nat
    BY <1>4, CallUnderWay DEF RecordPurchased
  <2>4. RowsOK(batches', lapsed') /\ Counted'
    BY <1>0, <1>4, <2>3 DEF RecordPurchased, Counted, rows, bounds, hist, Account
  <2> QED BY <2>2, <2>4
<1>5. ASSUME RecordPurchasedFails(c)
      PROVE  RowsOK(batches', lapsed') /\ Calls(charge') /\ Counted'
  <2>1. PICK r : Turn(c, r)
    BY <1>5, OfRecordPurchasedFails
  <2>2. Calls(charge')
    BY <2>1, Turned
  <2>3. faults' \in 0..MaxFaults
    BY <1>5, FaultCounted DEF RecordPurchasedFails
  <2>4. RowsOK(batches', lapsed') /\ Counted'
    BY <1>0, <1>5, <2>3 DEF RecordPurchasedFails, Counted, rows, ledger, bounds, hist, Account
  <2> QED BY <2>2, <2>4
<1>6. ASSUME RecordFree(c)
      PROVE  RowsOK(batches', lapsed') /\ Calls(charge') /\ Counted'
  <2>1. /\ Turn(c, Ok(charge[c].size)) /\ charge[c].free \in Nat
        /\ free' = [past |-> free.past, month |-> free.month + charge[c].free]
    BY <1>6, OfRecordFree
  <2>2. Calls(charge')
    BY <2>1, Turned
  <2>3. free' \in [past : Nat, month : Nat]
    BY <1>0, <2>1 DEF Counted
  <2>4. RowsOK(batches', lapsed') /\ Counted'
    BY <1>0, <1>6, <2>3 DEF RecordFree, Counted, rows, bounds, hist, Account
  <2> QED BY <2>2, <2>4
<1>7. ASSUME Refund(c)
      PROVE  RowsOK(batches', lapsed') /\ Calls(charge') /\ Counted'
  <2>1. PICK s : /\ s \in Nat /\ s <= charge[c].paid /\ charge[c].paid \in Nat
                 /\ Turn(c, Failed) /\ RowsOK(batches', lapsed')
                 /\ returned' = returned + s /\ lost' = lost + (charge[c].paid - s)
    BY <1>7, OfRefund
  <2>2. Calls(charge')
    BY <2>1, Turned
  <2>3. Counted'
    BY <1>0, <1>7, <2>1 DEF Refund, Counted, ledger, bounds, Account
  <2> QED BY <2>1, <2>2, <2>3
<1>8. ASSUME RegisterFails(c)
      PROVE  RowsOK(batches', lapsed') /\ Calls(charge') /\ Counted'
  <2>1. /\ Turn(c, Failed)
        /\ lost' = lost + FlightOf(charge[c]) /\ partial' = partial + SettledOf(charge[c])
    BY <1>8, OfRegisterFails
  <2>2. Calls(charge') /\ FlightOf(charge[c]) \in Nat /\ SettledOf(charge[c]) \in Nat
    BY <2>1, Turned
  <2>3. faults' \in 0..MaxFaults
    BY <1>8, FaultCounted DEF RegisterFails
  <2>4. RowsOK(batches', lapsed') /\ Counted'
    BY <1>0, <1>8, <2>1, <2>2, <2>3 DEF RegisterFails, Counted, rows, ledger, bounds, Account
  <2> QED BY <2>2, <2>4
<1> QED BY <1>b, <1>1, <1>2, <1>3, <1>4, <1>5, <1>6, <1>7, <1>8, Zenon DEF ChargeNext

LEMMA TypedPurchase ==
  ASSUME Typed, NEW p \in Purchases, PurchaseNext(p)
  PROVE  Typed'
<1>0. RowsOK(batches, lapsed) /\ Calls(charge) /\ Buys(purchase) /\ Counted
  BY TypedParts
<1> SUFFICES RowsOK(batches', lapsed') /\ Calls(charge') /\ Buys(purchase') /\ Counted'
  BY TypedParts
<1>c. Calls(charge')
  <2>1. charge' = charge
    BY DEF PurchaseNext, CapCheck, Insert, InsertFails
  <2> QED BY <1>0, <2>1
<1>1. ASSUME NEW n \in Amounts, CapCheck(p, n)
      PROVE  RowsOK(batches', lapsed') /\ Buys(purchase') /\ Counted'
  <2>1. n \in Nat /\ n > 0
    BY CreditsAssumption
  <2> DEFINE r == IF active + n > Cap THEN Failed ELSE [phase |-> "insert", size |-> n]
  <2>2. purchase' = [purchase EXCEPT ![p] = r]
    BY <1>1 DEF CapCheck
  <2>3. PurchaseOK(r)
    BY <2>1, PurchaseStates
  <2> HIDE DEF r
  <2>4. Buys(purchase')
    BY <2>2, <2>3, BuyTurns
  <2>5. RowsOK(batches', lapsed') /\ Counted'
    BY <1>0, <1>1 DEF CapCheck, Counted, rows, ledger, bounds, hist, Account
  <2> QED BY <2>4, <2>5
<1>2. ASSUME Insert(p)
      PROVE  RowsOK(batches', lapsed') /\ Buys(purchase') /\ Counted'
  <2>1. PICK n : /\ n \in Nat /\ purchase' = [purchase EXCEPT ![p] = Ok(n)]
                 /\ RowsOK(batches', lapsed')
    BY <1>2, OfInsert
  <2>2. PurchaseOK(Ok(n))
    BY <2>1, PurchaseStates
  <2>3. Buys(purchase')
    BY <2>1, <2>2, BuyTurns
  <2>4. Counted'
    BY <1>0, <1>2 DEF Insert, Counted, ledger, bounds, hist, Account
  <2> QED BY <2>1, <2>3, <2>4
<1>3. ASSUME InsertFails(p)
      PROVE  RowsOK(batches', lapsed') /\ Buys(purchase') /\ Counted'
  <2>1. purchase' = [purchase EXCEPT ![p] = Failed] /\ PurchaseOK(Failed)
    BY <1>3, PurchaseStates DEF InsertFails
  <2>2. Buys(purchase')
    BY <2>1, BuyTurns
  <2>3. faults' \in 0..MaxFaults
    BY <1>3, FaultCounted DEF InsertFails
  <2>4. RowsOK(batches', lapsed') /\ Counted'
    BY <1>0, <1>3, <2>3 DEF InsertFails, Counted, rows, ledger, bounds, hist, Account
  <2> QED BY <2>2, <2>4
<1> QED BY <1>c, <1>1, <1>2, <1>3, Zenon DEF PurchaseNext

LEMMA TypedElse ==
  ASSUME Typed, \/ Lapse \/ markExpiredCredits
                \/ \E S \in SUBSET DOMAIN batches : refundBatches(S)
                \/ \E monthly \in BOOLEAN, limit \in FreeLimits : updateAccount(monthly, limit)
                \/ NewMonth \/ Crash \/ UNCHANGED vars
  PROVE  Typed'
<1>0. RowsOK(batches, lapsed) /\ Calls(charge) /\ Buys(purchase) /\ Counted
  BY TypedParts
<1> SUFFICES RowsOK(batches', lapsed') /\ Calls(charge') /\ Buys(purchase') /\ Counted'
  BY TypedParts
<1>1. CASE Lapse \/ markExpiredCredits
  <2>1. RowsOK(batches', lapsed')
    BY <1>1, OfTime
  <2>2. charge' = charge /\ purchase' = purchase /\ Counted'
    BY <1>0, <1>1 DEF Lapse, markExpiredCredits, Counted, ledger, bounds, hist, Account
  <2> QED BY <1>0, <2>1, <2>2
<1>2. ASSUME NEW S \in SUBSET DOMAIN batches, refundBatches(S)
      PROVE  RowsOK(batches', lapsed') /\ Calls(charge') /\ Buys(purchase') /\ Counted'
  <2>1. PICK v : v \in Nat /\ voided' = voided + v /\ RowsOK(batches', lapsed')
    BY <1>2, OfRefundBatches
  <2>3. UNCHANGED <<ledger, account, charge, purchase, bounds, faults, lost, returned, partial, overlapped>>
    BY <1>2, Zenon DEF refundBatches
  <2>2. charge' = charge /\ purchase' = purchase /\ Counted'
    BY <1>0, <2>1, <2>3 DEF Counted, ledger, bounds, Account
  <2> QED BY <1>0, <2>1, <2>2
<1>3. ASSUME NEW monthly \in BOOLEAN, NEW limit \in FreeLimits, updateAccount(monthly, limit)
      PROVE  RowsOK(batches', lapsed') /\ Calls(charge') /\ Buys(purchase') /\ Counted'
  <2>1. updates' \in 0..MaxUpdates
    BY <1>0, <1>3, CreditsAssumption DEF updateAccount, Counted
  <2>2. RowsOK(batches', lapsed') /\ charge' = charge /\ purchase' = purchase /\ Counted'
    BY <1>0, <1>3, <2>1 DEF updateAccount, Counted, rows, ledger, hist, Account
  <2> QED BY <1>0, <2>2
<1>4. CASE NewMonth
  <2>1. months' \in 0..MaxMonths /\ free' \in [past : Nat, month : Nat]
    BY <1>0, <1>4, CreditsAssumption DEF NewMonth, Counted
  <2>2. RowsOK(batches', lapsed') /\ charge' = charge /\ purchase' = purchase /\ Counted'
    BY <1>0, <1>4, <2>1 DEF NewMonth, Counted, rows, hist, Account
  <2> QED BY <1>0, <2>2
<1>5. CASE Crash
  <2>1. PICK w : w \in Nat /\ Calls(charge') /\ lost' = lost + inFlight /\ partial' = partial + w
    BY <1>5, OfCrash
  <2>2. inFlight \in Nat
    BY Sums
  <2>3. faults' \in 0..MaxFaults
    BY <1>5, FaultCounted DEF Crash
  <2>4. RowsOK(batches', lapsed') /\ purchase' = purchase /\ Counted'
    BY <1>0, <1>5, <2>1, <2>2, <2>3 DEF Crash, Counted, rows, ledger, bounds, Account
  <2> QED BY <1>0, <2>1, <2>4
<1>6. CASE UNCHANGED vars
  <2>1. /\ RowsOK(batches', lapsed') /\ charge' = charge /\ purchase' = purchase /\ Counted'
    BY <1>0, <1>6 DEF vars, Counted, rows, ledger, bounds, hist, Account
  <2> QED BY <1>0, <2>1
<1> QED BY <1>1, <1>2, <1>3, <1>4, <1>5, <1>6

LEMMA Steps ==
  ASSUME [Next]_vars
  PROVE  \/ \E c \in Charges : ChargeNext(c)
         \/ \E p \in Purchases : PurchaseNext(p)
         \/ Lapse \/ markExpiredCredits
         \/ \E S \in SUBSET DOMAIN batches : refundBatches(S)
         \/ \E monthly \in BOOLEAN, limit \in FreeLimits : updateAccount(monthly, limit)
         \/ NewMonth \/ Crash \/ UNCHANGED vars
BY Zenon DEF Next

LEMMA TypedStep ==
  ASSUME Typed, [Next]_vars
  PROVE  Typed'
<1>1. ASSUME NEW c \in Charges, ChargeNext(c) PROVE Typed'
  BY <1>1, TypedCharge
<1>2. ASSUME NEW p \in Purchases, PurchaseNext(p) PROVE Typed'
  BY <1>2, TypedPurchase
<1>3. CASE \/ Lapse \/ markExpiredCredits
           \/ \E S \in SUBSET DOMAIN batches : refundBatches(S)
           \/ \E monthly \in BOOLEAN, limit \in FreeLimits : updateAccount(monthly, limit)
           \/ NewMonth \/ Crash \/ UNCHANGED vars
  BY <1>3, TypedElse
<1> QED BY <1>1, <1>2, <1>3, Steps, Zenon

LEMMA TypedInit ==
  ASSUME Init
  PROVE  /\ Typed /\ active = 0 /\ inFlight = 0 /\ settled = 0 /\ held = 0 /\ given = 0
         /\ \A c \in Charges : charge[c] = Idle
<1>1. RowsOK(batches, lapsed) /\ batches = <<>>
  BY DEF Init, RowsOK
<1>2. \A c \in Charges : charge[c] = Idle /\ CallOK(charge[c])
  BY DEF Init, CallOK
<1>3. Calls(charge) /\ Buys(purchase)
  BY <1>2 DEF Init, Calls, Buys, PurchaseOK
<1>4. Counted
  BY CreditsAssumption DEF Init, Counted, Account
<1>5. Typed
  BY <1>1, <1>3, <1>4, TypedParts
<1>6. active = 0 /\ held = 0 /\ given = 0
  <2>1. Len(batches) = 0 /\ 1..Len(batches) = {}
    BY <1>1
  <2>2. /\ Sum(HeldIn(batches)) = Over(HeldIn(batches), 1..Len(batches))
        /\ Sum(Given(batches)) = Over(Given(batches), 1..Len(batches))
        /\ Sum(UsableIn(batches, lapsed)) = Over(UsableIn(batches, lapsed), 1..Len(batches))
    BY <1>1, RowFacts
  <2>3. /\ Over(HeldIn(batches), {}) = 0 /\ Over(Given(batches), {}) = 0
        /\ Over(UsableIn(batches, lapsed), {}) = 0
    BY OverNone
  <2> QED BY <2>1, <2>2, <2>3, Names DEF held, given
<1>7. inFlight = 0 /\ settled = 0
  <2>1. \A c \in Charges : FlightIn(charge)[c] = 0 /\ SettledIn(charge)[c] = 0
    BY <1>2 DEF FlightIn, SettledIn, FlightOf, SettledOf, Idle
  <2>2. Over(FlightIn(charge), Charges) = 0 /\ Over(SettledIn(charge), Charges) = 0
    BY <2>1, ChargesAreFinite, OverZero
  <2> QED BY <1>3, <2>2, CallSums, Names DEF settled
<1> QED BY <1>2, <1>5, <1>6, <1>7

LEMMA TypedIsType ==
  ASSUME Typed
  PROVE  TypeOK
<1>1. \A r : CallOK(r) => \/ r = Idle
                          \/ r \in [phase : {"done"}, size : Nat]
                          \/ r \in [phase : {"consume", "guard", "paid", "free", "refund"}, size : Nat,
                                    paid : Nat, free : Nat, account : Account]
  BY DEF CallOK, Busy
<1>2. \A r : PurchaseOK(r) => r = Idle \/ r \in [phase : {"insert", "done"}, size : Nat]
  BY DEF PurchaseOK
<1>3. /\ batches \in Seq([original : Nat, remaining : Nat, expired : BOOLEAN, refunded : BOOLEAN])
      /\ \A i \in DOMAIN batches : batches[i].remaining <= batches[i].original
      /\ lapsed \in 0..Len(batches)
  BY Sums, RowFacts DEF RowsOK, Row
<1> QED BY <1>1, <1>2, <1>3 DEF Typed, TypeOK

LEMMA SumsNext ==
  ASSUME Typed'
  PROVE  held' \in Nat /\ active' \in Nat /\ given' \in Nat /\ inFlight' \in Nat /\ settled' \in Nat
<1>1. Calls(charge') /\ RowsOK(batches', lapsed')
  BY TypedParts
<1>2. inFlight' \in Nat /\ settled' \in Nat
  BY <1>1, NamesNext, CallSums
<1> DEFINE b == batches'
           l == lapsed'
<1>3. /\ held' = Sum(HeldIn(b)) /\ given' = Sum(Given(b)) /\ active' = Sum(UsableIn(b, l))
      /\ RowsOK(b, l)
  BY <1>1, NamesNext
<1> HIDE DEF b, l
<1>4. Sum(HeldIn(b)) \in Nat /\ Sum(Given(b)) \in Nat /\ Sum(UsableIn(b, l)) \in Nat
  BY <1>3, RowFacts
<1> QED BY <1>2, <1>3, <1>4

(***************************************************************************)
(* The cap                                                                 *)
(***************************************************************************)
\* What can be used grows by no more than is given back.
NoMoreUsable == active' + returned <= active + returned'

LEMMA CapKept ==
  ASSUME Typed, Typed', CapSound, purchase' = purchase, NoMoreUsable
  PROVE  CapSound'
<1> DEFINE a == active
           r == returned
           z == active'
           s == returned'
<1>1. a \in Nat /\ z \in Nat /\ Cap \in Nat /\ r \in Nat /\ s \in Nat
  BY Sums, SumsNext, CreditsAssumption DEF Typed
<1>2. a <= Cap + r /\ z + r <= a + s
  BY DEF CapSound, CapHeld, NoMoreUsable
<1>3. ASSUME NEW n \in Nat, a + n <= Cap + r PROVE z + n <= Cap + s
  <2> HIDE DEF a, r, z, s
  <2> QED BY <1>1, <1>2, <1>3
<1>4. z <= Cap + s
  <2> HIDE DEF a, r, z, s
  <2> QED BY <1>1, <1>2
<1>5. ASSUME NEW p \in Purchases, purchase'[p].phase = "insert"
      PROVE  /\ active' + purchase'[p].size <= Cap + returned'
             /\ \A q \in Purchases : purchase'[q].phase = "insert" => q = p
  <2>1. /\ a + purchase[p].size <= Cap + r
        /\ \A q \in Purchases : purchase[q].phase = "insert" => q = p
    BY <1>5 DEF CapSound
  <2>2. purchase[p].size \in Nat
    BY <1>5 DEF Typed, PurchaseOK, Idle
  <2> HIDE DEF a, r
  <2>3. z + purchase[p].size <= Cap + s
    BY <1>3, <2>1, <2>2
  <2> QED BY <2>1, <2>3
<1> QED BY <1>4, <1>5 DEF CapSound, CapHeld

LEMMA CapPurchase ==
  ASSUME Typed, Typed', CapSound, NEW p \in Purchases, PurchaseNext(p)
  PROVE  CapSound'
<1>0. /\ active \in Nat /\ Cap \in Nat /\ returned \in Nat /\ CapHeld
      /\ purchase = [q \in Purchases |-> purchase[q]]
  BY Sums, CreditsAssumption DEF Typed, CapSound
<1>1. ASSUME NEW n \in Amounts, CapCheck(p, n) PROVE CapSound'
  <2>1. n \in Nat /\ n > 0
    BY CreditsAssumption
  <2> DEFINE r == IF active + n > Cap THEN Failed ELSE [phase |-> "insert", size |-> n]
  <2>2. /\ purchase' = [purchase EXCEPT ![p] = r] /\ UNCHANGED rows /\ returned' = returned
        /\ \A q \in Purchases : purchase[q].phase # "insert"
    BY <1>1 DEF CapCheck, hist
  <2>3. active' = active
    BY <2>2, SameRows
  <2>4. r.phase = "insert" => active + r.size <= Cap /\ r.size = n
    BY <1>0, <2>1 DEF Failed, Ok
  <2> HIDE DEF r
  <2>5. purchase'[p] = r /\ \A q \in Purchases \ {p} : purchase'[q].phase # "insert"
    BY <1>0, <2>2
  <2>6. CapHeld'
    BY <1>0, <2>2, <2>3 DEF CapHeld
  <2>7. ASSUME NEW q \in Purchases, purchase'[q].phase = "insert"
        PROVE  /\ active' + purchase'[q].size <= Cap + returned'
               /\ \A o \in Purchases : purchase'[o].phase = "insert" => o = q
    <3>1. q = p
      BY <2>5, <2>7
    <3>2. active + purchase'[p].size <= Cap /\ purchase'[p].size = n
      BY <2>4, <2>5, <2>7, <3>1
    <3>3. active' + purchase'[p].size <= Cap + returned'
      BY <1>0, <2>1, <2>2, <2>3, <3>2
    <3> QED BY <2>5, <3>1, <3>3
  <2> QED BY <2>6, <2>7 DEF CapSound
<1>2. ASSUME Insert(p) PROVE CapSound'
  <2>1. PICK n : /\ n \in Nat /\ purchase[p].phase = "insert" /\ purchase[p].size = n
                 /\ purchase' = [purchase EXCEPT ![p] = Ok(n)] /\ active' = active + n
    BY <1>2, OfInsert
  <2>2. returned' = returned
    BY <1>2 DEF Insert, hist
  <2>3. /\ active + n <= Cap + returned
        /\ \A q \in Purchases : purchase[q].phase = "insert" => q = p
    BY <2>1 DEF CapSound
  <2>4. CapHeld'
    BY <2>1, <2>2, <2>3 DEF CapHeld
  <2>5. \A q \in Purchases : purchase'[q].phase # "insert"
    <3> SUFFICES ASSUME NEW q \in Purchases PROVE purchase'[q].phase # "insert"
      OBVIOUS
    <3>1. CASE q = p
      BY <1>0, <2>1, <3>1 DEF Ok
    <3>2. CASE q # p
      <4>1. purchase'[q] = purchase[q]
        BY <1>0, <2>1, <3>2
      <4> QED BY <2>3, <3>2, <4>1
    <3> QED BY <3>1, <3>2
  <2> QED BY <2>4, <2>5 DEF CapSound
<1>3. ASSUME InsertFails(p) PROVE CapSound'
  <2>1. /\ purchase[p].phase = "insert" /\ purchase' = [purchase EXCEPT ![p] = Failed]
        /\ UNCHANGED rows /\ returned' = returned
    BY <1>3 DEF InsertFails, hist
  <2>2. active' = active
    BY <2>1, SameRows
  <2>3. \A q \in Purchases : purchase[q].phase = "insert" => q = p
    BY <2>1 DEF CapSound
  <2>4. CapHeld'
    BY <1>0, <2>1, <2>2 DEF CapHeld
  <2>5. \A q \in Purchases : purchase'[q].phase # "insert"
    <3> SUFFICES ASSUME NEW q \in Purchases PROVE purchase'[q].phase # "insert"
      OBVIOUS
    <3>1. CASE q = p
      BY <1>0, <2>1, <3>1 DEF Failed, Ok
    <3>2. CASE q # p
      <4>1. purchase'[q] = purchase[q]
        BY <1>0, <2>1, <3>2
      <4> QED BY <2>3, <3>2, <4>1
    <3> QED BY <3>1, <3>2
  <2> QED BY <2>4, <2>5 DEF CapSound
<1> QED BY <1>1, <1>2, <1>3, Zenon DEF PurchaseNext

LEMMA CapStep ==
  ASSUME Typed, Typed', CapSound, [Next]_vars
  PROVE  CapSound'
<1>0. active \in Nat /\ active' \in Nat /\ returned \in Nat
  BY Sums, SumsNext DEF Typed
<1>s. ASSUME active' <= active, returned' = returned, purchase' = purchase PROVE CapSound'
  <2> DEFINE a == active
             r == returned
             z == active'
  <2>1. a \in Nat /\ z \in Nat /\ r \in Nat /\ z <= a
    BY <1>0, <1>s
  <2>2. z + r <= a + r
    <3> HIDE DEF a, r, z
    <3> QED BY <2>1
  <2>3. NoMoreUsable
    BY <1>s, <2>2 DEF NoMoreUsable
  <2> QED BY <1>s, <2>3, CapKept
<1>1. ASSUME UNCHANGED rows, returned' = returned, purchase' = purchase PROVE CapSound'
  BY <1>0, <1>1, <1>s, SameRows
<1>2. ASSUME NEW c \in Charges, ChargeNext(c) PROVE CapSound'
  <2>1. CASE Consume(c)
    <3>1. active' <= active
      BY <2>1, OfConsume
    <3>2. purchase' = purchase /\ returned' = returned
      BY <2>1 DEF Consume, hist
    <3> QED BY <3>1, <3>2, <1>s
  <2>2. CASE Refund(c)
    <3>1. PICK s : s \in Nat /\ active' = active + s /\ returned' = returned + s
      BY <2>2, OfRefund
    <3>2. purchase' = purchase
      BY <2>2 DEF Refund
    <3>3. active' + returned <= active + returned'
      BY <1>0, <3>1
    <3> QED BY <3>2, <3>3, CapKept DEF NoMoreUsable
  <2>3. CASE ~Consume(c) /\ ~Refund(c)
    <3>1. UNCHANGED rows /\ returned' = returned /\ purchase' = purchase
      BY <1>2, <2>3 DEF ChargeNext, Register, Guard, RecordPurchased, RecordPurchasedFails,
                        RecordFree, RegisterFails, hist
    <3> QED BY <1>1, <3>1
  <2> QED BY <2>1, <2>2, <2>3
<1>3. CASE Lapse \/ markExpiredCredits
  <2>1. active' <= active
    BY <1>3, OfTime
  <2>2. purchase' = purchase /\ returned' = returned
    BY <1>3 DEF Lapse, markExpiredCredits, hist
  <2> QED BY <2>1, <2>2, <1>s
<1>4. ASSUME NEW S \in SUBSET DOMAIN batches, refundBatches(S) PROVE CapSound'
  <2>1. active' <= active
    BY <1>4, OfRefundBatches
  <2>2. purchase' = purchase /\ returned' = returned
    BY <1>4, Zenon DEF refundBatches
  <2> QED BY <2>1, <2>2, <1>s
<1>5. ASSUME NEW monthly \in BOOLEAN, NEW limit \in FreeLimits, updateAccount(monthly, limit)
      PROVE  CapSound'
  <2>1. UNCHANGED rows /\ returned' = returned /\ purchase' = purchase
    BY <1>5 DEF updateAccount, hist
  <2> QED BY <1>1, <2>1
<1>6. CASE NewMonth \/ Crash \/ UNCHANGED vars
  <2>1. UNCHANGED rows /\ returned' = returned /\ purchase' = purchase
    BY <1>6 DEF NewMonth, Crash, vars, hist
  <2> QED BY <1>1, <2>1
<1>7. ASSUME NEW p \in Purchases, PurchaseNext(p) PROVE CapSound'
  BY <1>7, CapPurchase
<1> QED BY <1>2, <1>3, <1>4, <1>5, <1>6, <1>7, Steps

(***************************************************************************)
(* What is recorded                                                        *)
(***************************************************************************)
recorded == purchased + free.past + free.month

LEMMA Exactly ==
  ASSUME Typed
  PROVE  /\ ChargedExactly <=> recorded = settled + partial
         /\ recorded \in Nat /\ settled \in Nat /\ partial \in Nat
<1>1. settled = Sum([c \in Charges |-> IF charge[c].phase = "done" THEN charge[c].size ELSE Written(c)])
  BY Names
<1>2. ChargedExactly <=> recorded = settled + partial
  BY <1>1, Zenon DEF ChargedExactly, recorded
<1>3. recorded \in Nat /\ partial \in Nat
  BY DEF Typed, recorded
<1> QED BY <1>2, <1>3, Sums

\* The same identity of the next state.
LEMMA ExactlyNext ==
  ASSUME Typed', recorded' = settled' + partial'
  PROVE  ChargedExactly'
<1>1. settled' = Sum([c \in Charges |-> IF charge'[c].phase = "done" THEN charge'[c].size
                                        ELSE IF charge'[c].phase = "free" THEN charge'[c].paid ELSE 0])
  BY DEF settled, SettledIn, SettledOf
<1>2. recorded' = purchased' + free'.past + free'.month
  BY DEF recorded
<1> QED BY <1>1, <1>2, Zenon DEF ChargedExactly, Written

\* The records grow by what the charges settle and what failed ones leave.
LEMMA ExactKept ==
  ASSUME Typed, Typed', ChargedExactly, NEW x \in Nat, NEW w \in Nat,
         recorded' = recorded + x, partial' = partial + w, settled' + w = settled + x
  PROVE  ChargedExactly'
<1> DEFINE r == recorded
           s == settled
           p == partial
           y == recorded'
           t == settled'
           q == partial'
<1>1. r \in Nat /\ s \in Nat /\ p \in Nat /\ t \in Nat /\ r = s + p
  BY Exactly, SumsNext
<1>2. y = r + x /\ q = p + w /\ t + w = s + x
  OBVIOUS
<1>3. y = t + q
  <2> HIDE DEF r, s, p, y, t, q
  <2> QED BY <1>1, <1>2
<1> QED BY <1>3, ExactlyNext

LEMMA ExactSame ==
  ASSUME Typed, Typed', ChargedExactly,
         UNCHANGED ledger, partial' = partial, settled' = settled
  PROVE  ChargedExactly'
<1>1. recorded' = recorded
  BY DEF ledger, recorded
<1>2. recorded \in Nat /\ partial \in Nat /\ settled \in Nat
  BY Exactly
<1>3. recorded' = recorded + 0 /\ partial' = partial + 0 /\ settled' + 0 = settled + 0
  BY <1>1, <1>2
<1> QED BY <1>3, ExactKept

LEMMA ExactCharge ==
  ASSUME Typed, Typed', ChargedExactly, NEW c \in Charges, ChargeNext(c)
  PROVE  ChargedExactly'
<1>0. recorded \in Nat /\ settled \in Nat /\ partial \in Nat /\ settled' \in Nat
  BY Exactly, SumsNext
<1>s. ASSUME NEW r, Turn(c, r), SettledOf(charge[c]) = 0, SettledOf(r) = 0
      PROVE  settled' = settled
  <2>1. settled' + SettledOf(charge[c]) = settled + SettledOf(r)
    BY <1>s, Turned
  <2> DEFINE x == settled
             t == settled'
  <2>2. t + 0 = x + 0 /\ x \in Nat /\ t \in Nat
    BY <1>0, <1>s, <2>1
  <2>3. t = x
    <3> HIDE DEF x, t
    <3> QED BY <2>2
  <2> QED BY <2>3
<1>1. ASSUME NEW n \in Sizes, Register(c, n) PROVE ChargedExactly'
  <2>1. PICK r : Turn(c, r) /\ SettledOf(charge[c]) = 0 /\ SettledOf(r) = 0
    BY <1>1, OfRegister
  <2>2. settled' = settled
    BY <2>1, <1>s
  <2>3. UNCHANGED ledger /\ partial' = partial
    BY <1>1 DEF Register
  <2> QED BY <2>2, <2>3, ExactSame
<1>2. ASSUME Consume(c) PROVE ChargedExactly'
  <2>1. PICK r, t : Turn(c, r) /\ SettledOf(charge[c]) = 0 /\ SettledOf(r) = 0
    BY <1>2, OfConsume
  <2>2. settled' = settled
    BY <2>1, <1>s
  <2>3. UNCHANGED ledger /\ partial' = partial
    BY <1>2 DEF Consume, hist
  <2> QED BY <2>2, <2>3, ExactSame
<1>3. ASSUME Guard(c) PROVE ChargedExactly'
  <2>1. PICK r : Turn(c, r) /\ SettledOf(charge[c]) = 0 /\ SettledOf(r) = 0
    BY <1>3, OfGuard
  <2>2. settled' = settled
    BY <2>1, <1>s
  <2>3. UNCHANGED ledger /\ partial' = partial
    BY <1>3 DEF Guard, hist
  <2> QED BY <2>2, <2>3, ExactSame
<1>4. ASSUME RecordPurchased(c) PROVE ChargedExactly'
  <2>1. PICK r : Turn(c, r) /\ SettledOf(charge[c]) = 0 /\ SettledOf(r) = charge[c].paid
    BY <1>4, OfRecordPurchased
  <2>2. settled' + 0 = settled + charge[c].paid
    BY <2>1, Turned
  <2>3. charge[c].paid \in Nat
    BY <1>4, CallUnderWay DEF RecordPurchased
  <2>4. purchased' = purchased + charge[c].paid /\ free' = free /\ partial' = partial
    BY <1>4 DEF RecordPurchased, hist
  <2> DEFINE x == charge[c].paid
  <2> HIDE DEF x
  <2>5. recorded' = recorded + x
    <3>1. purchased \in Nat /\ free.past \in Nat /\ free.month \in Nat /\ x \in Nat
      BY <2>3 DEF Typed, x
    <3> QED BY <2>4, <3>1 DEF recorded, x
  <2>6. partial' = partial + 0
    BY <1>0, <2>4
  <2> QED BY <2>2, <2>3, <2>5, <2>6, ExactKept DEF x
<1>5. ASSUME RecordPurchasedFails(c) PROVE ChargedExactly'
  <2>1. PICK r : Turn(c, r) /\ SettledOf(charge[c]) = 0 /\ SettledOf(r) = 0
    BY <1>5, OfRecordPurchasedFails
  <2>2. settled' = settled
    BY <2>1, <1>s
  <2>3. UNCHANGED ledger /\ partial' = partial
    BY <1>5 DEF RecordPurchasedFails, hist
  <2> QED BY <2>2, <2>3, ExactSame
<1>6. ASSUME RecordFree(c) PROVE ChargedExactly'
  <2> DEFINE x == charge[c].free
             y == SettledOf(charge[c])
             z == SettledOf(Ok(charge[c].size))
  <2>1. /\ Turn(c, Ok(charge[c].size)) /\ z = y + x /\ x \in Nat
        /\ free' = [past |-> free.past, month |-> free.month + x]
    BY <1>6, OfRecordFree
  <2>2. settled' + y = settled + z /\ y \in Nat
    BY <2>1, Turned
  <2>3. purchased' = purchased /\ partial' = partial
    BY <1>6 DEF RecordFree, hist
  <2> HIDE DEF x, y, z
  <2>4. settled' + 0 = settled + x
    <3> DEFINE s == settled
               t == settled'
    <3>1. t + y = s + z /\ s \in Nat /\ t \in Nat
      BY <1>0, <2>2
    <3>2. t + 0 = s + x
      <4> HIDE DEF s, t
      <4> QED BY <2>1, <2>2, <3>1
    <3> QED BY <3>2
  <2>5. recorded' = recorded + x
    <3>1. purchased \in Nat /\ free.past \in Nat /\ free.month \in Nat
      BY DEF Typed
    <3> QED BY <2>1, <2>3, <3>1 DEF recorded
  <2>6. partial' = partial + 0
    BY <1>0, <2>3
  <2> QED BY <2>1, <2>4, <2>5, <2>6, ExactKept
<1>7. ASSUME Refund(c) PROVE ChargedExactly'
  <2>1. PICK s : Turn(c, Failed) /\ SettledOf(charge[c]) = 0
    BY <1>7, OfRefund
  <2>2. settled' = settled
    BY <2>1, <1>s, FailedCall
  <2>3. UNCHANGED ledger /\ partial' = partial
    BY <1>7 DEF Refund
  <2> QED BY <2>2, <2>3, ExactSame
<1>8. ASSUME RegisterFails(c) PROVE ChargedExactly'
  <2> DEFINE w == SettledOf(charge[c])
  <2>1. Turn(c, Failed) /\ partial' = partial + w
    BY <1>8, OfRegisterFails
  <2>2. settled' + w = settled + 0 /\ w \in Nat
    BY <2>1, Turned, FailedCall
  <2>3. UNCHANGED ledger
    BY <1>8 DEF RegisterFails
  <2>4. recorded' = recorded + 0
    BY <1>0, <2>3 DEF recorded, ledger
  <2> HIDE DEF w
  <2> QED BY <2>1, <2>2, <2>4, ExactKept
<1> QED BY <1>1, <1>2, <1>3, <1>4, <1>5, <1>6, <1>7, <1>8, Zenon DEF ChargeNext

LEMMA ExactStep ==
  ASSUME Typed, Typed', ChargedExactly, [Next]_vars
  PROVE  ChargedExactly'
<1>0. recorded \in Nat /\ settled \in Nat /\ partial \in Nat /\ settled' \in Nat
  BY Exactly, SumsNext
<1>1. ASSUME UNCHANGED ledger, partial' = partial, charge' = charge PROVE ChargedExactly'
  BY <1>1, SameCharges, ExactSame
<1>2. ASSUME NEW c \in Charges, ChargeNext(c) PROVE ChargedExactly'
  BY <1>2, ExactCharge
<1>3. ASSUME NEW p \in Purchases, PurchaseNext(p) PROVE ChargedExactly'
  <2>1. UNCHANGED ledger /\ partial' = partial /\ charge' = charge
    BY <1>3 DEF PurchaseNext, CapCheck, Insert, InsertFails, hist
  <2> QED BY <1>1, <2>1
<1>4. CASE Lapse \/ markExpiredCredits
  <2>1. UNCHANGED ledger /\ partial' = partial /\ charge' = charge
    BY <1>4 DEF Lapse, markExpiredCredits, hist
  <2> QED BY <1>1, <2>1
<1>5. ASSUME NEW S \in SUBSET DOMAIN batches, refundBatches(S) PROVE ChargedExactly'
  <2>1. UNCHANGED ledger /\ partial' = partial /\ charge' = charge
    BY <1>5, Zenon DEF refundBatches
  <2> QED BY <1>1, <2>1
<1>6. ASSUME NEW monthly \in BOOLEAN, NEW limit \in FreeLimits, updateAccount(monthly, limit)
      PROVE  ChargedExactly'
  <2>1. UNCHANGED ledger /\ partial' = partial /\ charge' = charge
    BY <1>6 DEF updateAccount, hist
  <2> QED BY <1>1, <2>1
<1>7. CASE NewMonth
  <2>1. /\ free' = [past |-> free.past + free.month, month |-> 0]
        /\ purchased' = purchased /\ partial' = partial /\ charge' = charge
    BY <1>7 DEF NewMonth, hist
  <2>2. recorded' = recorded + 0
    <3>1. purchased \in Nat /\ free.past \in Nat /\ free.month \in Nat
      BY DEF Typed
    <3> QED BY <2>1, <3>1 DEF recorded
  <2>3. settled' + 0 = settled + 0 /\ partial' = partial + 0
    BY <1>0, <2>1, SameCharges
  <2> QED BY <2>2, <2>3, ExactKept
<1>8. CASE Crash
  <2>1. PICK w : w \in Nat /\ partial' = partial + w /\ settled = settled' + w
    BY <1>8, OfCrash
  <2>2. UNCHANGED ledger
    BY <1>8 DEF Crash
  <2>3. recorded' = recorded + 0
    BY <1>0, <2>2 DEF recorded, ledger
  <2>4. settled' + w = settled + 0
    BY <1>0, <2>1
  <2> QED BY <2>1, <2>3, <2>4, ExactKept
<1>9. CASE UNCHANGED vars
  <2>1. UNCHANGED ledger /\ partial' = partial /\ charge' = charge
    BY <1>9 DEF vars, hist
  <2> QED BY <1>1, <2>1
<1> QED BY <1>2, <1>3, <1>4, <1>5, <1>6, <1>7, <1>8, <1>9, Steps

(***************************************************************************)
(* Room for what charges give back                                         *)
(***************************************************************************)
\* Charges take what rows have given; rows lapse for good, and nothing is
\* lost without a fault as long as no row has lapsed.
RoomMoves ==
  /\ lapsed' = 0 => lapsed = 0
  /\ faults > 0 => faults' > 0
  /\ lapsed' > 0 \/ faults' > 0 \/ lost' = lost
  /\ lapsed = 0 => inFlight' + given <= inFlight + given'

LEMMA RoomKept ==
  ASSUME Typed, Typed', RoomLeft, RoomMoves
  PROVE  RoomLeft'
<1> DEFINE f == inFlight
           g == given
           x == inFlight'
           y == given'
<1>1. f \in Nat /\ g \in Nat /\ x \in Nat /\ y \in Nat
  BY Sums, SumsNext
<1>2. lapsed \in Nat /\ lapsed' \in Nat
  <2>1. RowsOK(batches, lapsed) /\ RowsOK(batches', lapsed')
    BY TypedParts
  <2> QED BY <2>1 DEF RowsOK
<1>3. lost > 0 => lapsed > 0 \/ faults > 0
  BY DEF RoomLeft, LossNeedsExpiryOrFault
<1>4. LossNeedsExpiryOrFault'
  BY <1>2, <1>3 DEF RoomMoves, LossNeedsExpiryOrFault
<1>5. lapsed' = 0 => f <= g /\ x + g <= f + y
  BY DEF RoomMoves, RoomLeft
<1>6. f <= g /\ x + g <= f + y => x <= y
  <2> HIDE DEF f, g, x, y
  <2> QED BY <1>1
<1> QED BY <1>4, <1>5, <1>6 DEF RoomLeft

\* Nothing of it moves.
LEMMA RoomSame ==
  ASSUME Typed, Typed', RoomLeft, UNCHANGED rows, inFlight' = inFlight, lost' = lost,
         faults > 0 => faults' > 0
  PROVE  RoomLeft'
<1>1. given' = given /\ lapsed' = lapsed
  BY SameRows DEF rows
<1>2. inFlight' + given <= inFlight + given'
  <2>1. inFlight \in Nat /\ given \in Nat
    BY Sums
  <2> QED BY <1>1, <2>1
<1>3. RoomMoves
  BY <1>1, <1>2 DEF RoomMoves
<1> QED BY <1>3, RoomKept

LEMMA RoomCharge ==
  ASSUME Typed, Typed', RoomLeft, NEW c \in Charges, ChargeNext(c)
  PROVE  RoomLeft'
<1> DEFINE f == inFlight
           g == given
           x == inFlight'
           y == given'
<1>0. f \in Nat /\ g \in Nat /\ x \in Nat /\ y \in Nat /\ lapsed \in Nat
  <2>1. RowsOK(batches, lapsed)
    BY TypedParts
  <2> QED BY <2>1, Sums, SumsNext DEF RowsOK
<1>s. ASSUME NEW r, Turn(c, r), FlightOf(charge[c]) = FlightOf(r) PROVE inFlight' = inFlight
  <2> DEFINE h == FlightOf(r)
  <2>1. x + h = f + h /\ h \in Nat
    BY <1>s, Turned
  <2>2. x = f
    <3> HIDE DEF x, f, h
    <3> QED BY <1>0, <2>1
  <2> QED BY <2>2
<1>1. ASSUME NEW n \in Sizes, Register(c, n) PROVE RoomLeft'
  <2>1. PICK r : Turn(c, r) /\ FlightOf(charge[c]) = 0 /\ FlightOf(r) = 0
    BY <1>1, OfRegister
  <2>2. inFlight' = inFlight
    BY <2>1, <1>s
  <2>3. UNCHANGED rows /\ lost' = lost /\ faults' = faults
    BY <1>1 DEF Register
  <2> QED BY <2>2, <2>3, RoomSame
<1>2. ASSUME Consume(c) PROVE RoomLeft'
  <2>1. PICK r, t : /\ t \in Nat /\ Turn(c, r) /\ FlightOf(charge[c]) = 0 /\ FlightOf(r) = t
                    /\ given' = given + t
    BY <1>2, OfConsume
  <2>2. x + 0 = f + t /\ y = g + t
    BY <2>1, Turned
  <2>3. x + g <= f + y
    <3> HIDE DEF x, f, g, y
    <3> QED BY <1>0, <2>1, <2>2
  <2>4. lapsed' = lapsed /\ lost' = lost /\ faults' = faults
    BY <1>2 DEF Consume, hist
  <2>5. RoomMoves
    BY <2>3, <2>4 DEF RoomMoves
  <2> QED BY <2>5, RoomKept
<1>3. ASSUME Guard(c) PROVE RoomLeft'
  <2>1. PICK r : Turn(c, r) /\ FlightOf(charge[c]) = FlightOf(r)
    BY <1>3, OfGuard
  <2>2. inFlight' = inFlight
    BY <2>1, <1>s
  <2>3. UNCHANGED rows /\ lost' = lost /\ faults' = faults
    BY <1>3 DEF Guard, hist
  <2> QED BY <2>2, <2>3, RoomSame
<1>l. ASSUME NEW r, Turn(c, r), FlightOf(r) = 0, UNCHANGED rows, lost' = lost \/ faults' > 0,
             faults > 0 => faults' > 0
      PROVE  RoomLeft'
  <2> DEFINE h == FlightOf(charge[c])
  <2>1. x + h = f + 0 /\ h \in Nat
    BY <1>l, Turned
  <2>2. y = g /\ lapsed' = lapsed
    BY <1>l, SameRows DEF rows
  <2>3. x + g <= f + y
    <3> HIDE DEF x, f, g, y, h
    <3> QED BY <1>0, <2>1, <2>2
  <2>4. RoomMoves
    BY <1>l, <2>2, <2>3 DEF RoomMoves
  <2> QED BY <2>4, RoomKept
<1>4. ASSUME RecordPurchased(c) PROVE RoomLeft'
  <2>1. PICK r : Turn(c, r) /\ FlightOf(r) = 0
    BY <1>4, OfRecordPurchased
  <2>2. UNCHANGED rows /\ lost' = lost /\ faults' = faults
    BY <1>4 DEF RecordPurchased, hist
  <2> QED BY <2>1, <2>2, <1>l
<1>5. ASSUME RecordPurchasedFails(c) PROVE RoomLeft'
  <2>1. PICK r : Turn(c, r) /\ FlightOf(charge[c]) = FlightOf(r)
    BY <1>5, OfRecordPurchasedFails
  <2>2. inFlight' = inFlight
    BY <2>1, <1>s
  <2>3. UNCHANGED rows /\ lost' = lost /\ faults' > 0
    BY <1>5, FaultCounted DEF RecordPurchasedFails, hist
  <2> QED BY <2>2, <2>3, RoomSame
<1>6. ASSUME RecordFree(c) PROVE RoomLeft'
  <2>1. PICK r : Turn(c, r) /\ FlightOf(r) = 0
    BY <1>6, OfRecordFree
  <2>2. UNCHANGED rows /\ lost' = lost /\ faults' = faults
    BY <1>6 DEF RecordFree, hist
  <2> QED BY <2>1, <2>2, <1>l
<1>7. ASSUME Refund(c) PROVE RoomLeft'
  <2> DEFINE p == charge[c].paid
  <2>1. PICK s : /\ s \in Nat /\ s <= p /\ p \in Nat /\ Turn(c, Failed)
                 /\ FlightOf(charge[c]) = p /\ given = given' + s
                 /\ lost' = lost + (p - s) /\ TakesAll(lapsed, p, given, s)
    BY <1>7, OfRefund
  <2>2. lapsed' = lapsed /\ faults' = faults /\ lost \in Nat
    BY <1>7 DEF Refund, Typed
  <2>3. x + p = f + 0 /\ g = y + s
    BY <2>1, Turned, FailedCall
  <2>4. lapsed = 0 => f <= g
    BY DEF RoomLeft
  <2>5. lapsed = 0 => p = s
    <3>1. TakesAll(lapsed, p, g, s)
      BY <2>1
    <3> HIDE DEF x, f, g, y, p
    <3>2. lapsed = 0 => p <= g
      BY <1>0, <2>1, <2>3, <2>4
    <3> QED BY <3>1, <3>2 DEF TakesAll
  <2>6. lapsed = 0 => lost' = lost
    <3> HIDE DEF p
    <3> QED BY <2>1, <2>2, <2>5
  <2>7. lapsed = 0 => x + g <= f + y
    <3> HIDE DEF x, f, g, y, p
    <3> QED BY <1>0, <2>1, <2>3, <2>5
  <2>9. lapsed' > 0 \/ lapsed = 0
    BY <1>0, <2>2
  <2>8. RoomMoves
    BY <2>2, <2>6, <2>7, <2>9 DEF RoomMoves
  <2> QED BY <2>8, RoomKept
<1>8. ASSUME RegisterFails(c) PROVE RoomLeft'
  <2>1. Turn(c, Failed) /\ FlightOf(Failed) = 0
    BY <1>8, OfRegisterFails, FailedCall
  <2>2. UNCHANGED rows /\ faults' > 0
    BY <1>8, FaultCounted DEF RegisterFails
  <2> QED BY <2>1, <2>2, <1>l
<1> QED BY <1>1, <1>2, <1>3, <1>4, <1>5, <1>6, <1>7, <1>8, Zenon DEF ChargeNext

LEMMA RoomStep ==
  ASSUME Typed, Typed', RoomLeft, [Next]_vars
  PROVE  RoomLeft'
<1> DEFINE f == inFlight
           g == given
           x == inFlight'
           y == given'
<1>0. f \in Nat /\ g \in Nat /\ x \in Nat /\ y \in Nat /\ lapsed \in Nat
  <2>1. RowsOK(batches, lapsed)
    BY TypedParts
  <2> QED BY <2>1, Sums, SumsNext DEF RowsOK
<1>1. ASSUME x = f, NEW v \in Nat, y = g + v, lapsed' = 0 => lapsed = 0,
             lost' = lost, faults' = faults
      PROVE  RoomLeft'
  <2>1. x + g <= f + y
    <3> HIDE DEF x, f, g, y
    <3> QED BY <1>0, <1>1
  <2>2. RoomMoves
    BY <1>1, <2>1 DEF RoomMoves
  <2> QED BY <2>2, RoomKept
<1>2. ASSUME NEW c \in Charges, ChargeNext(c) PROVE RoomLeft'
  BY <1>2, RoomCharge
<1>3. ASSUME NEW p \in Purchases, PurchaseNext(p) PROVE RoomLeft'
  <2>1. inFlight' = inFlight /\ lost' = lost
    <3>1. charge' = charge /\ lost' = lost
      BY <1>3 DEF PurchaseNext, CapCheck, Insert, InsertFails, hist
    <3> QED BY <3>1, SameCharges
  <2>2. CASE Insert(p)
    <3>1. given' = given
      BY <2>2, OfInsert
    <3>2. lapsed' = lapsed /\ faults' = faults
      BY <2>2 DEF Insert
    <3>3. y = g + 0
      BY <1>0, <3>1
    <3> QED BY <1>1, <2>1, <3>2, <3>3
  <2>3. CASE ~Insert(p)
    <3>1. UNCHANGED rows /\ (faults' = faults \/ Fault)
      BY <1>3, <2>3 DEF PurchaseNext, CapCheck, InsertFails
    <3>2. faults > 0 => faults' > 0
      BY <3>1, FaultCounted
    <3> QED BY <2>1, <3>1, <3>2, RoomSame
  <2> QED BY <2>2, <2>3
<1>4. CASE Lapse \/ markExpiredCredits
  <2>1. given' = given /\ (lapsed' = 0 => lapsed = 0)
    BY <1>4, OfTime
  <2>2. charge' = charge /\ lost' = lost /\ faults' = faults
    BY <1>4 DEF Lapse, markExpiredCredits, hist
  <2>3. x = f
    BY <2>2, SameCharges
  <2>4. y = g + 0
    BY <1>0, <2>1
  <2> QED BY <1>1, <2>1, <2>2, <2>3, <2>4
<1>5. ASSUME NEW S \in SUBSET DOMAIN batches, refundBatches(S) PROVE RoomLeft'
  <2>1. PICK v : v \in Nat /\ given' = given + v
    BY <1>5, OfRefundBatches
  <2>2. charge' = charge /\ lost' = lost /\ faults' = faults /\ lapsed' = lapsed
    BY <1>5, Zenon DEF refundBatches
  <2>3. x = f
    BY <2>2, SameCharges
  <2> QED BY <1>1, <2>1, <2>2, <2>3
<1>6. ASSUME NEW monthly \in BOOLEAN, NEW limit \in FreeLimits, updateAccount(monthly, limit)
      PROVE  RoomLeft'
  <2>1. UNCHANGED rows /\ charge' = charge /\ lost' = lost /\ faults' = faults
    BY <1>6 DEF updateAccount, hist
  <2> QED BY <2>1, SameCharges, RoomSame
<1>7. CASE NewMonth \/ UNCHANGED vars
  <2>1. UNCHANGED rows /\ charge' = charge /\ lost' = lost /\ faults' = faults
    BY <1>7 DEF NewMonth, vars, hist
  <2> QED BY <2>1, SameCharges, RoomSame
<1>8. CASE Crash
  <2>1. inFlight' = 0
    BY <1>8, OfCrash
  <2>2. UNCHANGED rows /\ faults' > 0
    BY <1>8, FaultCounted DEF Crash
  <2>3. given' = given /\ lapsed' = lapsed
    BY <2>2, SameRows DEF rows
  <2>4. x = 0 /\ y = g
    BY <2>1, <2>3
  <2>5. x + g <= f + y
    <3> HIDE DEF x, f, g, y
    <3> QED BY <1>0, <2>4
  <2>6. RoomMoves
    BY <2>2, <2>3, <2>5 DEF RoomMoves
  <2> QED BY <2>6, RoomKept
<1> QED BY <1>2, <1>3, <1>4, <1>5, <1>6, <1>7, <1>8, Steps

(***************************************************************************)
(* The free tier                                                           *)
(***************************************************************************)
\* A promise looks at the charge, at what was spent of the free tier, and at
\* what the overlap excuses.
PromisedAt(r, f, x) ==
  r.phase = "free" \/ (r.phase = "paid" /\ r.free > 0) =>
    r.free + (f.month + (IF r.account.monthly THEN 0 ELSE f.past)) <= r.account.limit + x

LEMMA Promises ==
  ASSUME NEW c
  PROVE  /\ Promised(c) <=> PromisedAt(charge[c], free, OverlapSpent(c))
         /\ Promised(c)' <=> PromisedAt(charge'[c], free', OverlapSpent(c)')
BY DEF Promised, PromisedAt, spentFree

\* A promise is made to charges that run.
LEMMA PromiseRuns ==
  ASSUME NEW r, NEW f, NEW x, r.phase \notin {"paid", "free"} \/ (r.phase = "paid" /\ r.free = 0)
  PROVE  PromisedAt(r, f, x)
BY DEF PromisedAt

\* What the overlap excuses, as a function of the charges.
ExcusedIn(ch, o, c) ==
  [d \in Charges |-> IF {c, d} \subseteq o /\ d # c /\ ch[d].phase = "done" THEN ch[d].size ELSE 0]

LEMMA ExcusedType ==
  ASSUME NEW ch, Calls(ch), NEW o, NEW c
  PROVE  /\ \A d \in Charges : ExcusedIn(ch, o, c)[d] \in Nat
         /\ Sum(ExcusedIn(ch, o, c)) = Over(ExcusedIn(ch, o, c), Charges)
         /\ Sum(ExcusedIn(ch, o, c)) \in Nat
<1> DEFINE f == ExcusedIn(ch, o, c)
<1>1. \A d \in Charges : f[d] \in Nat
  <2> SUFFICES ASSUME NEW d \in Charges PROVE f[d] \in Nat
    OBVIOUS
  <2>1. CallOK(ch[d])
    BY DEF Calls
  <2>2. ch[d].phase = "done" => ch[d].size \in Nat
    BY <2>1, CallFacts
  <2> QED BY <2>2 DEF ExcusedIn
<1>2. f = [d \in Charges |-> f[d]]
  BY DEF ExcusedIn
<1> HIDE DEF f
<1>3. Sum(f) = Over(f, Charges)
  BY <1>2, OverDomain
<1>4. Over(f, Charges) \in Nat
  BY <1>1, ChargesAreFinite, OverIsNat
<1> QED BY <1>1, <1>3, <1>4 DEF f

LEMMA ExcuseNames ==
  ASSUME NEW c
  PROVE  /\ OverlapSpent(c) = Sum(ExcusedIn(charge, overlapped, c))
         /\ OverlapSpent(c)' = Sum(ExcusedIn(charge', overlapped', c))
BY DEF OverlapSpent, ExcusedIn

\* The excuse of a charge does not shrink, and grows by the size of a charge
\* that overlapped with it and ends.
LEMMA ExcuseGrows ==
  ASSUME Calls(charge), Calls(charge'), overlapped \subseteq overlapped', NEW c,
         \A d \in Charges : charge[d].phase = "done" => charge'[d] = charge[d]
  PROVE  /\ OverlapSpent(c) \in Nat /\ OverlapSpent(c)' \in Nat /\ OverlapSpent(c) <= OverlapSpent(c)'
         /\ \A d \in Charges \ {c} :
              {c, d} \subseteq overlapped /\ charge[d].phase # "done" /\ charge'[d].phase = "done" =>
                OverlapSpent(c) + charge'[d].size <= OverlapSpent(c)'
<1> DEFINE k == charge'
           o == overlapped'
           f == ExcusedIn(charge, overlapped, c)
           g == ExcusedIn(k, o, c)
<1>0. Calls(k)
  OBVIOUS
<1>1. /\ OverlapSpent(c) = Over(f, Charges) /\ OverlapSpent(c)' = Over(g, Charges)
      /\ Over(f, Charges) \in Nat /\ Over(g, Charges) \in Nat
      /\ \A d \in Charges : f[d] \in Nat /\ g[d] \in Nat
  <2>1. OverlapSpent(c) = Sum(f) /\ OverlapSpent(c)' = Sum(g)
    BY ExcuseNames
  <2> HIDE DEF k, o
  <2> QED BY <1>0, <2>1, ExcusedType
<1>2. \A d \in Charges :
        /\ f[d] = (IF {c, d} \subseteq overlapped /\ d # c /\ charge[d].phase = "done"
                   THEN charge[d].size ELSE 0)
        /\ g[d] = (IF {c, d} \subseteq o /\ d # c /\ k[d].phase = "done" THEN k[d].size ELSE 0)
  <2> HIDE DEF k, o
  <2> QED BY DEF ExcusedIn
<1>3. \A d \in Charges : charge[d].phase = "done" => k[d] = charge[d]
  OBVIOUS
<1>4. overlapped \subseteq o
  OBVIOUS
<1> HIDE DEF f, g, k, o
<1>5. \A d \in Charges : f[d] <= g[d]
  <2> SUFFICES ASSUME NEW d \in Charges PROVE f[d] <= g[d]
    OBVIOUS
  <2>1. CASE {c, d} \subseteq overlapped /\ d # c /\ charge[d].phase = "done"
    <3>1. {c, d} \subseteq o
      BY <1>4, <2>1
    <3>2. f[d] = charge[d].size /\ g[d] = charge[d].size
      BY <1>2, <1>3, <2>1, <3>1
    <3> QED BY <1>1, <3>2
  <2>2. CASE ~ ({c, d} \subseteq overlapped /\ d # c /\ charge[d].phase = "done")
    BY <1>1, <1>2, <2>2
  <2> QED BY <2>1, <2>2
<1>6. Over(f, Charges) <= Over(g, Charges)
  BY <1>1, <1>5, ChargesAreFinite, OverAtMost
<1>7. ASSUME NEW d \in Charges \ {c}, {c, d} \subseteq overlapped, charge[d].phase # "done",
             k[d].phase = "done"
      PROVE  Over(f, Charges) + k[d].size <= Over(g, Charges)
  <2>1. f[d] = 0 /\ g[d] = k[d].size
    BY <1>2, <1>4, <1>7
  <2>2. /\ Over(f, Charges) = f[d] + Over(f, Charges \ {d})
        /\ Over(g, Charges) = g[d] + Over(g, Charges \ {d})
        /\ Over(f, Charges \ {d}) \in Nat /\ Over(g, Charges \ {d}) \in Nat
        /\ g[d] \in Nat
    BY <1>1, ChargesAreFinite, OverRemove
  <2>3. Over(f, Charges \ {d}) <= Over(g, Charges \ {d})
    <3>1. IsFiniteSet(Charges \ {d})
      BY ChargesAreFinite, FS_Subset
    <3>2. \A i \in Charges \ {d} : f[i] \in Nat /\ g[i] \in Nat /\ f[i] <= g[i]
      BY <1>1, <1>5
    <3> QED BY <3>1, <3>2, OverAtMost
  <2> QED BY <2>1, <2>2, <2>3
<1> QED BY <1>1, <1>6, <1>7 DEF k

\* A promise is kept when the excuse grows.
LEMMA PromiseGrows ==
  ASSUME Typed, NEW c \in Charges, NEW r, CallOK(r), NEW x \in Nat, NEW y \in Nat, x <= y,
         PromisedAt(r, free, x)
  PROVE  PromisedAt(r, free, y)
<1>1. CASE r.phase \in {"paid", "free"}
  <2> DEFINE n == r.free
             k == r.account.limit
             s == free.month + (IF r.account.monthly THEN 0 ELSE free.past)
  <2>1. n \in Nat /\ k \in Nat /\ s \in Nat
    <3>1. r \in Busy
      BY <1>1, CallFacts
    <3> QED BY <3>1, CreditsAssumption DEF Busy, Account, Typed
  <2>2. n + s <= k + x => n + s <= k + y
    <3> HIDE DEF n, k, s
    <3> QED BY <2>1
  <2> QED BY <2>2, Zenon DEF PromisedAt
<1>2. CASE r.phase \notin {"paid", "free"}
  BY <1>2, PromiseRuns
<1> QED BY <1>1, <1>2

LEMMA CallsKept ==
  ASSUME Typed, NEW c \in Charges, charge[c].phase # "done", NEW r, Turn(c, r)
  PROVE  /\ Calls(charge) /\ Calls(charge')
         /\ \A d \in Charges : charge[d].phase = "done" => charge'[d] = charge[d]
<1>1. Calls(charge')/\ \A d \in Charges \ {c} : charge'[d] = charge[d]
  BY Turned
<1> QED BY <1>1, Sums

\* A charge that runs moves; the others keep what they were promised.
LEMMA TierTurn ==
  ASSUME Typed, TierSound, NEW c \in Charges, Running(c), NEW r, Turn(c, r),
         overlapped' = overlapped, free' = free,
         \A x \in Nat : OverlapSpent(c) <= x => PromisedAt(r, free, x)
  PROVE  TierSound'
<1>1. charge'[c] = r /\ \A d \in Charges \ {c} : charge'[d] = charge[d]
  BY Turned
<1>2. \A d : /\ OverlapSpent(d) \in Nat /\ OverlapSpent(d)' \in Nat
             /\ OverlapSpent(d) <= OverlapSpent(d)'
  <2>1. charge[c].phase # "done"
    BY DEF Running
  <2> QED BY <2>1, CallsKept, ExcuseGrows
<1>3. ASSUME NEW d \in Charges PROVE Promised(d)'
  <2>1. CASE d = c
    <3>1. PromisedAt(r, free, OverlapSpent(c)')
      BY <1>2
    <3> QED BY <1>1, <2>1, <3>1, Promises
  <2>2. CASE d # c
    <3>1. PromisedAt(charge[d], free, OverlapSpent(d)) /\ CallOK(charge[d])
      BY Promises DEF TierSound, Typed
    <3>2. PromisedAt(charge[d], free, OverlapSpent(d)')
      <4> DEFINE x == OverlapSpent(d)
                 y == OverlapSpent(d)'
      <4>1. x \in Nat /\ y \in Nat /\ x <= y
        BY <1>2
      <4> HIDE DEF x, y
      <4> QED BY <3>1, <4>1, PromiseGrows DEF x, y
    <3> QED BY <1>1, <2>2, <3>2, Promises
  <2> QED BY <2>1, <2>2
<1>4. ASSUME NEW d \in Charges, NEW e \in Charges, d # e, Running(d)', Running(e)'
      PROVE  {d, e} \subseteq overlapped'
  <2>1. Running(d) /\ Running(e)
    BY <1>1, <1>4 DEF Running
  <2> QED BY <1>4, <2>1 DEF TierSound
<1> QED BY <1>3, <1>4 DEF TierSound

LEMMA TierSame ==
  ASSUME TierSound, charge' = charge, free' = free, overlapped' = overlapped
  PROVE  TierSound'
BY DEF TierSound, Promised, Running, spentFree, OverlapSpent

LEMMA TierRegister ==
  ASSUME Typed, TierSound, NEW c \in Charges, NEW n \in Sizes, Register(c, n)
  PROVE  TierSound'
<1> DEFINE others == {d \in Charges : Running(d)}
<1>1. PICK r : Turn(c, r) /\ charge[c] = Idle /\ r.phase = "consume"
  BY OfRegister
<1>2. charge'[c] = r /\ \A d \in Charges \ {c} : charge'[d] = charge[d]
  BY <1>1, Turned
<1>3. /\ overlapped' = overlapped \cup (IF others = {} THEN {} ELSE others \cup {c})
      /\ free' = free
  BY DEF Register, ledger
<1>4. ASSUME NEW d \in Charges PROVE Promised(d)'
  <2>1. CASE d = c
    BY <1>1, <1>2, <2>1, Promises, PromiseRuns
  <2>2. CASE d # c
    <3> DEFINE x == OverlapSpent(d)
               y == OverlapSpent(d)'
    <3>1. x \in Nat /\ y \in Nat /\ x <= y
      <4>1. charge[c].phase # "done" /\ overlapped \subseteq overlapped'
        BY <1>1, <1>3 DEF Idle
      <4> QED BY <1>1, <4>1, CallsKept, ExcuseGrows
    <3>2. PromisedAt(charge[d], free, x) /\ CallOK(charge[d])
      BY Promises DEF TierSound, Typed
    <3>3. PromisedAt(charge[d], free, y)
      <4> HIDE DEF x, y
      <4> QED BY <3>1, <3>2, PromiseGrows
    <3> QED BY <1>2, <1>3, <2>2, <3>3, Promises
  <2> QED BY <2>1, <2>2
<1>5. ASSUME NEW d \in Charges, NEW e \in Charges, d # e, Running(d)', Running(e)'
      PROVE  {d, e} \subseteq overlapped'
  <2>1. CASE d # c /\ e # c
    <3>1. Running(d) /\ Running(e)
      BY <1>2, <1>5, <2>1 DEF Running
    <3>2. {d, e} \subseteq overlapped
      BY <1>5, <3>1 DEF TierSound
    <3> QED BY <1>3, <3>2
  <2>2. ASSUME NEW q \in Charges \ {c}, Running(q)' PROVE {c, q} \subseteq overlapped'
    <3>1. Running(q)
      BY <1>2, <2>2 DEF Running
    <3>2. q \in others
      BY <3>1
    <3> HIDE DEF others
    <3> QED BY <1>3, <3>2
  <2> QED BY <1>5, <2>1, <2>2
<1> QED BY <1>4, <1>5 DEF TierSound

\* What was promised to d is to be had after c records its part: d gains the
\* size of c as an excuse.
LEMMA TierRecord ==
  ASSUME Typed, TierSound, NEW c \in Charges, RecordFree(c)
  PROVE  TierSound'
<1> DEFINE q == charge[c]
<1>1. /\ Turn(c, Ok(q.size)) /\ free' = [past |-> free.past, month |-> free.month + q.free]
      /\ q.phase = "free" /\ overlapped' = overlapped
  BY OfRecordFree DEF RecordFree, hist
<1>2. /\ charge'[c] = Ok(q.size) /\ Ok(q.size).phase = "done" /\ Ok(q.size).size = q.size
      /\ \A d \in Charges \ {c} : charge'[d] = charge[d]
  BY <1>1, Turned DEF Ok
<1>3. q.paid \in Nat /\ q.free \in Nat /\ q.size \in Nat /\ q.paid + q.free = q.size
  BY <1>1, CallUnderWay
<1>4. q.phase # "done"
  BY <1>1
<1>5. Calls(charge) /\ Calls(charge') /\ overlapped \subseteq overlapped'
      /\ \A d \in Charges : charge[d].phase = "done" => charge'[d] = charge[d]
  BY <1>1, <1>4, CallsKept
<1> HIDE DEF q
<1>6. ASSUME NEW d \in Charges \ {c}, charge[d].phase \in {"paid", "free"}
      PROVE  PromisedAt(charge[d], free', OverlapSpent(d)')
  <2> DEFINE x == OverlapSpent(d)
             y == OverlapSpent(d)'
             z == charge[d]
             m == free.month
             p == free.past
             n == z.free
             k == z.account.limit
             a == q.free
             w == q.size
  <2>1. {c, d} \subseteq overlapped
    <3>1. Running(c) /\ Running(d)
      BY <1>1, <1>6 DEF Running, q
    <3> QED BY <3>1 DEF TierSound
  <2>2. x \in Nat /\ y \in Nat /\ x + w <= y
    <3>1. x \in Nat /\ y \in Nat
      BY <1>5, ExcuseGrows
    <3>2. charge[c].phase # "done" /\ charge'[c].phase = "done" /\ charge'[c].size = w
      BY <1>2, <1>4 DEF q
    <3>3. OverlapSpent(d) + charge'[c].size <= OverlapSpent(d)'
      BY <1>5, <2>1, <3>2, ExcuseGrows
    <3> QED BY <3>1, <3>2, <3>3
  <2>3. PromisedAt(z, free, x)
    BY Promises DEF TierSound
  <2>4. n \in Nat /\ k \in Nat /\ m \in Nat /\ p \in Nat /\ a \in Nat /\ w \in Nat /\ a <= w
    <3>1. n \in Nat /\ z.account \in Account
      BY <1>6, CallUnderWay
    <3>2. a \in Nat /\ w \in Nat /\ a <= w
      BY <1>3
    <3>3. m \in Nat /\ p \in Nat /\ k \in Nat
      BY <3>1, CreditsAssumption DEF Typed, Account
    <3> QED BY <3>1, <3>2, <3>3
  <2>5. free'.month = m + a /\ free'.past = p
    BY <1>1
  <2> HIDE DEF x, y, z, m, p, n, k, a, w
  <2>6. n + (m + 0) <= k + x => n + ((m + a) + 0) <= k + y
    BY <2>2, <2>4
  <2>7. n + (m + p) <= k + x => n + ((m + a) + p) <= k + y
    BY <2>2, <2>4
  <2>8. PromisedAt(z, free', y)
    <3>1. CASE z.account.monthly
      BY <2>3, <2>5, <2>6, <3>1 DEF PromisedAt, m, p, n, k
    <3>2. CASE ~z.account.monthly
      BY <2>3, <2>5, <2>7, <3>2 DEF PromisedAt, m, p, n, k
    <3> QED BY <3>1, <3>2
  <2> QED BY <2>8 DEF z, y
<1>7. ASSUME NEW d \in Charges PROVE Promised(d)'
  <2>1. CASE d # c /\ charge[d].phase \in {"paid", "free"}
    BY <1>2, <1>6, <2>1, Promises
  <2>2. CASE d = c \/ charge[d].phase \notin {"paid", "free"}
    <3>1. charge'[d].phase \notin {"paid", "free"}
      BY <1>2, <2>2
    <3> QED BY <3>1, Promises, PromiseRuns
  <2> QED BY <2>1, <2>2
<1>8. ASSUME NEW d \in Charges, NEW e \in Charges, d # e, Running(d)', Running(e)'
      PROVE  {d, e} \subseteq overlapped'
  <2>1. d # c /\ e # c
    BY <1>2, <1>8 DEF Running
  <2>2. Running(d) /\ Running(e)
    BY <1>2, <1>8, <2>1 DEF Running
  <2> QED BY <1>1, <1>8, <2>2 DEF TierSound
<1> QED BY <1>7, <1>8 DEF TierSound

LEMMA TierCharge ==
  ASSUME Typed, TierSound, NEW c \in Charges, ChargeNext(c)
  PROVE  TierSound'
<1>1. ASSUME NEW n \in Sizes, Register(c, n) PROVE TierSound'
  BY <1>1, TierRegister
<1>e. ASSUME NEW r, Turn(c, r), Running(c), overlapped' = overlapped, free' = free,
             r.phase \notin {"paid", "free"} \/ (r.phase = "paid" /\ r.free = 0)
      PROVE  TierSound'
  <2>1. \A x \in Nat : PromisedAt(r, free, x)
    BY <1>e, PromiseRuns
  <2> QED BY <1>e, <2>1, TierTurn
<1>2. ASSUME Consume(c) PROVE TierSound'
  <2>1. PICK r, t : /\ Turn(c, r) /\ r.phase \in {"guard", "paid", "done"}
                    /\ r.phase = "paid" => r.free = 0
    BY <1>2, OfConsume
  <2>2. Running(c) /\ overlapped' = overlapped /\ free' = free
    BY <1>2 DEF Consume, Running, hist, ledger
  <2> QED BY <2>1, <2>2, <1>e
<1>3. ASSUME Guard(c) PROVE TierSound'
  <2>1. PICK r : /\ Turn(c, r)
                 /\ r.phase \in {"paid", "free"} => r.free + spentFree(r.account) <= r.account.limit
    BY <1>3, OfGuard
  <2>2. Running(c) /\ overlapped' = overlapped /\ free' = free
    BY <1>3 DEF Guard, Running, hist, ledger
  <2>3. ASSUME NEW x \in Nat PROVE PromisedAt(r, free, x)
    <3>1. CASE r.phase \in {"paid", "free"}
      <4> DEFINE n == r.free
                 k == r.account.limit
                 s == free.month + (IF r.account.monthly THEN 0 ELSE free.past)
      <4>1. n \in Nat /\ k \in Nat /\ s \in Nat
        <5>1. r \in Busy
          BY <2>1, <3>1, CallFacts DEF Turn
        <5> QED BY <5>1, CreditsAssumption DEF Busy, Account, Typed
      <4>2. n + s <= k
        BY <2>1, <3>1 DEF spentFree
      <4>3. n + s <= k + x
        <5> HIDE DEF n, k, s
        <5> QED BY <4>1, <4>2
      <4> QED BY <4>3, Zenon DEF PromisedAt
    <3>2. CASE r.phase \notin {"paid", "free"}
      BY <3>2, PromiseRuns
    <3> QED BY <3>1, <3>2
  <2> QED BY <2>1, <2>2, <2>3, TierTurn
<1>4. ASSUME RecordPurchased(c) PROVE TierSound'
  <2>1. PICK r : /\ Turn(c, r) /\ r.phase \in {"free", "done"}
                 /\ r.phase = "free" => /\ charge[c].free > 0 /\ r.free = charge[c].free
                                        /\ r.account = charge[c].account
    BY <1>4, OfRecordPurchased
  <2>2. Running(c) /\ overlapped' = overlapped /\ free' = free /\ charge[c].phase = "paid"
    BY <1>4 DEF RecordPurchased, Running, hist
  <2>3. PromisedAt(charge[c], free, OverlapSpent(c))
    BY Promises DEF TierSound
  <2>4. PromisedAt(r, free, OverlapSpent(c))
    BY <2>1, <2>2, <2>3 DEF PromisedAt
  <2>5. OverlapSpent(c) \in Nat
    BY Sums, ExcuseNames, ExcusedType
  <2>6. ASSUME NEW x \in Nat, OverlapSpent(c) <= x PROVE PromisedAt(r, free, x)
    <3>1. CallOK(r)
      BY <2>1 DEF Turn
    <3> QED BY <2>4, <2>5, <2>6, <3>1, PromiseGrows
  <2> QED BY <2>1, <2>2, <2>6, TierTurn
<1>5. ASSUME RecordPurchasedFails(c) PROVE TierSound'
  <2>1. PICK r : Turn(c, r) /\ r.phase = "refund"
    BY <1>5, OfRecordPurchasedFails
  <2>2. Running(c) /\ overlapped' = overlapped /\ free' = free
    BY <1>5 DEF RecordPurchasedFails, Running, hist, ledger
  <2> QED BY <2>1, <2>2, <1>e
<1>6. ASSUME RecordFree(c) PROVE TierSound'
  BY <1>6, TierRecord
<1>7. ASSUME Refund(c) PROVE TierSound'
  <2>1. Turn(c, Failed) /\ Failed.phase = "done"
    BY <1>7, OfRefund, FailedCall
  <2>2. Running(c) /\ overlapped' = overlapped /\ free' = free
    BY <1>7 DEF Refund, Running, ledger
  <2> QED BY <2>1, <2>2, <1>e
<1>8. ASSUME RegisterFails(c) PROVE TierSound'
  <2>1. Turn(c, Failed) /\ Failed.phase = "done" /\ Running(c)
    BY <1>8, OfRegisterFails, FailedCall
  <2>2. overlapped' = overlapped /\ free' = free
    BY <1>8 DEF RegisterFails, ledger
  <2> QED BY <2>1, <2>2, <1>e
<1> QED BY <1>1, <1>2, <1>3, <1>4, <1>5, <1>6, <1>7, <1>8, Zenon DEF ChargeNext

LEMMA TierNewMonth ==
  ASSUME Typed, TierSound, NewMonth
  PROVE  TierSound'
<1>1. /\ free' = [past |-> free.past + free.month, month |-> 0]
      /\ charge' = charge /\ overlapped' = overlapped
  BY DEF NewMonth, hist
<1>2. free.past \in Nat /\ free.month \in Nat
  BY DEF Typed
<1>3. ASSUME NEW c \in Charges PROVE Promised(c)'
  <2> DEFINE q == charge[c]
             x == OverlapSpent(c)
  <2>1. x \in Nat /\ OverlapSpent(c)' = x
    BY <1>1, Sums, ExcuseNames, ExcusedType
  <2>2. PromisedAt(q, free, x)
    BY Promises DEF TierSound
  <2>3. ASSUME q.phase \in {"paid", "free"}
        PROVE  q.free \in Nat /\ q.account.limit \in Nat /\ q.account.monthly \in BOOLEAN
    BY <2>3, CallUnderWay, CreditsAssumption DEF Account
  <2> HIDE DEF q, x
  <2>4. PromisedAt(q, free', x)
    <3>1. CASE q.phase \in {"paid", "free"}
      <4> DEFINE m == free.month
                 p == free.past
                 n == q.free
                 k == q.account.limit
      <4>1. m \in Nat /\ p \in Nat /\ n \in Nat /\ k \in Nat
        BY <1>2, <2>3, <3>1
      <4>2. free'.month = 0 /\ free'.past = p + m
        BY <1>1
      <4> HIDE DEF m, p, n, k
      <4>3. n + (m + 0) <= k + x => n + (0 + 0) <= k + x
        BY <2>1, <4>1
      <4>4. n + (m + p) <= k + x => n + (0 + (p + m)) <= k + x
        BY <2>1, <4>1
      <4>5. CASE q.account.monthly
        BY <2>2, <3>1, <4>2, <4>3, <4>5 DEF PromisedAt, m, p, n, k
      <4>6. CASE ~q.account.monthly
        BY <2>2, <3>1, <4>2, <4>4, <4>6 DEF PromisedAt, m, p, n, k
      <4> QED BY <4>5, <4>6
    <3>2. CASE q.phase \notin {"paid", "free"}
      BY <3>2, PromiseRuns
    <3> QED BY <3>1, <3>2
  <2> QED BY <1>1, <2>1, <2>4, Promises DEF q
<1>4. ASSUME NEW c \in Charges, NEW d \in Charges, c # d, Running(c)', Running(d)'
      PROVE  {c, d} \subseteq overlapped'
  BY <1>1, <1>4 DEF TierSound, Running
<1> QED BY <1>3, <1>4 DEF TierSound

LEMMA TierStep ==
  ASSUME Typed, TierSound, [Next]_vars
  PROVE  TierSound'
<1>1. ASSUME NEW c \in Charges, ChargeNext(c) PROVE TierSound'
  BY <1>1, TierCharge
<1>2. ASSUME NEW p \in Purchases, PurchaseNext(p) PROVE TierSound'
  <2>1. charge' = charge /\ free' = free /\ overlapped' = overlapped
    BY <1>2 DEF PurchaseNext, CapCheck, Insert, InsertFails, ledger, hist
  <2> QED BY <2>1, TierSame
<1>3. CASE Lapse \/ markExpiredCredits
  <2>1. charge' = charge /\ free' = free /\ overlapped' = overlapped
    BY <1>3 DEF Lapse, markExpiredCredits, ledger, hist
  <2> QED BY <2>1, TierSame
<1>4. ASSUME NEW S \in SUBSET DOMAIN batches, refundBatches(S) PROVE TierSound'
  <2>1. charge' = charge /\ UNCHANGED ledger /\ overlapped' = overlapped
    BY <1>4, Zenon DEF refundBatches
  <2> QED BY <2>1, TierSame DEF ledger
<1>5. ASSUME NEW monthly \in BOOLEAN, NEW limit \in FreeLimits, updateAccount(monthly, limit)
      PROVE  TierSound'
  <2>1. charge' = charge /\ free' = free /\ overlapped' = overlapped
    BY <1>5 DEF updateAccount, ledger, hist
  <2> QED BY <2>1, TierSame
<1>6. CASE NewMonth
  BY <1>6, TierNewMonth
<1>7. CASE Crash
  <2>1. \A c \in Charges : ~Running(c)'
    BY <1>7, OfCrash
  <2>2. \A c \in Charges : charge'[c].phase \notin {"paid", "free"}
    BY <2>1 DEF Running
  <2>3. \A c \in Charges : Promised(c)'
    BY <2>2, Promises, PromiseRuns
  <2> QED BY <2>1, <2>3 DEF TierSound
<1>8. CASE UNCHANGED vars
  <2>1. charge' = charge /\ free' = free /\ overlapped' = overlapped
    BY <1>8 DEF vars, ledger, hist
  <2> QED BY <2>1, TierSame
<1> QED BY <1>1, <1>2, <1>3, <1>4, <1>5, <1>6, <1>7, <1>8, Steps

(***************************************************************************)
(* The rules of the two sources                                            *)
(***************************************************************************)
LEMMA DrawsInOrder ==
  ASSUME Typed, [Next]_vars
  PROVE  \A i \in DOMAIN batches : DrawnInOrder(i)
<1>1. ASSUME batches' = batches PROVE \A i \in DOMAIN batches : DrawnInOrder(i)
  <2> SUFFICES ASSUME NEW i \in DOMAIN batches PROVE DrawnInOrder(i)
    OBVIOUS
  <2>1. batches[i].remaining \in Nat
    BY Sums, RowFacts
  <2> QED BY <1>1, <2>1 DEF DrawnInOrder
<1>2. ASSUME NEW c \in Charges, ChargeNext(c) PROVE \A i \in DOMAIN batches : DrawnInOrder(i)
  <2>1. CASE Consume(c)
    BY <2>1, OfConsume
  <2>2. CASE Refund(c)
    BY <2>2, OfRefund
  <2>3. CASE ~Consume(c) /\ ~Refund(c)
    <3>1. batches' = batches
      BY <1>2, <2>3 DEF ChargeNext, Register, Guard, RecordPurchased, RecordPurchasedFails,
                        RecordFree, RegisterFails, rows
    <3> QED BY <1>1, <3>1
  <2> QED BY <2>1, <2>2, <2>3
<1>3. ASSUME NEW p \in Purchases, PurchaseNext(p) PROVE \A i \in DOMAIN batches : DrawnInOrder(i)
  <2>1. CASE Insert(p)
    BY <2>1, OfInsert
  <2>2. CASE ~Insert(p)
    <3>1. batches' = batches
      BY <1>3, <2>2 DEF PurchaseNext, CapCheck, InsertFails, rows
    <3> QED BY <1>1, <3>1
  <2> QED BY <2>1, <2>2
<1>4. CASE Lapse \/ markExpiredCredits
  BY <1>4, OfTime
<1>5. ASSUME NEW S \in SUBSET DOMAIN batches, refundBatches(S)
      PROVE  \A i \in DOMAIN batches : DrawnInOrder(i)
  BY <1>5, OfRefundBatches
<1>6. ASSUME NEW monthly \in BOOLEAN, NEW limit \in FreeLimits, updateAccount(monthly, limit)
      PROVE  \A i \in DOMAIN batches : DrawnInOrder(i)
  <2>1. batches' = batches
    BY <1>6 DEF updateAccount, rows
  <2> QED BY <1>1, <2>1
<1>7. CASE NewMonth \/ Crash \/ UNCHANGED vars
  <2>1. batches' = batches
    BY <1>7 DEF NewMonth, Crash, vars, rows
  <2> QED BY <1>1, <2>1
<1> QED BY <1>2, <1>3, <1>4, <1>5, <1>6, <1>7, Steps

LEMMA FreeTierHolds ==
  ASSUME Typed, TierSound, [Next]_vars, NEW c \in Charges, RecordsFree(c)
  PROVE  free'.month + (IF charge[c].account.monthly THEN 0 ELSE free'.past)
           <= charge[c].account.limit + OverlapSpent(c)
<1> DEFINE Goal == free'.month + (IF charge[c].account.monthly THEN 0 ELSE free'.past)
                     <= charge[c].account.limit + OverlapSpent(c)
<1>1. charge[c].phase = "free" /\ ~Running(c)' /\ free' # free /\ Running(c)
  BY DEF RecordsFree, Running
<1>2. charge'[c] # charge[c]
  BY <1>1 DEF Running
<1>3. ASSUME NEW d \in Charges, RecordFree(d) PROVE Goal
  <2>1. d = c
    <3>1. Turn(d, Ok(charge[d].size))
      BY <1>3, OfRecordFree
    <3>2. \A e \in Charges \ {d} : charge'[e] = charge[e]
      BY <3>1, Turned
    <3> QED BY <1>2, <3>2
  <2>2. /\ free' = [past |-> free.past, month |-> free.month + charge[c].free]
        /\ charge[c].free \in Nat /\ charge[c].account \in Account
    BY <1>3, <2>1, OfRecordFree
  <2> DEFINE q == charge[c]
             s == IF q.account.monthly THEN 0 ELSE free.past
             m == free.month
             n == q.free
             k == q.account.limit
             x == OverlapSpent(c)
  <2>3. m \in Nat /\ n \in Nat /\ s \in Nat /\ k \in Nat /\ x \in Nat
    <3>1. x \in Nat
      BY Sums, ExcuseNames, ExcusedType
    <3> QED BY <2>2, <3>1, CreditsAssumption DEF Typed, Account
  <2>4. free'.month = m + n /\ free'.past = free.past
    BY <2>2
  <2>5. n + (m + s) <= k + x
    BY <1>1 DEF TierSound, Promised, spentFree
  <2>6. (m + n) + s <= k + x
    <3> HIDE DEF m, n, s, k, x
    <3> QED BY <2>3, <2>5
  <2> QED BY <2>4, <2>6
<1>4. \/ \E d \in Charges : RecordFree(d)
      \/ charge' = charge \/ free' = free
  <2>1. ASSUME NEW d \in Charges, ChargeNext(d) PROVE RecordFree(d) \/ free' = free
    BY <2>1 DEF ChargeNext, Register, Consume, Guard, RecordPurchased, RecordPurchasedFails,
                Refund, RegisterFails, ledger
  <2>2. ASSUME NEW p \in Purchases, PurchaseNext(p) PROVE free' = free
    BY <2>2 DEF PurchaseNext, CapCheck, Insert, InsertFails, ledger
  <2>3. CASE Lapse \/ markExpiredCredits
    BY <2>3 DEF Lapse, markExpiredCredits, ledger
  <2>4. ASSUME NEW S \in SUBSET DOMAIN batches, refundBatches(S) PROVE charge' = charge
    BY <2>4, Zenon DEF refundBatches
  <2>5. ASSUME NEW monthly \in BOOLEAN, NEW limit \in FreeLimits, updateAccount(monthly, limit)
        PROVE  charge' = charge
    BY <2>5 DEF updateAccount
  <2>6. CASE NewMonth \/ Crash \/ UNCHANGED vars
    BY <2>6 DEF NewMonth, Crash, vars, ledger
  <2> QED BY <2>1, <2>2, <2>3, <2>4, <2>5, <2>6, Steps
<1> QED BY <1>1, <1>2, <1>3, <1>4

(***************************************************************************)
(* The abstract account                                                    *)
(***************************************************************************)
gone == lost + voided

\* The moves of the abstract account, in the sums of the model.
LedgerMoves ==
  \/ /\ active' > active
     /\ inFlight' = inFlight /\ purchased' = purchased /\ left' = left /\ gone' = gone /\ lapsed' = lapsed
  \/ /\ inFlight' > inFlight /\ active' + inFlight' = active + inFlight
     /\ purchased' = purchased /\ left' = left /\ gone' = gone /\ lapsed' = lapsed
  \/ /\ purchased' > purchased /\ inFlight' + purchased' = inFlight + purchased
     /\ active' = active /\ left' = left /\ gone' = gone /\ lapsed' = lapsed
  \/ /\ inFlight' < inFlight /\ active' >= active /\ gone' >= gone
     /\ active' + inFlight' + gone' = active + inFlight + gone
     /\ purchased' = purchased /\ left' = left /\ lapsed' = lapsed
  \/ /\ lapsed' = lapsed + 1 /\ left' >= left /\ active' + left' = active + left
     /\ inFlight' = inFlight /\ purchased' = purchased /\ gone' = gone
  \/ /\ gone' > gone /\ active' <= active /\ left' <= left
     /\ active' + left' + gone' = active + left + gone
     /\ inFlight' = inFlight /\ purchased' = purchased /\ lapsed' = lapsed
  \/ /\ active' = active /\ inFlight' = inFlight /\ purchased' = purchased /\ left' = left
     /\ gone' = gone /\ lapsed' = lapsed

LedgerVars == <<active, inFlight, purchased, Sum(Leftovers), lost + voided, lapsed>>

LEMMA LedgerTakes ==
  ASSUME Typed, LedgerMoves
  PROVE  [Ledger!Next]_LedgerVars
<1> DEFINE x == Sum(Leftovers)
           g == lost + voided
<1>1. x = left /\ x' = left' /\ g = gone /\ g' = gone'
  BY LeftOver DEF gone
<1>2. CASE /\ active' > active
           /\ inFlight' = inFlight /\ purchased' = purchased /\ left' = left /\ gone' = gone /\ lapsed' = lapsed
  BY <1>1, <1>2, Zenon DEF Ledger!Next, Ledger!Buy
<1>3. CASE /\ inFlight' > inFlight /\ active' + inFlight' = active + inFlight
           /\ purchased' = purchased /\ left' = left /\ gone' = gone /\ lapsed' = lapsed
  BY <1>1, <1>3, Zenon DEF Ledger!Next, Ledger!Reserve
<1>4. CASE /\ purchased' > purchased /\ inFlight' + purchased' = inFlight + purchased
           /\ active' = active /\ left' = left /\ gone' = gone /\ lapsed' = lapsed
  BY <1>1, <1>4, Zenon DEF Ledger!Next, Ledger!Spend
<1>5. CASE /\ inFlight' < inFlight /\ active' >= active /\ gone' >= gone
           /\ active' + inFlight' + gone' = active + inFlight + gone
           /\ purchased' = purchased /\ left' = left /\ lapsed' = lapsed
  BY <1>1, <1>5, Zenon DEF Ledger!Next, Ledger!Release
<1>6. CASE /\ lapsed' = lapsed + 1 /\ left' >= left /\ active' + left' = active + left
           /\ inFlight' = inFlight /\ purchased' = purchased /\ gone' = gone
  BY <1>1, <1>6, Zenon DEF Ledger!Next, Ledger!Expire
<1>7. CASE /\ gone' > gone /\ active' <= active /\ left' <= left
           /\ active' + left' + gone' = active + left + gone
           /\ inFlight' = inFlight /\ purchased' = purchased /\ lapsed' = lapsed
  BY <1>1, <1>7, Zenon DEF Ledger!Next, Ledger!Refund
<1>8. CASE /\ active' = active /\ inFlight' = inFlight /\ purchased' = purchased /\ left' = left
           /\ gone' = gone /\ lapsed' = lapsed
  BY <1>1, <1>8, Zenon DEF LedgerVars
<1> QED BY <1>2, <1>3, <1>4, <1>5, <1>6, <1>7, <1>8, Zenon DEF LedgerMoves

LEMMA LedgerSame ==
  ASSUME active' = active, left' = left, inFlight' = inFlight, purchased' = purchased,
         lost' = lost, voided' = voided, lapsed' = lapsed
  PROVE  LedgerMoves
BY Zenon DEF LedgerMoves, gone

\* What is usable and what is left over, before and after a step.
LEMMA LedgerSums ==
  ASSUME Typed, Typed'
  PROVE  /\ active \in Nat /\ active' \in Nat /\ left \in Nat /\ left' \in Nat
         /\ inFlight \in Nat /\ inFlight' \in Nat /\ held = active + left /\ held' = active' + left'
         /\ purchased \in Nat /\ lost \in Nat /\ voided \in Nat /\ gone \in Nat
<1> DEFINE b == batches'
           k == lapsed'
<1>1. RowsOK(b, k) /\ held' = Sum(HeldIn(b)) /\ active' = Sum(UsableIn(b, k)) /\ left' = Sum(LeftIn(b, k))
  BY TypedParts, NamesNext, LeftOver
<1> HIDE DEF b, k
<1>2. held' = active' + left' /\ left' \in Nat
  BY <1>1, RowsSplit
<1> QED BY <1>2, LeftOver, Sums, SumsNext DEF Typed, gone

LEMMA SameLeft ==
  ASSUME UNCHANGED rows
  PROVE  active' = active /\ left' = left /\ lapsed' = lapsed
BY SameRows DEF rows, left

\* A charge releases t bytes, s of them to the rows.
Releases(t, s) ==
  /\ active' = active + s /\ left' = left /\ inFlight' + t = inFlight /\ lapsed' = lapsed
  /\ purchased' = purchased /\ lost' = lost + (t - s) /\ voided' = voided

LEMMA LedgerReleases ==
  ASSUME Typed, Typed', NEW t \in Nat, NEW s \in Nat, s <= t, Releases(t, s)
  PROVE  LedgerMoves
<1> DEFINE a == active
           b == active'
           f == inFlight
           x == inFlight'
           g == lost + voided
           h == lost' + voided'
           d == t - s
<1>1. /\ a \in Nat /\ b \in Nat /\ f \in Nat /\ x \in Nat /\ lost \in Nat /\ voided \in Nat
      /\ g = gone /\ h = gone'
  BY LedgerSums DEF gone
<1>2. /\ b = a + s /\ x + t = f /\ lost' = lost + d /\ voided' = voided
      /\ left' = left /\ lapsed' = lapsed /\ purchased' = purchased
  BY DEF Releases
<1>3. d \in Nat /\ t = s + d /\ g \in Nat
  BY <1>1
<1>4. h = g + d
  <2> HIDE DEF d
  <2> QED BY <1>1, <1>2, <1>3
<1> HIDE DEF a, b, f, x, g, h, d
<1>5. CASE t > 0
  <2>1. x < f /\ b >= a /\ h >= g /\ b + x + h = a + f + g
    BY <1>1, <1>2, <1>3, <1>4, <1>5
  <2> QED BY <1>1, <1>2, <2>1, Zenon DEF LedgerMoves, a, b, f, x
<1>6. CASE t = 0
  <2>1. s = 0 /\ d = 0
    BY <1>3, <1>6
  <2>2. x = f /\ b = a /\ h = g
    BY <1>1, <1>2, <1>3, <1>4, <1>6, <2>1
  <2> QED BY <1>1, <1>2, <2>2, Zenon DEF LedgerMoves, a, b, f, x
<1> QED BY <1>5, <1>6

LEMMA LedgerCharge ==
  ASSUME Typed, Typed', NEW c \in Charges, ChargeNext(c)
  PROVE  LedgerMoves
<1> DEFINE f == inFlight
           x == inFlight'
           a == active
           b == active'
           o == charge[c]
<1>0. /\ f \in Nat /\ x \in Nat /\ a \in Nat /\ b \in Nat
      /\ purchased \in Nat /\ lost \in Nat /\ voided \in Nat
  BY LedgerSums
<1>s. ASSUME NEW r, Turn(c, r), FlightOf(o) = FlightOf(r), UNCHANGED rows, purchased' = purchased,
             lost' = lost, voided' = voided
      PROVE  LedgerMoves
  <2> DEFINE h == FlightOf(r)
  <2>1. x + h = f + h /\ h \in Nat
    BY <1>s, Turned
  <2>2. x = f
    <3> HIDE DEF x, f, h
    <3> QED BY <1>0, <2>1
  <2> QED BY <1>s, <2>2, SameLeft, LedgerSame
<1>1. ASSUME NEW n \in Sizes, Register(c, n) PROVE LedgerMoves
  <2>1. PICK r : Turn(c, r) /\ FlightOf(o) = 0 /\ FlightOf(r) = 0
    BY <1>1, OfRegister
  <2>2. UNCHANGED rows /\ purchased' = purchased /\ lost' = lost /\ voided' = voided
    BY <1>1 DEF Register, ledger
  <2> QED BY <2>1, <2>2, <1>s
<1>2. ASSUME Consume(c) PROVE LedgerMoves
  <2>1. PICK r, t : /\ t \in Nat /\ Turn(c, r) /\ FlightOf(o) = 0 /\ FlightOf(r) = t
                    /\ held = held' + t /\ active = active' + t
    BY <1>2, OfConsume
  <2>2. purchased' = purchased /\ gone' = gone /\ lapsed' = lapsed
    BY <1>2 DEF Consume, ledger, hist, gone
  <2>3. x + 0 = f + t /\ a = b + t
    BY <2>1, Turned
  <2>4. left' = left
    <3> DEFINE u == left
               v == left'
               p == held
               q == held'
    <3>1. u \in Nat /\ v \in Nat /\ p = a + u /\ q = b + v /\ p = q + t
      BY <2>1, LedgerSums
    <3> HIDE DEF a, b, u, v, p, q
    <3>2. v = u
      BY <1>0, <2>1, <2>3, <3>1
    <3> QED BY <3>2 DEF u, v
  <2>5. (x > f /\ b + x = a + f) \/ (x = f /\ b = a)
    <3> HIDE DEF x, f, a, b
    <3> QED BY <1>0, <2>1, <2>3
  <2> QED BY <2>2, <2>4, <2>5, Zenon DEF LedgerMoves
<1>3. ASSUME Guard(c) PROVE LedgerMoves
  <2>1. PICK r : Turn(c, r) /\ FlightOf(r) = FlightOf(o)
    BY <1>3, OfGuard
  <2>2. UNCHANGED rows /\ purchased' = purchased /\ lost' = lost /\ voided' = voided
    BY <1>3 DEF Guard, ledger, hist
  <2> QED BY <2>1, <2>2, <1>s
<1>4. ASSUME RecordPurchased(c) PROVE LedgerMoves
  <2> DEFINE p == o.paid
  <2>1. PICK r : Turn(c, r) /\ FlightOf(o) = p /\ FlightOf(r) = 0
    BY <1>4, OfRecordPurchased
  <2>2. UNCHANGED rows /\ purchased' = purchased + p /\ gone' = gone
    BY <1>4 DEF RecordPurchased, hist, gone
  <2>3. p \in Nat
    BY <1>4, CallUnderWay DEF RecordPurchased
  <2>4. x + p = f + 0
    BY <2>1, Turned
  <2> HIDE DEF p
  <2>5. \/ purchased' > purchased /\ x + purchased' = f + purchased
        \/ x = f /\ purchased' = purchased
    <3> HIDE DEF x, f
    <3> QED BY <1>0, <2>2, <2>3, <2>4
  <2>6. active' = active /\ left' = left /\ lapsed' = lapsed
    BY <2>2, SameLeft
  <2> QED BY <2>2, <2>5, <2>6, Zenon DEF LedgerMoves
<1>5. ASSUME RecordPurchasedFails(c) PROVE LedgerMoves
  <2>1. PICK r : Turn(c, r) /\ FlightOf(r) = FlightOf(o)
    BY <1>5, OfRecordPurchasedFails
  <2>2. UNCHANGED rows /\ purchased' = purchased /\ lost' = lost /\ voided' = voided
    BY <1>5 DEF RecordPurchasedFails, ledger, hist
  <2> QED BY <2>1, <2>2, <1>s
<1>6. ASSUME RecordFree(c) PROVE LedgerMoves
  <2>1. Turn(c, Ok(o.size)) /\ FlightOf(Ok(o.size)) = FlightOf(o)
    BY <1>6, OfRecordFree
  <2>2. UNCHANGED rows /\ purchased' = purchased /\ lost' = lost /\ voided' = voided
    BY <1>6 DEF RecordFree, hist
  <2> QED BY <2>1, <2>2, <1>s
<1>7. ASSUME Refund(c) PROVE LedgerMoves
  <2> DEFINE p == o.paid
  <2>1. PICK s : /\ s \in Nat /\ s <= p /\ p \in Nat /\ Turn(c, Failed) /\ FlightOf(o) = p
                 /\ held' = held + s /\ active' = active + s /\ lost' = lost + (p - s)
    BY <1>7, OfRefund
  <2>2. purchased' = purchased /\ voided' = voided /\ lapsed' = lapsed
    BY <1>7 DEF Refund, ledger
  <2>3. x + p = f
    <3>1. x + p = f + 0
      BY <2>1, Turned, FailedCall
    <3> HIDE DEF x, f, p
    <3> QED BY <1>0, <3>1
  <2>4. left' = left
    <3> DEFINE u == left
               v == left'
               k == held
               q == held'
    <3>1. u \in Nat /\ v \in Nat /\ k = a + u /\ q = b + v /\ q = k + s /\ b = a + s
      BY <2>1, LedgerSums
    <3> HIDE DEF a, b, u, v, k, q, p
    <3>2. v = u
      BY <1>0, <2>1, <3>1
    <3> QED BY <3>2 DEF u, v
  <2>5. Releases(p, s)
    BY <2>1, <2>2, <2>3, <2>4 DEF Releases
  <2> QED BY <2>1, <2>5, LedgerReleases
<1>8. ASSUME RegisterFails(c) PROVE LedgerMoves
  <2> DEFINE y == FlightOf(o)
  <2>1. Turn(c, Failed) /\ lost' = lost + y
    BY <1>8, OfRegisterFails
  <2>2. UNCHANGED rows /\ purchased' = purchased /\ voided' = voided
    BY <1>8 DEF RegisterFails, ledger
  <2>3. x + y = f + 0 /\ y \in Nat
    BY <2>1, Turned, FailedCall
  <2>4. active' = active /\ left' = left /\ lapsed' = lapsed
    BY <2>2, SameLeft
  <2> HIDE DEF y
  <2>5. active' = active + 0 /\ inFlight' + y = inFlight /\ lost' = lost + (y - 0)
    <3>1. x + y = f /\ b = a + 0 /\ lost' = lost + (y - 0)
      <4>1. b = a
        BY <2>4
      <4> HIDE DEF x, f, a, b
      <4> QED BY <1>0, <2>1, <2>3, <4>1
    <3> QED BY <3>1
  <2>6. Releases(y, 0)
    BY <2>2, <2>4, <2>5 DEF Releases
  <2>7. y \in Nat /\ 0 \in Nat /\ 0 <= y
    BY <2>3
  <2> QED BY <2>6, <2>7, LedgerReleases
<1> QED BY <1>1, <1>2, <1>3, <1>4, <1>5, <1>6, <1>7, <1>8, Zenon DEF ChargeNext

LEMMA LedgerStep ==
  ASSUME Typed, Typed', [Next]_vars
  PROVE  LedgerMoves
<1> DEFINE f == inFlight
           x == inFlight'
           a == active
           b == active'
           u == left
           v == left'
           p == held
           q == held'
<1>0. /\ f \in Nat /\ x \in Nat /\ a \in Nat /\ b \in Nat /\ u \in Nat /\ v \in Nat
      /\ p = a + u /\ q = b + v /\ purchased \in Nat /\ lost \in Nat /\ voided \in Nat
  BY LedgerSums
<1>s. ASSUME UNCHANGED rows, charge' = charge, purchased' = purchased, lost' = lost, voided' = voided
      PROVE  LedgerMoves
  BY <1>s, SameLeft, SameCharges, LedgerSame
<1>1. ASSUME NEW c \in Charges, ChargeNext(c) PROVE LedgerMoves
  BY <1>1, LedgerCharge
<1>2. ASSUME NEW k \in Purchases, PurchaseNext(k) PROVE LedgerMoves
  <2>1. charge' = charge /\ purchased' = purchased /\ lost' = lost /\ voided' = voided
    BY <1>2 DEF PurchaseNext, CapCheck, Insert, InsertFails, ledger, hist
  <2>2. CASE Insert(k)
    <3>1. PICK n : n \in Nat /\ n > 0 /\ held' = held + n /\ active' = active + n
      BY <2>2, OfInsert
    <3>2. b > a /\ v = u
      <4>1. q = p + n /\ b = a + n
        BY <3>1
      <4> HIDE DEF a, b, u, v, p, q
      <4> QED BY <1>0, <3>1, <4>1
    <3>3. lapsed' = lapsed /\ gone' = gone /\ inFlight' = inFlight
      BY <2>1, <2>2, SameCharges DEF Insert, gone
    <3> QED BY <2>1, <3>2, <3>3, Zenon DEF LedgerMoves
  <2>3. CASE ~Insert(k)
    <3>1. UNCHANGED rows
      BY <1>2, <2>3 DEF PurchaseNext, CapCheck, InsertFails
    <3> QED BY <1>s, <2>1, <3>1
  <2> QED BY <2>2, <2>3
<1>3. CASE Lapse \/ markExpiredCredits
  <2>1. q = p /\ b <= a /\ (lapsed' = lapsed => b = a)
    BY <1>3, OfTime
  <2>2. charge' = charge /\ purchased' = purchased /\ lost' = lost /\ voided' = voided
    BY <1>3 DEF Lapse, markExpiredCredits, ledger, hist
  <2>3. inFlight' = inFlight /\ gone' = gone
    BY <2>2, SameCharges DEF gone
  <2>4. v >= u /\ b + v = a + u
    <3> HIDE DEF a, b, u, v, p, q
    <3> QED BY <1>0, <2>1
  <2>5. CASE Lapse
    <3>1. lapsed' = lapsed + 1
      BY <2>5 DEF Lapse
    <3> QED BY <2>2, <2>3, <2>4, <3>1, Zenon DEF LedgerMoves
  <2>6. CASE markExpiredCredits
    <3>1. lapsed' = lapsed
      BY <2>6 DEF markExpiredCredits
    <3>2. b = a /\ v = u
      <4>1. b = a
        BY <2>1, <3>1
      <4> HIDE DEF a, b, u, v, p, q
      <4> QED BY <1>0, <2>4, <4>1
    <3> QED BY <2>2, <2>3, <3>1, <3>2, Zenon DEF LedgerMoves
  <2> QED BY <1>3, <2>5, <2>6
<1>4. ASSUME NEW S \in SUBSET DOMAIN batches, refundBatches(S) PROVE LedgerMoves
  <2>1. PICK w : /\ w \in Nat /\ voided' = voided + w /\ held = held' + w
                 /\ active' <= active /\ left' <= left /\ lapsed' = lapsed
    BY <1>4, OfRefundBatches
  <2>2. charge' = charge /\ UNCHANGED ledger /\ lost' = lost
    BY <1>4, Zenon DEF refundBatches
  <2> DEFINE g == lost + voided
             h == lost' + voided'
  <2>3. g = gone /\ h = gone' /\ inFlight' = inFlight /\ purchased' = purchased
    BY <2>2, SameCharges DEF gone, ledger
  <2>4. \/ h > g /\ b <= a /\ v <= u /\ b + v + h = a + u + g
        \/ h = g /\ b = a /\ v = u
    <3>1. p = q + w /\ b <= a /\ v <= u /\ h = g + w /\ g \in Nat
      <4>1. p = q + w /\ b <= a /\ v <= u
        BY <2>1
      <4>2. lost' + voided' = (lost + voided) + w /\ lost + voided \in Nat
        <5> HIDE DEF a, b, u, v, p, q
        <5> QED BY <1>0, <2>1, <2>2
      <4> QED BY <4>1, <4>2
    <3> HIDE DEF a, b, u, v, p, q, g, h
    <3>2. CASE w > 0
      BY <1>0, <2>1, <3>1, <3>2
    <3>3. CASE w = 0
      BY <1>0, <2>1, <3>1, <3>3
    <3> QED BY <2>1, <3>2, <3>3
  <2> HIDE DEF g, h
  <2> QED BY <2>1, <2>3, <2>4, Zenon DEF LedgerMoves
<1>5. ASSUME NEW monthly \in BOOLEAN, NEW limit \in FreeLimits, updateAccount(monthly, limit)
      PROVE  LedgerMoves
  <2>1. UNCHANGED rows /\ charge' = charge /\ purchased' = purchased /\ lost' = lost /\ voided' = voided
    BY <1>5 DEF updateAccount, ledger, hist
  <2> QED BY <1>s, <2>1
<1>6. CASE NewMonth \/ UNCHANGED vars
  <2>1. UNCHANGED rows /\ charge' = charge /\ purchased' = purchased /\ lost' = lost /\ voided' = voided
    BY <1>6 DEF NewMonth, vars, ledger, hist
  <2> QED BY <1>s, <2>1
<1>7. CASE Crash
  <2>1. inFlight' = 0 /\ lost' = lost + inFlight
    BY <1>7, OfCrash
  <2>2. UNCHANGED rows /\ purchased' = purchased /\ voided' = voided
    BY <1>7 DEF Crash, ledger
  <2>3. active' = active /\ left' = left /\ lapsed' = lapsed
    BY <2>2, SameLeft
  <2>4. active' = active + 0 /\ inFlight' + inFlight = inFlight /\ lost' = lost + (inFlight - 0)
    <3>1. x = 0 /\ b = a /\ lost' = lost + f
      BY <2>1, <2>3
    <3>2. b = a + 0 /\ x + f = f /\ lost' = lost + (f - 0)
      <4> HIDE DEF x, f, a, b
      <4> QED BY <1>0, <3>1
    <3> QED BY <3>2
  <2>5. Releases(inFlight, 0)
    BY <2>2, <2>3, <2>4 DEF Releases
  <2>6. inFlight \in Nat /\ 0 \in Nat /\ 0 <= inFlight
    BY <1>0
  <2> QED BY <2>5, <2>6, LedgerReleases
<1> QED BY <1>1, <1>2, <1>3, <1>4, <1>5, <1>6, <1>7, Steps

(***************************************************************************)
(* The results                                                             *)
(***************************************************************************)
LEMMA InvInit ==
  ASSUME Init
  PROVE  Inv
<1>1. /\ Typed /\ active = 0 /\ inFlight = 0 /\ settled = 0 /\ given = 0
      /\ \A c \in Charges : charge[c] = Idle
  BY TypedInit
<1>2. /\ \A p \in Purchases : purchase[p] = Idle
      /\ purchased = 0 /\ free.past = 0 /\ free.month = 0 /\ lost = 0 /\ returned = 0 /\ partial = 0
  BY DEF Init
<1>3. CapSound
  <2>1. CapHeld
    BY <1>1, <1>2, CreditsAssumption DEF CapHeld
  <2>2. \A p \in Purchases : purchase[p].phase # "insert"
    BY <1>2 DEF Idle
  <2> QED BY <2>1, <2>2 DEF CapSound
<1>4. ChargedExactly
  <2>1. recorded = settled + partial
    BY <1>1, <1>2 DEF recorded
  <2> QED BY <1>1, <2>1, Exactly
<1>5. RoomLeft
  BY <1>1, <1>2 DEF RoomLeft, LossNeedsExpiryOrFault
<1>6. TierSound
  <2>1. \A c \in Charges : charge[c].phase \notin {"paid", "free"} /\ ~Running(c)
    BY <1>1 DEF Idle, Running
  <2> QED BY <2>1 DEF TierSound, Promised
<1> QED BY <1>1, <1>3, <1>4, <1>5, <1>6 DEF Inv

LEMMA InvStep ==
  ASSUME Inv, [Next]_vars
  PROVE  Inv'
<1>1. Typed /\ CapSound /\ ChargedExactly /\ RoomLeft /\ TierSound
  BY DEF Inv
<1>2. Typed'
  BY <1>1, TypedStep
<1>3. CapSound'
  BY <1>1, <1>2, CapStep
<1>4. ChargedExactly'
  BY <1>1, <1>2, ExactStep
<1>5. RoomLeft'
  BY <1>1, <1>2, RoomStep
<1>6. TierSound'
  BY <1>1, TierStep
<1> QED BY <1>2, <1>3, <1>4, <1>5, <1>6 DEF Inv

LEMMA Invariant == Spec => []Inv
<1>1. Init => Inv
  BY InvInit
<1>2. Inv /\ [Next]_vars => Inv'
  BY InvStep
<1> QED BY <1>1, <1>2, PTL DEF Spec

\* Rows, charges and purchases keep their shape, no row holds more than was
\* bought with it, and no history goes below nothing: the numbers that the
\* transactions of purchasedCredits.ts subtract never go negative.
THEOREM TypeCorrect == Spec => []TypeOK
<1>1. Inv => TypeOK
  BY TypedIsType DEF Inv
<1> QED BY <1>1, Invariant, PTL

\* What is recorded of both sources is what the charges that succeeded were
\* asked to charge, and what failed ones left between their two records; and
\* registerInteraction loses bytes only when a row lapsed or a query failed.
THEOREM ChargesAddUp == Spec => []ChargesBalance
<1>1. Inv => ChargesBalance
  BY DEF Inv, RoomLeft, ChargesBalance
<1> QED BY <1>1, Invariant, PTL

\* addCreditsToAccount keeps an account under maxBytesPerUser but for what
\* charges give back, however many purchases are under way.
THEOREM CapIsHeld == Spec => []CapHeld
<1>1. Inv => CapHeld
  BY DEF Inv, CapSound
<1> QED BY <1>1, Invariant, PTL

\* Charges draw on the row that expires first, and a charge takes no more of
\* the free tier than its limit leaves and overlapping charges were charged for.
THEOREM RulesKept == Spec => DrawsKeepRules
<1>1. Inv /\ [Next]_vars =>
        [\A i \in DOMAIN batches :
           batches'[i].remaining < batches[i].remaining =>
             \/ batches'[i].refunded /\ ~batches[i].refunded
             \/ Usable(i) /\ \A j \in 1..(i - 1) : Usable(j) => batches'[j].remaining = 0]_vars
  <2> SUFFICES ASSUME Inv, [Next]_vars
               PROVE  \A i \in DOMAIN batches :
                        batches'[i].remaining < batches[i].remaining =>
                          \/ batches'[i].refunded /\ ~batches[i].refunded
                          \/ Usable(i) /\ \A j \in 1..(i - 1) : Usable(j) => batches'[j].remaining = 0
    OBVIOUS
  <2>1. \A i \in DOMAIN batches : DrawnInOrder(i)
    BY DrawsInOrder DEF Inv
  <2> QED BY <2>1, Zenon DEF DrawnInOrder
<1>2. Inv /\ [Next]_vars =>
        [\A c \in Charges : RecordsFree(c) =>
           free'.month + (IF charge[c].account.monthly THEN 0 ELSE free'.past)
             <= charge[c].account.limit + OverlapSpent(c)]_vars
  BY FreeTierHolds DEF Inv
<1>3. Spec => SpentInOrder
  BY <1>1, Invariant, PTL DEF Spec, SpentInOrder
<1>4. Spec => FreeTierKept
  BY <1>2, Invariant, PTL DEF Spec, FreeTierKept
<1> QED BY <1>3, <1>4, PTL DEF DrawsKeepRules

\* Every purchased byte is usable, reserved, spent, expired or gone: each step of
\* charges, refunds, expiry and crashes is a step of the abstract account, or
\* leaves it as it is.  Bytes expire as their row lapses and only then, charges
\* reserve usable bytes only, and what they give back goes to usable rows.
THEOREM ImplementsLedger == Spec => LedgerKept
<1>1. Init => Ledger!Init
  <2> SUFFICES ASSUME Init PROVE Ledger!Init
    OBVIOUS
  <2>1. Typed /\ active = 0 /\ inFlight = 0
    BY TypedInit
  <2>2. Sum(Leftovers) = 0
    <3>1. left = Sum(Leftovers) /\ left \in Nat /\ held = active + left
      BY <2>1, LeftOver
    <3>2. held = 0
      BY TypedInit
    <3> QED BY <2>1, <3>1, <3>2
  <2>3. purchased = 0 /\ lost + voided = 0 /\ lapsed = 0
    BY DEF Init
  <2> QED BY <2>1, <2>2, <2>3 DEF Ledger!Init
<1>2. Inv /\ Inv' /\ [Next]_vars => [Ledger!Next]_LedgerVars
  <2> SUFFICES ASSUME Inv, Inv', [Next]_vars
               PROVE  [Ledger!Next]_LedgerVars
    OBVIOUS
  <2>1. Typed /\ Typed'
    BY DEF Inv
  <2>2. LedgerMoves
    BY <2>1, LedgerStep
  <2> QED BY <2>1, <2>2, LedgerTakes
<1> QED BY <1>1, <1>2, Invariant, PTL DEF Spec, LedgerKept, Ledger!Spec, LedgerVars
=============================================================================
