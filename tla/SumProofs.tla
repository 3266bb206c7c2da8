------------------------------ MODULE SumProofs ------------------------------
(***************************************************************************)
(* Sums of a function over a finite set, as the models write them, for the *)
(* proofs about ledgers: what a sum does when an element comes, goes or    *)
(* changes.                                                                *)
(***************************************************************************)
EXTENDS Integers, Functions, FiniteSetTheorems, WellFoundedInduction, TLAPS

\* A set of naturals has a least element.
LEMMA Least ==
  ASSUME NEW N, N \subseteq Nat, N # {} PROVE \E m \in N : \A k \in N : m <= k
<1>1. PICK n \in N : TRUE
  OBVIOUS
<1>. DEFINE F == {0..k : k \in {j \in N : j <= n}}
<1>2. IsFiniteSet(0..n)
  BY <1>1, FS_Interval
<1>3. F \subseteq SUBSET (0..n)
  BY <1>1
<1>4. FiniteSubsetsOf(0..n) = SUBSET (0..n)
  BY <1>2, FS_FiniteSubsetsOfFinite
<1>5. IsWellFoundedOn(StrictSubsetOrdering(0..n), SUBSET (0..n))
  BY <1>4, FS_StrictSubsetOrderingWellFounded
<1>6. F # {}
  BY <1>1
<1>7. PICK x \in F : \A y \in F : ~(<<y, x>> \in StrictSubsetOrdering(0..n))
  BY <1>3, <1>5, <1>6, WFMin
<1>8. PICK m \in N : m <= n /\ x = 0..m
  BY <1>7
<1>9. ASSUME NEW k \in N, k < m PROVE FALSE
  <2>1. 0..k \in F
    BY <1>8, <1>9
  <2>2. 0..k \subseteq 0..m /\ 0..k # 0..m /\ 0..k \subseteq 0..n /\ 0..m \subseteq 0..n
    BY <1>8, <1>9
  <2>3. <<0..k, 0..m>> \in StrictSubsetOrdering(0..n)
    BY <2>2 DEF StrictSubsetOrdering
  <2>. QED
    BY <1>7, <1>8, <2>1, <2>3
<1>. QED
  BY <1>8, <1>9

\* Among the subsets of a finite set that are in a collection, one is smallest.
LEMMA Smallest ==
  ASSUME NEW S, IsFiniteSet(S), NEW C, C \subseteq SUBSET S, C # {}
  PROVE  \E s \in C : \A r \in C : ~(r \subseteq s /\ r # s)
<1>1. FiniteSubsetsOf(S) = SUBSET S
  BY FS_FiniteSubsetsOfFinite
<1>2. IsWellFoundedOn(StrictSubsetOrdering(S), SUBSET S)
  BY <1>1, FS_StrictSubsetOrderingWellFounded
<1>3. PICK s \in C : \A r \in C : ~(<<r, s>> \in StrictSubsetOrdering(S))
  BY <1>2, WFMin
<1>. QED
  BY <1>3 DEF StrictSubsetOrdering

Pick(s) == CHOOSE x \in s : TRUE

\* What g makes of s, from what it makes of the smaller sets.
From(g, f, s) == IF s = {} THEN 0 ELSE f[Pick(s)] + g[s \ {Pick(s)}]

\* g sums f over the subsets of S.
Sums(g, f, S) == g = [s \in SUBSET S |-> From(g, f, s)]

\* The recursion picks one of the elements that are left.
LEMMA Picked == \A s : s # {} => Pick(s) \in s
BY DEF Pick

\* A sum is what a solution of the recursion says of the whole set.
LEMMA SumIs ==
  ASSUME NEW f, NEW S
  PROVE  SumFunctionOnSet(f, S) = (CHOOSE g : Sums(g, f, S))[S]
BY DEF SumFunctionOnSet, FoldFunctionOnSet, MapThenFoldSet, Sums, From, Pick

\* The recursion has a solution: one for the sets of at most n elements, for every n.
LEMMA SumsExist ==
  ASSUME NEW f, NEW S, IsFiniteSet(S) PROVE \E g : Sums(g, f, S)
<1>. DEFINE Upto(g, n) == \A s \in SUBSET S : Cardinality(s) <= n => g[s] = From(g, f, s)
            Bad == {n \in Nat : ~\E g : Upto(g, n)}
<1>1. \A s \in SUBSET S : IsFiniteSet(s) /\ Cardinality(s) \in Nat
  BY FS_Subset, FS_CardinalityType
<1>2. Bad = {}
  <2>. SUFFICES ASSUME Bad # {} PROVE FALSE
    OBVIOUS
  <2>1. PICK n \in Bad : \A k \in Bad : n <= k
    <3>1. Bad \subseteq Nat
      OBVIOUS
    <3>. HIDE DEF Bad
    <3>. QED
      BY <3>1, Least
  <2>2. CASE n = 0
    <3>. DEFINE g == [s \in SUBSET S |-> 0]
    <3>1. ASSUME NEW s \in SUBSET S, Cardinality(s) <= 0 PROVE s = {}
      BY <1>1, <3>1, FS_EmptySet
    <3>2. \A s \in SUBSET S : Cardinality(s) <= 0 => g[s] = From(g, f, s)
      BY <3>1 DEF From
    <3>. QED
      BY <2>2, <3>2
  <2>3. CASE n # 0
    <3>1. n - 1 \in Nat /\ n - 1 \notin Bad
      BY <2>1, <2>3
    <3>2. PICK g : Upto(g, n - 1)
      BY <3>1
    <3>. DEFINE h == [s \in SUBSET S |-> IF Cardinality(s) <= n - 1 THEN g[s] ELSE From(g, f, s)]
    <3>3. ASSUME NEW s \in SUBSET S, Cardinality(s) <= n PROVE h[s] = From(h, f, s)
      <4>1. CASE s = {}
        <5>1. Cardinality(s) = 0
          BY <4>1, FS_EmptySet
        <5>2. h[s] = g[s] /\ g[s] = From(g, f, s)
          BY <3>1, <3>2, <5>1
        <5>. QED
          BY <4>1, <5>2 DEF From
      <4>2. CASE s # {}
        <5>. DEFINE r == s \ {Pick(s)}
        <5>1. Pick(s) \in s /\ r \in SUBSET S
          BY <4>2, Picked
        <5>2. Cardinality(r) = Cardinality(s) - 1
          BY <1>1, <5>1, FS_RemoveElement
        <5>3. Cardinality(r) <= n - 1
          BY <1>1, <3>1, <3>3, <5>1, <5>2
        <5>4. h[r] = g[r]
          BY <5>1, <5>3
        <5>5. From(h, f, s) = From(g, f, s)
          BY <4>2, <5>4 DEF From
        <5>6. h[s] = From(g, f, s)
          BY <3>2
        <5>. QED
          BY <5>5, <5>6
      <4>. QED
        BY <4>1, <4>2
    <3>. HIDE DEF h
    <3>. QED
      BY <2>1, <3>3
  <2>. QED
    BY <2>2, <2>3
<1>3. Cardinality(S) \in Nat
  BY <1>1
<1>4. PICK g : Upto(g, Cardinality(S))
  BY <1>2, <1>3
<1>5. \A s \in SUBSET S : Cardinality(s) <= Cardinality(S)
  BY FS_Subset
<1>. DEFINE h == [s \in SUBSET S |-> g[s]]
<1>6. \A s \in SUBSET S : g[s] = From(g, f, s)
  BY <1>4, <1>5
<1>7. \A s \in SUBSET S : From(h, f, s) = From(g, f, s)
  BY Picked DEF From
<1>8. \A s \in SUBSET S : h[s] = From(h, f, s)
  BY <1>6, <1>7
<1>9. h = [s \in SUBSET S |-> From(h, f, s)]
  <2>. DEFINE k == [s \in SUBSET S |-> From(h, f, s)]
  <2>1. DOMAIN h = SUBSET S /\ DOMAIN k = SUBSET S /\ \A s \in SUBSET S : h[s] = k[s]
    BY <1>8
  <2>2. h = [s \in DOMAIN h |-> h[s]] /\ k = [s \in DOMAIN k |-> k[s]]
    OBVIOUS
  <2>. HIDE DEF h, k
  <2>3. h = k
    BY <2>1, <2>2
  <2>. QED
    BY <2>3 DEF k
<1>. QED
  BY <1>9 DEF Sums

\* And only one, where functions agree.
LEMMA SumsAgree ==
  ASSUME NEW f, NEW g, NEW S, IsFiniteSet(S), Sums(g, f, S),
         NEW k, NEW h, NEW T, Sums(h, k, T),
         \A x \in S \cap T : f[x] = k[x]
  PROVE  \A s \in SUBSET (S \cap T) : g[s] = h[s]
<1>. DEFINE Bad == {s \in SUBSET (S \cap T) : g[s] # h[s]}
<1>. SUFFICES ASSUME Bad # {} PROVE FALSE
  OBVIOUS
<1>1. IsFiniteSet(S \cap T)
  BY FS_Subset
<1>2. PICK s \in Bad : \A r \in Bad : ~(r \subseteq s /\ r # s)
  <2>1. Bad \subseteq SUBSET (S \cap T)
    OBVIOUS
  <2>. HIDE DEF Bad
  <2>. QED
    BY <1>1, <2>1, Smallest
<1>3. g[s] = From(g, f, s) /\ h[s] = From(h, k, s)
  BY DEF Sums
<1>4. CASE s = {}
  BY <1>2, <1>3, <1>4 DEF From
<1>5. CASE s # {}
  <2>. DEFINE r == s \ {Pick(s)}
  <2>1. Pick(s) \in s /\ r \subseteq s /\ r # s
    BY <1>5, Picked
  <2>2. g[r] = h[r]
    BY <1>2, <2>1
  <2>. QED
    BY <1>2, <1>3, <1>5, <2>1, <2>2 DEF From
<1>. QED
  BY <1>4, <1>5

\* A sum of integers is an integer, of naturals a natural.
LEMMA SumsType ==
  ASSUME NEW f, NEW g, NEW S, IsFiniteSet(S), Sums(g, f, S),
         NEW N \in {Nat, Int, {0}}, \A x \in S : f[x] \in N
  PROVE  \A s \in SUBSET S : g[s] \in N
<1>. DEFINE Bad == {s \in SUBSET S : g[s] \notin N}
<1>. SUFFICES ASSUME Bad # {} PROVE FALSE
  OBVIOUS
<1>2. PICK s \in Bad : \A r \in Bad : ~(r \subseteq s /\ r # s)
  <2>1. Bad \subseteq SUBSET S
    OBVIOUS
  <2>. HIDE DEF Bad
  <2>. QED
    BY <2>1, Smallest
<1>3. g[s] = From(g, f, s)
  BY DEF Sums
<1>4. CASE s = {}
  BY <1>2, <1>3, <1>4 DEF From
<1>5. CASE s # {}
  <2>. DEFINE r == s \ {Pick(s)}
  <2>1. Pick(s) \in s /\ r \subseteq s /\ r # s
    BY <1>5, Picked
  <2>2. g[r] \in N /\ f[Pick(s)] \in N
    BY <1>2, <2>1
  <2>3. g[s] = f[Pick(s)] + g[r]
    BY <1>3, <1>5 DEF From
  <2>. HIDE DEF r
  <2>4. g[s] \in N
    BY <2>2, <2>3
  <2>. QED
    BY <1>2, <2>4
<1>. QED
  BY <1>4, <1>5

\* In whatever order the elements are taken.
LEMMA SumsAdd ==
  ASSUME NEW f, NEW g, NEW S, IsFiniteSet(S), Sums(g, f, S), \A x \in S : f[x] \in Int
  PROVE  \A s \in SUBSET S : \A x \in S \ s : g[s \cup {x}] = g[s] + f[x]
<1>. DEFINE Bad == {s \in SUBSET S : \E x \in S \ s : g[s \cup {x}] # g[s] + f[x]}
<1>. SUFFICES ASSUME Bad # {} PROVE FALSE
  OBVIOUS
<1>1. PICK s \in Bad : \A r \in Bad : ~(r \subseteq s /\ r # s)
  <2>1. Bad \subseteq SUBSET S
    OBVIOUS
  <2>. HIDE DEF Bad
  <2>. QED
    BY <2>1, Smallest
<1>2. PICK x \in S \ s : g[s \cup {x}] # g[s] + f[x]
  OBVIOUS
<1>. DEFINE u == s \cup {x}
            y == Pick(u)
<1>3. /\ \A r \in SUBSET S : g[r] = From(g, f, r)
      /\ \A r \in SUBSET S : g[r] \in Int
  BY SumsType DEF Sums
<1>4. u # {} /\ y \in u /\ u \in SUBSET S
  BY Picked
<1>5. g[u] = f[y] + g[u \ {y}]
  BY <1>3, <1>4 DEF From
<1>6. CASE y = x
  <2>1. u \ {y} = s
    BY <1>6
  <2>2. g[s] \in Int /\ f[x] \in Int
    BY <1>3
  <2>3. g[u] = f[x] + g[s]
    BY <1>5, <1>6, <2>1
  <2>4. g[u] = g[s] + f[x]
    BY <2>2, <2>3
  <2>. QED
    BY <1>2, <2>4
<1>7. CASE y # x
  <2>. DEFINE r == s \ {y}
  <2>1. y \in s /\ r \subseteq s /\ r # s /\ r \in SUBSET S
    BY <1>4, <1>7
  <2>2. r \notin Bad
    BY <1>1, <2>1
  <2>3. x \in S \ r /\ y \in S \ r
    BY <2>1
  <2>4. g[r \cup {x}] = g[r] + f[x] /\ g[r \cup {y}] = g[r] + f[y]
    BY <2>1, <2>2, <2>3
  <2>5. r \cup {y} = s /\ u \ {y} = r \cup {x}
    BY <1>7, <2>1
  <2>6. g[r] \in Int /\ f[x] \in Int /\ f[y] \in Int
    BY <1>3, <2>1, <2>3
  <2>7. g[u] = f[y] + (g[r] + f[x]) /\ g[s] = g[r] + f[y]
    BY <1>5, <2>4, <2>5
  <2>8. g[u] = g[s] + f[x]
    <3>. HIDE DEF y, r, u
    <3>. QED
      BY <2>6, <2>7
  <2>. QED
    BY <1>2, <2>8
<1>. QED
  BY <1>6, <1>7

-----------------------------------------------------------------------------
(* What the ledgers' proofs use.                                           *)

\* One solution of the recursion gives the sum of every subset.
LEMMA SumSolves ==
  ASSUME NEW f, NEW S, IsFiniteSet(S)
  PROVE  \E g : Sums(g, f, S) /\ \A s \in SUBSET S : SumFunctionOnSet(f, s) = g[s]
<1>1. PICK g : Sums(g, f, S)
  BY SumsExist
<1>2. ASSUME NEW s \in SUBSET S PROVE SumFunctionOnSet(f, s) = g[s]
  <2>. DEFINE h == CHOOSE h : Sums(h, f, s)
  <2>1. IsFiniteSet(s)
    BY FS_Subset
  <2>2. Sums(h, f, s)
    BY <2>1, SumsExist
  <2>3. SumFunctionOnSet(f, s) = h[s]
    BY SumIs
  <2>. HIDE DEF h
  <2>4. \A r \in SUBSET (s \cap S) : h[r] = g[r]
    BY <1>1, <2>1, <2>2, SumsAgree
  <2>5. s \in SUBSET (s \cap S)
    OBVIOUS
  <2>. QED
    BY <2>3, <2>4, <2>5
<1>. QED
  BY <1>1, <1>2

\* Nothing adds up to zero.
LEMMA SumEmpty == \A f : SumFunctionOnSet(f, {}) = 0
<1>. TAKE f
<1>1. PICK g : Sums(g, f, {}) /\ \A s \in SUBSET {} : SumFunctionOnSet(f, s) = g[s]
  BY SumSolves, FS_EmptySet
<1>. QED
  BY <1>1 DEF Sums, From

\* Integers add up to an integer.
LEMMA SumInt ==
  ASSUME NEW f, NEW S, IsFiniteSet(S), \A x \in S : f[x] \in Int
  PROVE  SumFunctionOnSet(f, S) \in Int
<1>1. PICK g : Sums(g, f, S) /\ \A s \in SUBSET S : SumFunctionOnSet(f, s) = g[s]
  BY SumSolves
<1>. QED
  BY <1>1, SumsType

\* Naturals add up to a natural.
LEMMA SumNat ==
  ASSUME NEW f, NEW S, IsFiniteSet(S), \A x \in S : f[x] \in Nat
  PROVE  SumFunctionOnSet(f, S) \in Nat
<1>1. PICK g : Sums(g, f, S) /\ \A s \in SUBSET S : SumFunctionOnSet(f, s) = g[s]
  BY SumSolves
<1>. QED
  BY <1>1, SumsType

\* Zeros add up to zero.
LEMMA SumZero ==
  ASSUME NEW f, NEW S, IsFiniteSet(S), \A x \in S : f[x] = 0
  PROVE  SumFunctionOnSet(f, S) = 0
<1>1. PICK g : Sums(g, f, S) /\ \A s \in SUBSET S : SumFunctionOnSet(f, s) = g[s]
  BY SumSolves
<1>2. \A s \in SUBSET S : g[s] \in {0}
  BY <1>1, SumsType
<1>. QED
  BY <1>1, <1>2

\* An element more.
LEMMA SumAdd ==
  ASSUME NEW f, NEW S, IsFiniteSet(S), NEW x, x \notin S, \A y \in S \cup {x} : f[y] \in Int
  PROVE  SumFunctionOnSet(f, S \cup {x}) = SumFunctionOnSet(f, S) + f[x]
<1>. DEFINE U == S \cup {x}
<1>1. IsFiniteSet(U)
  BY FS_AddElement
<1>2. PICK g : Sums(g, f, U) /\ \A s \in SUBSET U : SumFunctionOnSet(f, s) = g[s]
  BY <1>1, SumSolves
<1>3. S \in SUBSET U /\ x \in U \ S /\ U \in SUBSET U
  OBVIOUS
<1>4. g[S \cup {x}] = g[S] + f[x]
  BY <1>1, <1>2, <1>3, SumsAdd
<1>. QED
  BY <1>2, <1>3, <1>4

\* Functions that agree have the same sum.
LEMMA SumSame ==
  ASSUME NEW f, NEW h, NEW S, IsFiniteSet(S), \A x \in S : f[x] = h[x]
  PROVE  SumFunctionOnSet(f, S) = SumFunctionOnSet(h, S)
<1>1. PICK g : Sums(g, f, S) /\ \A s \in SUBSET S : SumFunctionOnSet(f, s) = g[s]
  BY SumSolves
<1>2. PICK k : Sums(k, h, S) /\ \A s \in SUBSET S : SumFunctionOnSet(h, s) = k[s]
  BY SumSolves
<1>3. \A s \in SUBSET (S \cap S) : g[s] = k[s]
  BY <1>1, <1>2, SumsAgree
<1>. QED
  BY <1>1, <1>2, <1>3

\* One element apart.
LEMMA SumRest ==
  ASSUME NEW f, NEW S, IsFiniteSet(S), NEW x \in S, \A y \in S : f[y] \in Int
  PROVE  /\ SumFunctionOnSet(f, S \ {x}) \in Int
         /\ SumFunctionOnSet(f, S) = SumFunctionOnSet(f, S \ {x}) + f[x]
<1>. DEFINE R == S \ {x}
<1>1. IsFiniteSet(R) /\ S = R \cup {x} /\ x \notin R
  BY FS_Subset
<1>2. \A y \in R \cup {x} : f[y] \in Int
  OBVIOUS
<1>3. SumFunctionOnSet(f, R) \in Int
  BY <1>1, <1>2, SumInt
<1>. HIDE DEF R
<1>4. SumFunctionOnSet(f, R \cup {x}) = SumFunctionOnSet(f, R) + f[x]
  BY <1>1, <1>2, SumAdd
<1>. QED
  BY <1>1, <1>3, <1>4 DEF R

\* The value of one element changes.
LEMMA SumChange ==
  ASSUME NEW f, NEW h, NEW S, IsFiniteSet(S), NEW x \in S,
         \A y \in S : f[y] \in Int /\ h[y] \in Int,
         \A y \in S \ {x} : f[y] = h[y]
  PROVE  SumFunctionOnSet(h, S) = SumFunctionOnSet(f, S) - f[x] + h[x]
<1>. DEFINE R == S \ {x}
<1>1. IsFiniteSet(R)
  BY FS_Subset
<1>2. SumFunctionOnSet(f, R) = SumFunctionOnSet(h, R)
  BY <1>1, SumSame
<1>3. /\ SumFunctionOnSet(f, R) \in Int
      /\ SumFunctionOnSet(f, S) = SumFunctionOnSet(f, R) + f[x]
      /\ SumFunctionOnSet(h, S) = SumFunctionOnSet(h, R) + h[x]
  BY SumRest
<1>4. f[x] \in Int /\ h[x] \in Int
  OBVIOUS
<1>. HIDE DEF R
<1>. QED
  BY <1>2, <1>3, <1>4

\* No natural of a sum exceeds it.
LEMMA SumBounds ==
  ASSUME NEW f, NEW S, IsFiniteSet(S), \A y \in S : f[y] \in Nat
  PROVE  \A x \in S : f[x] <= SumFunctionOnSet(f, S)
<1>. TAKE x \in S
<1>. DEFINE R == S \ {x}
<1>1. SumFunctionOnSet(f, S) = SumFunctionOnSet(f, R) + f[x]
  BY SumRest
<1>2. SumFunctionOnSet(f, R) \in Nat
  <2>1. IsFiniteSet(R) /\ \A y \in R : f[y] \in Nat
    BY FS_Subset
  <2>. HIDE DEF R
  <2>. QED
    BY <2>1, SumNat
<1>. HIDE DEF R
<1>. QED
  BY <1>1, <1>2

\* Changing two of the values changes the sum by as much.
LEMMA SumMove ==
  ASSUME NEW f, NEW h, NEW S, IsFiniteSet(S), NEW x \in S, NEW z \in S, x # z,
         \A y \in S : f[y] \in Int /\ h[y] \in Int,
         \A y \in S \ {x, z} : f[y] = h[y]
  PROVE  SumFunctionOnSet(h, S) = SumFunctionOnSet(f, S) - f[x] - f[z] + h[x] + h[z]
<1>. DEFINE k == [y \in S |-> IF y = x THEN h[x] ELSE f[y]]
<1>1. /\ \A y \in S : k[y] \in Int
      /\ \A y \in S \ {x} : f[y] = k[y]
      /\ \A y \in S \ {z} : k[y] = h[y]
      /\ k[x] = h[x] /\ k[z] = f[z]
  OBVIOUS
<1>. HIDE DEF k
<1>2. SumFunctionOnSet(k, S) = SumFunctionOnSet(f, S) - f[x] + k[x]
  BY <1>1, SumChange
<1>3. SumFunctionOnSet(h, S) = SumFunctionOnSet(k, S) - k[z] + h[z]
  BY <1>1, SumChange
<1>4. SumFunctionOnSet(f, S) \in Int
  BY SumInt
<1>. QED
  BY <1>1, <1>2, <1>3, <1>4

\* Elements of no value add nothing.
LEMMA SumPadded ==
  ASSUME NEW f, NEW S, NEW T, IsFiniteSet(S \cup T), \A x \in S \cup T : f[x] \in Int,
         \A x \in T \ S : f[x] = 0
  PROVE  SumFunctionOnSet(f, S \cup T) = SumFunctionOnSet(f, S)
<1>. DEFINE Bad == {s \in SUBSET (T \ S) : SumFunctionOnSet(f, S \cup s) # SumFunctionOnSet(f, S)}
<1>1. IsFiniteSet(S) /\ IsFiniteSet(T \ S)
  <2>1. S \subseteq S \cup T /\ T \ S \subseteq S \cup T
    OBVIOUS
  <2>. QED
    BY <2>1, FS_Subset
<1>2. Bad = {}
  <2>. SUFFICES ASSUME Bad # {} PROVE FALSE
    OBVIOUS
  <2>1. Bad \subseteq SUBSET (T \ S)
    OBVIOUS
  <2>2. PICK s \in Bad : \A r \in Bad : ~(r \subseteq s /\ r # s)
    <3>. HIDE DEF Bad
    <3>. QED
      BY <1>1, <2>1, Smallest
  <2>3. s # {}
    BY <2>2
  <2>4. PICK x \in s : TRUE
    BY <2>3
  <2>. DEFINE r == s \ {x}
  <2>5. r \in SUBSET (T \ S) /\ r \subseteq s /\ r # s
    BY <2>2, <2>4
  <2>6. SumFunctionOnSet(f, S \cup r) = SumFunctionOnSet(f, S)
    BY <2>2, <2>5
  <2>7. x \notin S \cup r /\ (S \cup r) \cup {x} = S \cup s /\ f[x] = 0
    BY <2>1, <2>2, <2>4
  <2>8. IsFiniteSet(S \cup r) /\ \A y \in (S \cup r) \cup {x} : f[y] \in Int
    <3>1. S \cup r \subseteq S \cup T
      BY <2>5
    <3>2. IsFiniteSet(S \cup r)
      BY <3>1, FS_Subset
    <3>. QED
      BY <2>1, <2>2, <2>4, <3>1, <3>2
  <2>9. SumFunctionOnSet(f, S \cup s) = SumFunctionOnSet(f, S \cup r) + f[x]
    <3>. DEFINE q == S \cup r
    <3>1. x \notin q /\ q \cup {x} = S \cup s /\ IsFiniteSet(q) /\ \A y \in q \cup {x} : f[y] \in Int
      BY <2>7, <2>8
    <3>. HIDE DEF q
    <3>2. SumFunctionOnSet(f, q \cup {x}) = SumFunctionOnSet(f, q) + f[x]
      BY <3>1, SumAdd
    <3>. QED
      BY <3>1, <3>2 DEF q
  <2>10. SumFunctionOnSet(f, S) \in Int
    BY <1>1, SumInt
  <2>11. SumFunctionOnSet(f, S \cup s) = SumFunctionOnSet(f, S)
    BY <2>6, <2>7, <2>9, <2>10
  <2>. QED
    BY <2>2, <2>11
<1>3. SumFunctionOnSet(f, S \cup (T \ S)) = SumFunctionOnSet(f, S)
  <2>1. (T \ S) \in SUBSET (T \ S)
    OBVIOUS
  <2>. QED
    BY <1>2, <2>1
<1>4. S \cup (T \ S) = S \cup T
  OBVIOUS
<1>. QED
  BY <1>3, <1>4
=============================================================================
