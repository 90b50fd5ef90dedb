---------------------------- MODULE WindowProofs ----------------------------
(***************************************************************************)
(* Proofs about the sliding window, for every number and duration of       *)
(* buckets and every schedule of calls.  The window is read through sums,  *)
(* so the first part says what SumFunctionOnSet computes.                  *)
(***************************************************************************)
EXTENDS WindowHistory, Integers, FiniteSetTheorems, WellFoundedInduction, TLAPS

-----------------------------------------------------------------------------
(* Induction over finite sets, with a set in place of a predicate *)

\* A family of subsets that has every set whose smaller sets it has, has all.
LEMMA SubsetInduction ==
  ASSUME NEW S, IsFiniteSet(S), NEW F \in SUBSET SUBSET S,
         \A T \in SUBSET S : (\A x \in T : T \ {x} \in F) => T \in F
  PROVE  S \in F
<1> SUFFICES ASSUME S \notin F PROVE FALSE
  OBVIOUS
<1> DEFINE Sizes == {n \in Nat : \E T \in SUBSET S : T \notin F /\ Cardinality(T) = n}
<1>1. Cardinality(S) \in Sizes
  BY FS_CardinalityType
<1>2. PICK n \in Sizes : \A m \in Sizes : ~(m < n)
  <2>1. Sizes \subseteq Nat /\ Sizes # {}
    BY <1>1
  <2> HIDE DEF Sizes
  <2>2. PICK n \in Sizes : \A m \in Sizes : ~(<<m, n>> \in OpToRel(<, Nat))
    BY <2>1, NatLessThanWellFounded, WFMin
  <2> QED
    BY <2>1, <2>2 DEF OpToRel
<1>3. PICK T \in SUBSET S : T \notin F /\ Cardinality(T) = n
  OBVIOUS
<1>4. PICK x \in T : T \ {x} \notin F
  BY <1>3
<1>5. IsFiniteSet(T)
  BY FS_Subset
<1>6. Cardinality(T \ {x}) = n - 1 /\ Cardinality(T \ {x}) \in Nat
  BY <1>3, <1>5, FS_RemoveElement, FS_CardinalityType
<1>7. n - 1 \in Sizes
  BY <1>4, <1>6
<1>8. n - 1 < n
  OBVIOUS
<1> QED
  BY <1>2, <1>7, <1>8

-----------------------------------------------------------------------------
(* Sums *)

Pick(s) == CHOOSE x \in s : TRUE

\* One round of the fold behind a sum.
Round(f, S, g) == [s \in SUBSET S |-> IF s = {} THEN 0 ELSE f[Pick(s)] + g[s \ {Pick(s)}]]

Iter(f, S) == CHOOSE g : g = Round(f, S, g)

Total(f, S) == SumFunctionOnSet(f, S)

\* A sum is computed by that fold.
LEMMA TotalIter == ASSUME NEW f, NEW S PROVE Total(f, S) = Iter(f, S)[S]
BY Zenon DEF Total, SumFunctionOnSet, FoldFunctionOnSet, MapThenFoldSet, Iter, Round, Pick

\* Two folds agree on the sets that both have.
LEMMA RoundUnique ==
  ASSUME NEW f, NEW T, NEW U, NEW g, NEW h, g = Round(f, T, g), h = Round(f, U, h),
         NEW s \in SUBSET (T \cap U), IsFiniteSet(s)
  PROVE  g[s] = h[s]
<1> DEFINE F == {u \in SUBSET s : g[u] = h[u]}
<1>1. ASSUME NEW u \in SUBSET s, \A x \in u : u \ {x} \in F PROVE u \in F
  <2>1. /\ g[u] = IF u = {} THEN 0 ELSE f[Pick(u)] + g[u \ {Pick(u)}]
        /\ h[u] = IF u = {} THEN 0 ELSE f[Pick(u)] + h[u \ {Pick(u)}]
    <3>1. u \in SUBSET T /\ u \in SUBSET U
      OBVIOUS
    <3> QED
      BY <3>1 DEF Round
  <2>2. u # {} => Pick(u) \in u
    BY DEF Pick
  <2>3. u # {} => g[u \ {Pick(u)}] = h[u \ {Pick(u)}]
    BY <1>1, <2>2
  <2> QED
    BY <2>1, <2>3
<1>2. s \in F
  <2> HIDE DEF F
  <2>1. F \in SUBSET SUBSET s
    BY DEF F
  <2> QED
    BY <1>1, <2>1, SubsetInduction
<1> QED
  BY <1>2

\* The fold of a set serves its subsets.
LEMMA RoundRestricts ==
  ASSUME NEW f, NEW T, NEW U \in SUBSET T, NEW g, g = Round(f, T, g)
  PROVE  \E h : h = Round(f, U, h)
<1> DEFINE h == [s \in SUBSET U |-> g[s]]
<1>1. ASSUME NEW s \in SUBSET U PROVE h[s] = Round(f, U, h)[s]
  <2>1. g[s] = IF s = {} THEN 0 ELSE f[Pick(s)] + g[s \ {Pick(s)}]
    BY DEF Round
  <2>2. s \ {Pick(s)} \in SUBSET U
    OBVIOUS
  <2> QED
    BY <2>1, <2>2 DEF Round
<1>2. h = Round(f, U, h)
  <2>1. DOMAIN Round(f, U, h) = SUBSET U /\ Round(f, U, h) = [s \in SUBSET U |-> Round(f, U, h)[s]]
    BY DEF Round
  <2> QED
    BY <1>1, <2>1, Zenon
<1> QED
  BY <1>2

\* Every finite set has a fold.
LEMMA RoundExists ==
  ASSUME NEW f, NEW S, IsFiniteSet(S)
  PROVE  \E g : g = Round(f, S, g)
<1> DEFINE F == {T \in SUBSET S : \E g : g = Round(f, T, g)}
<1>1. ASSUME NEW T \in SUBSET S, \A x \in T : T \ {x} \in F PROVE T \in F
  <2> DEFINE x0 == Pick(T)
             G(s) == IF s = {} THEN 0 ELSE f[Pick(s)] + Iter(f, s \ {Pick(s)})[s \ {Pick(s)}]
             g == [s \in SUBSET T |-> G(s)]
  <2>1. ASSUME NEW s \in SUBSET T, s # T PROVE Iter(f, s) = Round(f, s, Iter(f, s))
    <3>1. PICK x \in T : x \notin s
      BY <2>1
    <3>2. PICK h : h = Round(f, T \ {x}, h)
      BY <1>1, <3>1
    <3>3. s \in SUBSET (T \ {x})
      BY <3>1
    <3>4. \E k : k = Round(f, s, k)
      <4> HIDE DEF G, g, F, x0
      <4> QED
        BY <3>2, <3>3, RoundRestricts
    <3> QED
      BY <3>4, Zenon DEF Iter
  <2>2. ASSUME NEW s \in SUBSET T, s # T PROVE G(s) = Iter(f, s)[s]
    <3>1. IsFiniteSet(s)
      BY FS_Subset
    <3>2. Iter(f, s)[s] = IF s = {} THEN 0 ELSE f[Pick(s)] + Iter(f, s)[s \ {Pick(s)}]
      <4>1. Round(f, s, Iter(f, s))[s] = IF s = {} THEN 0 ELSE f[Pick(s)] + Iter(f, s)[s \ {Pick(s)}]
        BY DEF Round
      <4> QED
        BY <2>1, <2>2, <4>1
    <3>3. Iter(f, s)[s \ {Pick(s)}] = Iter(f, s \ {Pick(s)})[s \ {Pick(s)}]
      <4> DEFINE u == s \ {Pick(s)}
      <4>1. u \in SUBSET (s \cap u) /\ u \in SUBSET T /\ u # T /\ IsFiniteSet(u)
        BY <2>2, <3>1, FS_Subset
      <4>2. Iter(f, s) = Round(f, s, Iter(f, s)) /\ Iter(f, u) = Round(f, u, Iter(f, u))
        BY <2>1, <2>2, <4>1
      <4>3. \A p, q : p = Round(f, s, p) /\ q = Round(f, u, q) => p[u] = q[u]
        <5> HIDE DEF u
        <5> QED
          BY <4>1, RoundUnique
      <4> QED
        BY <4>2, <4>3
    <3> QED
      BY <3>2, <3>3
  <2>3. ASSUME NEW s \in SUBSET T PROVE g[s] = Round(f, T, g)[s]
    <3>1. Round(f, T, g)[s] = IF s = {} THEN 0 ELSE f[Pick(s)] + g[s \ {Pick(s)}]
      BY DEF Round
    <3>2. s # {} => s \ {Pick(s)} \in SUBSET T /\ s \ {Pick(s)} # T
      BY DEF Pick
    <3>3. s # {} => g[s \ {Pick(s)}] = Iter(f, s \ {Pick(s)})[s \ {Pick(s)}]
      BY <2>2, <3>2
    <3> QED
      BY <3>1, <3>3
  <2>4. g = Round(f, T, g)
    <3>1. Round(f, T, g) = [s \in SUBSET T |-> Round(f, T, g)[s]]
      BY DEF Round
    <3>2. g = [s \in SUBSET T |-> g[s]]
      OBVIOUS
    <3> HIDE DEF g
    <3> QED
      BY <2>3, <3>1, <3>2, Zenon
  <2> QED
    BY <2>4
<1>2. S \in F
  <2>1. F \in SUBSET SUBSET S
    OBVIOUS
  <2> HIDE DEF F
  <2> QED
    BY <1>1, <2>1, SubsetInduction
<1> QED
  BY <1>2

\* A sum is the value at the chosen index and the sum of the others.
LEMMA TotalUnfolds ==
  ASSUME NEW f, NEW S, IsFiniteSet(S)
  PROVE  Total(f, S) = IF S = {} THEN 0 ELSE f[Pick(S)] + Total(f, S \ {Pick(S)})
<1> DEFINE U == S \ {Pick(S)}
<1>1. IsFiniteSet(U) /\ U \in SUBSET S
  BY FS_Subset
<1>2. Iter(f, S) = Round(f, S, Iter(f, S)) /\ Iter(f, U) = Round(f, U, Iter(f, U))
  <2>1. \E g : g = Round(f, S, g)
    BY RoundExists
  <2>2. \E g : g = Round(f, U, g)
    <3> HIDE DEF U
    <3> QED
      BY <1>1, RoundExists
  <2> QED
    BY <2>1, <2>2, Zenon DEF Iter
<1>3. Iter(f, S)[S] = IF S = {} THEN 0 ELSE f[Pick(S)] + Iter(f, S)[U]
  <2>1. Round(f, S, Iter(f, S))[S] = IF S = {} THEN 0 ELSE f[Pick(S)] + Iter(f, S)[U]
    BY DEF Round
  <2> QED
    BY <1>2, <2>1
<1>4. Iter(f, S)[U] = Iter(f, U)[U]
  <2>1. U \in SUBSET (S \cap U)
    OBVIOUS
  <2> HIDE DEF U
  <2> QED
    BY <1>1, <1>2, <2>1, RoundUnique
<1> QED
  BY <1>3, <1>4, TotalIter

\* The sum of nothing.
LEMMA TotalEmpty == ASSUME NEW f PROVE Total(f, {}) = 0
<1>1. IsFiniteSet({})
  BY FS_EmptySet
<1> QED
  BY <1>1, TotalUnfolds

\* A sum of natural numbers is one, and is zero if they all are.
LEMMA TotalType ==
  ASSUME NEW f, NEW S, IsFiniteSet(S), \A x \in S : f[x] \in Nat
  PROVE  Total(f, S) \in Nat /\ ((\A x \in S : f[x] = 0) => Total(f, S) = 0)
<1> DEFINE F == {T \in SUBSET S : Total(f, T) \in Nat
                                 /\ ((\A x \in T : f[x] = 0) => Total(f, T) = 0)}
<1>1. ASSUME NEW T \in SUBSET S, \A x \in T : T \ {x} \in F PROVE T \in F
  <2>1. IsFiniteSet(T)
    BY FS_Subset
  <2>2. Total(f, T) = IF T = {} THEN 0 ELSE f[Pick(T)] + Total(f, T \ {Pick(T)})
    BY <2>1, TotalUnfolds
  <2>3. T # {} => Pick(T) \in T
    BY DEF Pick
  <2> QED
    BY <1>1, <2>2, <2>3
<1>2. S \in F
  <2>1. F \in SUBSET SUBSET S
    OBVIOUS
  <2> HIDE DEF F
  <2> QED
    BY <1>1, <2>1, SubsetInduction
<1> QED
  BY <1>2

\* The order of the summands does not matter: any of them can be taken out.
LEMMA TotalElement ==
  ASSUME NEW f, NEW S, IsFiniteSet(S), \A x \in S : f[x] \in Nat
  PROVE  \A x \in S : Total(f, S) = f[x] + Total(f, S \ {x})
<1> DEFINE F == {T \in SUBSET S : \A x \in T : Total(f, T) = f[x] + Total(f, T \ {x})}
<1>1. ASSUME NEW T \in SUBSET S, \A x \in T : T \ {x} \in F PROVE T \in F
  <2> SUFFICES ASSUME NEW x \in T PROVE Total(f, T) = f[x] + Total(f, T \ {x})
    OBVIOUS
  <2> DEFINE p == Pick(T)
  <2>1. p \in T
    BY DEF Pick
  <2>2. IsFiniteSet(T)
    BY FS_Subset
  <2>3. Total(f, T) = f[p] + Total(f, T \ {p})
    BY <2>2, TotalUnfolds
  <2> HIDE DEF p
  <2>4. CASE x = p
    BY <2>3, <2>4
  <2>5. CASE x # p
    <3>1. Total(f, T \ {p}) = f[x] + Total(f, (T \ {p}) \ {x})
      BY <1>1, <2>1, <2>5
    <3>2. Total(f, T \ {x}) = f[p] + Total(f, (T \ {x}) \ {p})
      BY <1>1, <2>1, <2>5
    <3>3. (T \ {p}) \ {x} = (T \ {x}) \ {p}
      OBVIOUS
    <3>4. Total(f, (T \ {x}) \ {p}) \in Nat
      <4>1. IsFiniteSet((T \ {x}) \ {p}) /\ \A y \in (T \ {x}) \ {p} : f[y] \in Nat
        BY <2>2, FS_Subset
      <4> QED
        BY <4>1, TotalType
    <3>5. f[x] \in Nat /\ f[p] \in Nat
      BY <2>1
    <3> QED
      BY <2>3, <3>1, <3>2, <3>3, <3>4, <3>5
  <2> QED
    BY <2>4, <2>5
<1>2. S \in F
  <2>1. F \in SUBSET SUBSET S
    OBVIOUS
  <2> HIDE DEF F
  <2> QED
    BY <1>1, <2>1, SubsetInduction
<1> QED
  BY <1>2

\* Greater summands make a greater sum.
LEMMA TotalMonotone ==
  ASSUME NEW f, NEW g, NEW S, IsFiniteSet(S),
         \A x \in S : f[x] \in Nat /\ g[x] \in Nat /\ f[x] <= g[x]
  PROVE  Total(f, S) <= Total(g, S)
<1> DEFINE F == {T \in SUBSET S : Total(f, T) <= Total(g, T)}
<1>1. ASSUME NEW T \in SUBSET S, \A x \in T : T \ {x} \in F PROVE T \in F
  <2>1. IsFiniteSet(T)
    BY FS_Subset
  <2>2. CASE T = {}
    <3>1. Total(f, {}) = 0 /\ Total(g, {}) = 0
      BY TotalEmpty
    <3> QED
      BY <2>2, <3>1
  <2>3. CASE T # {}
    <3>1. PICK x \in T : TRUE
      BY <2>3
    <3>2. Total(f, T) = f[x] + Total(f, T \ {x}) /\ Total(g, T) = g[x] + Total(g, T \ {x})
      BY <2>1, TotalElement
    <3>3. Total(f, T \ {x}) \in Nat /\ Total(g, T \ {x}) \in Nat
      <4>1. IsFiniteSet(T \ {x})
        BY <2>1, FS_Subset
      <4>2. \A y \in T \ {x} : f[y] \in Nat /\ g[y] \in Nat
        OBVIOUS
      <4> QED
        BY <4>1, <4>2, TotalType
    <3> QED
      BY <1>1, <3>2, <3>3
  <2> QED
    BY <2>2, <2>3
<1>2. S \in F
  <2>1. F \in SUBSET SUBSET S
    OBVIOUS
  <2> HIDE DEF F
  <2> QED
    BY <1>1, <2>1, SubsetInduction
<1> QED
  BY <1>2

\* Equal summands make equal sums.
LEMMA TotalSame ==
  ASSUME NEW f, NEW g, NEW S, IsFiniteSet(S), \A x \in S : f[x] \in Nat /\ g[x] = f[x]
  PROVE  Total(f, S) = Total(g, S)
<1>1. \A x \in S : g[x] \in Nat /\ f[x] <= g[x] /\ g[x] <= f[x]
  OBVIOUS
<1>2. Total(f, S) <= Total(g, S) /\ Total(g, S) <= Total(f, S)
  BY <1>1, TotalMonotone
<1>3. Total(f, S) \in Nat /\ Total(g, S) \in Nat
  BY <1>1, TotalType
<1> QED
  BY <1>2, <1>3

\* The sum of two sets that have nothing in common.
LEMMA TotalUnion ==
  ASSUME NEW f, NEW A, NEW B, IsFiniteSet(A), IsFiniteSet(B), A \cap B = {},
         \A x \in A \cup B : f[x] \in Nat
  PROVE  Total(f, A \cup B) = Total(f, A) + Total(f, B)
<1> DEFINE F == {T \in SUBSET B : Total(f, A \cup T) = Total(f, A) + Total(f, T)}
<1>0. \A T \in SUBSET B : IsFiniteSet(T) /\ IsFiniteSet(A \cup T)
                          /\ Total(f, T) \in Nat /\ Total(f, A \cup T) \in Nat /\ Total(f, A) \in Nat
  <2> SUFFICES ASSUME NEW T \in SUBSET B
               PROVE  IsFiniteSet(T) /\ IsFiniteSet(A \cup T)
                      /\ Total(f, T) \in Nat /\ Total(f, A \cup T) \in Nat /\ Total(f, A) \in Nat
    OBVIOUS
  <2>1. IsFiniteSet(T) /\ IsFiniteSet(A \cup T)
    BY FS_Subset, FS_Union
  <2>2. \A x \in A \cup T : f[x] \in Nat
    OBVIOUS
  <2> QED
    BY <2>1, <2>2, TotalType
<1>1. ASSUME NEW T \in SUBSET B, \A x \in T : T \ {x} \in F PROVE T \in F
  <2>1. CASE T = {}
    <3>1. A \cup T = A /\ Total(f, T) = 0
      BY <2>1, TotalEmpty
    <3> QED
      BY <1>0, <3>1
  <2>2. CASE T # {}
    <3>1. PICK x \in T : TRUE
      BY <2>2
    <3>2. (A \cup T) \ {x} = A \cup (T \ {x}) /\ x \in A \cup T /\ T \ {x} \in SUBSET B
      OBVIOUS
    <3>3. (\A y \in A \cup T : f[y] \in Nat) /\ (\A y \in T : f[y] \in Nat)
      OBVIOUS
    <3>4. Total(f, A \cup T) = f[x] + Total(f, (A \cup T) \ {x})
      <4>1. IsFiniteSet(A \cup T)
        BY <1>0
      <4>2. \A y \in A \cup T : Total(f, A \cup T) = f[y] + Total(f, (A \cup T) \ {y})
        <5> DEFINE C == A \cup T
        <5> HIDE DEF C
        <5>1. IsFiniteSet(C) /\ \A y \in C : f[y] \in Nat
          BY <3>3, <4>1 DEF C
        <5>2. \A y \in C : Total(f, C) = f[y] + Total(f, C \ {y})
          BY <5>1, TotalElement
        <5> QED
          BY <5>2 DEF C
      <4> QED
        BY <3>2, <4>2
    <3>5. Total(f, T) = f[x] + Total(f, T \ {x})
      <4>1. IsFiniteSet(T)
        BY <1>0
      <4> QED
        BY <3>3, <4>1, TotalElement
    <3>6. Total(f, A \cup (T \ {x})) = Total(f, A) + Total(f, T \ {x})
      BY <1>1
    <3>7. Total(f, T \ {x}) \in Nat /\ Total(f, A) \in Nat /\ f[x] \in Nat
      BY <1>0, <3>2
    <3>8. Total(f, A \cup T) = Total(f, A) + Total(f, T)
      <4>1. Total(f, (A \cup T) \ {x}) = Total(f, A \cup (T \ {x}))
        BY <3>2, Zenon
      <4>2. Total(f, A \cup T) = f[x] + Total(f, A \cup (T \ {x}))
        BY <3>4, <4>1, Zenon
      <4>3. Total(f, A \cup T) = f[x] + (Total(f, A) + Total(f, T \ {x}))
        BY <3>6, <4>2, Zenon
      <4> HIDE DEF Total
      <4> QED
        BY <3>5, <3>7, <4>3, SMT
    <3> QED
      BY <3>8
  <2> QED
    BY <2>1, <2>2
<1>2. B \in F
  <2>1. F \in SUBSET SUBSET B
    OBVIOUS
  <2> HIDE DEF F
  <2> QED
    BY <1>1, <2>1, SubsetInduction
<1> QED
  BY <1>2

\* More indices make a greater sum, unless there is nothing at them.
LEMMA TotalSubset ==
  ASSUME NEW f, NEW B, NEW A \in SUBSET B, IsFiniteSet(B), \A x \in B : f[x] \in Nat
  PROVE  /\ Total(f, A) <= Total(f, B)
         /\ (\A x \in B \ A : f[x] = 0) => Total(f, A) = Total(f, B)
<1>1. IsFiniteSet(A) /\ IsFiniteSet(B \ A)
  BY FS_Subset
<1>2. A \cup (B \ A) = B /\ A \cap (B \ A) = {}
  OBVIOUS
<1>3. Total(f, B) = Total(f, A) + Total(f, B \ A)
  BY <1>1, <1>2, TotalUnion
<1>4. Total(f, A) \in Nat /\ Total(f, B \ A) \in Nat
  BY <1>1, TotalType
<1>5. (\A x \in B \ A : f[x] = 0) => Total(f, B \ A) = 0
  BY <1>1, TotalType
<1> QED
  BY <1>3, <1>4, <1>5

\* One summand grows by one.
LEMMA TotalIncrement ==
  ASSUME NEW f, NEW g, NEW S, IsFiniteSet(S), NEW x,
         \A y \in S : f[y] \in Nat /\ g[y] = IF y = x THEN f[y] + 1 ELSE f[y]
  PROVE  Total(g, S) = IF x \in S THEN Total(f, S) + 1 ELSE Total(f, S)
<1>1. CASE x \notin S
  BY <1>1, TotalSame
<1>2. CASE x \in S
  <2>1. \A y \in S : g[y] \in Nat
    OBVIOUS
  <2>2. Total(f, S) = f[x] + Total(f, S \ {x}) /\ Total(g, S) = g[x] + Total(g, S \ {x})
    BY <1>2, <2>1, TotalElement
  <2>3. IsFiniteSet(S \ {x}) /\ \A y \in S \ {x} : f[y] \in Nat /\ g[y] = f[y]
    BY FS_Subset
  <2>4. Total(f, S \ {x}) = Total(g, S \ {x}) /\ Total(f, S \ {x}) \in Nat
    BY <2>3, TotalSame, TotalType
  <2> QED
    BY <1>2, <2>2, <2>4
<1> QED
  BY <1>1, <1>2

\* Sums of the parts of a partition add up to the sum of the whole.
LEMMA TotalPartition ==
  ASSUME NEW f, NEW D, IsFiniteSet(D), \A x \in D : f[x] \in Nat,
         NEW S, IsFiniteSet(S), NEW part \in [S -> SUBSET D],
         \A s, t \in S : s # t => part[s] \cap part[t] = {},
         NEW g, \A s \in S : g[s] = Total(f, part[s])
  PROVE  Total(g, S) = Total(f, UNION {part[s] : s \in S})
<1> DEFINE Whole(T) == UNION {part[s] : s \in T}
           F == {T \in SUBSET S : Total(g, T) = Total(f, Whole(T))}
<1>0. ASSUME NEW s \in S PROVE g[s] \in Nat
  <2>1. IsFiniteSet(part[s]) /\ \A x \in part[s] : f[x] \in Nat
    BY FS_Subset
  <2> QED
    BY <2>1, TotalType
<1>1. ASSUME NEW T \in SUBSET S, \A x \in T : T \ {x} \in F PROVE T \in F
  <2>1. IsFiniteSet(T)
    BY FS_Subset
  <2>2. CASE T = {}
    <3>1. Whole(T) = {} /\ IsFiniteSet({})
      BY <2>2, FS_EmptySet
    <3>2. Total(g, {}) = 0 /\ Total(f, {}) = 0
      BY <3>1, TotalUnfolds
    <3> QED
      BY <2>2, <3>1, <3>2
  <2>3. CASE T # {}
    <3>1. PICK s \in T : TRUE
      BY <2>3
    <3>2. Total(g, T) = g[s] + Total(g, T \ {s})
      BY <1>0, <2>1, TotalElement
    <3>3. Total(g, T \ {s}) = Total(f, Whole(T \ {s}))
      BY <1>1
    <3>4. /\ Whole(T) = Whole(T \ {s}) \cup part[s]
          /\ Whole(T \ {s}) \cap part[s] = {}
          /\ Whole(T \ {s}) \in SUBSET D /\ part[s] \in SUBSET D
      OBVIOUS
    <3> HIDE DEF Whole
    <3>5. IsFiniteSet(Whole(T \ {s})) /\ IsFiniteSet(part[s])
      BY <3>4, FS_Subset
    <3>6. \A x \in Whole(T \ {s}) \cup part[s] : f[x] \in Nat
      BY <3>4
    <3>7. Total(f, Whole(T)) = Total(f, Whole(T \ {s})) + Total(f, part[s])
      <4> DEFINE U == Whole(T \ {s})
                 V == part[s]
      <4> HIDE DEF U, V
      <4>1. Whole(T) = U \cup V /\ U \cap V = {} /\ IsFiniteSet(U) /\ IsFiniteSet(V)
            /\ \A x \in U \cup V : f[x] \in Nat
        BY <3>4, <3>5, <3>6 DEF U, V
      <4>2. Total(f, U \cup V) = Total(f, U) + Total(f, V)
        BY <4>1, TotalUnion
      <4> QED
        BY <4>1, <4>2 DEF U, V
    <3>8. Total(f, Whole(T \ {s})) \in Nat /\ Total(f, part[s]) \in Nat
      BY <3>5, <3>6, TotalType
    <3>9. g[s] = Total(f, part[s])
      OBVIOUS
    <3> QED
      BY <3>2, <3>3, <3>7, <3>8, <3>9
  <2> QED
    BY <2>2, <2>3
<1>2. S \in F
  <2>1. F \in SUBSET SUBSET S
    OBVIOUS
  <2> HIDE DEF F
  <2> QED
    BY <1>1, <2>1, SubsetInduction
<1> QED
  BY <1>2

-----------------------------------------------------------------------------
(* Arithmetic of the ring *)

\* What holds at 0 and passes from a number to the next holds up to n.
LEMMA UpTo ==
  ASSUME NEW n \in Nat, NEW P, 0 \in P, \A m \in 0 .. n - 1 : m \in P => m + 1 \in P
  PROVE  \A m \in 0 .. n : m \in P
<1> SUFFICES ASSUME NEW m0 \in 0 .. n, m0 \notin P PROVE FALSE
  OBVIOUS
<1> DEFINE Bad == {m \in Nat : m <= n /\ m \notin P}
<1>1. Bad \subseteq Nat /\ Bad # {}
  OBVIOUS
<1>2. PICK m \in Bad : \A k \in Bad : ~(k < m)
  <2> HIDE DEF Bad
  <2>1. PICK m \in Bad : \A k \in Bad : ~(<<k, m>> \in OpToRel(<, Nat))
    BY <1>1, NatLessThanWellFounded, WFMin
  <2> QED
    BY <1>1, <2>1 DEF OpToRel
<1>3. m # 0 /\ m - 1 \in 0 .. n - 1 /\ m - 1 \notin Bad
  BY <1>2
<1>4. (m - 1) + 1 = m
  BY <1>3
<1> QED
  BY <1>3, <1>4

\* Whole and remaining bucket durations.
LEMMA DivBounds ==
  ASSUME NEW a \in Nat, NEW b \in Nat \ {0}
  PROVE  a \div b \in Nat /\ (a \div b) * b <= a /\ a < (a \div b) * b + b /\ a % b \in 0 .. b - 1
OBVIOUS

\* One more bucket duration.
LEMMA OneMore ==
  ASSUME NEW j \in Nat, NEW p \in Nat
  PROVE  j * p \in Nat /\ (j + 1) * p = j * p + p
OBVIOUS

\* More buckets last longer.
LEMMA TimesMonotone ==
  ASSUME NEW i \in Nat, NEW j \in Nat, i <= j, NEW p \in Nat
  PROVE  i * p <= j * p
<1>1. PICK k \in Nat : j = i + k
  BY j - i \in Nat
<1>2. (i + k) * p = i * p + k * p /\ i * p \in Nat /\ k * p \in Nat
  BY SMT
<1> QED
  BY <1>1, <1>2

\* A position at most one turn past the ring falls back into it.
LEMMA AroundRing ==
  ASSUME NEW c \in Nat \ {0}, NEW x \in 0 .. 2 * c - 1
  PROVE  x % c = IF x < c THEN x ELSE x - c
<1> DEFINE q == x \div c
           m == x % c
<1>1. m \in 0 .. c - 1 /\ q \in Nat /\ x = c * q + m
  OBVIOUS
<1> HIDE DEF q, m
<1>2. CASE q = 0
  BY <1>1, <1>2 DEF m
<1>3. CASE q = 1
  BY <1>1, <1>3 DEF m
<1>4. CASE q >= 2
  <2>1. PICK k \in Nat : q = k + 2
    BY <1>1, <1>4, q - 2 \in Nat
  <2>2. c * (k + 2) = c * k + 2 * c /\ c * k \in Nat
    BY SMT
  <2> QED
    BY <1>1, <2>1, <2>2
<1> QED
  BY <1>1, <1>2, <1>3, <1>4

\* The rotation takes as many steps as whole bucket durations have passed, at
\* most one turn.
LEMMA StepsBounds ==
  ASSUME NEW w \in Window, NEW now \in Nat, w.lastTime <= now
  PROVE  /\ Steps(w, now) \in 0 .. NumBuckets
         /\ Steps(w, now) * BucketDur <= now - w.lastTime
         /\ Steps(w, now) < NumBuckets => now - w.lastTime < Steps(w, now) * BucketDur + BucketDur
<1> DEFINE a == now - w.lastTime
           e == a \div BucketDur
<1>1. a \in Nat /\ NumBuckets \in Nat \ {0} /\ BucketDur \in Nat \ {0}
  BY WindowAssumption DEF Window
<1> HIDE DEF a
<1>2. e \in Nat /\ e * BucketDur <= a /\ a < e * BucketDur + BucketDur
  BY <1>1, DivBounds
<1>3. Steps(w, now) = IF e > NumBuckets THEN NumBuckets ELSE e
  BY DEF Steps, a
<1> HIDE DEF e
<1>4. CASE e > NumBuckets
  <2>1. NumBuckets * BucketDur <= e * BucketDur /\ NumBuckets * BucketDur \in Nat /\ e * BucketDur \in Nat
    BY <1>1, <1>2, <1>4, TimesMonotone, OneMore
  <2>2. Steps(w, now) = NumBuckets
    BY <1>3, <1>4
  <2> QED
    BY <1>1, <1>2, <2>1, <2>2 DEF a
<1>5. CASE ~(e > NumBuckets)
  BY <1>1, <1>2, <1>3, <1>5 DEF a
<1> QED
  BY <1>4, <1>5

-----------------------------------------------------------------------------
(* How far back a slot lies, and which slots a rotation enters *)

\* The number of steps by which a slot lies behind the current one.
Back(w, s) == IF s <= w.current THEN w.current - s ELSE w.current - s + NumBuckets

\* Every distance occurs, and only once.
LEMMA BackRange ==
  ASSUME NEW w \in Window
  PROVE  /\ \A s \in Slots : Back(w, s) \in Slots
         /\ \A s, t \in Slots : Back(w, s) = Back(w, t) => s = t
         /\ \A i \in Slots : \E s \in Slots : Back(w, s) = i
         /\ \A s \in Slots : Back(w, s) = 0 <=> s = w.current
<1>1. w.current \in Slots /\ NumBuckets \in Nat \ {0}
  BY WindowAssumption DEF Window
<1> DEFINE At(i) == IF i <= w.current THEN w.current - i ELSE w.current - i + NumBuckets
<1>2. \A i \in Slots : At(i) \in Slots /\ Back(w, At(i)) = i
  BY <1>1 DEF Slots, Back
<1> QED
  BY <1>1, <1>2 DEF Slots, Back

\* A rotation enters the slots that would fall out of the ring, and moves
\* the others back.
LEMMA RotateBack ==
  ASSUME NEW w \in Window, NEW k \in 1 .. NumBuckets, NEW now \in Nat, NEW s \in Slots
  PROVE  /\ s \in Entered(w, k) <=> Back(w, s) + k >= NumBuckets
         /\ Back(Rotate(w, now, k), s) =
              IF Back(w, s) + k >= NumBuckets THEN Back(w, s) + k - NumBuckets
                                              ELSE Back(w, s) + k
<1>1. /\ NumBuckets \in Nat \ {0} /\ w.current \in Nat /\ w.current < NumBuckets
      /\ s \in Nat /\ s < NumBuckets /\ k \in Nat
  BY WindowAssumption DEF Window, Slots
<1>2. \A i \in 1 .. k : (w.current + i) % NumBuckets =
                          IF w.current + i < NumBuckets THEN w.current + i
                                                        ELSE w.current + i - NumBuckets
  <2>1. \A x \in 0 .. 2 * NumBuckets - 1 : x % NumBuckets = IF x < NumBuckets THEN x ELSE x - NumBuckets
    BY <1>1, AroundRing
  <2>2. \A i \in 1 .. k : w.current + i \in 0 .. 2 * NumBuckets - 1
    BY <1>1
  <2> QED
    BY <1>1, <2>1, <2>2
<1>3. Rotate(w, now, k).current = IF w.current + k < NumBuckets THEN w.current + k
                                                                ELSE w.current + k - NumBuckets
  BY <1>1, <1>2 DEF Rotate
<1>4. ASSUME s \in Entered(w, k) PROVE Back(w, s) + k >= NumBuckets
  <2>1. PICK i \in 1 .. k : s = (w.current + i) % NumBuckets
    BY <1>4 DEF Entered
  <2>2. s = IF w.current + i < NumBuckets THEN w.current + i ELSE w.current + i - NumBuckets
    BY <1>2, <2>1
  <2> QED
    BY <1>1, <2>2 DEF Back
<1>5. ASSUME Back(w, s) + k >= NumBuckets PROVE s \in Entered(w, k)
  <2> DEFINE i == NumBuckets - Back(w, s)
  <2>1. i \in 1 .. k /\ s = IF w.current + i < NumBuckets THEN w.current + i
                                                         ELSE w.current + i - NumBuckets
    BY <1>1, <1>5 DEF Back
  <2>2. s = (w.current + i) % NumBuckets
    <3> HIDE DEF i
    <3> QED
      BY <1>2, <2>1
  <2> HIDE DEF i
  <2> QED
    BY <2>1, <2>2 DEF Entered
<1> DEFINE c == Rotate(w, now, k).current
<1>6. Back(Rotate(w, now, k), s) = IF s <= c THEN c - s ELSE c - s + NumBuckets
  BY DEF Back
<1> HIDE DEF c
<1>7. c = IF w.current + k < NumBuckets THEN w.current + k ELSE w.current + k - NumBuckets
  BY <1>3 DEF c
<1>8. Back(Rotate(w, now, k), s) =
        IF Back(w, s) + k >= NumBuckets THEN Back(w, s) + k - NumBuckets ELSE Back(w, s) + k
  <2> DEFINE r == Back(Rotate(w, now, k), s)
             z == Back(w, s)
  <2>1. z = IF s <= w.current THEN w.current - s ELSE w.current - s + NumBuckets
    BY DEF Back
  <2>2. r = IF s <= c THEN c - s ELSE c - s + NumBuckets
    BY <1>6
  <2> HIDE DEF r, z
  <2>3. r = IF z + k >= NumBuckets THEN z + k - NumBuckets ELSE z + k
    BY <1>1, <1>7, <2>1, <2>2
  <2> QED
    BY <2>3 DEF r, z
<1> QED
  BY <1>4, <1>5, <1>8

-----------------------------------------------------------------------------
(* When the results in a slot were recorded *)

\* b[i] is the time from which on the slot i steps back was the current one:
\* a rotation by one step starts the next slot between one and two bucket
\* durations after the last, because it forgets the fraction that was left.
Boundaries(w, b) ==
  /\ b \in [Slots -> Int]
  /\ b[0] = w.lastTime
  /\ \A i \in Slots : i > 0 => b[i - 1] - b[i] \in BucketDur .. 2 * BucketDur - 1

\* The times at which the slot i steps back was the current one.
Span(b, i) == {t \in Times : b[i] <= t /\ (i > 0 => t < b[i - 1])}

\* The counts c of the slots are what the history h has for their times.
Fits(c, h, w, b) == \A s \in Slots : c[s] = Total(h, Span(b, Back(w, s)))

Quiet(h, from) == \A t \in Times : t >= from => h[t] = 0

\* The ring and the run are finite.
LEMMA Finite == IsFiniteSet(Slots) /\ IsFiniteSet(Times) /\ \A S \in SUBSET Times : IsFiniteSet(S)
<1>1. \A i, j \in Int : IsFiniteSet(i .. j)
  BY FS_Interval
<1>2. IsFiniteSet(Slots) /\ IsFiniteSet(Times)
  BY <1>1, WindowAssumption, HorizonAssumption DEF Slots, Times
<1> QED
  BY <1>2, FS_Subset

\* Slots further back began earlier, by one to two bucket durations each.
LEMMA Descending ==
  ASSUME NEW w \in Window, NEW b, Boundaries(w, b)
  PROVE  /\ \A i \in Slots : /\ b[i] <= b[0] - i * BucketDur
                             /\ b[i] >= b[0] - i * (2 * BucketDur - 1)
         /\ \A i, j \in Slots : i <= j => b[j] <= b[i]
<1> DEFINE n == NumBuckets - 1
           D == 2 * BucketDur - 1
<1>1. n \in Nat /\ Slots = 0 .. n /\ BucketDur \in Nat /\ D \in Nat /\ 0 \in Slots
  BY WindowAssumption DEF Slots
<1>2. \A i \in Slots : b[i] \in Int
  BY DEF Boundaries
<1>3. \A m \in 0 .. n - 1 : /\ b[m] - b[m + 1] >= BucketDur
                           /\ b[m] - b[m + 1] <= D
  <2> SUFFICES ASSUME NEW m \in 0 .. n - 1
               PROVE  b[m] - b[m + 1] >= BucketDur /\ b[m] - b[m + 1] <= D
    OBVIOUS
  <2>1. m + 1 \in Slots /\ m + 1 > 0 /\ (m + 1) - 1 = m
    BY <1>1
  <2>2. b[(m + 1) - 1] - b[m + 1] \in BucketDur .. D
    BY <2>1 DEF Boundaries
  <2> QED
    BY <1>1, <2>1, <2>2
<1> HIDE DEF n, D
<1>4. \A i \in Slots : b[i] <= b[0] - i * BucketDur /\ b[i] >= b[0] - i * D
  <2> DEFINE P == {m \in Nat : b[m] <= b[0] - m * BucketDur /\ b[m] >= b[0] - m * D}
  <2>1. 0 \in P
    BY <1>1, <1>2
  <2>2. ASSUME NEW m \in 0 .. n - 1, m \in P PROVE m + 1 \in P
    <3>1. /\ m * BucketDur \in Nat /\ (m + 1) * BucketDur = m * BucketDur + BucketDur
          /\ m * D \in Nat /\ (m + 1) * D = m * D + D
      BY <1>1, OneMore
    <3>2. b[m] \in Int /\ b[m + 1] \in Int /\ b[0] \in Int /\ m + 1 \in Nat
      BY <1>1, <1>2
    <3>3. b[m] <= b[0] - m * BucketDur /\ b[m] >= b[0] - m * D
      BY <2>2
    <3>4. b[m + 1] <= b[0] - (m + 1) * BucketDur
      BY <1>1, <1>3, <3>1, <3>2, <3>3
    <3>5. b[m + 1] >= b[0] - (m + 1) * D
      BY <1>1, <1>3, <3>1, <3>2, <3>3
    <3> QED
      BY <3>2, <3>4, <3>5
  <2>3. \A m \in 0 .. n : m \in P
    <3> HIDE DEF P
    <3> QED
      BY <1>1, <2>1, <2>2, UpTo
  <2> QED
    BY <1>1, <2>3
<1>5. ASSUME NEW i \in Slots, NEW j \in Slots, i <= j PROVE b[j] <= b[i]
  <2> DEFINE P == {m \in Nat : i + m \in Slots => b[i + m] <= b[i]}
  <2>1. 0 \in P
    BY <1>1, <1>2
  <2>2. ASSUME NEW m \in 0 .. n - 1, m \in P PROVE m + 1 \in P
    <3> SUFFICES ASSUME i + (m + 1) \in Slots PROVE b[i + (m + 1)] <= b[i]
      BY <1>1
    <3>1. i + m \in 0 .. n - 1 /\ i + m \in Slots /\ (i + m) + 1 = i + (m + 1)
      BY <1>1
    <3>2. b[i + m] - b[(i + m) + 1] >= BucketDur
      BY <1>3, <3>1
    <3>3. b[i + m] <= b[i]
      BY <2>2, <3>1
    <3>4. b[i + m] \in Int /\ b[i + (m + 1)] \in Int /\ b[i] \in Int
      BY <1>2, <3>1
    <3>5. b[i + m] - b[i + (m + 1)] >= BucketDur
      BY <3>1, <3>2
    <3> QED
      BY <1>1, <3>3, <3>4, <3>5
  <2>3. j - i \in 0 .. n /\ i + (j - i) = j
    BY <1>1, <1>5
  <2>4. j - i \in P
    <3> HIDE DEF P
    <3> QED
      BY <1>1, <2>1, <2>2, <2>3, UpTo
  <2> QED
    BY <2>3, <2>4
<1> QED
  BY <1>4, <1>5 DEF D

\* The boundaries after a rotation by k steps.
Moved(b, now, k) == [j \in Slots |-> IF j < k THEN now - j * BucketDur ELSE b[j - k]]

\* They are boundaries: the slots entered on the way never were current, and
\* what was current before ends between one and two bucket durations after
\* it began.
LEMMA MovedBoundaries ==
  ASSUME NEW w \in Window, NEW b, Boundaries(w, b), NEW k \in 1 .. NumBuckets, NEW now \in Nat,
         k * BucketDur <= now - w.lastTime,
         k < NumBuckets => now - w.lastTime < k * BucketDur + BucketDur
  PROVE  Boundaries(Rotate(w, now, k), Moved(b, now, k))
<1> DEFINE e == Moved(b, now, k)
<1>1. /\ NumBuckets \in Nat \ {0} /\ BucketDur \in Nat \ {0} /\ Slots = 0 .. NumBuckets - 1
      /\ k \in Nat /\ k >= 1 /\ k <= NumBuckets /\ w.lastTime \in Nat
  BY WindowAssumption DEF Slots, Window
<1>2. \A j \in Slots : j * BucketDur \in Nat
  BY <1>1, OneMore
<1>3. \A j \in Slots : b[j] \in Int
  BY DEF Boundaries
<1>4. \A j \in Slots : e[j] = IF j < k THEN now - j * BucketDur ELSE b[j - k]
  BY DEF Moved
<1>5. e \in [Slots -> Int]
  <2>1. ASSUME NEW j \in Slots PROVE (IF j < k THEN now - j * BucketDur ELSE b[j - k]) \in Int
    BY <1>1, <1>2, <1>3
  <2> QED
    BY <2>1 DEF Moved
<1>6. e[0] = now
  <2>1. 0 * BucketDur = 0 /\ 0 \in Slots
    BY <1>1
  <2> QED
    BY <1>1, <1>4, <2>1
<1>7. ASSUME NEW i \in Slots, i > 0 PROVE e[i - 1] - e[i] \in BucketDur .. 2 * BucketDur - 1
  <2>1. i - 1 \in Slots /\ i - 1 \in Nat /\ (i - 1) + 1 = i
    BY <1>1, <1>7
  <2>2. (i - 1) * BucketDur \in Nat /\ i * BucketDur = (i - 1) * BucketDur + BucketDur
    <3>1. \A q \in Nat : q * BucketDur \in Nat /\ (q + 1) * BucketDur = q * BucketDur + BucketDur
      BY <1>1, OneMore
    <3> QED
      BY <2>1, <3>1
  <2>3. CASE i < k
    <3>1. e[i - 1] = now - (i - 1) * BucketDur /\ e[i] = now - i * BucketDur
      BY <1>1, <1>4, <2>1, <2>3
    <3> QED
      BY <1>1, <2>2, <3>1
  <2>4. CASE i = k
    <3>1. e[i - 1] = now - (i - 1) * BucketDur /\ e[i] = b[0]
      BY <1>1, <1>4, <2>1, <2>4
    <3>2. b[0] = w.lastTime
      BY DEF Boundaries
    <3>3. i * BucketDur <= now - w.lastTime /\ now - w.lastTime < i * BucketDur + BucketDur
      BY <1>1, <2>4
    <3> DEFINE x == (i - 1) * BucketDur
               y == i * BucketDur
    <3> HIDE DEF x, y
    <3>4. x \in Nat /\ y = x + BucketDur /\ y <= now - w.lastTime /\ now - w.lastTime < y + BucketDur
      BY <2>2, <3>3 DEF x, y
    <3>5. e[i - 1] = now - x /\ e[i] = w.lastTime
      BY <3>1, <3>2 DEF x
    <3> HIDE DEF e
    <3> QED
      BY <1>1, <3>4, <3>5
  <2>5. CASE i > k
    <3>1. i - k \in Slots /\ i - k > 0 /\ (i - 1) - k = (i - k) - 1
      BY <1>1, <2>5
    <3>2. b[(i - k) - 1] - b[i - k] \in BucketDur .. 2 * BucketDur - 1
      BY <3>1 DEF Boundaries
    <3>3. e[i - 1] = b[(i - 1) - k] /\ e[i] = b[i - k]
      BY <1>1, <1>4, <2>1, <2>5
    <3> QED
      BY <3>1, <3>2, <3>3
  <2> QED
    BY <1>1, <2>3, <2>4, <2>5
<1>8. Rotate(w, now, k).lastTime = now
  BY DEF Rotate
<1> HIDE DEF e
<1>9. Boundaries(Rotate(w, now, k), e)
  BY <1>5, <1>6, <1>7, <1>8 DEF Boundaries
<1> QED
  BY <1>9 DEF e

\* They explain the counts after the rotation, if nothing was recorded later
\* than one bucket duration after the last rotation.
LEMMA MovedFits ==
  ASSUME NEW w \in Window, NEW b, Boundaries(w, b), NEW k \in 1 .. NumBuckets, NEW now \in Nat,
         k * BucketDur <= now - w.lastTime,
         NEW h \in [Times -> Nat], Quiet(h, w.lastTime + BucketDur),
         NEW c, Fits(c, h, w, b),
         NEW c2, \A s \in Slots : c2[s] = IF s \in Entered(w, k) THEN 0 ELSE c[s]
  PROVE  Fits(c2, h, Rotate(w, now, k), Moved(b, now, k))
<1> DEFINE e == Moved(b, now, k)
           v == Rotate(w, now, k)
<1>1. /\ NumBuckets \in Nat \ {0} /\ BucketDur \in Nat \ {0} /\ Slots = 0 .. NumBuckets - 1
      /\ k \in Nat /\ k >= 1 /\ k <= NumBuckets /\ w.lastTime \in Nat
  BY WindowAssumption DEF Slots, Window
<1>2. \A j \in Slots : e[j] = IF j < k THEN now - j * BucketDur ELSE b[j - k]
  BY DEF Moved
<1>3. \A j \in Slots : j < k => e[j] \in Int /\ e[j] >= w.lastTime + BucketDur
  <2> SUFFICES ASSUME NEW j \in Slots, j < k PROVE e[j] \in Int /\ e[j] >= w.lastTime + BucketDur
    OBVIOUS
  <2>1. j \in Nat /\ k - 1 \in Nat /\ j <= k - 1 /\ (k - 1) + 1 = k
    BY <1>1
  <2>2. \A q \in Nat : q * BucketDur \in Nat /\ (q + 1) * BucketDur = q * BucketDur + BucketDur
    BY <1>1, OneMore
  <2>3. j * BucketDur <= (k - 1) * BucketDur /\ j * BucketDur \in Nat /\ (k - 1) * BucketDur \in Nat
    BY <1>1, <2>1, <2>2, TimesMonotone
  <2>4. k * BucketDur = (k - 1) * BucketDur + BucketDur
    BY <2>1, <2>2
  <2>5. e[j] = now - j * BucketDur
    BY <1>2
  <2> DEFINE x == j * BucketDur
             y == (k - 1) * BucketDur
  <2> HIDE DEF e, x, y
  <2>6. /\ x \in Nat /\ y \in Nat /\ x <= y /\ e[j] = now - x
        /\ y + BucketDur <= now - w.lastTime
    BY <2>3, <2>4, <2>5 DEF x, y
  <2> QED
    BY <1>1, <2>6
<1>4. b \in [Slots -> Int] /\ b[0] = w.lastTime /\ 0 \in Slots
  BY <1>1 DEF Boundaries
<1>5. SUFFICES ASSUME NEW s \in Slots PROVE c2[s] = Total(h, Span(e, Back(v, s)))
  BY DEF Fits
<1> DEFINE z == Back(w, s)
<1>6. z \in Slots /\ c[s] = Total(h, Span(b, z))
  BY BackRange DEF Fits
<1>7. /\ s \in Entered(w, k) <=> z + k >= NumBuckets
      /\ Back(v, s) = IF z + k >= NumBuckets THEN z + k - NumBuckets ELSE z + k
  BY RotateBack
<1> HIDE DEF e, v, z
<1>8. CASE z + k >= NumBuckets
  <2> DEFINE j == z + k - NumBuckets
  <2>1. j \in Slots /\ j < k /\ Back(v, s) = j /\ c2[s] = 0
    BY <1>1, <1>6, <1>7, <1>8
  <2> HIDE DEF j
  <2>2. \A t \in Span(e, j) : h[t] = 0
    BY <1>1, <1>3, <2>1 DEF Span, Quiet, Times
  <2>3. Total(h, Span(e, j)) = 0
    <3>1. Span(e, j) \in SUBSET Times
      BY DEF Span
    <3>2. IsFiniteSet(Span(e, j)) /\ \A t \in Span(e, j) : h[t] \in Nat
      BY <3>1, Finite
    <3> QED
      BY <2>2, <3>2, TotalType
  <2> QED
    BY <2>1, <2>3
<1>9. CASE ~(z + k >= NumBuckets)
  <2> DEFINE j == z + k
  <2>1. j \in Slots /\ ~(j < k) /\ j - k = z /\ j > 0 /\ Back(v, s) = j /\ c2[s] = c[s]
    BY <1>1, <1>6, <1>7, <1>9
  <2> HIDE DEF j
  <2>2. e[j] = b[z] /\ j - 1 \in Slots
    BY <1>1, <1>2, <2>1
  <2>3. CASE z > 0
    <3>1. ~(j - 1 < k) /\ (j - 1) - k = z - 1
      BY <1>1, <1>6, <2>1, <2>3
    <3>2. e[j - 1] = b[z - 1]
      BY <1>2, <2>2, <3>1
    <3>3. Span(e, j) = Span(b, z)
      BY <2>1, <2>2, <2>3, <3>2 DEF Span
    <3> QED
      BY <1>6, <2>1, <3>3
  <2>4. CASE z = 0
    <3>1. j = k /\ k - 1 \in Slots /\ k - 1 < k
      BY <1>1, <2>1, <2>4
    <3>2. e[k - 1] \in Int /\ e[k - 1] >= w.lastTime + BucketDur
      BY <1>3, <3>1
    <3>3. Span(e, j) = {t \in Times : b[0] <= t /\ t < e[k - 1]}
      BY <2>1, <2>2, <2>4, <3>1 DEF Span
    <3>4. Span(b, z) = {t \in Times : b[0] <= t}
      BY <2>4 DEF Span
    <3>5. Span(e, j) \in SUBSET Span(b, z) /\ Span(b, z) \in SUBSET Times
      BY <3>3, <3>4
    <3>6. \A t \in Span(b, z) \ Span(e, j) : h[t] = 0
      <4>1. \A t \in Span(b, z) \ Span(e, j) : t \in Times /\ ~(t < e[k - 1])
        BY <3>3, <3>4
      <4>2. \A t \in Times : t \in Int
        BY HorizonAssumption DEF Times
      <4>3. \A t \in Span(b, z) \ Span(e, j) : t \in Times /\ t >= w.lastTime + BucketDur
        BY <1>1, <3>2, <4>1, <4>2
      <4> QED
        BY <4>3 DEF Quiet
    <3>7. IsFiniteSet(Span(b, z)) /\ \A t \in Span(b, z) : h[t] \in Nat
      BY <3>5, Finite
    <3>8. Total(h, Span(e, j)) = Total(h, Span(b, z))
      BY <3>5, <3>6, <3>7, TotalSubset
    <3> QED
      BY <1>6, <2>1, <3>8
  <2> QED
    BY <1>1, <1>6, <2>3, <2>4
<1> QED
  BY <1>8, <1>9

\* One more result, recorded while the current slot is: only that slot's
\* times have it.
LEMMA CountFits ==
  ASSUME NEW w \in Window, NEW b, Boundaries(w, b), NEW now \in Times, w.lastTime <= now,
         NEW h \in [Times -> Nat], NEW c, Fits(c, h, w, b),
         NEW c2, \A s \in Slots : c2[s] = IF s = w.current THEN c[s] + 1 ELSE c[s]
  PROVE  Fits(c2, [h EXCEPT ![now] = @ + 1], w, b)
<1> DEFINE g == [h EXCEPT ![now] = @ + 1]
<1>1. \A t \in Times : h[t] \in Nat /\ g[t] = IF t = now THEN h[t] + 1 ELSE h[t]
  OBVIOUS
<1> HIDE DEF g
<1> SUFFICES ASSUME NEW s \in Slots PROVE c2[s] = Total(g, Span(b, Back(w, s)))
  BY DEF Fits, g
<1> DEFINE i == Back(w, s)
<1>2. i \in Slots /\ (i = 0 <=> s = w.current) /\ c[s] = Total(h, Span(b, i))
  BY BackRange DEF Fits
<1> HIDE DEF i
<1>3. now \in Span(b, i) <=> i = 0
  <2>1. b[0] = w.lastTime /\ w.lastTime \in Int /\ now \in Int /\ \A j \in Slots : b[j] \in Int
    BY HorizonAssumption DEF Boundaries, Window, Times
  <2>2. i # 0 => i - 1 \in Slots /\ 0 \in Slots /\ 0 <= i - 1 /\ i > 0
    BY <1>2, WindowAssumption DEF Slots
  <2>3. i # 0 => b[i - 1] <= b[0]
    BY <2>2, Descending
  <2>4. i # 0 => now \notin Span(b, i)
    BY <2>1, <2>2, <2>3 DEF Span
  <2>5. i = 0 => now \in Span(b, i)
    BY <2>1 DEF Span
  <2> QED
    BY <2>4, <2>5
<1>4. Span(b, i) \in SUBSET Times
  BY DEF Span
<1>5. IsFiniteSet(Span(b, i)) /\ \A t \in Span(b, i) : h[t] \in Nat /\ g[t] = IF t = now THEN h[t] + 1 ELSE h[t]
  BY <1>1, <1>4, Finite
<1>6. Total(g, Span(b, i)) = IF now \in Span(b, i) THEN Total(h, Span(b, i)) + 1 ELSE Total(h, Span(b, i))
  BY <1>5, TotalIncrement
<1>7. c2[s] = Total(g, Span(b, i))
  BY <1>2, <1>3, <1>6
<1> QED
  BY <1>7 DEF i

\* The totals are the number of results since the oldest slot was current:
\* the slots' times have no overlap and no gap.
LEMMA TotalsExact ==
  ASSUME NEW w \in Window, NEW b, Boundaries(w, b), NEW h \in [Times -> Nat],
         NEW c, Fits(c, h, w, b)
  PROVE  Total(c, Slots) = Total(h, {t \in Times : b[NumBuckets - 1] <= t})
<1> DEFINE part == [s \in Slots |-> Span(b, Back(w, s))]
           n == NumBuckets - 1
<1>1. n \in Nat /\ Slots = 0 .. n /\ n \in Slots /\ 0 \in Slots /\ (\A j \in Slots : b[j] \in Int)
      /\ \A t \in Times : t \in Int
  BY WindowAssumption, HorizonAssumption DEF Slots, Boundaries, Times
<1>2. \A i, j \in Slots : i <= j => b[j] <= b[i]
  BY Descending
<1>3. part \in [Slots -> SUBSET Times]
  BY DEF Span
<1> HIDE DEF n
<1>4. ASSUME NEW i \in Slots, NEW j \in Slots, i < j PROVE Span(b, i) \cap Span(b, j) = {}
  <2>1. j - 1 \in Slots /\ i <= j - 1 /\ j > 0
    BY <1>1, <1>4
  <2>2. b[j - 1] <= b[i]
    BY <1>2, <2>1
  <2> QED
    BY <1>1, <2>1, <2>2 DEF Span
<1>5. \A s, t \in Slots : s # t => part[s] \cap part[t] = {}
  <2> SUFFICES ASSUME NEW s \in Slots, NEW t \in Slots, s # t
               PROVE  Span(b, Back(w, s)) \cap Span(b, Back(w, t)) = {}
    OBVIOUS
  <2>1. Back(w, s) \in Slots /\ Back(w, t) \in Slots /\ Back(w, s) # Back(w, t)
    BY BackRange
  <2>2. Back(w, s) < Back(w, t) \/ Back(w, t) < Back(w, s)
    BY <1>1, <2>1
  <2> QED
    BY <1>4, <2>1, <2>2
<1>6. UNION {part[s] : s \in Slots} = {t \in Times : b[n] <= t}
  <2>1. ASSUME NEW s \in Slots, NEW t \in part[s] PROVE t \in Times /\ b[n] <= t
    <3>1. Back(w, s) \in Slots
      BY BackRange
    <3>2. t \in Times /\ b[Back(w, s)] <= t
      BY DEF Span
    <3>3. b[n] <= b[Back(w, s)]
      BY <1>1, <1>2, <3>1
    <3> QED
      BY <1>1, <3>1, <3>2, <3>3
  <2>2. ASSUME NEW t \in Times, b[n] <= t PROVE \E s \in Slots : t \in part[s]
    <3> DEFINE After == {i \in Nat : i \in Slots /\ b[i] <= t}
    <3>1. After \subseteq Nat /\ After # {}
      BY <1>1, <2>2
    <3>2. PICK i \in After : \A j \in After : ~(j < i)
      <4> HIDE DEF After
      <4>1. PICK i \in After : \A j \in After : ~(<<j, i>> \in OpToRel(<, Nat))
        BY <3>1, NatLessThanWellFounded, WFMin
      <4> QED
        BY <3>1, <4>1 DEF OpToRel
    <3>3. i > 0 => i - 1 \in Slots /\ i - 1 < i /\ i - 1 \notin After
      BY <1>1, <3>2
    <3>4. i > 0 => t < b[i - 1]
      BY <1>1, <3>3
    <3>5. t \in Span(b, i) /\ i \in Slots
      BY <3>4 DEF Span
    <3>6. PICK s \in Slots : Back(w, s) = i
      BY <3>5, BackRange
    <3> QED
      BY <3>5, <3>6
  <2> HIDE DEF part
  <2> QED
    BY <2>1, <2>2
<1>7. \A s \in Slots : c[s] = Total(h, part[s])
  BY DEF Fits
<1> HIDE DEF part
<1>8. Total(c, Slots) = Total(h, UNION {part[s] : s \in Slots})
  <2>1. IsFiniteSet(Slots) /\ IsFiniteSet(Times) /\ \A t \in Times : h[t] \in Nat
    BY Finite
  <2> QED
    BY <1>3, <1>5, <1>7, <2>1, TotalPartition
<1> QED
  BY <1>6, <1>8 DEF n

-----------------------------------------------------------------------------
(* The window and the history *)

okOf(w)  == [i \in Slots |-> w.buckets[i].successes]
badOf(w) == [i \in Slots |-> w.buckets[i].failures]

\* The window counts what the histories g and h have, in the slots where the
\* rotations put it; nothing was recorded when a rotation was due.
Settled(w, now, g, h) ==
  /\ w \in Window
  /\ w.lastTime <= now
  /\ Quiet(g, w.lastTime + BucketDur) /\ Quiet(h, w.lastTime + BucketDur)
  /\ \E b : Boundaries(w, b) /\ Fits(okOf(w), g, w, b) /\ Fits(badOf(w), h, w, b)

\* A rotated window is a window.
LEMMA RotateType ==
  ASSUME NEW w \in Window, NEW now \in Nat, NEW k \in Nat
  PROVE  Rotate(w, now, k) \in Window
<1>1. /\ w.current \in Nat /\ w.buckets \in [Slots -> Bucket] /\ NumBuckets \in Nat \ {0}
      /\ EmptyBucket \in Bucket
  BY WindowAssumption DEF Window, Slots, EmptyBucket, Bucket
<1>2. w.current + k \in Nat
  BY <1>1
<1>3. (w.current + k) % NumBuckets \in Slots
  BY <1>1, <1>2, DivBounds DEF Slots
<1> QED
  BY <1>1, <1>3 DEF Rotate, Window

\* advance keeps the window settled, and leaves less than a bucket duration.
LEMMA AdvanceSettled ==
  ASSUME NEW w, NEW now \in Nat, NEW g \in [Times -> Nat], NEW h \in [Times -> Nat],
         Settled(w, now, g, h)
  PROVE  /\ Settled(advance(w, now), now, g, h)
         /\ now < advance(w, now).lastTime + BucketDur
<1> DEFINE k == Steps(w, now)
           v == Rotate(w, now, k)
<1>1. /\ w \in Window /\ w.lastTime <= now /\ w.lastTime \in Nat
      /\ Quiet(g, w.lastTime + BucketDur) /\ Quiet(h, w.lastTime + BucketDur)
      /\ NumBuckets \in Nat \ {0} /\ BucketDur \in Nat \ {0}
  BY WindowAssumption DEF Settled, Window
<1>2. PICK b : Boundaries(w, b) /\ Fits(okOf(w), g, w, b) /\ Fits(badOf(w), h, w, b)
  BY DEF Settled
<1>3. /\ k \in 0 .. NumBuckets /\ k * BucketDur <= now - w.lastTime
      /\ k < NumBuckets => now - w.lastTime < k * BucketDur + BucketDur
  BY <1>1, StepsBounds
<1>4. advance(w, now) = IF k = 0 THEN w ELSE v
  BY DEF advance
<1> HIDE DEF k
<1>5. CASE k = 0
  <2>1. 0 * BucketDur = 0
    BY <1>1
  <2> QED
    BY <1>1, <1>3, <1>4, <1>5, <2>1
<1>6. CASE k # 0
  <2>1. k \in 1 .. NumBuckets /\ k \in Nat
    BY <1>1, <1>3, <1>6
  <2>2. v \in Window /\ v.lastTime = now
    <3>1. v \in Window
      BY <1>1, <2>1, RotateType
    <3> QED
      BY <3>1 DEF Rotate
  <2>3. Boundaries(v, Moved(b, now, k))
    BY <1>1, <1>2, <1>3, <2>1, MovedBoundaries
  <2>4. /\ \A s \in Slots : okOf(v)[s] = IF s \in Entered(w, k) THEN 0 ELSE okOf(w)[s]
        /\ \A s \in Slots : badOf(v)[s] = IF s \in Entered(w, k) THEN 0 ELSE badOf(w)[s]
    BY DEF okOf, badOf, Rotate, EmptyBucket
  <2>5. Fits(okOf(v), g, v, Moved(b, now, k))
    <3> DEFINE c == okOf(w)
               c2 == okOf(v)
    <3> HIDE DEF c, c2
    <3>1. Fits(c, g, w, b) /\ \A s \in Slots : c2[s] = IF s \in Entered(w, k) THEN 0 ELSE c[s]
      BY <1>2, <2>4 DEF c, c2
    <3>2. Fits(c2, g, Rotate(w, now, k), Moved(b, now, k))
      BY <1>1, <1>2, <1>3, <2>1, <3>1, MovedFits
    <3> QED
      BY <3>2 DEF c2
  <2>6. Fits(badOf(v), h, v, Moved(b, now, k))
    <3> DEFINE c == badOf(w)
               c2 == badOf(v)
    <3> HIDE DEF c, c2
    <3>1. Fits(c, h, w, b) /\ \A s \in Slots : c2[s] = IF s \in Entered(w, k) THEN 0 ELSE c[s]
      BY <1>2, <2>4 DEF c, c2
    <3>2. Fits(c2, h, Rotate(w, now, k), Moved(b, now, k))
      BY <1>1, <1>2, <1>3, <2>1, <3>1, MovedFits
    <3> QED
      BY <3>2 DEF c2
  <2> HIDE DEF v
  <2>7. Quiet(g, v.lastTime + BucketDur) /\ Quiet(h, v.lastTime + BucketDur)
    <3>1. \A t \in Times : t >= v.lastTime + BucketDur => t >= w.lastTime + BucketDur
      <4>1. \A t \in Times : t \in Nat
        BY HorizonAssumption DEF Times
      <4> QED
        BY <1>1, <2>2, <4>1
    <3> QED
      BY <1>1, <3>1 DEF Quiet
  <2>8. Settled(v, now, g, h)
    BY <2>2, <2>3, <2>5, <2>6, <2>7 DEF Settled
  <2> QED
    BY <1>1, <1>4, <1>6, <2>2, <2>8
<1> QED
  BY <1>5, <1>6

\* Counting a result changes one number of the current bucket.
LEMMA CountOne ==
  ASSUME NEW v \in Window, NEW v2,
         \/ v2 = [v EXCEPT !.buckets[v.current].successes = @ + 1]
         \/ v2 = [v EXCEPT !.buckets[v.current].failures = @ + 1]
  PROVE  /\ v2 \in Window /\ v2.current = v.current /\ v2.lastTime = v.lastTime
         /\ v2 = [v EXCEPT !.buckets[v.current].successes = @ + 1] =>
              /\ \A s \in Slots : okOf(v2)[s] = IF s = v.current THEN okOf(v)[s] + 1 ELSE okOf(v)[s]
              /\ badOf(v2) = badOf(v)
         /\ v2 = [v EXCEPT !.buckets[v.current].failures = @ + 1] =>
              /\ \A s \in Slots : badOf(v2)[s] = IF s = v.current THEN badOf(v)[s] + 1 ELSE badOf(v)[s]
              /\ okOf(v2) = okOf(v)
<1> DEFINE B == v.buckets
           x == B[v.current]
<1>1. B \in [Slots -> Bucket] /\ v.current \in Slots
  BY DEF Window
<1>2. x \in Bucket
  BY <1>1
<1>3. \A f \in [Slots -> Bucket] : /\ [v EXCEPT !.buckets = f] \in Window
                                  /\ [v EXCEPT !.buckets = f].lastTime = v.lastTime
                                  /\ [v EXCEPT !.buckets = f].current = v.current
                                  /\ [v EXCEPT !.buckets = f].buckets = f
  BY DEF Window
<1> DEFINE y == [x EXCEPT !.successes = @ + 1]
           z == [x EXCEPT !.failures = @ + 1]
           Y == [B EXCEPT ![v.current] = y]
           Z == [B EXCEPT ![v.current] = z]
<1>4. /\ [v EXCEPT !.buckets[v.current].successes = @ + 1] = [v EXCEPT !.buckets = Y]
      /\ [v EXCEPT !.buckets[v.current].failures = @ + 1] = [v EXCEPT !.buckets = Z]
  BY Zenon
<1>5. /\ y \in Bucket /\ y.successes = x.successes + 1 /\ y.failures = x.failures
      /\ z \in Bucket /\ z.failures = x.failures + 1 /\ z.successes = x.successes
  <2> HIDE DEF x
  <2> QED
    BY <1>2 DEF Bucket
<1>6. /\ Y \in [Slots -> Bucket] /\ \A s \in Slots : Y[s] = IF s = v.current THEN y ELSE B[s]
      /\ Z \in [Slots -> Bucket] /\ \A s \in Slots : Z[s] = IF s = v.current THEN z ELSE B[s]
  <2> HIDE DEF B, y, z
  <2> QED
    BY <1>1, <1>5
<1> HIDE DEF y, z, Y, Z
<1>7. ASSUME v2 = [v EXCEPT !.buckets[v.current].successes = @ + 1]
      PROVE  /\ v2 \in Window /\ v2.current = v.current /\ v2.lastTime = v.lastTime
             /\ \A s \in Slots : okOf(v2)[s] = IF s = v.current THEN okOf(v)[s] + 1 ELSE okOf(v)[s]
             /\ badOf(v2) = badOf(v)
  <2>1. /\ v2 \in Window /\ v2.current = v.current /\ v2.lastTime = v.lastTime /\ v2.buckets = Y
    BY <1>3, <1>4, <1>6, <1>7, Zenon
  <2>2. \A s \in Slots : okOf(v2)[s] = Y[s].successes /\ okOf(v)[s] = B[s].successes
    BY <2>1 DEF okOf
  <2>3. \A s \in Slots : Y[s].failures = B[s].failures
    BY <1>5, <1>6
  <2>4. badOf(v2) = badOf(v)
    BY <2>1, <2>3, Zenon DEF badOf
  <2> QED
    BY <1>5, <1>6, <2>1, <2>2, <2>4
<1>8. ASSUME v2 = [v EXCEPT !.buckets[v.current].failures = @ + 1]
      PROVE  /\ v2 \in Window /\ v2.current = v.current /\ v2.lastTime = v.lastTime
             /\ \A s \in Slots : badOf(v2)[s] = IF s = v.current THEN badOf(v)[s] + 1 ELSE badOf(v)[s]
             /\ okOf(v2) = okOf(v)
  <2>1. /\ v2 \in Window /\ v2.current = v.current /\ v2.lastTime = v.lastTime /\ v2.buckets = Z
    BY <1>3, <1>4, <1>6, <1>8, Zenon
  <2>2. \A s \in Slots : badOf(v2)[s] = Z[s].failures /\ badOf(v)[s] = B[s].failures
    BY <2>1 DEF badOf
  <2>3. \A s \in Slots : Z[s].successes = B[s].successes
    BY <1>5, <1>6
  <2>4. okOf(v2) = okOf(v)
    BY <2>1, <2>3, Zenon DEF okOf
  <2> QED
    BY <1>5, <1>6, <2>1, <2>2, <2>4
<1> QED
  BY <1>7, <1>8

\* A result recorded at the time of the clock enters the window and the
\* history (recordSuccess, recordFailure).
LEMMA RecordSettled ==
  ASSUME NEW w, NEW now \in Times, NEW g \in [Times -> Nat], NEW h \in [Times -> Nat],
         Settled(w, now, g, h)
  PROVE  /\ Settled(recordSuccess(w, now), now, [g EXCEPT ![now] = @ + 1], h)
         /\ Settled(recordFailure(w, now), now, g, [h EXCEPT ![now] = @ + 1])
<1> DEFINE v == advance(w, now)
<1>1. now \in Nat /\ BucketDur \in Nat /\ \A t \in Times : t \in Nat
  BY WindowAssumption, HorizonAssumption DEF Times
<1>2. Settled(v, now, g, h) /\ now < v.lastTime + BucketDur
  BY <1>1, AdvanceSettled
<1> HIDE DEF v
<1>3. /\ v \in Window /\ v.lastTime <= now /\ v.lastTime \in Nat
      /\ Quiet(g, v.lastTime + BucketDur) /\ Quiet(h, v.lastTime + BucketDur)
  BY <1>2 DEF Settled, Window
<1>4. PICK b : Boundaries(v, b) /\ Fits(okOf(v), g, v, b) /\ Fits(badOf(v), h, v, b)
  BY <1>2 DEF Settled
<1>5. \A f \in [Times -> Nat] : Quiet(f, v.lastTime + BucketDur) =>
                                 Quiet([f EXCEPT ![now] = @ + 1], v.lastTime + BucketDur)
  BY <1>1, <1>2, <1>3 DEF Quiet
<1>6. \A u : u.current = v.current /\ u.lastTime = v.lastTime =>
          /\ Boundaries(u, b)
          /\ \A c, f : Fits(c, f, u, b) <=> Fits(c, f, v, b)
  <2>1. \A u : u.lastTime = v.lastTime => Boundaries(u, b)
    BY <1>4 DEF Boundaries
  <2>2. \A u : u.current = v.current => \A s : Back(u, s) = Back(v, s)
    BY DEF Back
  <2>3. \A u : u.current = v.current => \A c, f : Fits(c, f, u, b) <=> Fits(c, f, v, b)
    BY <2>2 DEF Fits
  <2> QED
    BY <2>1, <2>3
<1>7. ASSUME NEW c, NEW c2, NEW f \in [Times -> Nat], Fits(c, f, v, b),
             \A s \in Slots : c2[s] = IF s = v.current THEN c[s] + 1 ELSE c[s]
      PROVE  Fits(c2, [f EXCEPT ![now] = @ + 1], v, b)
  BY <1>3, <1>4, <1>7, CountFits
<1>8. Settled(recordSuccess(w, now), now, [g EXCEPT ![now] = @ + 1], h)
  <2> DEFINE v2 == [v EXCEPT !.buckets[v.current].successes = @ + 1]
             g2 == [g EXCEPT ![now] = @ + 1]
  <2>0. recordSuccess(w, now) = v2
    BY DEF recordSuccess, v
  <2>1. /\ v2 \in Window /\ v2.current = v.current /\ v2.lastTime = v.lastTime
        /\ \A s \in Slots : okOf(v2)[s] = IF s = v.current THEN okOf(v)[s] + 1 ELSE okOf(v)[s]
        /\ badOf(v2) = badOf(v)
    BY <1>3, CountOne
  <2>2. Quiet(g2, v.lastTime + BucketDur)
    BY <1>3, <1>5
  <2>3. Fits(okOf(v2), g2, v, b)
    BY <1>4, <1>7, <2>1
  <2> HIDE DEF v2, g2
  <2>4. Boundaries(v2, b) /\ Fits(okOf(v2), g2, v2, b) /\ Fits(badOf(v2), h, v2, b)
    BY <1>4, <1>6, <2>1, <2>3
  <2>5. Settled(v2, now, g2, h)
    BY <1>3, <2>1, <2>2, <2>4 DEF Settled
  <2> QED
    BY <2>0, <2>5 DEF g2
<1>9. Settled(recordFailure(w, now), now, g, [h EXCEPT ![now] = @ + 1])
  <2> DEFINE v2 == [v EXCEPT !.buckets[v.current].failures = @ + 1]
             h2 == [h EXCEPT ![now] = @ + 1]
  <2>0. recordFailure(w, now) = v2
    BY DEF recordFailure, v
  <2>1. /\ v2 \in Window /\ v2.current = v.current /\ v2.lastTime = v.lastTime
        /\ \A s \in Slots : badOf(v2)[s] = IF s = v.current THEN badOf(v)[s] + 1 ELSE badOf(v)[s]
        /\ okOf(v2) = okOf(v)
    BY <1>3, CountOne
  <2>2. Quiet(h2, v.lastTime + BucketDur)
    BY <1>3, <1>5
  <2>3. Fits(badOf(v2), h2, v, b)
    BY <1>4, <1>7, <2>1
  <2> HIDE DEF v2, h2
  <2>4. Boundaries(v2, b) /\ Fits(okOf(v2), g, v2, b) /\ Fits(badOf(v2), h2, v2, b)
    BY <1>4, <1>6, <2>1, <2>3
  <2>5. Settled(v2, now, g, h2)
    BY <1>3, <2>1, <2>2, <2>4 DEF Settled
  <2> QED
    BY <2>0, <2>5 DEF h2
<1> QED
  BY <1>8, <1>9

-----------------------------------------------------------------------------
(* The theorems *)

\* The window is settled and nothing was recorded in the future.
WindowInv == /\ clock \in Times
             /\ ok \in [Times -> Nat] /\ bad \in [Times -> Nat]
             /\ Quiet(ok, clock + 1) /\ Quiet(bad, clock + 1)
             /\ Settled(window, clock, ok, bad)

\* A new window is settled with no results, its boundaries one bucket duration
\* apart (newSlidingWindow).
LEMMA NewSettled ==
  ASSUME NEW now \in Times
  PROVE  /\ NoResults \in [Times -> Nat] /\ Quiet(NoResults, now + 1)
         /\ Settled(newSlidingWindow(now), now, NoResults, NoResults)
<1> DEFINE w == newSlidingWindow(now)
           none == NoResults
           b == [i \in Slots |-> now - i * BucketDur]
<1>1. /\ NumBuckets \in Nat \ {0} /\ BucketDur \in Nat \ {0} /\ Slots = 0 .. NumBuckets - 1
      /\ now \in Nat /\ \A t \in Times : none[t] = 0 /\ t \in Nat
  BY WindowAssumption, HorizonAssumption DEF Slots, Times, NoResults
<1>2. none \in [Times -> Nat]
  BY DEF NoResults
<1>3. /\ w \in Window /\ w.lastTime = now
      /\ \A s \in Slots : okOf(w)[s] = 0 /\ badOf(w)[s] = 0
  BY <1>1 DEF newSlidingWindow, Window, Bucket, EmptyBucket, okOf, badOf
<1> HIDE DEF w, none
<1>4. Boundaries(w, b)
  <2>1. \A q \in Nat : q * BucketDur \in Nat /\ (q + 1) * BucketDur = q * BucketDur + BucketDur
    BY <1>1, OneMore
  <2>2. b \in [Slots -> Int]
    BY <1>1, <2>1
  <2>3. b[0] = now
    <3>1. 0 * BucketDur = 0 /\ 0 \in Slots
      BY <1>1
    <3> QED
      BY <1>1, <3>1
  <2>4. ASSUME NEW i \in Slots, i > 0 PROVE b[i - 1] - b[i] \in BucketDur .. 2 * BucketDur - 1
    <3>1. i - 1 \in Slots /\ i - 1 \in Nat /\ (i - 1) + 1 = i
      BY <1>1, <2>4
    <3>2. (i - 1) * BucketDur \in Nat /\ i * BucketDur = (i - 1) * BucketDur + BucketDur
      BY <2>1, <3>1
    <3>3. b[i - 1] = now - (i - 1) * BucketDur /\ b[i] = now - i * BucketDur
      BY <3>1
    <3> HIDE DEF b
    <3> QED
      BY <1>1, <3>2, <3>3
  <2> HIDE DEF b
  <2> QED
    BY <1>3, <2>2, <2>3, <2>4 DEF Boundaries
<1> HIDE DEF b
<1>5. Fits(okOf(w), none, w, b) /\ Fits(badOf(w), none, w, b)
  <2> SUFFICES ASSUME NEW s \in Slots PROVE Total(none, Span(b, Back(w, s))) = 0
    BY <1>3 DEF Fits
  <2> DEFINE S == Span(b, Back(w, s))
  <2>1. S \in SUBSET Times
    BY DEF Span
  <2> HIDE DEF S
  <2>2. IsFiniteSet(S) /\ \A t \in S : none[t] \in Nat /\ none[t] = 0
    BY <1>1, <2>1, Finite
  <2>3. Total(none, S) = 0
    BY <2>2, TotalType
  <2> QED
    BY <2>3 DEF S
<1>6. Quiet(none, now + 1) /\ Quiet(none, w.lastTime + BucketDur)
  BY <1>1 DEF Quiet
<1>7. w.lastTime <= now
  BY <1>1, <1>3
<1>8. Settled(w, now, none, none)
  BY <1>3, <1>4, <1>5, <1>6, <1>7 DEF Settled
<1> QED
  BY <1>2, <1>6, <1>8 DEF w, none

\* A breaker starts with a new window.
LEMMA WindowInitially == WindowInit => WindowInv
<1> SUFFICES ASSUME WindowInit PROVE WindowInv
  OBVIOUS
<1>1. clock = 0 /\ 0 \in Times /\ window = newSlidingWindow(0) /\ ok = NoResults /\ bad = NoResults
  BY HorizonAssumption DEF WindowInit, Times
<1> QED
  BY <1>1, NewSettled DEF WindowInv

\* Recording, reading, starting afresh and the passing of time preserve it.
LEMMA WindowStep == WindowInv /\ [WindowNext]_windowVars => WindowInv'
<1> SUFFICES ASSUME WindowInv, [WindowNext]_windowVars PROVE WindowInv'
  OBVIOUS
<1>1. /\ clock \in Times /\ clock \in Nat /\ \A t \in Times : t \in Nat
      /\ ok \in [Times -> Nat] /\ bad \in [Times -> Nat]
      /\ Quiet(ok, clock + 1) /\ Quiet(bad, clock + 1)
      /\ Settled(window, clock, ok, bad)
  BY HorizonAssumption DEF WindowInv, Times
<1>2. \A f \in [Times -> Nat] : Quiet(f, clock + 1) =>
         /\ [f EXCEPT ![clock] = @ + 1] \in [Times -> Nat]
         /\ Quiet([f EXCEPT ![clock] = @ + 1], clock + 1)
  BY <1>1 DEF Quiet
<1>3. CASE CountSuccess /\ UNCHANGED clock
  <2>1. /\ ok' = [ok EXCEPT ![clock] = @ + 1] /\ bad' = bad /\ clock' = clock
        /\ window' = recordSuccess(window, clock)
    BY <1>3 DEF CountSuccess
  <2>2. Settled(window', clock', ok', bad')
    BY <1>1, <2>1, RecordSettled
  <2>3. ok' \in [Times -> Nat] /\ Quiet(ok', clock + 1)
    BY <1>1, <1>2, <2>1
  <2> QED
    BY <1>1, <2>1, <2>2, <2>3 DEF WindowInv
<1>4. CASE CountFailure /\ UNCHANGED clock
  <2>1. /\ bad' = [bad EXCEPT ![clock] = @ + 1] /\ ok' = ok /\ clock' = clock
        /\ window' = recordFailure(window, clock)
    BY <1>4 DEF CountFailure
  <2>2. Settled(window', clock', ok', bad')
    BY <1>1, <2>1, RecordSettled
  <2>3. bad' \in [Times -> Nat] /\ Quiet(bad', clock + 1)
    BY <1>1, <1>2, <2>1
  <2> QED
    BY <1>1, <2>1, <2>2, <2>3 DEF WindowInv
<1>5. CASE ReadTotals /\ UNCHANGED clock
  <2>1. window' = advance(window, clock) /\ ok' = ok /\ bad' = bad /\ clock' = clock
    BY <1>5 DEF ReadTotals
  <2>2. Settled(window', clock', ok', bad')
    BY <1>1, <2>1, AdvanceSettled
  <2> QED
    BY <1>1, <2>1, <2>2 DEF WindowInv
<1>6. CASE TimePasses
  <2>1. /\ clock < MaxClock /\ clock' = clock + 1
        /\ window' = window /\ ok' = ok /\ bad' = bad
    BY <1>6 DEF TimePasses
  <2>2. clock' \in Times /\ Quiet(ok, clock + 2) /\ Quiet(bad, clock + 2)
    BY <1>1, <2>1, HorizonAssumption DEF Quiet, Times
  <2>3. Settled(window, clock + 1, ok, bad)
    BY <1>1 DEF Settled, Window
  <2>4. clock' + 1 = clock + 2
    BY <1>1, <2>1
  <2> QED
    BY <1>1, <2>1, <2>2, <2>3, <2>4 DEF WindowInv
<1>7. CASE NewWindow /\ UNCHANGED clock
  <2>1. window' = newSlidingWindow(clock) /\ ok' = NoResults /\ bad' = NoResults /\ clock' = clock
    BY <1>7 DEF NewWindow
  <2> QED
    BY <1>1, <2>1, NewSettled DEF WindowInv
<1>8. CASE UNCHANGED windowVars
  BY <1>8 DEF windowVars, WindowInv
<1> QED
  BY <1>3, <1>4, <1>5, <1>6, <1>7, <1>8 DEF WindowNext

\* The invariant holds in every state of every schedule of calls.
THEOREM WindowInvariance == WindowSpec => []WindowInv
BY WindowInitially, WindowStep, PTL DEF WindowSpec

\* The totals count every result of age (NumBuckets - 1) * BucketDur, and none
\* older than the longest time a ring can take to turn.
LEMMA TotalsBounds ==
  ASSUME WindowInv
  PROVE  RecentResultsCounted /\ OldResultsForgotten
<1> DEFINE v == advance(window, clock)
           n == NumBuckets - 1
           recent == n * BucketDur
           slack == n * (2 * BucketDur - 1)
           horizon == slack + BucketDur - 1
<1>1. /\ clock \in Nat /\ (\A t \in Times : t \in Nat)
      /\ ok \in [Times -> Nat] /\ bad \in [Times -> Nat]
      /\ Quiet(ok, clock + 1) /\ Quiet(bad, clock + 1)
      /\ n \in Nat /\ BucketDur \in Nat \ {0} /\ n \in Slots /\ 0 \in Slots
      /\ 2 * BucketDur - 1 \in Nat
  BY WindowAssumption, HorizonAssumption DEF WindowInv, Times, Slots
<1>2. Settled(v, clock, ok, bad) /\ clock < v.lastTime + BucketDur
  BY <1>1, AdvanceSettled DEF WindowInv
<1> HIDE DEF v, n
<1>3. v \in Window /\ v.lastTime \in Nat /\ v.lastTime <= clock
  BY <1>2 DEF Settled, Window
<1>4. PICK b : Boundaries(v, b) /\ Fits(okOf(v), ok, v, b) /\ Fits(badOf(v), bad, v, b)
  BY <1>2 DEF Settled
<1>5. recent \in Nat /\ slack \in Nat
  BY <1>1, OneMore
<1>6. b[n] <= v.lastTime - recent /\ b[n] >= v.lastTime - slack /\ b[n] \in Int
  <2>1. b[0] = v.lastTime /\ b[n] \in Int
    BY <1>1, <1>4 DEF Boundaries
  <2> QED
    BY <1>1, <1>3, <1>4, <2>1, Descending
<1> HIDE DEF recent, slack
<1> DEFINE Held == {t \in Times : b[n] <= t}
           Aged(a) == {t \in Times : t <= clock /\ clock - t <= a}
           Past == {t \in Times : b[n] <= t /\ t <= clock}
<1>7. Aged(recent) \subseteq Held
  BY <1>1, <1>3, <1>5, <1>6
<1>8. Past \subseteq Aged(horizon) /\ Past \subseteq Held
  BY <1>1, <1>2, <1>3, <1>5, <1>6
<1>9. ASSUME NEW h \in [Times -> Nat], Quiet(h, clock + 1)
      PROVE  /\ Total(h, Aged(recent)) <= Total(h, Held)
             /\ Total(h, Held) <= Total(h, Aged(horizon))
  <2>1. /\ Held \in SUBSET Times /\ Aged(recent) \in SUBSET Times
        /\ Aged(horizon) \in SUBSET Times /\ Past \in SUBSET Times
    OBVIOUS
  <2>2. \A t \in Held \ Past : h[t] = 0
    BY <1>1, <1>9 DEF Quiet
  <2> HIDE DEF Held, Aged, Past
  <2>3. /\ IsFiniteSet(Held) /\ \A t \in Held : h[t] \in Nat
        /\ IsFiniteSet(Aged(horizon)) /\ \A t \in Aged(horizon) : h[t] \in Nat
    BY <2>1, Finite
  <2>4. Total(h, Aged(recent)) <= Total(h, Held)
    <3> DEFINE A == Aged(recent)
    <3>1. A \in SUBSET Held
      BY <1>7
    <3> HIDE DEF A
    <3>2. Total(h, A) <= Total(h, Held)
      BY <2>3, <3>1, TotalSubset
    <3> QED
      BY <3>2 DEF A
  <2>5. Total(h, Past) = Total(h, Held)
    BY <1>8, <2>2, <2>3, TotalSubset
  <2>6. Total(h, Past) <= Total(h, Aged(horizon))
    <3> DEFINE A == Aged(horizon)
    <3>1. Past \in SUBSET A /\ IsFiniteSet(A) /\ \A t \in A : h[t] \in Nat
      BY <1>8, <2>3
    <3> HIDE DEF A
    <3>2. Total(h, Past) <= Total(h, A)
      BY <3>1, TotalSubset
    <3> QED
      BY <3>2 DEF A
  <2> QED
    BY <2>4, <2>5, <2>6
<1>10. /\ Successes(window, clock) = Total(ok, Held)
       /\ Failures(window, clock) = Total(bad, Held)
  <2>1. Total(okOf(v), Slots) = Total(ok, Held) /\ Total(badOf(v), Slots) = Total(bad, Held)
    <3> DEFINE c == okOf(v)
               d == badOf(v)
    <3> HIDE DEF c, d
    <3>1. Total(c, Slots) = Total(ok, Held) /\ Total(d, Slots) = Total(bad, Held)
      BY <1>1, <1>3, <1>4, TotalsExact DEF c, d, n
    <3> QED
      BY <3>1 DEF c, d
  <2>2. DOMAIN okOf(v) = Slots /\ DOMAIN badOf(v) = Slots
    BY DEF okOf, badOf
  <2>3. Successes(window, clock) = SumFunction(okOf(v)) /\ Failures(window, clock) = SumFunction(badOf(v))
    BY Zenon DEF Successes, Failures, okOf, badOf, v
  <2>4. SumFunction(okOf(v)) = Total(okOf(v), Slots) /\ SumFunction(badOf(v)) = Total(badOf(v), Slots)
    BY <2>2, Zenon DEF SumFunction, Total
  <2> QED
    BY <2>1, <2>3, <2>4, Zenon
<1>11. \A h, a : UpToAge(h, a) = Total(h, Aged(a))
  BY Zenon DEF UpToAge, Total
<1> HIDE DEF Held, Aged, horizon
<1>12. /\ UpToAge(ok, recent) <= Successes(window, clock)
       /\ UpToAge(bad, recent) <= Failures(window, clock)
       /\ Successes(window, clock) <= UpToAge(ok, horizon)
       /\ Failures(window, clock) <= UpToAge(bad, horizon)
  BY <1>1, <1>9, <1>10, <1>11
<1> QED
  BY <1>12 DEF RecentResultsCounted, OldResultsForgotten, recent, slack, horizon, n

\* Whatever the schedule of recordings and reads, and for every number and
\* duration of buckets, a result at most NumBuckets - 1 bucket durations old
\* is in the totals that decide a trip.
THEOREM RecentResultsCountedSafe == WindowSpec => []RecentResultsCounted
<1>1. WindowInv => RecentResultsCounted
  BY TotalsBounds
<1> QED
  BY <1>1, WindowInvariance, PTL

\* Likewise no result is counted twice, or when it is older than
\* NumBuckets - 1 rotations and the rest of a bucket can take.
THEOREM OldResultsForgottenSafe == WindowSpec => []OldResultsForgotten
<1>1. WindowInv => OldResultsForgotten
  BY TotalsBounds
<1> QED
  BY <1>1, WindowInvariance, PTL

=============================================================================
