---------------------------- MODULE ConfigProofs ----------------------------
(***************************************************************************)
(* Proofs about the configuration, for every set of files, every list of   *)
(* tiers in them and every classification: what validate accepts meets the *)
(* assumptions of the other models, and the replica list built from it     *)
(* selects and ranks tiers as the file says.                               *)
(***************************************************************************)
EXTENDS Config, FiniteSetTheorems, SequenceTheorems, WellFoundedInduction, TLAPS

-----------------------------------------------------------------------------
(* Least numbers *)

\* What holds at 0 and passes from a number to the next holds up to n.
LEMMA UpTo ==
  ASSUME NEW n \in Nat, NEW P, 0 \in P, \A m \in 0 .. n - 1 : m \in P => m + 1 \in P
  PROVE  \A m \in 0 .. n : m \in P
<1> SUFFICES ASSUME NEW m0 \in 0 .. n, m0 \notin P PROVE FALSE
  OBVIOUS
<1> DEFINE Bad == {m \in Nat : m <= n /\ m \notin P}
<1>1. Bad \subseteq Nat /\ Bad # {}
  OBVIOUS
<1>2. PICK m \in Bad : \A k \in Bad : ~(k < m)
  <2> HIDE DEF Bad
  <2>1. PICK m \in Bad : \A k \in Bad : ~(<<k, m>> \in OpToRel(<, Nat))
    BY <1>1, NatLessThanWellFounded, WFMin
  <2> QED
    BY <1>1, <2>1 DEF OpToRel
<1>3. m # 0 /\ m - 1 \in 0 .. n - 1 /\ m - 1 \notin Bad
  BY <1>2
<1>4. (m - 1) + 1 = m
  BY <1>3
<1> QED
  BY <1>3, <1>4

\* The first of some positions in a list.
LEMMA MinOfNat ==
  ASSUME NEW S \in SUBSET Nat, S # {}
  PROVE  Min(S) \in S /\ \A y \in S : Min(S) <= y
<1>1. PICK m \in S : \A k \in S : ~(<<k, m>> \in OpToRel(<, Nat))
  BY NatLessThanWellFounded, WFMin
<1>2. \A k \in S : m <= k
  <2>1. S \subseteq Nat
    OBVIOUS
  <2>2. \A k \in S : ~(k < m)
    BY <1>1, <2>1 DEF OpToRel
  <2>3. \A k \in S : k \in Nat /\ m \in Nat
    BY <2>1
  <2> QED
    BY <2>2, <2>3
<1>3. \E x \in S : \A y \in S : x <= y
  BY <1>2
<1> QED
  BY <1>3, Zenon DEF Min

-----------------------------------------------------------------------------
(* The sorted list of tiers *)

\* A list of tiers as ValidModels accepts it.
Proper(models) ==
  /\ models \in Seq(Range(models))
  /\ Len(models) > 0
  /\ \A i \in DOMAIN models : /\ models[i].priority \in Nat
                              /\ models[i].replicas \in Seq(Range(models[i].replicas))
                              /\ Len(models[i].replicas) > 0
  /\ \A i, j \in DOMAIN models : i # j => /\ models[i].priority # models[j].priority
                                          /\ models[i].name # models[j].name

\* Tiers with distinct priorities can be sorted: the place of a tier is the
\* number of tiers that are not above it.
LEMMA SortExists ==
  ASSUME NEW models, Proper(models)
  PROVE  \E sorted \in [DOMAIN models -> Range(models)] :
           /\ Range(sorted) = Range(models)
           /\ \A i, j \in DOMAIN models : i < j => sorted[i].priority <= sorted[j].priority
<1> DEFINE n == Len(models)
           I == 1 .. n
           p == [i \in I |-> models[i].priority]
           Low(i) == {j \in I : p[j] <= p[i]}
           rank == [i \in I |-> Cardinality(Low(i))]
<1>1. n \in Nat /\ DOMAIN models = I
  BY DEF Proper
<1>2. /\ \A i \in I : p[i] \in Nat
      /\ \A i, j \in I : i # j => p[i] # p[j]
  BY <1>1 DEF Proper
<1>3. IsFiniteSet(I) /\ Cardinality(I) = n
  <2>1. \A k \in Nat : IsFiniteSet(1 .. k) /\ Cardinality(1 .. k) = k
    BY FS_Interval
  <2> QED
    BY <1>1, <2>1
<1> HIDE DEF p, n
<1>4. ASSUME NEW i \in I PROVE IsFiniteSet(Low(i)) /\ Cardinality(Low(i)) \in I
  <2>1. Low(i) \in SUBSET I /\ i \in Low(i)
    BY <1>2
  <2> DEFINE L == Low(i)
  <2> HIDE DEF Low, I
  <2>2. IsFiniteSet(L) /\ Cardinality(L) <= Cardinality(I)
    BY <1>3, <2>1, FS_Subset
  <2>3. Cardinality(L) \in Nat /\ Cardinality(L) # 0
    <3> HIDE DEF L
    <3>1. L # {}
      BY <2>1 DEF L
    <3> QED
      BY <2>2, <3>1, FS_CardinalityType, FS_EmptySet
  <2> QED
    BY <1>1, <1>3, <2>2, <2>3 DEF I
<1>5. ASSUME NEW i \in I, NEW j \in I, p[i] < p[j] PROVE rank[i] < rank[j]
  <2> DEFINE L == Low(i)
             M == Low(j)
  <2>1. L \in SUBSET M /\ j \in M /\ j \notin L
    <3>1. p[i] \in Nat /\ p[j] \in Nat /\ \A k \in I : p[k] \in Nat
      BY <1>2
    <3> HIDE DEF I
    <3>2. \A k \in I : p[k] <= p[i] => p[k] <= p[j]
      BY <1>5, <3>1
    <3>3. ~(p[j] <= p[i])
      BY <1>5, <3>1
    <3> QED
      BY <3>1, <3>2, <3>3
  <2>2. IsFiniteSet(M) /\ Cardinality(M) \in Nat /\ Cardinality(L) \in Nat
    <3>1. \A k \in I : IsFiniteSet(Low(k)) /\ Cardinality(Low(k)) \in I
      BY <1>4
    <3> HIDE DEF Low
    <3> QED
      BY <1>1, <3>1
  <2>3. rank[i] = Cardinality(L) /\ rank[j] = Cardinality(M)
    OBVIOUS
  <2> HIDE DEF L, M, rank
  <2>4. Cardinality(L) <= Cardinality(M) /\ Cardinality(M) # Cardinality(L)
    BY <2>1, <2>2, FS_Subset
  <2> QED
    BY <2>2, <2>3, <2>4
<1>6. rank \in [I -> I]
  BY <1>4
<1> HIDE DEF rank, Low
<1>7. \A i, j \in I : rank[i] = rank[j] => i = j
  <2> SUFFICES ASSUME NEW i \in I, NEW j \in I, i # j PROVE rank[i] # rank[j]
    OBVIOUS
  <2>1. p[i] < p[j] \/ p[j] < p[i]
    BY <1>2
  <2>2. rank[i] < rank[j] \/ rank[j] < rank[i]
    BY <1>5, <2>1
  <2> QED
    BY <1>1, <1>6, <2>2
<1>8. \A r \in I : \E i \in I : rank[i] = r
  <2> HIDE DEF I
  <2>1. rank \in Injection(I, I)
    BY <1>6, <1>7 DEF Injection, IsInjective
  <2>2. rank \in Surjection(I, I)
    BY <1>3, <2>1, FS_Injection
  <2> QED
    BY <2>2 DEF Surjection
<1> DEFINE at(r) == CHOOSE i \in I : rank[i] = r
           sorted == [r \in I |-> models[at(r)]]
<1>9. \A r \in I : at(r) \in I /\ rank[at(r)] = r
  BY <1>8
<1>10. \A i \in I : at(rank[i]) = i
  BY <1>6, <1>7, <1>9
<1> HIDE DEF at
<1>11. sorted \in [DOMAIN models -> Range(models)]
  BY <1>1, <1>9 DEF Range
<1>12. Range(sorted) = Range(models)
  <2>1. \A r \in I : sorted[r] \in Range(models)
    BY <1>1, <1>11
  <2>2. \A i \in I : sorted[rank[i]] = models[i] /\ rank[i] \in I
    BY <1>6, <1>10
  <2>3. DOMAIN sorted = I
    OBVIOUS
  <2> HIDE DEF sorted
  <2> QED
    BY <1>1, <2>1, <2>2, <2>3 DEF Range
<1>13. ASSUME NEW r \in I, NEW q \in I, r < q PROVE sorted[r].priority <= sorted[q].priority
  <2>1. ~(p[at(q)] < p[at(r)])
    <3> SUFFICES ASSUME p[at(q)] < p[at(r)] PROVE FALSE
      OBVIOUS
    <3>1. rank[at(q)] < rank[at(r)]
      BY <1>5, <1>9
    <3> QED
      BY <1>1, <1>9, <1>13, <3>1
  <2>2. p[at(r)] <= p[at(q)]
    BY <1>2, <1>9, <2>1
  <2>3. p[at(r)] = sorted[r].priority /\ p[at(q)] = sorted[q].priority
    BY <1>9 DEF p
  <2> QED
    BY <2>2, <2>3
<1> HIDE DEF sorted
<1> QED
  BY <1>1, <1>11, <1>12, <1>13

\* Sorting neither adds nor loses a tier and puts them in order.
LEMMA SortedTiers ==
  ASSUME NEW models, Proper(models)
  PROVE  /\ Sorted(models) \in [DOMAIN models -> Range(models)]
         /\ Range(Sorted(models)) = Range(models)
         /\ \A i, j \in DOMAIN models : i < j => Sorted(models)[i].priority <= Sorted(models)[j].priority
<1>1. \E sorted \in [DOMAIN models -> Range(models)] :
           /\ Range(sorted) = Range(models)
           /\ \A i, j \in DOMAIN models : i < j => sorted[i].priority <= sorted[j].priority
  BY SortExists
<1> QED
  BY <1>1, Zenon DEF Sorted

-----------------------------------------------------------------------------
(* The replica list *)

\* The concatenation of the first lists of s, as FlattenSeq builds it.
Joined(s, n, g) == g = [i \in 1 .. n |-> IF i = 1 THEN s[i] ELSE g[i - 1] \o s[i]]

\* There is one for every number of lists.
LEMMA JoinedExists ==
  ASSUME NEW s, NEW n \in Nat
  PROVE  \E g : Joined(s, n, g)
<1> DEFINE P == {m \in Nat : \E g : Joined(s, m, g)}
<1>1. 0 \in P
  <2> DEFINE g == [i \in 1 .. 0 |-> s[i]]
  <2>1. 1 .. 0 = {}
    OBVIOUS
  <2>2. g = [i \in 1 .. 0 |-> IF i = 1 THEN s[i] ELSE g[i - 1] \o s[i]]
    BY <2>1
  <2>3. \E h : Joined(s, 0, h)
    BY <2>2 DEF Joined
  <2> QED
    BY <2>3
<1>2. ASSUME NEW m \in 0 .. n - 1, m \in P PROVE m + 1 \in P
  <2>1. PICK g : g = [i \in 1 .. m |-> IF i = 1 THEN s[i] ELSE g[i - 1] \o s[i]]
    BY <1>2 DEF Joined
  <2> DEFINE h == [i \in 1 .. m + 1 |-> IF i = 1 THEN s[i] ELSE g[i - 1] \o s[i]]
  <2>2. m \in Nat /\ m + 1 \in Nat
    BY <1>2
  <2>3. \A i \in 1 .. m : h[i] = g[i]
    <3> TAKE i \in 1 .. m
    <3>1. i \in 1 .. m + 1
      BY <2>2
    <3>2. h[i] = IF i = 1 THEN s[i] ELSE g[i - 1] \o s[i]
      BY <3>1
    <3>3. g[i] = IF i = 1 THEN s[i] ELSE g[i - 1] \o s[i]
      BY <2>1
    <3> QED
      BY <3>2, <3>3
  <2>4. \A i \in 1 .. m + 1 : i # 1 => i - 1 \in 1 .. m
    BY <2>2
  <2>5. \A i \in 1 .. m + 1 : h[i] = IF i = 1 THEN s[i] ELSE h[i - 1] \o s[i]
    <3> TAKE i \in 1 .. m + 1
    <3>1. h[i] = IF i = 1 THEN s[i] ELSE g[i - 1] \o s[i]
      OBVIOUS
    <3>2. i # 1 => h[i - 1] = g[i - 1]
      BY <2>3, <2>4
    <3> HIDE DEF h
    <3> QED
      BY <3>1, <3>2
  <2>6. h = [i \in 1 .. m + 1 |-> h[i]]
    OBVIOUS
  <2> HIDE DEF h
  <2>7. h = [i \in 1 .. m + 1 |-> IF i = 1 THEN s[i] ELSE h[i - 1] \o s[i]]
    BY <2>5, <2>6, Zenon
  <2> QED
    BY <2>2, <2>7 DEF Joined
<1>3. n \in P
  <2>1. n \in 0 .. n
    OBVIOUS
  <2> HIDE DEF P
  <2> QED
    BY <1>1, <1>2, <2>1, UpTo
<1> QED
  BY <1>3

\* A list of replicas has the tiers T[1] .. T[m], in that order.
Lists(c, E, T, m) ==
  /\ c \in Seq(E)
  /\ \A k \in 1 .. Len(c) : \E i \in 1 .. m : c[k].tier = T[i]
  /\ \A i \in 1 .. m : \E k \in 1 .. Len(c) : c[k].tier = T[i]
  /\ \A k, l \in 1 .. Len(c) : k < l => c[k].tier.priority <= c[l].tier.priority

\* The replicas of the next tier follow.
LEMMA ListsNext ==
  ASSUME NEW E, NEW T, NEW m \in Nat \ {0}, NEW a, Lists(a, E, T, m),
         NEW b \in Seq(E), Len(b) > 0, \A k \in 1 .. Len(b) : b[k].tier = T[m + 1],
         \A i \in 1 .. m + 1 : T[i].priority \in Nat,
         \A i, j \in 1 .. m + 1 : i < j => T[i].priority <= T[j].priority
  PROVE  Lists(a \o b, E, T, m + 1)
<1> DEFINE c == a \o b
<1>1. a \in Seq(E)
  BY DEF Lists
<1>2. /\ c \in Seq(E) /\ Len(c) = Len(a) + Len(b) /\ Len(a) \in Nat /\ Len(b) \in Nat
      /\ \A k \in 1 .. Len(c) : c[k] = IF k <= Len(a) THEN a[k] ELSE b[k - Len(a)]
  BY <1>1
<1> HIDE DEF c
<1>3. \A k \in 1 .. Len(a) : k \in 1 .. Len(c) /\ c[k] = a[k]
  BY <1>2
<1>4. \A k \in 1 .. Len(c) : k > Len(a) => c[k].tier = T[m + 1]
  <2> SUFFICES ASSUME NEW k \in 1 .. Len(c), k > Len(a) PROVE c[k].tier = T[m + 1]
    OBVIOUS
  <2>1. k - Len(a) \in 1 .. Len(b) /\ c[k] = b[k - Len(a)]
    BY <1>2
  <2> QED
    BY <2>1
<1>5. \A k \in 1 .. Len(c) : \E i \in 1 .. m + 1 : c[k].tier = T[i]
  <2> SUFFICES ASSUME NEW k \in 1 .. Len(c) PROVE \E i \in 1 .. m + 1 : c[k].tier = T[i]
    OBVIOUS
  <2>1. CASE k <= Len(a)
    <3>1. k \in 1 .. Len(a) /\ c[k] = a[k]
      BY <1>2, <1>3, <2>1
    <3>2. PICK i \in 1 .. m : a[k].tier = T[i]
      BY <3>1 DEF Lists
    <3> QED
      BY <3>1, <3>2
  <2>2. CASE ~(k <= Len(a))
    <3>1. m + 1 \in 1 .. m + 1 /\ k > Len(a)
      BY <1>2, <2>2
    <3> QED
      BY <1>4, <3>1
  <2> QED
    BY <2>1, <2>2
<1>6. \A i \in 1 .. m + 1 : \E k \in 1 .. Len(c) : c[k].tier = T[i]
  <2> SUFFICES ASSUME NEW i \in 1 .. m + 1 PROVE \E k \in 1 .. Len(c) : c[k].tier = T[i]
    OBVIOUS
  <2>1. CASE i = m + 1
    <3>1. Len(c) \in 1 .. Len(c) /\ Len(c) > Len(a)
      BY <1>2
    <3> QED
      BY <1>4, <2>1, <3>1
  <2>2. CASE i # m + 1
    <3>1. i \in 1 .. m
      BY <2>2
    <3>2. PICK k \in 1 .. Len(a) : a[k].tier = T[i]
      BY <3>1 DEF Lists
    <3> QED
      BY <1>3, <3>2
  <2> QED
    BY <2>1, <2>2
<1>7. ASSUME NEW k \in 1 .. Len(c), NEW l \in 1 .. Len(c), k < l
      PROVE  c[k].tier.priority <= c[l].tier.priority
  <2>1. CASE l <= Len(a)
    <3>1. k \in 1 .. Len(a) /\ l \in 1 .. Len(a)
      BY <1>2, <1>7, <2>1
    <3>2. a[k].tier.priority <= a[l].tier.priority
      BY <1>7, <3>1 DEF Lists
    <3> QED
      BY <1>3, <3>1, <3>2
  <2>2. CASE ~(l <= Len(a))
    <3>1. c[l].tier = T[m + 1]
      BY <1>2, <1>4, <2>2
    <3>2. PICK i \in 1 .. m + 1 : c[k].tier = T[i]
      BY <1>5
    <3>3. T[i].priority <= T[m + 1].priority
      <4>1. i < m + 1 \/ i = m + 1
        OBVIOUS
      <4>2. m + 1 \in 1 .. m + 1 /\ T[m + 1].priority \in Nat
        OBVIOUS
      <4> QED
        BY <4>1, <4>2
    <3> QED
      BY <3>1, <3>2, <3>3
  <2> QED
    BY <2>1, <2>2
<1>8. Lists(c, E, T, m + 1)
  BY <1>2, <1>5, <1>6, <1>7 DEF Lists
<1> QED
  BY <1>8 DEF c

\* The list that ToReplicaList returns has the tiers of the file, every one of
\* them and no other, with the lowest priority first.
LEMMA ReplicaList ==
  ASSUME NEW models, Proper(models), NEW L, L = ToReplicaList(models)
  PROVE  /\ Len(L) \in Nat /\ DOMAIN L = 1 .. Len(L)
         /\ \A k \in DOMAIN L : L[k].tier \in Range(models)
         /\ \A t \in Range(models) : \E k \in DOMAIN L : L[k].tier = t
         /\ \A k, l \in DOMAIN L : k < l => L[k].tier.priority <= L[l].tier.priority
<1> DEFINE n == Len(models)
           T == Sorted(models)
           s == [i \in DOMAIN models |-> TierReplicas(T[i])]
           E == UNION {Range(s[i]) : i \in DOMAIN models}
<1>1. n \in Nat \ {0} /\ DOMAIN models = 1 .. n
  BY DEF Proper
<1>2. /\ \A i \in 1 .. n : T[i] \in Range(models)
      /\ DOMAIN T = 1 .. n /\ Range(T) = Range(models)
      /\ \A i, j \in 1 .. n : i < j => T[i].priority <= T[j].priority
  BY <1>1, SortedTiers
<1>3. \A t \in Range(models) : /\ t.priority \in Nat
                              /\ Len(t.replicas) \in Nat \ {0} /\ DOMAIN t.replicas = 1 .. Len(t.replicas)
  <2> SUFFICES ASSUME NEW t \in Range(models)
               PROVE  /\ t.priority \in Nat
                      /\ Len(t.replicas) \in Nat \ {0} /\ DOMAIN t.replicas = 1 .. Len(t.replicas)
    OBVIOUS
  <2>1. PICK i \in DOMAIN models : t = models[i]
    BY DEF Range
  <2> DEFINE u == t.replicas
  <2>2. t.priority \in Nat /\ u \in Seq(Range(u)) /\ Len(u) > 0
    BY <2>1 DEF Proper
  <2> HIDE DEF u
  <2>3. Len(u) \in Nat \ {0} /\ DOMAIN u = 1 .. Len(u)
    BY <2>2, LenProperties
  <2> QED
    BY <2>2, <2>3 DEF u
<1> HIDE DEF T
<1>4. \A i \in 1 .. n : /\ s[i] \in Seq(E) /\ Len(s[i]) > 0
                        /\ \A k \in 1 .. Len(s[i]) : s[i][k].tier = T[i]
  <2> SUFFICES ASSUME NEW i \in 1 .. n
               PROVE  /\ s[i] \in Seq(E) /\ Len(s[i]) > 0
                      /\ \A k \in 1 .. Len(s[i]) : s[i][k].tier = T[i]
    OBVIOUS
  <2> DEFINE r == Len(T[i].replicas)
             e == s[i]
  <2>1. r \in Nat \ {0} /\ DOMAIN T[i].replicas = 1 .. r
    BY <1>2, <1>3
  <2>2. e = [k \in 1 .. r |-> [tier |-> T[i], size |-> T[i].replicas[k].size]]
    BY <1>1, <2>1 DEF TierReplicas
  <2>3. Range(e) \subseteq E
    BY <1>1
  <2> HIDE DEF r, e, E
  <2>4. DOMAIN e = 1 .. r /\ \A k \in 1 .. r : e[k].tier = T[i] /\ e[k] \in E
    <3>1. DOMAIN e = 1 .. r /\ \A k \in 1 .. r : e[k] = [tier |-> T[i], size |-> T[i].replicas[k].size]
      BY <2>2
    <3>2. \A k \in 1 .. r : e[k] \in Range(e)
      BY <3>1 DEF Range
    <3> QED
      BY <2>3, <3>1, <3>2
  <2>5. e \in [1 .. r -> E]
    BY <2>2, <2>4
  <2>6. e \in Seq(E) /\ Len(e) = r
    BY <2>1, <2>5
  <2>7. e \in Seq(E) /\ Len(e) > 0 /\ \A k \in 1 .. Len(e) : e[k].tier = T[i]
    BY <2>1, <2>4, <2>6
  <2> HIDE DEF s
  <2> QED
    BY <2>7 DEF e
<1>5. Len(s) = n /\ DOMAIN s = 1 .. n
  <2>1. s = [i \in 1 .. n |-> s[i]]
    BY <1>1
  <2> HIDE DEF s
  <2> QED
    BY <1>1, <2>1
<1> DEFINE g == CHOOSE h : Joined(s, n, h)
<1>6. L = g[n]
  <2>1. L = FlattenSeq(s)
    BY DEF ToReplicaList, T
  <2> HIDE DEF s
  <2>2. Len(s) # 0
    BY <1>1, <1>5
  <2>3. FlattenSeq(s) = (CHOOSE h : h = [i \in 1 .. Len(s) |-> IF i = 1 THEN s[i] ELSE h[i - 1] \o s[i]])[Len(s)]
    BY <2>2, Zenon DEF FlattenSeq
  <2> QED
    BY <1>5, <2>1, <2>3, Zenon DEF Joined
<1> HIDE DEF s, E
<1>7. Joined(s, n, g)
  BY <1>1, JoinedExists, Zenon
<1> HIDE DEF g, n
<1>8. \A i \in 1 .. n : g[i] = IF i = 1 THEN s[i] ELSE g[i - 1] \o s[i]
  BY <1>7 DEF Joined
<1> DEFINE P == {m \in Nat : Lists(g[m + 1], E, T, m + 1)}
<1>9. 0 \in P
  <2>1. 1 \in 1 .. n
    BY <1>1
  <2>2. g[1] = s[1]
    BY <1>8, <2>1
  <2>3. s[1] \in Seq(E) /\ Len(s[1]) > 0 /\ \A k \in 1 .. Len(s[1]) : s[1][k].tier = T[1]
    BY <1>4, <2>1
  <2>4. T[1].priority \in Nat /\ 1 .. 1 = {1} /\ 1 \in 1 .. Len(s[1])
    BY <1>2, <1>3, <2>1, <2>3
  <2>5. Lists(s[1], E, T, 1)
    BY <2>3, <2>4 DEF Lists
  <2> QED
    BY <2>2, <2>5
<1>10. ASSUME NEW m \in 0 .. (n - 1) - 1, m \in P PROVE m + 1 \in P
  <2> DEFINE q == m + 1
  <2>1. q \in Nat \ {0} /\ q + 1 \in 1 .. n /\ q + 1 # 1 /\ (q + 1) - 1 = q
    BY <1>1
  <2>2. Lists(g[q], E, T, q)
    BY <1>10
  <2> HIDE DEF q
  <2>3. g[q + 1] = g[q] \o s[q + 1]
    BY <1>8, <2>1
  <2>4. s[q + 1] \in Seq(E) /\ Len(s[q + 1]) > 0 /\ \A k \in 1 .. Len(s[q + 1]) : s[q + 1][k].tier = T[q + 1]
    BY <1>4, <2>1
  <2>5. \A i \in 1 .. q + 1 : i \in 1 .. n
    BY <1>1, <2>1
  <2>6. /\ \A i \in 1 .. q + 1 : T[i].priority \in Nat
        /\ \A i, j \in 1 .. q + 1 : i < j => T[i].priority <= T[j].priority
    BY <1>2, <1>3, <2>5
  <2>7. Lists(g[q] \o s[q + 1], E, T, q + 1)
    <3> DEFINE a == g[q]
               b == s[q + 1]
    <3> HIDE DEF a, b
    <3>1. Lists(a, E, T, q) /\ b \in Seq(E) /\ Len(b) > 0 /\ \A k \in 1 .. Len(b) : b[k].tier = T[q + 1]
      BY <2>2, <2>4 DEF a, b
    <3>2. Lists(a \o b, E, T, q + 1)
      BY <2>1, <2>6, <3>1, ListsNext
    <3> QED
      BY <3>2 DEF a, b
  <2>8. Lists(g[q + 1], E, T, q + 1)
    BY <2>3, <2>7
  <2>9. m + 1 \in Nat
    BY <1>1
  <2> QED
    BY <2>8, <2>9 DEF q
<1>11. n - 1 \in P
  <2>1. n - 1 \in Nat /\ n - 1 \in 0 .. n - 1
    BY <1>1
  <2> HIDE DEF P
  <2> QED
    BY <1>9, <1>10, <2>1, UpTo
<1>12. Lists(L, E, T, n)
  <2>1. (n - 1) + 1 = n
    BY <1>1
  <2> QED
    BY <1>6, <1>11, <2>1
<1>13. Len(L) \in Nat /\ DOMAIN L = 1 .. Len(L)
  BY <1>12 DEF Lists
<1>14. \A k \in DOMAIN L : L[k].tier \in Range(models)
  BY <1>2, <1>12, <1>13 DEF Lists
<1>15. \A t \in Range(models) : \E k \in DOMAIN L : L[k].tier = t
  <2> SUFFICES ASSUME NEW t \in Range(models) PROVE \E k \in DOMAIN L : L[k].tier = t
    OBVIOUS
  <2>1. PICK i \in 1 .. n : t = T[i]
    BY <1>2 DEF Range
  <2> QED
    BY <1>12, <1>13, <2>1 DEF Lists
<1> QED
  BY <1>12, <1>13, <1>14, <1>15 DEF Lists

\* Tiers are told apart by name and by priority.
LEMMA TiersDiffer ==
  ASSUME NEW models, Proper(models), NEW t \in Range(models), NEW u \in Range(models)
  PROVE  /\ t.priority \in Nat
         /\ t.name = u.name => t = u
         /\ t.priority = u.priority => t = u
<1>1. PICK i \in DOMAIN models : t = models[i]
  BY DEF Range
<1>2. PICK j \in DOMAIN models : u = models[j]
  BY DEF Range
<1> QED
  BY <1>1, <1>2 DEF Proper

\* PriorityOf finds the priority that the file gives a tier.
LEMMA PriorityFound ==
  ASSUME NEW models, Proper(models), NEW L, L = ToReplicaList(models), NEW a
  PROVE  /\ \A t \in Range(models) : t.name = a => PriorityOf(L, a) = t.priority
         /\ (\A t \in Range(models) : t.name # a) => PriorityOf(L, a) = -1
<1> DEFINE at == {k \in DOMAIN L : L[k].tier.name = a}
<1>1. /\ DOMAIN L = 1 .. Len(L) /\ Len(L) \in Nat
      /\ \A k \in DOMAIN L : L[k].tier \in Range(models)
      /\ \A t \in Range(models) : \E k \in DOMAIN L : L[k].tier = t
  BY ReplicaList
<1>2. PriorityOf(L, a) = IF at = {} THEN -1 ELSE L[Min(at)].tier.priority
  BY DEF PriorityOf
<1>3. ASSUME NEW t \in Range(models), t.name = a PROVE PriorityOf(L, a) = t.priority
  <2>1. at \in SUBSET Nat /\ at # {}
    BY <1>1, <1>3
  <2>2. Min(at) \in at
    <3> HIDE DEF at
    <3> QED
      BY <2>1, MinOfNat
  <2>3. L[Min(at)].tier \in Range(models) /\ L[Min(at)].tier.name = a
    BY <1>1, <2>2
  <2>4. L[Min(at)].tier = t
    BY <1>3, <2>3, TiersDiffer
  <2> HIDE DEF at
  <2> QED
    BY <1>2, <2>1, <2>4
<1>4. ASSUME \A t \in Range(models) : t.name # a PROVE PriorityOf(L, a) = -1
  <2>1. at = {}
    BY <1>1, <1>4
  <2> QED
    BY <1>2, <2>1
<1> QED
  BY <1>3, <1>4

\* The names of the tiers in a list.
Names(models) == {t.name : t \in Range(models)}

\* The tiers of the file, and no others, have a priority that is not
\* negative, and no two of them the same.
LEMMA Ranking ==
  ASSUME NEW models, Proper(models), NEW L, L = ToReplicaList(models),
         NEW names, names = Names(models)
  PROVE  /\ \A a : PriorityOf(L, a) \in Int /\ PriorityOf(L, a) >= -1
         /\ \A a : a \in names <=> PriorityOf(L, a) >= 0
         /\ \A a, b \in names : PriorityOf(L, a) = PriorityOf(L, b) => a = b
<1>1. ASSUME NEW a \in names
      PROVE  \E t \in Range(models) : t.name = a /\ PriorityOf(L, a) = t.priority /\ t.priority \in Nat
  BY PriorityFound, TiersDiffer DEF Names
<1>2. ASSUME NEW a, a \notin names PROVE PriorityOf(L, a) = -1
  <2>1. \A t \in Range(models) : t.name # a
    BY <1>2 DEF Names
  <2> QED
    BY <2>1, PriorityFound
<1>3. \A a : (a \in names /\ PriorityOf(L, a) \in Nat) \/ (a \notin names /\ PriorityOf(L, a) = -1)
  BY <1>1, <1>2
<1>4. ASSUME NEW a \in names, NEW b \in names, PriorityOf(L, a) = PriorityOf(L, b) PROVE a = b
  <2>1. PICK t \in Range(models) : t.name = a /\ PriorityOf(L, a) = t.priority
    BY <1>1
  <2>2. PICK u \in Range(models) : u.name = b /\ PriorityOf(L, b) = u.priority
    BY <1>1
  <2>3. t = u
    BY <1>4, <2>1, <2>2, TiersDiffer
  <2> QED
    BY <2>1, <2>2, <2>3
<1>5. \A a : PriorityOf(L, a) \in Int /\ PriorityOf(L, a) >= -1
  BY <1>3
<1>6. \A a : a \in names <=> PriorityOf(L, a) >= 0
  BY <1>3
<1> QED
  BY <1>4, <1>5, <1>6

-----------------------------------------------------------------------------
(* What Load accepts *)

\* The defaults change the settings only, and an accepted list of tiers is
\* proper.
LEMMA Loaded ==
  ASSUME NEW file \in Files, validate(applyDefaults(file))
  PROVE  /\ applyDefaults(file).models = file.models /\ applyDefaults(file).enabled = file.enabled
         /\ applyDefaults(file).settings = [f \in Numbers \cup DOMAIN PenaltyDefault |-> Setting(file, f)]
         /\ Proper(file.models)
         /\ Cardinality({i \in DOMAIN file.models : file.models[i].fallback}) = 1
<1> DEFINE c == applyDefaults(file)
<1>1. /\ file = [models |-> file.models, settings |-> file.settings,
                 enabled |-> file.enabled, given |-> file.given]
      /\ DOMAIN file.settings = Numbers \cup DOMAIN PenaltyDefault
      /\ file.models \in Seq(Range(file.models))
      /\ \A i \in DOMAIN file.models : /\ file.models[i].priority \in Int
                                       /\ file.models[i].replicas \in Seq(Range(file.models[i].replicas))
  BY FileAssumption
<1>2. c.models = file.models /\ c.enabled = file.enabled
  BY <1>1 DEF applyDefaults
<1>3. c.settings = [f \in Numbers \cup DOMAIN PenaltyDefault |-> Setting(file, f)]
  <2> HIDE DEF c
  <2> DEFINE S == [f \in DOMAIN file.settings |-> Setting(file, f)]
  <2>1. c = [file EXCEPT !.settings = S]
    BY Zenon DEF applyDefaults, c
  <2>2. "settings" \in DOMAIN file
    BY <1>1
  <2> HIDE DEF S
  <2>3. c.settings = S
    BY <1>1, <2>1, <2>2
  <2> QED
    BY <1>1, <2>3 DEF S
<1>4. ValidModels(file.models)
  BY <1>2 DEF validate
<1>5. Proper(file.models)
  <2>1. Len(file.models) > 0
    BY <1>1, <1>4, EmptySeq DEF ValidModels
  <2>2. ASSUME NEW i \in DOMAIN file.models
        PROVE  file.models[i].priority \in Nat /\ Len(file.models[i].replicas) > 0
    <3> DEFINE r == file.models[i].replicas
    <3>1. ValidTier(file.models[i])
      BY <1>4, <2>2 DEF ValidModels
    <3>2. r # <<>> /\ r \in Seq(Range(r))
      BY <1>1, <2>2, <3>1 DEF ValidTier
    <3>3. file.models[i].priority \in Nat
      BY <1>1, <2>2, <3>1 DEF ValidTier
    <3> HIDE DEF r
    <3>4. Len(r) > 0
      BY <3>2, EmptySeq
    <3> QED
      BY <3>3, <3>4 DEF r
  <2> QED
    BY <1>1, <1>4, <2>1, <2>2 DEF Proper, ValidModels
<1> QED
  BY <1>2, <1>3, <1>4, <1>5 DEF ValidModels

\* The configuration in effect is one that Load made of a file.
Current == status = "up" =>
             \E file \in Files : /\ config = applyDefaults(file)
                                 /\ validate(config)
                                 /\ replicas = ToReplicaList(config.models)

\* Every configuration in effect meets the assumptions of the other models.
LEMMA CurrentMeets == Current => AssumptionsMet
<1> SUFFICES ASSUME Current, status = "up" PROVE AssumptionsMet
  BY DEF AssumptionsMet
<1>1. PICK file \in Files : config = applyDefaults(file) /\ validate(config)
  BY DEF Current
<1> DEFINE s == config.settings
<1>2. /\ config.enabled = file.enabled
      /\ s = [f \in Numbers \cup DOMAIN PenaltyDefault |-> Setting(file, f)]
  BY <1>1, Loaded
<1>3. \A f \in Numbers : s[f] = Setting(file, f) /\ file.settings[f] \in Int
  BY <1>2, FileAssumption
<1>4. ValidSettings(s) /\ ValidOptions(config)
  BY <1>1 DEF validate
<1> HIDE DEF s
<1>5. \A f \in DOMAIN Default : s[f] \in Int /\ s[f] # 0
  <2> SUFFICES ASSUME NEW f \in DOMAIN Default PROVE s[f] \in Int /\ s[f] # 0
    OBVIOUS
  <2>1. f \in Numbers
    BY DEF Numbers
  <2>2. Default[f] \in Nat \ {0} /\ f \notin DOMAIN PenaltyDefault /\ f \notin DOMAIN PostgresDefault
    BY DEF Default, PenaltyDefault, PostgresDefault
  <2>3. Setting(file, f) = IF file.settings[f] = 0 THEN Default[f] ELSE file.settings[f]
    BY <2>2 DEF Setting
  <2> QED
    BY <1>3, <2>1, <2>2, <2>3
<1>6. "postgres" \in config.enabled => \A f \in DOMAIN PostgresDefault : s[f] \in Int /\ s[f] # 0
  <2> SUFFICES ASSUME "postgres" \in file.enabled, NEW f \in DOMAIN PostgresDefault
               PROVE  s[f] \in Int /\ s[f] # 0
    BY <1>2
  <2>1. f \in Numbers
    BY DEF Numbers
  <2>2. PostgresDefault[f] \in Nat \ {0} /\ f \notin DOMAIN PenaltyDefault /\ f \notin DOMAIN Default
    BY DEF Default, PenaltyDefault, PostgresDefault
  <2>3. Setting(file, f) = IF file.settings[f] = 0 THEN PostgresDefault[f] ELSE file.settings[f]
    BY <2>2 DEF Setting
  <2> QED
    BY <1>3, <2>1, <2>2, <2>3
<1>7. {"error_threshold", "stall_timeout"} \subseteq DOMAIN Default
  BY DEF Default
<1>8. s.window_size > 0 /\ s.min_samples > 0 /\ s.stall_timeout > 0 /\ s.error_threshold \in 1 .. 100
  BY <1>4, <1>5, <1>7 DEF ValidSettings
<1>9. "postgres" \in config.enabled => \A f \in DOMAIN PostgresDefault : s[f] > 0
  BY <1>4, <1>6 DEF ValidOptions, s
<1>10. /\ "ratelimit" \in config.enabled => s.requests_per_minute > 0 /\ s.burst > 0
       /\ "audit" \in config.enabled => s.audit_buffer > 0
  BY <1>4 DEF ValidOptions, s
<1> QED
  BY <1>8, <1>9, <1>10 DEF AssumptionsMet, s

-----------------------------------------------------------------------------
(* The order of the tiers in effect *)

\* What the replica list in effect says of the tiers of the file in effect.
LEMMA CurrentRanking ==
  ASSUME Current, status = "up"
  PROVE  /\ \A a : PriorityOf(replicas, a) \in Int /\ PriorityOf(replicas, a) >= -1
         /\ \A a : a \in Known <=> PriorityOf(replicas, a) >= 0
         /\ \A a, b \in Known : PriorityOf(replicas, a) = PriorityOf(replicas, b) => a = b
<1>1. PICK file \in Files : /\ config = applyDefaults(file) /\ validate(config)
                            /\ replicas = ToReplicaList(config.models)
  BY DEF Current
<1>2. config.models = file.models /\ Proper(config.models)
  BY <1>1, Loaded
<1>3. PICK M : M = config.models
  OBVIOUS
<1>4. Proper(M) /\ replicas = ToReplicaList(M)
  BY <1>1, <1>2, <1>3
<1>5. PICK names : names = Known
  OBVIOUS
<1>6. names = Names(M)
  BY <1>3, <1>5 DEF Known, Names
<1>7. /\ \A a : PriorityOf(replicas, a) \in Int /\ PriorityOf(replicas, a) >= -1
      /\ \A a : a \in names <=> PriorityOf(replicas, a) >= 0
      /\ \A a, b \in names : PriorityOf(replicas, a) = PriorityOf(replicas, b) => a = b
  BY <1>4, <1>6, Ranking
<1> QED
  BY <1>5, <1>7

\* The service chooses among four tiers, none of them the empty text.
LEMMA PicksServed ==
  ASSUME NEW p \in Picks
  PROVE  p \in Served /\ p \in DOMAIN TIER_PRIORITY /\ p # Missing /\ Rank(p) >= 1 /\ Rank(p) \in Nat
<1>1. PICK r \in Signals : p = base_pick(r)
  BY DEF Picks
<1>2. p \in {"small", "code", "large", "reasoning"}
  BY <1>1 DEF base_pick
<1>3. p \in Served /\ p \in DOMAIN TIER_PRIORITY
  BY <1>2 DEF Served, TIER_PRIORITY
<1>4. p # Missing
  BY <1>3, FileAssumption
<1>5. Rank(p) \in Nat /\ Rank(p) >= 1
  BY <1>2 DEF Rank, TIER_PRIORITY
<1> QED
  BY <1>3, <1>4, <1>5

\* Nor is what Classify returns.
LEMMA AnswersNamed ==
  ASSUME NEW current, NEW answer \in Answers(current)
  PROVE  answer # Missing
<1>1. Served \subseteq DOMAIN TIER_PRIORITY /\ "small" \in Served
  BY DEF Served, TIER_PRIORITY
<1>2. answer \in Served
  <2>1. CASE answer = "small"
    BY <1>1, <2>1
  <2>2. CASE \E p \in Picks : answer = clamp_up(p, current)
    BY <2>2, PicksServed DEF clamp_up
  <2> QED
    BY <2>1, <2>2 DEF Answers
<1> QED
  BY <1>1, <1>2, FileAssumption

-----------------------------------------------------------------------------
(* The pin *)

\* PinIsHighest is not inductive alone: a router that is up has the list of
\* an accepted file, and a conversation without answers has no pin.
ConfigInv ==
  /\ Current
  /\ status = "up" => Missing \notin answered /\ (answered = {} => pin = Missing)
  /\ PinIsHighest

\* One turn keeps the pin the highest of what was answered.
LEMMA TurnKeepsPin ==
  ASSUME ConfigInv, status = "up", NEW answer \in Answers(pin),
         NEW q, q = Clamp(pin, answer), NEW A, A = answered \cup {answer}
  PROVE  /\ q \in A
         /\ \A a \in (A \cap Known) \ {q} :
              q \in Known /\ PriorityOf(replicas, a) < PriorityOf(replicas, q)
<1> DEFINE pr(a) == PriorityOf(replicas, a)
<1>1. /\ \A a : pr(a) \in Int /\ pr(a) >= -1
      /\ \A a : a \in Known <=> pr(a) >= 0
      /\ \A a, b \in Known : pr(a) = pr(b) => a = b
  BY CurrentRanking DEF ConfigInv
<1>2. answer # Missing
  BY AnswersNamed
<1>3. /\ Missing \notin answered
      /\ answered = {} => pin = Missing
      /\ answered # {} => /\ pin \in answered
                          /\ \A a \in (answered \cap Known) \ {pin} : pin \in Known /\ pr(a) < pr(pin)
  BY DEF ConfigInv, PinIsHighest
<1>4. CASE pin = Missing
  <2>1. answered = {} /\ q = answer
    BY <1>3, <1>4 DEF Clamp
  <2> QED
    BY <2>1
<1>5. CASE pin # Missing
  <2>1. q = IF pr(pin) >= pr(answer) THEN pin ELSE answer
    BY <1>5 DEF Clamp, HigherTier
  <2>2. /\ pin \in answered
        /\ \A a \in (answered \cap Known) \ {pin} : pin \in Known /\ pr(a) < pr(pin)
    BY <1>3, <1>5
  <2>3. q \in A /\ \A a \in (A \cap Known) \ {q} : q \in Known /\ pr(a) < pr(q)
    <3> HIDE DEF pr
    <3>1. q \in A
      BY <2>1, <2>2
    <3>2. ASSUME NEW a \in (A \cap Known) \ {q} PROVE q \in Known /\ pr(a) < pr(q)
      <4>1. CASE pr(pin) >= pr(answer)
        <5>1. q = pin
          BY <2>1, <4>1
        <5>2. CASE a \in answered
          BY <2>2, <3>2, <5>1, <5>2
        <5>3. CASE a = answer
          BY <1>1, <3>2, <4>1, <5>1, <5>3
        <5> QED
          BY <3>2, <5>2, <5>3
      <4>2. CASE ~(pr(pin) >= pr(answer))
        <5>1. q = answer /\ pr(pin) < pr(answer) /\ a \in answered /\ a \in Known
          BY <1>1, <2>1, <3>2, <4>2
        <5>2. answer \in Known
          <6>1. pr(answer) \in Int /\ pr(pin) \in Int /\ pr(pin) >= -1
            BY <1>1
          <6>2. pr(answer) >= 0
            BY <5>1, <6>1
          <6> QED
            BY <1>1, <6>2
        <5>3. a = pin \/ pr(a) < pr(pin)
          BY <2>2, <5>1
        <5>4. pr(a) \in Int /\ pr(pin) \in Int /\ pr(answer) \in Int
          BY <1>1
        <5> QED
          BY <5>1, <5>2, <5>3, <5>4
      <4> QED
        BY <4>1, <4>2
    <3> QED
      BY <3>1, <3>2
  <2> QED
    BY <2>3
<1> QED
  BY <1>4, <1>5

\* Every step of the router or its operator keeps the invariant.
LEMMA ConfigStep == ConfigInv /\ [Next]_vars => ConfigInv'
<1> SUFFICES ASSUME ConfigInv, [Next]_vars PROVE ConfigInv'
  OBVIOUS
<1>1. CASE Stop
  BY <1>1 DEF Stop, ConfigInv, Current, PinIsHighest
<1>2. CASE Turn
  <2>1. /\ status = "up" /\ UNCHANGED <<status, config, replicas>>
        /\ \E answer \in Answers(pin) : pin' = Clamp(pin, answer) /\ answered' = answered \cup {answer}
    BY <1>2 DEF Turn
  <2>2. PICK answer \in Answers(pin) : pin' = Clamp(pin, answer) /\ answered' = answered \cup {answer}
    BY <2>1
  <2>3. /\ pin' \in answered'
        /\ \A a \in (answered' \cap Known) \ {pin'} :
             pin' \in Known /\ PriorityOf(replicas, a) < PriorityOf(replicas, pin')
    BY <2>1, <2>2, TurnKeepsPin
  <2>4. Known' = Known
    BY <2>1 DEF Known
  <2>5. PinIsHighest'
    BY <2>1, <2>3, <2>4 DEF PinIsHighest
  <2>6. Missing \notin answered' /\ answered' # {}
    BY <2>1, <2>2, AnswersNamed DEF ConfigInv
  <2>7. Current'
    BY <2>1 DEF ConfigInv, Current
  <2> QED
    BY <2>5, <2>6, <2>7 DEF ConfigInv
<1>3. ASSUME NEW file \in Files, Load(file) PROVE ConfigInv'
  <2>1. /\ status' = "up" /\ config' = applyDefaults(file) /\ validate(applyDefaults(file))
        /\ replicas' = ToReplicaList(applyDefaults(file).models)
        /\ answered' = {pin} \ {Missing} /\ pin' = pin
    BY <1>3, Zenon DEF Load
  <2>2. Current'
    BY <2>1, Zenon DEF Current
  <2>3. Missing \notin answered' /\ (answered' = {} => pin' = Missing)
    BY <2>1
  <2>4. PinIsHighest'
    BY <2>1 DEF PinIsHighest
  <2> QED
    BY <2>2, <2>3, <2>4 DEF ConfigInv
<1>4. CASE UNCHANGED vars
  BY <1>4 DEF vars, ConfigInv, Current, PinIsHighest, Known
<1> QED
  BY <1>1, <1>2, <1>3, <1>4 DEF Next

\* The invariant holds of every run of the router, over any number of starts
\* with any files.
THEOREM ConfigInvariance == Spec => []ConfigInv
<1>1. Init => ConfigInv
  BY DEF Init, ConfigInv, Current, PinIsHighest
<1> QED
  BY <1>1, ConfigStep, PTL DEF Spec

\* Whatever a file leaves out or sets, a router that starts with it has the
\* positive sizes, rates and times that the other models assume.
THEOREM AssumptionsMetSafe == Spec => []AssumptionsMet
<1>1. ConfigInv => AssumptionsMet
  BY CurrentMeets DEF ConfigInv
<1> QED
  BY <1>1, ConfigInvariance, PTL

\* A conversation is never moved down, whatever tiers the file has and
\* whatever the service answers.
THEOREM PinIsHighestSafe == Spec => []PinIsHighest
<1>1. ConfigInv => PinIsHighest
  BY DEF ConfigInv
<1> QED
  BY <1>1, ConfigInvariance, PTL

-----------------------------------------------------------------------------
(* The two clamps *)

\* A tier that the service's clamp prefers to its choice is one that the
\* router's clamp prefers too.
LEMMA CurrentAgrees == Current => ClampsAgree
<1> SUFFICES ASSUME Current, status = "up", SameOrder,
                    NEW p \in Picks, NEW current \in Known \cup {Missing}
             PROVE  Clamp(current, clamp_up(p, current)) = Clamp(current, p)
  BY DEF ClampsAgree
<1>1. CASE clamp_up(p, current) = p
  BY <1>1
<1>2. CASE clamp_up(p, current) # p
  <2>1. clamp_up(p, current) = current /\ Rank(current) > Rank(p) /\ current \in Served
    BY <1>2 DEF clamp_up
  <2>2. current \in DOMAIN TIER_PRIORITY /\ current # Missing
    BY <2>1, FileAssumption DEF Served, TIER_PRIORITY
  <2>3. p \in DOMAIN TIER_PRIORITY /\ Rank(p) \in Nat
    BY PicksServed
  <2>4. Rank(current) \in Nat
    BY <2>1 DEF Rank, Served, TIER_PRIORITY
  <2>5. /\ \A a : PriorityOf(replicas, a) \in Int /\ PriorityOf(replicas, a) >= -1
        /\ \A a : a \in Known <=> PriorityOf(replicas, a) >= 0
    BY CurrentRanking
  <2>6. PriorityOf(replicas, current) >= PriorityOf(replicas, p)
    <3> DEFINE x == PriorityOf(replicas, current)
               y == PriorityOf(replicas, p)
    <3>1. x \in Int /\ y \in Int /\ y >= -1 /\ x >= -1
      BY <2>5
    <3>2. p \in Known => y < x
      <4>1. SUFFICES ASSUME p \in Known PROVE y < x
        OBVIOUS
      <4>2. current \in Known
        BY <2>2
      <4>3. y < x <=> Rank(p) < Rank(current)
        BY <2>2, <2>3, <4>1, <4>2, Zenon DEF SameOrder
      <4> QED
        BY <2>1, <2>3, <2>4, <4>3
    <3>3. p \notin Known => ~(y >= 0)
      BY <2>5
    <3> HIDE DEF x, y
    <3>4. x >= y
      BY <3>1, <3>2, <3>3
    <3> QED
      BY <3>4 DEF x, y
  <2>7. Clamp(current, p) = current
    BY <2>2, <2>6 DEF Clamp, HigherTier
  <2>8. Clamp(current, current) = current
    BY DEF Clamp, HigherTier
  <2> QED
    BY <2>1, <2>7, <2>8
<1> QED
  BY <1>1, <1>2

\* The service's clamp never changes what the router's clamp would have given
\* as long as the two tables have the same order.
THEOREM ClampsAgreeSafe == Spec => []ClampsAgree
<1>1. ConfigInv => ClampsAgree
  BY CurrentAgrees DEF ConfigInv
<1> QED
  BY <1>1, ConfigInvariance, PTL

-----------------------------------------------------------------------------
(* The tier of a classification *)

\* An accepted list of tiers has exactly one fallback tier.
LEMMA OneFallback ==
  ASSUME NEW models, Proper(models),
         Cardinality({i \in DOMAIN models : models[i].fallback}) = 1
  PROVE  \E f \in Range(models) : f.fallback /\ \A t \in Range(models) : t.fallback => t = f
<1> DEFINE n == Len(models)
           F == {i \in DOMAIN models : models[i].fallback}
<1>1. n \in Nat /\ DOMAIN models = 1 .. n
  BY DEF Proper
<1>2. IsFiniteSet(F)
  <2>1. IsFiniteSet(1 .. n) /\ F \in SUBSET (1 .. n)
    <3>1. \A k \in Nat : IsFiniteSet(1 .. k)
      BY FS_Interval
    <3> HIDE DEF n
    <3> QED
      BY <1>1, <3>1
  <2> HIDE DEF F, n
  <2> QED
    BY <2>1, FS_Subset
<1>3. PICK i : F = {i}
  <2>1. Cardinality(F) = 1
    OBVIOUS
  <2> HIDE DEF F
  <2> QED
    BY <1>2, <2>1, FS_Singleton
<1>4. i \in F
  BY <1>3
<1>5. i \in DOMAIN models /\ models[i].fallback
  BY <1>4
<1>6. \A j \in DOMAIN models : models[j].fallback => j = i
  BY <1>3
<1>7. \A t \in Range(models) : t.fallback => t = models[i]
  BY <1>6 DEF Range
<1>8. models[i] \in Range(models)
  BY <1>5 DEF Range
<1> QED
  BY <1>5, <1>7, <1>8

\* Every tier has a first place in the list, where no earlier entry has its
\* name.
LEMMA FirstPlace ==
  ASSUME NEW models, Proper(models), NEW L, L = ToReplicaList(models), NEW t \in Range(models)
  PROVE  \E k \in DOMAIN L : /\ L[k].tier = t
                             /\ ~ \E j \in 1 .. k - 1 : L[j].tier.name = L[k].tier.name
<1> DEFINE at == {k \in DOMAIN L : L[k].tier = t}
<1>1. /\ Len(L) \in Nat /\ DOMAIN L = 1 .. Len(L)
      /\ \A k \in DOMAIN L : L[k].tier \in Range(models)
      /\ \E k \in DOMAIN L : L[k].tier = t
  BY ReplicaList
<1>2. at \in SUBSET Nat /\ at # {}
  BY <1>1
<1> DEFINE k == Min(at)
<1>3. k \in at /\ \A j \in at : k <= j
  <2> HIDE DEF at
  <2> QED
    BY <1>2, MinOfNat
<1> HIDE DEF k
<1>4. k \in DOMAIN L /\ L[k].tier = t /\ k \in 1 .. Len(L)
  BY <1>1, <1>3
<1>5. ASSUME NEW j \in 1 .. k - 1, L[j].tier.name = L[k].tier.name PROVE FALSE
  <2>1. j \in DOMAIN L /\ j < k /\ j \in Nat /\ k \in Nat
    BY <1>1, <1>4
  <2>2. L[j].tier \in Range(models) /\ L[j].tier.name = t.name
    BY <1>1, <1>4, <1>5, <2>1
  <2>3. L[j].tier = t
    BY <2>2, TiersDiffer
  <2>4. j \in at
    BY <2>1, <2>3
  <2>5. k <= j
    BY <1>3, <2>4
  <2> QED
    BY <2>1, <2>5
<1> QED
  BY <1>4, <1>5

\* TierForClassification on the list that ToReplicaList returns.
LEMMA Selection ==
  ASSUME NEW models, Proper(models), NEW L, L = ToReplicaList(models), NEW result,
         NEW f \in Range(models), f.fallback, \A t \in Range(models) : t.fallback => t = f,
         NEW matches, matches = {t \in Range(models) : ~t.fallback /\ tierMatches(t, result)}
  PROVE  \E c \in Range(models) :
           /\ TierForClassification(L, result) = c.name
           /\ matches = {} => c.fallback
           /\ matches # {} => c \in matches /\ \A u \in matches : c.priority <= u.priority
<1> DEFINE seen(i) == \E j \in 1 .. i - 1 : L[j].tier.name = L[i].tier.name
           hits == {i \in DOMAIN L : ~seen(i) /\ ~L[i].tier.fallback /\ tierMatches(L[i].tier, result)}
           back == {i \in DOMAIN L : L[i].tier.fallback}
<1>1. /\ Len(L) \in Nat /\ DOMAIN L = 1 .. Len(L)
      /\ \A k \in DOMAIN L : L[k].tier \in Range(models)
      /\ \A k, l \in DOMAIN L : k < l => L[k].tier.priority <= L[l].tier.priority
  BY ReplicaList
<1>2. TierForClassification(L, result) =
        IF hits # {} THEN L[Min(hits)].tier.name
        ELSE IF back # {} THEN L[Min(back)].tier.name ELSE LargestTier(L)
  BY DEF TierForClassification
<1>3. \A t \in Range(models) : \E k \in DOMAIN L : L[k].tier = t /\ ~seen(k)
  BY FirstPlace
<1> HIDE DEF seen
<1>4. hits \in SUBSET Nat /\ back \in SUBSET Nat
  BY <1>1
<1>5. \A i \in hits : i \in DOMAIN L /\ L[i].tier \in matches
  BY <1>1
<1>6. \A t \in matches : \E k \in hits : L[k].tier = t
  <2> SUFFICES ASSUME NEW t \in matches PROVE \E k \in hits : L[k].tier = t
    OBVIOUS
  <2>1. PICK k \in DOMAIN L : L[k].tier = t /\ ~seen(k)
    BY <1>3
  <2>2. k \in hits
    BY <2>1
  <2> QED
    BY <2>1, <2>2
<1>7. \A i \in back : i \in DOMAIN L /\ L[i].tier = f
  BY <1>1
<1>8. back # {}
  BY <1>3
<1> HIDE DEF hits, back
<1>9. CASE matches = {}
  <2>1. hits = {}
    BY <1>5, <1>9
  <2>2. Min(back) \in back
    BY <1>4, <1>8, MinOfNat
  <2>3. TierForClassification(L, result) = f.name
    BY <1>2, <1>7, <1>8, <2>1, <2>2
  <2> QED
    BY <1>9, <2>3
<1>10. CASE matches # {}
  <2> DEFINE m == Min(hits)
             c == L[m].tier
  <2>1. hits # {}
    BY <1>6, <1>10
  <2>2. m \in hits /\ \A y \in hits : m <= y
    BY <1>4, <2>1, MinOfNat
  <2>3. TierForClassification(L, result) = c.name
    BY <1>2, <2>1
  <2> HIDE DEF m
  <2>4. c \in matches /\ m \in DOMAIN L
    BY <1>5, <2>2
  <2>5. ASSUME NEW u \in matches PROVE c.priority <= u.priority
    <3>1. PICK k \in hits : L[k].tier = u
      BY <1>6
    <3>2. m <= k /\ k \in DOMAIN L
      BY <1>5, <2>2
    <3>3. m < k \/ m = k
      BY <1>1, <2>4, <3>2
    <3>4. u.priority \in Nat
      BY TiersDiffer
    <3> QED
      BY <1>1, <2>4, <3>1, <3>2, <3>3, <3>4
  <2>6. c \in Range(models)
    BY <2>4
  <2> HIDE DEF c
  <2> QED
    BY <1>10, <2>3, <2>4, <2>5, <2>6
<1> QED
  BY <1>9, <1>10

\* The list in effect selects the tier that the file says.
LEMMA CurrentSelects == Current => SelectsFirstMatch
<1> SUFFICES ASSUME Current, status = "up" PROVE SelectsFirstMatch
  BY DEF SelectsFirstMatch
<1>1. PICK file \in Files : /\ config = applyDefaults(file) /\ validate(config)
                            /\ replicas = ToReplicaList(config.models)
  BY DEF Current
<1>2. PICK M : M = config.models
  OBVIOUS
<1>3. /\ Proper(M) /\ replicas = ToReplicaList(M)
      /\ Cardinality({i \in DOMAIN M : M[i].fallback}) = 1
  BY <1>1, <1>2, Loaded
<1>4. PICK f \in Range(M) : f.fallback /\ \A t \in Range(M) : t.fallback => t = f
  BY <1>3, OneFallback
<1>5. ASSUME NEW result \in Results
      PROVE  LET matches == {t \in Range(M) : ~t.fallback /\ tierMatches(t, result)}
                 chosen  == CHOOSE t \in Range(M) :
                              IF matches = {} THEN t.fallback
                              ELSE t \in matches /\ \A u \in matches : t.priority <= u.priority
             IN  TierForClassification(replicas, result) = chosen.name
  <2> DEFINE matches == {t \in Range(M) : ~t.fallback /\ tierMatches(t, result)}
             Right(t) == IF matches = {} THEN t.fallback
                         ELSE t \in matches /\ \A u \in matches : t.priority <= u.priority
             chosen == CHOOSE t \in Range(M) : Right(t)
  <2>1. matches \subseteq Range(M)
    OBVIOUS
  <2>2. PICK c \in Range(M) : TierForClassification(replicas, result) = c.name /\ Right(c)
    <3>1. PICK S : S = matches
      OBVIOUS
    <3>2. PICK c \in Range(M) :
            /\ TierForClassification(replicas, result) = c.name
            /\ S = {} => c.fallback
            /\ S # {} => c \in S /\ \A u \in S : c.priority <= u.priority
      BY <1>3, <1>4, <3>1, Selection
    <3> HIDE DEF matches
    <3> QED
      BY <3>1, <3>2
  <2> HIDE DEF matches
  <2>3. \A t, u \in Range(M) : Right(t) /\ Right(u) => t = u
    <3> SUFFICES ASSUME NEW t \in Range(M), NEW u \in Range(M), Right(t), Right(u) PROVE t = u
      OBVIOUS
    <3>1. CASE matches = {}
      BY <1>4, <3>1
    <3>2. CASE matches # {}
      <4>1. t.priority <= u.priority /\ u.priority <= t.priority
        BY <3>2
      <4>2. t.priority \in Nat /\ u.priority \in Nat
        BY <1>3, TiersDiffer
      <4>3. t.priority = u.priority
        BY <4>1, <4>2
      <4> QED
        BY <1>3, <4>3, TiersDiffer
    <3> QED
      BY <3>1, <3>2
  <2> HIDE DEF Right
  <2>4. chosen \in Range(M) /\ Right(chosen)
    BY <2>2, Zenon
  <2> HIDE DEF chosen
  <2>5. TierForClassification(replicas, result) = chosen.name
    BY <2>2, <2>3, <2>4
  <2> QED
    BY <2>5, Zenon DEF chosen, Right, matches
<1> QED
  BY <1>2, <1>5, Zenon DEF SelectsFirstMatch

\* A classification selects the tier that the file says, in whatever order the
\* file lists the tiers and for every number of tiers, rules and replicas.
THEOREM SelectsFirstMatchSafe == Spec => []SelectsFirstMatch
<1>1. ConfigInv => SelectsFirstMatch
  BY CurrentSelects DEF ConfigInv
<1> QED
  BY <1>1, ConfigInvariance, PTL

=============================================================================
