----------------------------- MODULE SetLemmas -----------------------------
(***************************************************************************)
(* What the proofs need of finite sets: least counterexamples, extremes,   *)
(* initial segments of an order, recursion which uses a set up member by   *)
(* member, and sums.                                                       *)
(*                                                                         *)
(* An induction over data is a least counterexample here: the sets for     *)
(* which a statement fails have, if there are any, a minimal one           *)
(* (LeastSet), and the numbers a least one (LeastNat).                     *)
(***************************************************************************)
EXTENDS Integers, FiniteSetsExt, Functions, FiniteSetTheorems, TLAPS

\* No proper subset of u is in T.
Minimal(u, T) == \A v \in T : v \subseteq u => v = u

\* Induction over the subsets of a finite set: if some are bad, then one of them
\* is whose proper subsets are not.
LEMMA LeastSet ==
    ASSUME NEW S, IsFiniteSet(S), NEW T, T \subseteq SUBSET S, T # {}
    PROVE  \E u \in T : Minimal(u, T)
<1>1. IsWellFoundedOn(StrictSubsetOrdering(S), SUBSET S)
  BY FS_StrictSubsetOrderingWellFounded, FS_FiniteSubsetsOfFinite, Zenon
<1>2. PICK u \in T : \A v \in T : ~ (<< v, u >> \in StrictSubsetOrdering(S))
  BY <1>1, WFMin, Zenon
<1>3. \A v \in T : v \subseteq u => v = u
  BY <1>2 DEF StrictSubsetOrdering
<1> QED BY <1>3 DEF Minimal

\* A finite set of integers has a least and a greatest member.
LEMMA FiniteExtremes ==
    ASSUME NEW S \in SUBSET Int, IsFiniteSet(S), S # {}
    PROVE  /\ Min(S) \in S /\ \A y \in S : Min(S) <= y
           /\ Max(S) \in S /\ \A y \in S : Max(S) >= y
<1> DEFINE Above(x) == {y \in S : y > x}
<1> DEFINE Under(x) == {y \in S : y < x}
<1>1. \E x \in S : \A y \in S : y >= x
  <2> DEFINE T == {Under(x) : x \in S}
  <2>1. T \subseteq SUBSET S /\ T # {}
    OBVIOUS
  <2>2. PICK u \in T : Minimal(u, T)
    <3> HIDE DEF T
    <3> QED BY <2>1, LeastSet, Zenon
  <2>3. PICK x \in S : u = Under(x)
    OBVIOUS
  <2>4. ASSUME NEW y \in S, ~(y >= x) PROVE FALSE
    <3>1. Under(y) \in T
      OBVIOUS
    <3> HIDE DEF T
    <3>2. x \in Int /\ y \in Int /\ \A z \in S : z \in Int
      OBVIOUS
    <3>3. y < x
      BY <2>4, <3>2
    <3>4. \A z \in S : z < y => z < x
      BY <3>2, <3>3
    <3>5. ~(y < y)
      BY <3>2
    <3>6. Under(y) \subseteq Under(x) /\ y \in Under(x) /\ y \notin Under(y)
      BY <3>3, <3>4, <3>5, Zenon
    <3> QED BY <2>2, <2>3, <3>1, <3>6, Zenon DEF Minimal
  <2> QED BY <2>4
<1>2. \E x \in S : \A y \in S : y <= x
  <2> DEFINE T == {Above(x) : x \in S}
  <2>1. T \subseteq SUBSET S /\ T # {}
    OBVIOUS
  <2>2. PICK u \in T : Minimal(u, T)
    <3> HIDE DEF T
    <3> QED BY <2>1, LeastSet, Zenon
  <2>3. PICK x \in S : u = Above(x)
    OBVIOUS
  <2>4. ASSUME NEW y \in S, ~(y <= x) PROVE FALSE
    <3>1. Above(y) \in T
      OBVIOUS
    <3> HIDE DEF T
    <3>2. x \in Int /\ y \in Int /\ \A z \in S : z \in Int
      OBVIOUS
    <3>3. y > x
      BY <2>4, <3>2
    <3>4. \A z \in S : z > y => z > x
      BY <3>2, <3>3
    <3>5. ~(y > y)
      BY <3>2
    <3>6. Above(y) \subseteq Above(x) /\ y \in Above(x) /\ y \notin Above(y)
      BY <3>3, <3>4, <3>5, Zenon
    <3> QED BY <2>2, <2>3, <3>1, <3>6, Zenon DEF Minimal
  <2> QED BY <2>4
<1>3. \E x \in S : \A y \in S : x <= y
  BY <1>1
<1>4. \E x \in S : \A y \in S : x >= y
  BY <1>2
<1>5. Min(S) \in S /\ \A y \in S : Min(S) <= y
  BY <1>3, Zenon DEF Min
<1>6. Max(S) \in S /\ \A y \in S : Max(S) >= y
  BY <1>4, Zenon DEF Max
<1> QED BY <1>5, <1>6

\* A nonempty set of natural numbers has a least member.
LEMMA LeastNat ==
    ASSUME NEW T \in SUBSET Nat, T # {}
    PROVE  \E n \in T : \A m \in T : n <= m
<1>1. PICK n \in T : \A m \in T : ~ (<< m, n >> \in OpToRel(<, Nat))
  BY NatLessThanWellFounded, WFMin, Zenon
<1>2. \A m \in T : n <= m
  <2> SUFFICES ASSUME NEW m \in T, m < n PROVE FALSE
    OBVIOUS
  <2>1. << m, n >> \in OpToRel(<, Nat)
    BY DEF OpToRel
  <2> QED BY <1>1, <2>1
<1> QED BY <1>2

\* next[u] is smaller than u.
Descends(S, next) ==
    \A u \in SUBSET S : u # {} => next[u] \subseteq u /\ next[u] # u

\* f[u] is computed from f[next[u]].
Recurs(S, base, next, step, f) ==
    f = [u \in SUBSET S |-> IF u = {} THEN base ELSE step[u][f[next[u]]]]

\* A recursive function over the subsets of a finite set is defined, and has
\* values of the type which its steps keep to.
LEMMA SubsetRecursion ==
    ASSUME NEW S, IsFiniteSet(S), NEW V, NEW base \in V,
           NEW next \in [SUBSET S -> SUBSET S], Descends(S, next),
           NEW step \in [SUBSET S -> [V -> V]]
    PROVE  \E f \in [SUBSET S -> V] : Recurs(S, base, next, step, f)
<1> USE DEF Descends
<1> DEFINE Solves(f, u) ==
       \A w \in SUBSET u : f[w] = IF w = {} THEN base ELSE step[w][f[next[w]]]
<1> DEFINE Bad == {u \in SUBSET S : ~ \E f \in [SUBSET S -> V] : Solves(f, u)}
<1> DEFINE Differ == {u \in SUBSET S : \E f, g \in [SUBSET S -> V] :
                            Solves(f, u) /\ Solves(g, u) /\ f[u] # g[u]}
<1>1. Differ = {}
  <2> SUFFICES ASSUME Differ # {} PROVE FALSE
    OBVIOUS
  <2>1. PICK u \in Differ : Minimal(u, Differ)
    <3> Differ \subseteq SUBSET S
      OBVIOUS
    <3> HIDE DEF Differ
    <3> QED BY LeastSet, Zenon
  <2>2. PICK f \in [SUBSET S -> V], g \in [SUBSET S -> V] :
            Solves(f, u) /\ Solves(g, u) /\ f[u] # g[u]
    OBVIOUS
  <2>3. u # {}
    BY <2>2
  <2>4. next[u] \in SUBSET u /\ next[u] # u
    BY <2>3
  <2>5. next[u] \notin Differ
    BY <2>1, <2>4 DEF Minimal
  <2>6. Solves(f, next[u]) /\ Solves(g, next[u])
    BY <2>2, <2>4
  <2>7. f[next[u]] = g[next[u]]
    BY <2>5, <2>6
  <2> QED BY <2>2, <2>3, <2>7
<1>2. Bad = {}
  <2> SUFFICES ASSUME Bad # {} PROVE FALSE
    OBVIOUS
  <2>1. PICK u \in Bad : Minimal(u, Bad)
    <3> Bad \subseteq SUBSET S
      OBVIOUS
    <3> HIDE DEF Bad
    <3> QED BY LeastSet, Zenon
  <2> DEFINE Sol(w) == CHOOSE f \in [SUBSET S -> V] : Solves(f, w)
  <2>2. \A w \in SUBSET u : w # u => Sol(w) \in [SUBSET S -> V] /\ Solves(Sol(w), w)
    <3> SUFFICES ASSUME NEW w \in SUBSET u, w # u
                 PROVE  \E f \in [SUBSET S -> V] : Solves(f, w)
      OBVIOUS
    <3> QED BY <2>1 DEF Minimal
  <2> HIDE DEF Sol
  <2> DEFINE h0 == [w \in SUBSET S |-> IF w \in SUBSET u /\ w # u THEN Sol(w)[w] ELSE base]
  <2> DEFINE h == [h0 EXCEPT ![u] = IF u = {} THEN base ELSE step[u][h0[next[u]]]]
  <2>3. h0 \in [SUBSET S -> V]
    BY <2>2
  <2>4. h \in [SUBSET S -> V]
    BY <2>3
  <2>5. \A w \in SUBSET u : h[w] = IF w = {} THEN base ELSE step[w][h[next[w]]]
    <3> SUFFICES ASSUME NEW w \in SUBSET u
                 PROVE  h[w] = IF w = {} THEN base ELSE step[w][h[next[w]]]
      OBVIOUS
    <3>1. CASE w = u
      <4>1. u # {} => next[u] \in SUBSET S /\ next[u] # u
        OBVIOUS
      <4>2. u # {} => h[next[u]] = h0[next[u]]
        BY <4>1
      <4> QED BY <3>1, <4>2
    <3>2. CASE w # u
      <4>1. h[w] = Sol(w)[w]
        BY <3>2
      <4>2. Solves(Sol(w), w) /\ Sol(w) \in [SUBSET S -> V]
        BY <2>2, <3>2
      <4>3. Sol(w)[w] = IF w = {} THEN base ELSE step[w][Sol(w)[next[w]]]
        BY <4>2
      <4>4. CASE w = {}
        BY <4>1, <4>3, <4>4
      <4>5. CASE w # {}
        <5>1. next[w] \in SUBSET w /\ next[w] # w /\ next[w] # u /\ next[w] \in SUBSET u
          BY <4>5, <3>2
        <5>2. h[next[w]] = Sol(next[w])[next[w]]
          BY <5>1
        <5>3. Solves(Sol(w), next[w])
          BY <4>2, <5>1
        <5>4. Solves(Sol(next[w]), next[w]) /\ Sol(next[w]) \in [SUBSET S -> V]
          BY <2>2, <5>1
        <5>5. next[w] \notin Differ
          BY <1>1
        <5>6. Sol(w)[next[w]] = Sol(next[w])[next[w]]
          BY <5>3, <5>4, <5>5, <4>2
        <5> QED BY <4>1, <4>3, <4>5, <5>2, <5>6
      <4> QED BY <4>4, <4>5
    <3> QED BY <3>1, <3>2
  <2>6. Solves(h, u)
    BY <2>5
  <2> QED BY <2>4, <2>6
<1>3. PICK f \in [SUBSET S -> V] : Solves(f, S)
  BY <1>2
<1>4. f = [u \in SUBSET S |-> IF u = {} THEN base ELSE step[u][f[next[u]]]]
  BY <1>3
<1> QED BY <1>4 DEF Recurs

\* below[c] are the members which come before c.
Orders(S, below) ==
    /\ below \in [S -> SUBSET S]
    /\ \A c \in S : c \notin below[c]
    /\ \A c, d \in S : c # d => \/ below[c] \cup {c} \subseteq below[d]
                                \/ below[d] \cup {d} \subseteq below[c]

\* The first k members.
Segment(S, below, k) == {c \in S : Cardinality(below[c]) < k}

\* There are k of them, unless there are fewer members.
LEMMA InitialSegment ==
    ASSUME NEW S, IsFiniteSet(S), NEW below, Orders(S, below), NEW k \in Nat
    PROVE  /\ Segment(S, below, k) \subseteq S
           /\ IsFiniteSet(Segment(S, below, k))
           /\ Cardinality(Segment(S, below, k)) =
                  IF k <= Cardinality(S) THEN k ELSE Cardinality(S)
<1> USE DEF Orders
<1> DEFINE n == Cardinality(S)
<1> DEFINE rank == [c \in S |-> Cardinality(below[c])]
<1> DEFINE segment == {c \in S : Cardinality(below[c]) < k}
<1>1. n \in Nat
  BY FS_CardinalityType
<1>2. \A c \in S : IsFiniteSet(below[c]) /\ rank[c] \in 0..n-1
  <2> SUFFICES ASSUME NEW c \in S
               PROVE  IsFiniteSet(below[c]) /\ rank[c] \in 0..n-1
    OBVIOUS
  <2>1. IsFiniteSet(below[c]) /\ Cardinality(below[c]) <= n /\ Cardinality(below[c]) # n
    <3>1. below[c] \in SUBSET S /\ below[c] # S
      OBVIOUS
    <3> QED BY <3>1, FS_Subset
  <2>2. Cardinality(below[c]) \in Nat
    BY <2>1, FS_CardinalityType
  <2> QED BY <1>1, <2>1, <2>2
<1>3. \A c, d \in S : below[c] \cup {c} \subseteq below[d] => rank[c] < rank[d]
  <2> SUFFICES ASSUME NEW c \in S, NEW d \in S, below[c] \cup {c} \subseteq below[d]
               PROVE  rank[c] < rank[d]
    OBVIOUS
  <2>1. IsFiniteSet(below[d]) /\ below[c] \in SUBSET below[d] /\ below[c] # below[d]
    BY <1>2
  <2>2. Cardinality(below[c]) <= Cardinality(below[d])
        /\ Cardinality(below[d]) # Cardinality(below[c])
    BY <2>1, FS_Subset
  <2> QED BY <1>1, <1>2, <2>2
<1> HIDE DEF n
<1>4. rank \in Injection(S, 0..n-1)
  <2>1. rank \in [S -> 0..n-1]
    BY <1>2
  <2>2. \A c, d \in S : c # d => rank[c] # rank[d]
    <3> SUFFICES ASSUME NEW c \in S, NEW d \in S, c # d
                 PROVE  rank[c] # rank[d]
      OBVIOUS
    <3>1. rank[c] < rank[d] \/ rank[d] < rank[c]
      BY <1>3
    <3>2. rank[c] \in Int /\ rank[d] \in Int
      BY <1>1, <1>2
    <3> HIDE DEF rank
    <3> QED BY <3>1, <3>2
  <2> HIDE DEF rank
  <2> QED BY <2>1, <2>2 DEF Injection, IsInjective
<1>5. IsFiniteSet(0..n-1) /\ Cardinality(0..n-1) = n
  BY <1>1, FS_Interval
<1>6. rank \in Surjection(S, 0..n-1)
  BY <1>4, <1>5, FS_Injection DEF n
<1> DEFINE m == IF k <= n THEN k ELSE n
<1> DEFINE part == [c \in segment |-> rank[c]]
<1>7. part \in Bijection(segment, 0..m-1)
  <2>1. part \in [segment -> 0..m-1]
    BY <1>1, <1>2
  <2>2. \A c, d \in segment : part[c] = part[d] => c = d
    BY <1>4 DEF Injection, IsInjective
  <2>3. \A i \in 0..m-1 : \E c \in segment : part[c] = i
    <3> SUFFICES ASSUME NEW i \in 0..m-1
                 PROVE  \E c \in segment : part[c] = i
      OBVIOUS
    <3>1. i \in 0..n-1 /\ i < k
      BY <1>1
    <3>2. PICK c \in S : rank[c] = i
      BY <1>6, <3>1 DEF Surjection
    <3>3. c \in segment
      BY <3>1, <3>2
    <3> QED BY <3>2, <3>3
  <2> HIDE DEF part, segment, m
  <2> QED BY <2>1, <2>2, <2>3 DEF Bijection, Injection, Surjection, IsInjective
<1>8. m \in Nat
  BY <1>1
<1>9. IsFiniteSet(segment)
  BY FS_Subset
<1>10. Cardinality(segment) = m
  <2> HIDE DEF m, segment, part
  <2>1. ExistsBijection(segment, 0..m-1)
    BY <1>7 DEF ExistsBijection
  <2>2. Cardinality(0..m-1) = m
    BY <1>8, FS_Interval
  <2> QED BY <1>9, <2>1, <2>2, FS_Bijection
<1> QED BY <1>9, <1>10 DEF n, Segment

\* The k least members of a set of numbers: k of them, unless there are fewer.
LEMMA LeastMembers ==
    ASSUME NEW S \in SUBSET Int, IsFiniteSet(S), NEW k \in Nat
    PROVE  LET least == {c \in S : Cardinality({d \in S : d < c}) < k}
           IN  /\ IsFiniteSet(least)
               /\ Cardinality(least) = IF k <= Cardinality(S) THEN k ELSE Cardinality(S)
<1> DEFINE below == [c \in S |-> {d \in S : d < c}]
<1>1. below \in [S -> SUBSET S] /\ \A c \in S : c \notin below[c]
  OBVIOUS
<1>2. \A c, d \in S : c # d => \/ below[c] \cup {c} \subseteq below[d]
                               \/ below[d] \cup {d} \subseteq below[c]
  <2> SUFFICES ASSUME NEW c \in S, NEW d \in S, c # d
               PROVE  \/ below[c] \cup {c} \subseteq below[d]
                      \/ below[d] \cup {d} \subseteq below[c]
    OBVIOUS
  <2>1. c \in Int /\ d \in Int /\ \A e \in S : e \in Int
    OBVIOUS
  <2>2. ASSUME NEW x \in S, NEW y \in S, x < y
        PROVE  below[x] \cup {x} \subseteq below[y]
    <3>1. \A e \in S : e < x => e < y
      BY <2>1, <2>2
    <3> QED BY <2>2, <3>1
  <2>3. c < d \/ d < c
    BY <2>1
  <2> HIDE DEF below
  <2> QED BY <2>2, <2>3
<1>3. {c \in S : Cardinality({d \in S : d < c}) < k} = Segment(S, below, k)
  BY DEF Segment
<1> HIDE DEF below
<1>4. Orders(S, below)
  BY <1>1, <1>2 DEF Orders
<1>5. /\ IsFiniteSet(Segment(S, below, k))
      /\ Cardinality(Segment(S, below, k)) = IF k <= Cardinality(S) THEN k ELSE Cardinality(S)
  BY <1>4, InitialSegment
<1> QED BY <1>3, <1>5, Zenon

\* Pairs hold at most two members each, and disjoint ones exactly two.
LEMMA UnionOfPairs ==
    ASSUME NEW C, IsFiniteSet(C), \A p \in C : IsFiniteSet(p) /\ Cardinality(p) <= 2
    PROVE  /\ IsFiniteSet(UNION C)
           /\ Cardinality(UNION C) <= 2 * Cardinality(C)
           /\ (\A p \in C : Cardinality(p) = 2) /\ (\A p, q \in C : p # q => p \cap q = {})
                  => Cardinality(UNION C) = 2 * Cardinality(C)
<1> DEFINE Disjoint == /\ \A p \in C : Cardinality(p) = 2
                       /\ \A p, q \in C : p # q => p \cap q = {}
<1> DEFINE Good(u) == /\ Cardinality(UNION u) <= 2 * Cardinality(u)
                      /\ Disjoint => Cardinality(UNION u) = 2 * Cardinality(u)
<1> DEFINE Bad == {u \in SUBSET C : ~ Good(u)}
<1>1. \A u \in SUBSET C : /\ IsFiniteSet(u) /\ Cardinality(u) \in Nat
                          /\ IsFiniteSet(UNION u) /\ Cardinality(UNION u) \in Nat
  <2> SUFFICES ASSUME NEW u \in SUBSET C
               PROVE  /\ IsFiniteSet(u) /\ Cardinality(u) \in Nat
                      /\ IsFiniteSet(UNION u) /\ Cardinality(UNION u) \in Nat
    OBVIOUS
  <2>1. IsFiniteSet(u)
    BY FS_Subset
  <2>2. IsFiniteSet(UNION u)
    <3>1. \A p \in u : IsFiniteSet(p)
      OBVIOUS
    <3> QED BY <2>1, <3>1, FS_UNION, Zenon
  <2> QED BY <2>1, <2>2, FS_CardinalityType
<1>2. Bad = {}
  <2> SUFFICES ASSUME Bad # {} PROVE FALSE
    OBVIOUS
  <2>1. PICK u \in Bad : Minimal(u, Bad)
    <3> Bad \subseteq SUBSET C
      OBVIOUS
    <3> HIDE DEF Bad
    <3> QED BY LeastSet, Zenon
  <2>2. u \in SUBSET C /\ u # {}
    <3>1. Cardinality({}) = 0
      BY FS_EmptySet
    <3>2. Cardinality(UNION {}) = 0
      <4>1. UNION {} = {}
        OBVIOUS
      <4> QED BY <3>1, <4>1
    <3>3. Good({})
      BY <3>1, <3>2
    <3> HIDE DEF Good
    <3> QED BY <3>3
  <2>3. PICK p \in u : TRUE
    BY <2>2
  <2> DEFINE v == u \ {p}
  <2>4. v \in SUBSET C /\ Good(v)
    <3> HIDE DEF Good
    <3> QED BY <2>1, <2>2, <2>3 DEF Minimal
  <2>5. Cardinality(u) = Cardinality(v) + 1
    <3>1. IsFiniteSet(u) /\ Cardinality(u) \in Nat
      BY <1>1, <2>2
    <3>2. Cardinality(v) = Cardinality(u) - 1
      BY <2>3, <3>1, FS_RemoveElement
    <3> HIDE DEF v
    <3> QED BY <3>1, <3>2
  <2>6. UNION u = p \cup UNION v
    BY <2>3
  <2>7. IsFiniteSet(p) /\ Cardinality(p) \in Nat /\ Cardinality(p) <= 2
    BY <2>2, <2>3, FS_CardinalityType
  <2>8. /\ Cardinality(UNION u) =
               Cardinality(p) + Cardinality(UNION v) - Cardinality(p \cap UNION v)
        /\ IsFiniteSet(p \cap UNION v)
    <3>1. IsFiniteSet(UNION v)
      BY <1>1, <2>4
    <3> HIDE DEF v
    <3> QED BY <2>6, <2>7, <3>1, FS_Union, FS_Intersection
  <2>9. Cardinality(p \cap UNION v) \in Nat
    BY <2>8, FS_CardinalityType
  <2>10. Disjoint => Cardinality(p) = 2 /\ Cardinality(p \cap UNION v) = 0
    <3>1. Disjoint => p \cap UNION v = {} /\ Cardinality(p) = 2
      BY <2>2, <2>3
    <3> HIDE DEF Disjoint
    <3> QED BY <3>1, FS_EmptySet
  <2>11. /\ Cardinality(u) \in Nat /\ Cardinality(v) \in Nat
         /\ Cardinality(UNION u) \in Nat /\ Cardinality(UNION v) \in Nat
    BY <1>1, <2>2, <2>4
  <2>12. Good(u)
    <3> HIDE DEF v, Disjoint
    <3> QED BY <2>4, <2>5, <2>7, <2>8, <2>9, <2>10, <2>11
  <2> HIDE DEF Good
  <2> QED BY <2>1, <2>12
<1>3. Good(C)
  BY <1>2
<1> QED BY <1>1, <1>3

\* The sum of a function over a finite set is taken member by member.
LEMMA SumTaken ==
    ASSUME NEW D, IsFiniteSet(D), NEW f \in [D -> Int]
    PROVE  \E sum \in [SUBSET D -> Int] :
               /\ sum = [u \in SUBSET D |->
                             IF u = {} THEN 0
                             ELSE f[CHOOSE x \in u : TRUE]
                                      + sum[u \ {CHOOSE x \in u : TRUE}]]
               /\ SumFunction(f) = sum[D]
<1> DEFINE pick(u) == CHOOSE x \in u : TRUE
<1> DEFINE next == [u \in SUBSET D |-> u \ {pick(u)}]
<1> DEFINE step == [u \in SUBSET D |-> [v \in Int |-> IF u = {} THEN 0 ELSE f[pick(u)] + v]]
<1>1. \A u \in SUBSET D : u # {} => pick(u) \in u
  OBVIOUS
<1> HIDE DEF pick
<1>2. next \in [SUBSET D -> SUBSET D]
        /\ \A u \in SUBSET D : u # {} => next[u] \subseteq u /\ next[u] # u
  BY <1>1
<1>3. step \in [SUBSET D -> [Int -> Int]]
  BY <1>1
<1>4. PICK sum \in [SUBSET D -> Int] : Recurs(D, 0, next, step, sum)
  <2>1. 0 \in Int
    OBVIOUS
  <2>2. next \in [SUBSET D -> SUBSET D] /\ Descends(D, next)
    BY <1>2 DEF Descends
  <2> HIDE DEF next, step
  <2> QED BY <1>3, <2>1, <2>2, SubsetRecursion, Zenon
<1> DEFINE Sums(it) == it = [u \in SUBSET D |->
                             IF u = {} THEN 0
                             ELSE f[CHOOSE x \in u : TRUE]
                                      + it[u \ {CHOOSE x \in u : TRUE}]]
<1>5. Sums(sum)
  <2>1. \A u \in SUBSET D : u # {} => step[u][sum[next[u]]] = f[pick(u)] + sum[u \ {pick(u)}]
    BY <1>1, <1>2
  <2>2. sum = [u \in SUBSET D |-> IF u = {} THEN 0 ELSE f[pick(u)] + sum[u \ {pick(u)}]]
    <3> HIDE DEF next, step
    <3> QED BY <1>4, <2>1 DEF Recurs
  <2> QED BY <2>2 DEF pick
<1> DEFINE iter == CHOOSE it : Sums(it)
<1>6. Sums(iter)
  BY <1>5
<1>7. SumFunction(f) = iter[D]
  BY DEF SumFunction, SumFunctionOnSet, FoldFunctionOnSet, MapThenFoldSet
<1>8. iter \in [SUBSET D -> Int]
  <2> DEFINE Bad == {u \in SUBSET D : iter[u] \notin Int}
  <2> SUFFICES Bad = {}
    BY <1>6
  <2> SUFFICES ASSUME Bad # {} PROVE FALSE
    OBVIOUS
  <2>1. PICK u \in Bad : Minimal(u, Bad)
    <3> Bad \subseteq SUBSET D
      OBVIOUS
    <3> HIDE DEF Bad
    <3> QED BY LeastSet, Zenon
  <2> HIDE DEF iter
  <2>2. u # {} /\ pick(u) \in u
    BY <1>1, <1>6
  <2>3. u \ {pick(u)} \notin Bad /\ u \ {pick(u)} \in SUBSET D
    BY <2>1, <2>2 DEF Minimal
  <2>4. iter[u] = f[pick(u)] + iter[u \ {pick(u)}]
    BY <1>6, <2>2 DEF pick
  <2>5. iter[u \ {pick(u)}] \in Int /\ f[pick(u)] \in Int
    BY <2>2, <2>3
  <2> QED BY <2>4, <2>5
<1> QED BY <1>6, <1>7, <1>8

\* A sum of integers is one.
LEMMA SumType ==
    ASSUME NEW D, IsFiniteSet(D), NEW f \in [D -> Int]
    PROVE  SumFunction(f) \in Int
<1>1. PICK sum \in [SUBSET D -> Int] : SumFunction(f) = sum[D]
  <2>1. PICK sum \in [SUBSET D -> Int] :
            /\ sum = [u \in SUBSET D |->
                         IF u = {} THEN 0
                         ELSE f[CHOOSE y \in u : TRUE] + sum[u \ {CHOOSE y \in u : TRUE}]]
            /\ SumFunction(f) = sum[D]
    BY SumTaken
  <2> QED BY <2>1
<1> QED BY <1>1

\* Nothing adds up to 0.
LEMMA SumEmpty ==
    ASSUME NEW f \in [{} -> Int]
    PROVE  SumFunction(f) = 0
<1>1. PICK sum \in [SUBSET {} -> Int] :
          /\ sum = [u \in SUBSET {} |->
                       IF u = {} THEN 0
                       ELSE f[CHOOSE x \in u : TRUE] + sum[u \ {CHOOSE x \in u : TRUE}]]
          /\ SumFunction(f) = sum[{}]
  BY SumTaken, FS_EmptySet, Zenon
<1>2. sum[{}] = 0
  BY <1>1
<1> QED BY <1>1, <1>2

\* A single summand is the sum.
LEMMA SumSingle ==
    ASSUME NEW x, NEW f \in [{x} -> Int]
    PROVE  SumFunction(f) = f[x]
<1>1. IsFiniteSet({x})
  BY FS_Singleton
<1>2. PICK sum \in [SUBSET {x} -> Int] :
          /\ sum = [u \in SUBSET {x} |->
                        IF u = {} THEN 0
                        ELSE f[CHOOSE y \in u : TRUE] + sum[u \ {CHOOSE y \in u : TRUE}]]
          /\ SumFunction(f) = sum[{x}]
  BY <1>1, SumTaken
<1>3. (CHOOSE y \in {x} : TRUE) = x
  OBVIOUS
<1>4. sum[{}] = 0 /\ sum[{x}] = f[x] + sum[{x} \ {x}]
  BY <1>2, <1>3
<1> QED BY <1>2, <1>4

\* A sum changes by what one member changes.
LEMMA SumUpdate ==
    ASSUME NEW D, IsFiniteSet(D), NEW f \in [D -> Int], NEW g \in [D -> Int],
           NEW x \in D, \A d \in D : d # x => g[d] = f[d]
    PROVE  SumFunction(g) = SumFunction(f) - f[x] + g[x]
<1>1. PICK sf \in [SUBSET D -> Int] :
          /\ sf = [u \in SUBSET D |->
                       IF u = {} THEN 0
                       ELSE f[CHOOSE y \in u : TRUE] + sf[u \ {CHOOSE y \in u : TRUE}]]
          /\ SumFunction(f) = sf[D]
  BY SumTaken
<1>2. PICK sg \in [SUBSET D -> Int] :
          /\ sg = [u \in SUBSET D |->
                       IF u = {} THEN 0
                       ELSE g[CHOOSE y \in u : TRUE] + sg[u \ {CHOOSE y \in u : TRUE}]]
          /\ SumFunction(g) = sg[D]
  BY SumTaken
<1> DEFINE Bad == {u \in SUBSET D : sg[u] # sf[u] + (IF x \in u THEN g[x] - f[x] ELSE 0)}
<1>3. Bad = {}
  <2> SUFFICES ASSUME Bad # {} PROVE FALSE
    OBVIOUS
  <2>1. PICK u \in Bad : Minimal(u, Bad)
    <3> Bad \subseteq SUBSET D
      OBVIOUS
    <3> HIDE DEF Bad
    <3> QED BY LeastSet, Zenon
  <2>2. u # {}
    BY <1>1, <1>2
  <2> DEFINE y == CHOOSE y \in u : TRUE
  <2>3. y \in u /\ y \in D
    BY <2>2
  <2>4. sf[u] = f[y] + sf[u \ {y}] /\ sg[u] = g[y] + sg[u \ {y}]
    BY <1>1, <1>2, <2>2
  <2> HIDE DEF y
  <2>5. u \ {y} \in SUBSET D /\ u \ {y} \notin Bad
    BY <2>1, <2>3 DEF Minimal
  <2>6. sg[u \ {y}] = sf[u \ {y}] + (IF x \in u \ {y} THEN g[x] - f[x] ELSE 0)
    BY <2>5
  <2>7. sg[u] = sf[u] + (IF x \in u THEN g[x] - f[x] ELSE 0)
    <3>1. f[y] \in Int /\ g[y] \in Int /\ f[x] \in Int /\ g[x] \in Int
             /\ sf[u \ {y}] \in Int
      BY <2>3, <2>5
    <3>2. CASE x = y
      BY <2>3, <2>4, <2>6, <3>1, <3>2
    <3>3. CASE x # y
      <4>1. g[y] = f[y] /\ (x \in u <=> x \in u \ {y})
        BY <2>3, <3>3
      <4> QED BY <2>4, <2>6, <3>1, <4>1
    <3> QED BY <3>2, <3>3
  <2> QED BY <2>7
<1>4. sg[D] = sf[D] + (g[x] - f[x])
  BY <1>3
<1> QED BY <1>1, <1>2, <1>4

\* A sum of naturals is one.
LEMMA SumNat ==
    ASSUME NEW D, IsFiniteSet(D), NEW f \in [D -> Nat]
    PROVE  SumFunction(f) \in Nat
<1>1. f \in [D -> Int]
  OBVIOUS
<1>2. PICK sum \in [SUBSET D -> Int] :
          /\ sum = [u \in SUBSET D |->
                       IF u = {} THEN 0
                       ELSE f[CHOOSE y \in u : TRUE] + sum[u \ {CHOOSE y \in u : TRUE}]]
          /\ SumFunction(f) = sum[D]
  BY <1>1, SumTaken
<1> DEFINE Bad == {u \in SUBSET D : sum[u] \notin Nat}
<1>3. Bad = {}
  <2> SUFFICES ASSUME Bad # {} PROVE FALSE
    OBVIOUS
  <2>1. PICK u \in Bad : Minimal(u, Bad)
    <3> Bad \subseteq SUBSET D
      OBVIOUS
    <3> HIDE DEF Bad
    <3> QED BY LeastSet, Zenon
  <2>2. u # {}
    BY <1>2
  <2> DEFINE y == CHOOSE y \in u : TRUE
  <2>3. y \in u /\ y \in D
    BY <2>2
  <2>4. sum[u] = f[y] + sum[u \ {y}]
    BY <1>2, <2>2
  <2> HIDE DEF y
  <2>5. u \ {y} \in SUBSET D /\ u \ {y} \notin Bad
    BY <2>1, <2>3 DEF Minimal
  <2> QED BY <2>3, <2>4, <2>5
<1> QED BY <1>2, <1>3

\* A sum of natural numbers is at least each of them.
LEMMA SumAtLeast ==
    ASSUME NEW D, IsFiniteSet(D), NEW f \in [D -> Nat], NEW x \in D
    PROVE  SumFunction(f) >= f[x]
<1> DEFINE g == [f EXCEPT ![x] = 0]
<1>1. g \in [D -> Nat] /\ g[x] = 0 /\ f \in [D -> Int] /\ g \in [D -> Int]
        /\ \A d \in D : d # x => f[d] = g[d]
  OBVIOUS
<1> HIDE DEF g
<1>2. SumFunction(f) = SumFunction(g) - g[x] + f[x]
  BY <1>1, SumUpdate
<1>3. SumFunction(g) \in Nat
  BY <1>1, SumNat
<1> QED BY <1>1, <1>2, <1>3
=============================================================================
