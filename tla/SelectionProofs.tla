--------------------------- MODULE SelectionProofs ---------------------------
(***************************************************************************)
(* Proofs about modules CpuSelection and CpuRanges, as theorems of the     *)
(* specification MCSelection which checks them: for every host and every   *)
(* sibling map, count, percentage and set of CPUs.                         *)
(***************************************************************************)
EXTENDS MCSelection, SetLemmas, SequenceTheorems

-----------------------------------------------------------------------------
(* The lowest members                                                      *)

\* sorted(S)[:k] has k members, or all there are.
LEMMA LowestSize ==
    ASSUME NEW S \in SUBSET Int, IsFiniteSet(S), NEW k \in Nat
    PROVE  /\ Lowest(S, k) \subseteq S
           /\ IsFiniteSet(Lowest(S, k))
           /\ Cardinality(Lowest(S, k)) = IF k <= Cardinality(S) THEN k ELSE Cardinality(S)
<1>1. Lowest(S, k) \subseteq S
  BY DEF Lowest
<1> QED BY <1>1, LeastMembers, FS_Subset DEF Lowest

-----------------------------------------------------------------------------
(* The groups of siblings                                                  *)

\* Disjoint nonempty groups which make up a set.
Partitions(groups, S) ==
    /\ groups \in Seq(SUBSET S)
    /\ \A i \in DOMAIN groups : groups[i] # {}
    /\ \A i, j \in DOMAIN groups : i # j => groups[i] \cap groups[j] = {}
    /\ \A c \in S : \E i \in DOMAIN groups : c \in groups[i]

\* Before a partition, one more group.
LEMMA PartitionGrows ==
    ASSUME NEW S, NEW first \in SUBSET S, first # {},
           NEW groups, Partitions(groups, S \ first)
    PROVE  Partitions(<< first >> \o groups, S)
<1> DEFINE all == << first >> \o groups
<1> DEFINE n == Len(groups)
<1>1. /\ groups \in Seq(SUBSET S) /\ n \in Nat /\ DOMAIN groups = 1..n
      /\ \A i \in 1..n : groups[i] \in SUBSET (S \ first)
  BY DEF Partitions
<1>2. /\ all \in Seq(SUBSET S) /\ DOMAIN all = 1..n+1 /\ all[1] = first
      /\ \A i \in 2..n+1 : all[i] = groups[i-1]
  <2>1. << first >> \in Seq(SUBSET S) /\ Len(<< first >>) = 1
    OBVIOUS
  <2>2. all \in Seq(SUBSET S) /\ Len(all) = n + 1
    BY <1>1, <2>1
  <2>3. all[1] = first
    BY <1>1, <2>1
  <2>4. \A i \in 2..n+1 : all[i] = groups[i-1]
    BY <1>1, <2>1
  <2> QED BY <1>1, <2>2, <2>3, <2>4
<1>3. \A i \in 1..n+1 : i = 1 \/ (i \in 2..n+1 /\ i-1 \in 1..n)
  BY <1>1
<1>4. \A i \in 1..n : i+1 \in 2..n+1 /\ i+1 \in 1..n+1 /\ (i+1)-1 = i
  BY <1>1
<1> HIDE DEF all, n
<1>5. \A i \in 1..n+1 : all[i] # {}
  BY <1>1, <1>2, <1>3 DEF Partitions
<1>6. \A i, j \in 1..n+1 : i # j => all[i] \cap all[j] = {}
  <2> SUFFICES ASSUME NEW i \in 1..n+1, NEW j \in 1..n+1, i # j
               PROVE  all[i] \cap all[j] = {}
    OBVIOUS
  <2>1. CASE i = 1
    BY <1>1, <1>2, <1>3, <2>1
  <2>2. CASE j = 1
    BY <1>1, <1>2, <1>3, <2>2
  <2>3. CASE i # 1 /\ j # 1
    <3>1. i-1 \in 1..n /\ j-1 \in 1..n /\ i-1 # j-1
      BY <1>1, <1>3, <2>3
    <3>2. all[i] = groups[i-1] /\ all[j] = groups[j-1]
      BY <1>2, <1>3, <2>3
    <3> QED BY <1>1, <3>1, <3>2 DEF Partitions
  <2> QED BY <2>1, <2>2, <2>3
<1>7. \A c \in S : \E i \in 1..n+1 : c \in all[i]
  <2> SUFFICES ASSUME NEW c \in S PROVE \E i \in 1..n+1 : c \in all[i]
    OBVIOUS
  <2>1. CASE c \in first
    <3>1. 1 \in 1..n+1
      BY <1>1
    <3> QED BY <1>2, <2>1, <3>1
  <2>2. CASE c \notin first
    <3>1. PICK i \in 1..n : c \in groups[i]
      BY <1>1, <2>2 DEF Partitions
    <3>2. c \in all[i+1]
      BY <1>2, <1>4, <3>1
    <3> QED BY <1>4, <3>2
  <2> QED BY <2>1, <2>2
<1> QED BY <1>2, <1>5, <1>6, <1>7 DEF Partitions, all

\* The group of the lowest CPU which is in none yet.
FirstGroup(ungrouped, siblings) ==
    (siblings[Min(ungrouped)] \cup {Min(ungrouped)}) \cap ungrouped

\* groupsOf[u] are the groups into which u is divided.
DividesInto(candidates, siblings, groupsOf) ==
    /\ groupsOf[{}] = << >>
    /\ \A u \in SUBSET candidates :
           u # {} => groupsOf[u] = << FirstGroup(u, siblings) >>
                                       \o groupsOf[u \ FirstGroup(u, siblings)]
    /\ GroupCandidatesBySiblings(candidates, siblings) = groupsOf[candidates]

\* Each turn of the grouping takes the least candidate left, and its siblings.
LEMMA FirstGroupNonempty ==
    ASSUME NEW candidates \in SUBSET Int, IsFiniteSet(candidates), NEW siblings,
           NEW u \in SUBSET candidates, u # {}
    PROVE  /\ FirstGroup(u, siblings) \in SUBSET u
           /\ FirstGroup(u, siblings) # {}
           /\ Min(u) \in u /\ Min(u) \in FirstGroup(u, siblings)
<1>1. u \in SUBSET Int /\ IsFiniteSet(u)
  BY FS_Subset
<1>2. Min(u) \in u
  BY <1>1, FiniteExtremes, Zenon
<1> QED BY <1>2 DEF FirstGroup

\* The recursion over the candidates left defines the groups.
LEMMA GroupsDefined ==
    ASSUME NEW candidates \in SUBSET Int, IsFiniteSet(candidates), NEW siblings
    PROVE  \E groupsOf \in [SUBSET candidates -> Seq(SUBSET candidates)] :
               DividesInto(candidates, siblings, groupsOf)
<1> DEFINE D == candidates
<1> DEFINE first(u) == FirstGroup(u, siblings)
<1> DEFINE V == Seq(SUBSET D)
<1> DEFINE next == [u \in SUBSET D |-> u \ first(u)]
<1> DEFINE step == [u \in SUBSET D |->
                       [v \in V |-> IF u = {} THEN v ELSE << first(u) >> \o v]]
<1>1. \A u \in SUBSET D : u # {} => first(u) \in SUBSET u /\ first(u) # {}
  BY FirstGroupNonempty
<1> HIDE DEF first
<1>2. \A u \in SUBSET D, v \in V : u # {} => << first(u) >> \o v \in V
  <2> SUFFICES ASSUME NEW u \in SUBSET D, NEW v \in V, u # {}
               PROVE  << first(u) >> \o v \in V
    OBVIOUS
  <2>1. first(u) \in SUBSET D
    BY <1>1
  <2> QED BY <2>1
<1>3. next \in [SUBSET D -> SUBSET D] /\ Descends(D, next)
  BY <1>1 DEF Descends
<1>4. step \in [SUBSET D -> [V -> V]] /\ << >> \in V
  <2>1. << >> \in V
    OBVIOUS
  <2> HIDE DEF V
  <2> QED BY <1>2, <2>1
<1>5. PICK f \in [SUBSET D -> V] : Recurs(D, << >>, next, step, f)
  <2> HIDE DEF next, step, V
  <2> QED BY <1>3, <1>4, SubsetRecursion, Zenon
<1> DEFINE Solves(it) ==
       it = [u \in SUBSET D |-> IF u = {} THEN << >> ELSE << first(u) >> \o it[u \ first(u)]]
<1>6. Solves(f)
  <2>1. \A u \in SUBSET D : u # {} => step[u][f[next[u]]] = << first(u) >> \o f[u \ first(u)]
    <3> HIDE DEF V
    <3> QED BY <1>1, <1>3
  <2> HIDE DEF next, step, V
  <2> QED BY <1>5, <2>1 DEF Recurs
<1> DEFINE iter == CHOOSE it : Solves(it)
<1>7. Solves(iter)
  BY <1>6
<1>8. GroupCandidatesBySiblings(candidates, siblings) = iter[D]
  BY DEF GroupCandidatesBySiblings, first, FirstGroup
<1> HIDE DEF iter
<1>9. iter \in [SUBSET D -> V]
  <2> DEFINE Bad == {u \in SUBSET D : iter[u] \notin V}
  <2> SUFFICES Bad = {}
    BY <1>7
  <2> SUFFICES ASSUME Bad # {} PROVE FALSE
    OBVIOUS
  <2>1. PICK u \in Bad : Minimal(u, Bad)
    <3> Bad \subseteq SUBSET D
      OBVIOUS
    <3> HIDE DEF Bad
    <3> QED BY LeastSet, Zenon
  <2>2. u # {}
    BY <1>4, <1>7
  <2>3. u \ first(u) \notin Bad /\ u \ first(u) \in SUBSET D
    <3>1. u \in SUBSET D /\ first(u) \in SUBSET u /\ first(u) # {}
      BY <1>1, <2>2
    <3>2. u \ first(u) \in SUBSET D /\ u \ first(u) \subseteq u /\ u \ first(u) # u
      BY <3>1
    <3> HIDE DEF Bad
    <3> QED BY <2>1, <3>2 DEF Minimal
  <2>4. iter[u] = << first(u) >> \o iter[u \ first(u)]
    BY <1>7, <2>2
  <2>5. u \in SUBSET D /\ iter[u \ first(u)] \in V /\ iter[u] \notin V
    BY <2>3
  <2> HIDE DEF V
  <2> QED BY <1>2, <2>2, <2>4, <2>5
<1>10. DividesInto(D, siblings, iter)
  BY <1>7, <1>8 DEF DividesInto, first
<1> QED BY <1>9, <1>10

\* Every candidate is in one group, whatever sysfs says of the siblings, and
\* however its reads fail.
LEMMA GroupsPartition ==
    ASSUME NEW candidates \in SUBSET Int, IsFiniteSet(candidates), NEW siblings
    PROVE  Partitions(GroupCandidatesBySiblings(candidates, siblings), candidates)
<1>1. PICK groupsOf \in [SUBSET candidates -> Seq(SUBSET candidates)] :
          DividesInto(candidates, siblings, groupsOf)
  BY GroupsDefined
<1> DEFINE Bad == {u \in SUBSET candidates : ~Partitions(groupsOf[u], u)}
<1>2. Bad = {}
  <2> SUFFICES ASSUME Bad # {} PROVE FALSE
    OBVIOUS
  <2>1. PICK u \in Bad : Minimal(u, Bad)
    <3> Bad \subseteq SUBSET candidates
      OBVIOUS
    <3> HIDE DEF Bad
    <3> QED BY LeastSet, Zenon
  <2>2. u # {}
    <3>1. Partitions(<< >>, {})
      BY DEF Partitions
    <3> QED BY <1>1, <3>1 DEF DividesInto
  <2> DEFINE first == FirstGroup(u, siblings)
  <2>3. first \in SUBSET u /\ first # {}
    BY <2>2, FirstGroupNonempty
  <2>4. groupsOf[u] = << first >> \o groupsOf[u \ first]
    BY <1>1, <2>2 DEF DividesInto
  <2> HIDE DEF first
  <2>5. Partitions(groupsOf[u \ first], u \ first)
    <3>1. u \ first \in SUBSET candidates /\ u \ first \subseteq u /\ u \ first # u
      BY <2>3
    <3>2. u \ first \notin Bad
      <4> HIDE DEF Bad
      <4> QED BY <2>1, <3>1 DEF Minimal
    <3> QED BY <3>1, <3>2
  <2>6. Partitions(groupsOf[u], u)
    BY <2>3, <2>4, <2>5, PartitionGrows
  <2> QED BY <2>6
<1>3. Partitions(groupsOf[candidates], candidates)
  BY <1>2
<1> QED BY <1>1, <1>3 DEF DividesInto

-----------------------------------------------------------------------------
(* The passes over the groups                                              *)

\* Disjoint groups, some of them perhaps used up, which make up a set of CPUs.
Pieces(groups, S) ==
    /\ DOMAIN groups \in SUBSET Int /\ IsFiniteSet(DOMAIN groups)
    /\ \A i \in DOMAIN groups : groups[i] \in SUBSET S
    /\ \A i, j \in DOMAIN groups : i # j => groups[i] \cap groups[j] = {}
    /\ \A c \in S : \E i \in DOMAIN groups : c \in groups[i]

\* The groups of a partition are disjoint pieces of the set.
LEMMA PartitionInPieces ==
    ASSUME NEW S, NEW groups, Partitions(groups, S)
    PROVE  Pieces(groups, S)
<1>1. Len(groups) \in Nat /\ DOMAIN groups = 1..Len(groups)
  BY DEF Partitions
<1>2. IsFiniteSet(DOMAIN groups) /\ DOMAIN groups \in SUBSET Int
  BY <1>1, FS_Interval
<1> QED BY <1>2 DEF Partitions, Pieces

\* They stay so without the CPUs already taken.
LEMMA PiecesWithout ==
    ASSUME NEW S, NEW groups, Pieces(groups, S), NEW taken
    PROVE  Pieces([i \in DOMAIN groups |-> groups[i] \ taken], S \ taken)
  BY DEF Pieces

\* _take_pairs_from_groups: candidates, within the budget.
LEMMA PairsTaken ==
    ASSUME NEW S \in SUBSET Int, IsFiniteSet(S), NEW groups, Pieces(groups, S),
           NEW budget \in Nat
    PROVE  /\ TakePairsFromGroups(groups, budget) \in SUBSET S
           /\ Cardinality(TakePairsFromGroups(groups, budget)) <= budget
<1> DEFINE pairable == {i \in DOMAIN groups : Cardinality(groups[i]) >= 2}
<1> DEFINE firsts == Lowest(pairable, budget \div 2)
<1> DEFINE pairs == {Lowest(groups[i], 2) : i \in firsts}
<1>1. TakePairsFromGroups(groups, budget) = UNION pairs
  BY DEF TakePairsFromGroups
<1>2. pairable \in SUBSET Int /\ IsFiniteSet(pairable) /\ pairable \subseteq DOMAIN groups
  BY FS_Subset DEF Pieces
<1> HIDE DEF pairable
<1>3. budget \div 2 \in Nat /\ 2 * (budget \div 2) <= budget
  OBVIOUS
<1>4. /\ firsts \subseteq pairable /\ IsFiniteSet(firsts)
      /\ Cardinality(firsts) <= budget \div 2
  <2>1. Cardinality(pairable) \in Nat
    BY <1>2, FS_CardinalityType
  <2> QED BY <1>2, <1>3, <2>1, LowestSize
<1> HIDE DEF firsts
<1>5. \A i \in firsts : /\ Lowest(groups[i], 2) \in SUBSET S
                        /\ IsFiniteSet(Lowest(groups[i], 2))
                        /\ Cardinality(Lowest(groups[i], 2)) <= 2
  <2> SUFFICES ASSUME NEW i \in firsts
               PROVE  /\ Lowest(groups[i], 2) \in SUBSET S
                      /\ IsFiniteSet(Lowest(groups[i], 2))
                      /\ Cardinality(Lowest(groups[i], 2)) <= 2
    OBVIOUS
  <2>1. groups[i] \in SUBSET S
    BY <1>2, <1>4 DEF Pieces
  <2>2. groups[i] \in SUBSET Int /\ IsFiniteSet(groups[i])
    BY <2>1, FS_Subset
  <2>3. Cardinality(groups[i]) \in Nat
    BY <2>2, FS_CardinalityType
  <2> QED BY <2>1, <2>2, <2>3, LowestSize
<1>6. IsFiniteSet(pairs) /\ Cardinality(pairs) <= Cardinality(firsts)
  <2> DEFINE pair == [i \in firsts |-> Lowest(groups[i], 2)]
  <2>1. pair \in Surjection(firsts, pairs)
    BY DEF Surjection
  <2> HIDE DEF pair, pairs
  <2> QED BY <1>4, <2>1, FS_Surjection
<1>7. \A p \in pairs : IsFiniteSet(p) /\ Cardinality(p) <= 2
  BY <1>5
<1>8. UNION pairs \in SUBSET S
  BY <1>5
<1> HIDE DEF pairs
<1>9. IsFiniteSet(UNION pairs) /\ Cardinality(UNION pairs) <= 2 * Cardinality(pairs)
  BY <1>6, <1>7, UnionOfPairs
<1>10. Cardinality(pairs) \in Nat /\ Cardinality(firsts) \in Nat
       /\ Cardinality(UNION pairs) \in Nat
  BY <1>4, <1>6, <1>9, FS_CardinalityType
<1> QED BY <1>1, <1>3, <1>4, <1>6, <1>8, <1>9, <1>10

\* _take_singles_from_groups: candidates, within the budget.
LEMMA SinglesTaken ==
    ASSUME NEW S \in SUBSET Int, IsFiniteSet(S), NEW groups, Pieces(groups, S),
           NEW budget \in Nat
    PROVE  /\ TakeSinglesFromGroups(groups, budget) \in SUBSET S
           /\ Cardinality(TakeSinglesFromGroups(groups, budget)) <= budget
<1> DEFINE nonempty == {i \in DOMAIN groups : groups[i] # {}}
<1> DEFINE firsts == Lowest(nonempty, budget)
<1> DEFINE singles == {Min(groups[i]) : i \in firsts}
<1>1. TakeSinglesFromGroups(groups, budget) = singles
  BY DEF TakeSinglesFromGroups
<1>2. /\ nonempty \in SUBSET Int /\ IsFiniteSet(nonempty)
      /\ \A i \in nonempty : i \in DOMAIN groups /\ groups[i] # {}
  BY FS_Subset DEF Pieces
<1> HIDE DEF nonempty
<1>3. /\ firsts \subseteq nonempty /\ IsFiniteSet(firsts)
      /\ Cardinality(firsts) <= budget
  <2>1. Cardinality(nonempty) \in Nat
    BY <1>2, FS_CardinalityType
  <2> QED BY <1>2, <2>1, LowestSize
<1> HIDE DEF firsts
<1>4. \A i \in firsts : Min(groups[i]) \in S
  <2> SUFFICES ASSUME NEW i \in firsts PROVE Min(groups[i]) \in S
    OBVIOUS
  <2>1. groups[i] \in SUBSET S /\ groups[i] # {}
    BY <1>2, <1>3 DEF Pieces
  <2>2. groups[i] \in SUBSET Int /\ IsFiniteSet(groups[i])
    BY <2>1, FS_Subset
  <2>3. Min(groups[i]) \in groups[i]
    BY <2>1, <2>2, FiniteExtremes, Zenon
  <2> QED BY <2>1, <2>3
<1>5. singles \in SUBSET S
  BY <1>4
<1>6. IsFiniteSet(singles) /\ Cardinality(singles) <= Cardinality(firsts)
  <2> DEFINE single == [i \in firsts |-> Min(groups[i])]
  <2>1. single \in Surjection(firsts, singles)
    BY DEF Surjection
  <2> HIDE DEF single, singles
  <2> QED BY <1>3, <2>1, FS_Surjection
<1>7. Cardinality(singles) \in Nat /\ Cardinality(firsts) \in Nat
  BY <1>3, <1>6, FS_CardinalityType
<1> QED BY <1>1, <1>3, <1>5, <1>6, <1>7

\* The groups laid end to end order the CPUs in them.
LEMMA LeftoversTaken ==
    ASSUME NEW S \in SUBSET Int, IsFiniteSet(S), NEW groups, Pieces(groups, S),
           NEW budget \in Nat, budget <= Cardinality(S)
    PROVE  /\ TakeLeftovers(groups, budget) \in SUBSET S
           /\ Cardinality(TakeLeftovers(groups, budget)) = budget
<1> DEFINE D == DOMAIN groups
<1> DEFINE Before(i, c) == (UNION {groups[j] : j \in {k \in D : k < i}})
                               \cup {d \in groups[i] : d < c}
<1> DEFINE of(c) == CHOOSE i \in D : c \in groups[i]
<1> DEFINE below == [c \in S |-> Before(of(c), c)]
<1>1. /\ \A i \in D : i \in Int /\ groups[i] \in SUBSET S
      /\ \A c \in S : c \in Int
      /\ \A c \in S : of(c) \in D /\ c \in groups[of(c)]
      /\ \A i \in D : \A c \in groups[i] : of(c) = i
  <2>1. \A c \in S : of(c) \in D /\ c \in groups[of(c)]
    BY DEF Pieces
  <2>2. \A i \in D : \A c \in groups[i] : of(c) = i
    <3> HIDE DEF of
    <3> QED BY <2>1 DEF Pieces
  <2> QED BY <2>1, <2>2 DEF Pieces
<1> HIDE DEF of
<1> DEFINE First(c, d) == of(c) < of(d) \/ (of(c) = of(d) /\ c < d)
<1>2. \A c, d \in S : d \in Before(of(c), c) <=> First(d, c)
  <2> SUFFICES ASSUME NEW c \in S, NEW d \in S
               PROVE  d \in Before(of(c), c) <=> First(d, c)
    OBVIOUS
  <2>1. ASSUME of(d) < of(c) PROVE d \in Before(of(c), c)
    BY <1>1, <2>1
  <2>2. ASSUME of(d) = of(c), d < c PROVE d \in Before(of(c), c)
    <3>1. d \in groups[of(c)]
      BY <1>1, <2>2
    <3> QED BY <2>2, <3>1
  <2>3. ASSUME d \in Before(of(c), c) PROVE First(d, c)
    <3>1. CASE d \in groups[of(c)] /\ d < c
      BY <1>1, <3>1
    <3>2. ASSUME NEW j \in D, j < of(c), d \in groups[j] PROVE First(d, c)
      BY <1>1, <3>2
    <3> QED BY <2>3, <3>1, <3>2
  <2> QED BY <2>1, <2>2, <2>3
<1>3. \A i \in D, c \in S : Before(i, c) \in SUBSET S
  <2> SUFFICES ASSUME NEW i \in D, NEW c \in S, NEW d \in Before(i, c)
               PROVE  d \in S
    OBVIOUS
  <2>1. CASE d \in groups[i]
    BY <1>1, <2>1
  <2>2. ASSUME NEW j \in D, d \in groups[j] PROVE d \in S
    BY <1>1, <2>2
  <2> QED BY <2>1, <2>2
<1> HIDE DEF Before, D
<1>4. Orders(S, below)
  <2>1. below \in [S -> SUBSET S]
    BY <1>1, <1>3
  <2>2. \A c, d \in S : d \in below[c] <=> First(d, c)
    <3> HIDE DEF First
    <3> QED BY <1>2
  <2> HIDE DEF below
  <2>3. \A c \in S : of(c) \in Int /\ c \in Int
    BY <1>1
  <2>4. \A c \in S : ~ First(c, c)
    BY <2>3
  <2>5. \A c, d \in S : c # d => First(c, d) \/ First(d, c)
    BY <2>3
  <2>6. \A c, d, e \in S : First(c, d) /\ First(d, e) => First(c, e)
    BY <2>3
  <2> HIDE DEF First
  <2>7. \A c, d \in S : First(c, d) => below[c] \cup {c} \subseteq below[d]
    BY <2>1, <2>2, <2>6
  <2> QED BY <2>1, <2>2, <2>4, <2>5, <2>7 DEF Orders
<1>5. TakeLeftovers(groups, budget) = Segment(S, below, budget)
  <2>1. TakeLeftovers(groups, budget) =
            UNION {{c \in groups[i] : Cardinality(Before(i, c)) < budget} : i \in D}
    BY DEF TakeLeftovers, Before, D
  <2>2. \A c : c \in Segment(S, below, budget)
                   <=> c \in S /\ Cardinality(Before(of(c), c)) < budget
    BY DEF Segment
  <2>3. \A c : c \in TakeLeftovers(groups, budget)
                   <=> \E i \in D : c \in groups[i] /\ Cardinality(Before(i, c)) < budget
    BY <2>1
  <2> HIDE DEF below
  <2>4. \A c : c \in TakeLeftovers(groups, budget) <=> c \in Segment(S, below, budget)
    BY <1>1, <2>2, <2>3
  <2> QED BY <2>4
<1>6. Cardinality(S) \in Nat
  BY FS_CardinalityType
<1> HIDE DEF below
<1> QED BY <1>4, <1>5, <1>6, InitialSegment

-----------------------------------------------------------------------------
(* The selectors                                                           *)

\* The leftover pass always makes up what pairs and singles leave of the count.
LEMMA SmtAwareExact ==
    ASSUME NEW candidates \in SUBSET Int, IsFiniteSet(candidates), NEW siblings,
           NEW count \in Nat, count <= Cardinality(candidates)
    PROVE  /\ SelectSmtAware(candidates, count, siblings) \in SUBSET candidates
           /\ Cardinality(SelectSmtAware(candidates, count, siblings)) = count
<1> DEFINE groups == GroupCandidatesBySiblings(candidates, siblings)
<1> DEFINE Without(gone) == [i \in DOMAIN groups |-> groups[i] \ gone]
<1> DEFINE pairs == TakePairsFromGroups(groups, count)
<1> DEFINE singles == TakeSinglesFromGroups(Without(pairs), count - Cardinality(pairs))
<1> DEFINE taken == pairs \cup singles
<1> DEFINE rest == TakeLeftovers(Without(taken), count - Cardinality(taken))
<1>1. SelectSmtAware(candidates, count, siblings) = taken \cup rest
  BY DEF SelectSmtAware
<1>2. Pieces(groups, candidates)
  BY GroupsPartition, PartitionInPieces
<1> HIDE DEF groups
<1>3. \A gone : Pieces(Without(gone), candidates \ gone)
  BY <1>2, PiecesWithout
<1> HIDE DEF Without
<1>4. pairs \in SUBSET candidates /\ Cardinality(pairs) <= count
  BY <1>2, PairsTaken
<1> HIDE DEF pairs
<1>5. IsFiniteSet(pairs) /\ Cardinality(pairs) \in Nat
  BY <1>4, FS_Subset, FS_CardinalityType
<1>6. singles \in SUBSET (candidates \ pairs)
      /\ Cardinality(singles) <= count - Cardinality(pairs)
  <2>1. /\ candidates \ pairs \in SUBSET Int /\ IsFiniteSet(candidates \ pairs)
        /\ count - Cardinality(pairs) \in Nat
    BY <1>4, <1>5, FS_Subset
  <2> DEFINE left == candidates \ pairs
  <2> DEFINE budget == count - Cardinality(pairs)
  <2> DEFINE pieces == Without(pairs)
  <2>2. Pieces(pieces, left)
    BY <1>3
  <2>3. left \in SUBSET Int /\ IsFiniteSet(left) /\ budget \in Nat
    BY <2>1
  <2> HIDE DEF left, budget, pieces
  <2>4. TakeSinglesFromGroups(pieces, budget) \in SUBSET left
        /\ Cardinality(TakeSinglesFromGroups(pieces, budget)) <= budget
    BY <2>2, <2>3, SinglesTaken
  <2> QED BY <2>4 DEF left, budget, pieces
<1> HIDE DEF singles
<1>7. IsFiniteSet(singles) /\ Cardinality(singles) \in Nat
  BY <1>6, FS_Subset, FS_CardinalityType
<1>8. /\ taken \in SUBSET candidates /\ IsFiniteSet(taken) /\ Cardinality(taken) \in Nat
      /\ Cardinality(taken) <= count
  <2>1. taken \in SUBSET candidates
    BY <1>4, <1>6
  <2>2. pairs \cap singles = {}
    BY <1>6
  <2>3. Cardinality(pairs \cap singles) = 0
    BY <2>2, FS_EmptySet
  <2>4. IsFiniteSet(taken)
        /\ Cardinality(taken) = Cardinality(pairs) + Cardinality(singles) - 0
    BY <1>5, <1>7, <2>3, FS_Union
  <2> HIDE DEF taken
  <2> QED BY <1>5, <1>6, <1>7, <2>1, <2>4
<1> HIDE DEF taken
<1>9. Cardinality(candidates) \in Nat
  BY FS_CardinalityType
<1>10. /\ candidates \ taken \in SUBSET Int /\ IsFiniteSet(candidates \ taken)
       /\ Cardinality(candidates \ taken) = Cardinality(candidates) - Cardinality(taken)
  <2>1. candidates \cap taken = taken
    BY <1>8
  <2> QED BY <2>1, FS_Difference
<1>11. rest \in SUBSET (candidates \ taken)
       /\ Cardinality(rest) = count - Cardinality(taken)
  <2>1. count - Cardinality(taken) \in Nat
        /\ count - Cardinality(taken) <= Cardinality(candidates \ taken)
    BY <1>8, <1>9, <1>10
  <2> QED BY <1>3, <1>10, <2>1, LeftoversTaken
<1> HIDE DEF rest
<1>12. IsFiniteSet(rest)
  BY <1>10, <1>11, FS_Subset
<1>13. Cardinality(taken \cup rest) = Cardinality(taken) + Cardinality(rest)
  <2>1. taken \cap rest = {}
    BY <1>11
  <2>2. Cardinality(taken \cap rest) = 0
    BY <2>1, FS_EmptySet
  <2>3. Cardinality(rest) \in Nat
    BY <1>12, FS_CardinalityType
  <2>4. Cardinality(taken \cup rest) = Cardinality(taken) + Cardinality(rest) - 0
    BY <1>8, <1>12, <2>2, FS_Union
  <2> QED BY <1>8, <2>3, <2>4
<1> QED BY <1>1, <1>8, <1>11, <1>13

\* The stable selector returns exactly as many candidates as asked for, the own
\* ones first.
LEMMA StableExact ==
    ASSUME NEW own, NEW candidates \in SUBSET Int, IsFiniteSet(candidates), NEW siblings,
           NEW count \in Nat, count <= Cardinality(candidates)
    PROVE  LET stable == SelectStable(own, candidates, count, siblings)
               kept   == own \cap candidates
           IN  /\ stable \in SUBSET candidates
               /\ Cardinality(stable) = count
               /\ kept \subseteq stable \/ stable \subseteq kept
<1> DEFINE kept == own \cap candidates
<1> DEFINE retained == Lowest(kept, count)
<1> DEFINE others == SelectSmtAware(candidates \ kept, count - Cardinality(retained), siblings)
<1> DEFINE stable == SelectStable(own, candidates, count, siblings)
<1>1. stable = IF Cardinality(retained) = count THEN retained ELSE retained \cup others
  BY DEF SelectStable
<1> HIDE DEF stable
<1>2. kept \in SUBSET candidates /\ kept \in SUBSET Int /\ IsFiniteSet(kept)
  BY FS_Subset
<1> HIDE DEF kept
<1>3. Cardinality(kept) \in Nat /\ Cardinality(candidates) \in Nat
  BY <1>2, FS_CardinalityType
<1>4. /\ retained \subseteq kept /\ IsFiniteSet(retained)
      /\ Cardinality(retained) = IF count <= Cardinality(kept) THEN count ELSE Cardinality(kept)
  BY <1>2, LowestSize
<1> HIDE DEF retained
<1>5. CASE Cardinality(retained) = count
  BY <1>1, <1>2, <1>4, <1>5 DEF stable, kept
<1>6. CASE Cardinality(retained) # count
  <2>1. retained = kept /\ Cardinality(retained) < count
    <3>1. Cardinality(retained) = Cardinality(kept) /\ Cardinality(retained) < count
      BY <1>3, <1>4, <1>6
    <3> QED BY <1>2, <1>4, <3>1, FS_Subset
  <2>2. /\ candidates \ kept \in SUBSET Int /\ IsFiniteSet(candidates \ kept)
        /\ Cardinality(candidates \ kept) = Cardinality(candidates) - Cardinality(kept)
    <3>1. candidates \cap kept = kept
      BY <1>2
    <3> QED BY <3>1, FS_Difference
  <2>3. others \in SUBSET (candidates \ kept)
        /\ Cardinality(others) = count - Cardinality(retained)
    <3>1. count - Cardinality(retained) \in Nat
          /\ count - Cardinality(retained) <= Cardinality(candidates \ kept)
      BY <1>3, <2>1, <2>2
    <3> QED BY <2>2, <3>1, SmtAwareExact
  <2> HIDE DEF others
  <2>4. IsFiniteSet(others)
    BY <2>2, <2>3, FS_Subset
  <2>5. Cardinality(kept \cup others) = Cardinality(kept) + Cardinality(others)
    <3>1. kept \cap others = {}
      BY <2>3
    <3>2. Cardinality(kept \cap others) = 0
      BY <3>1, FS_EmptySet
    <3>3. Cardinality(others) \in Nat
      BY <2>4, FS_CardinalityType
    <3>4. Cardinality(kept \cup others) = Cardinality(kept) + Cardinality(others) - 0
      BY <1>2, <2>4, <3>2, FS_Union
    <3> QED BY <1>3, <3>3, <3>4
  <2>6. stable = kept \cup others
    BY <1>1, <1>6, <2>1
  <2>7. stable \in SUBSET candidates /\ Cardinality(stable) = count /\ kept \subseteq stable
    BY <1>2, <1>3, <2>1, <2>3, <2>5, <2>6
  <2> QED BY <2>7 DEF stable, kept
<1> QED BY <1>5, <1>6

-----------------------------------------------------------------------------
(* Questions and answers                                                   *)

Asked == question \in SelectorCases \cup Counts \cup Percents \cup Writings \cup Readings

\* What the steps of MCSelection answer.
Answered ==
    \/ answer = Unanswered
    \/ /\ question.asks = "selection"
       /\ answer = [ of     |-> "selection",
                     smt    |-> SelectSmtAware(question.candidates, question.count,
                                               question.siblings),
                     stable |-> SelectStable(question.own, question.candidates,
                                             question.count, question.siblings) ]
    \/ /\ question.asks = "count"
       /\ LET pinning == CalculateCpuPinning(0..question.total - 1, question.requested)
          IN  answer = [ of        |-> "count",
                         dedicated |-> pinning.dedicated,
                         shared    |-> pinning.shared ]
    \/ /\ question.asks = "percent"
       /\ answer = [ of    |-> "percent",
                     share |-> CeilPercent(question.total, question.percent) ]
    \/ /\ question.asks = "writing"
       /\ answer = [of |-> "writing", text |-> ToRanges(question.cpus)]
    \/ /\ question.asks = "reading"
       /\ answer = [ of     |-> "reading",
                     result |-> ParsePresentCpus(question.text, question.present) ]

\* Nothing is answered at first.
LEMMA InitAnswered == Init => Asked /\ Answered
  BY DEF Init, Asked, Answered

\* An answer is always that of the algorithm to the question.
LEMMA StepAnswered == Asked /\ Answered /\ [Next]_vars => (Asked /\ Answered)'
<1> SUFFICES ASSUME Asked, Answered, [Next]_vars PROVE (Asked /\ Answered)'
  OBVIOUS
<1>1. question' = question
  BY DEF Next, Select, Pin, Share, Write, Read, vars
<1>2. Answered'
  <2>1. CASE UNCHANGED vars
    BY <1>1, <2>1 DEF vars, Answered
  <2>2. CASE Next
    BY <1>1, <2>2 DEF Next, Select, Pin, Share, Write, Read, Answered
  <2> QED BY <2>1, <2>2
<1> QED BY <1>1, <1>2 DEF Asked

\* Each answer is to a question of its kind.
LEMMA AnswerKinds ==
    ASSUME Asked, Answered
    PROVE  /\ answer.of = "selection" =>
                  /\ question \in SelectorCases
                  /\ answer.smt = SelectSmtAware(question.candidates, question.count,
                                                 question.siblings)
                  /\ answer.stable = SelectStable(question.own, question.candidates,
                                                  question.count, question.siblings)
           /\ answer.of = "count" =>
                  /\ question \in Counts
                  /\ LET pinning == CalculateCpuPinning(0..question.total - 1, question.requested)
                     IN  answer.dedicated = pinning.dedicated /\ answer.shared = pinning.shared
           /\ answer.of = "percent" =>
                  /\ question \in Percents
                  /\ answer.share = CeilPercent(question.total, question.percent)
           /\ answer.of = "writing" =>
                  question \in Writings /\ answer.text = ToRanges(question.cpus)
           /\ answer.of = "reading" =>
                  /\ question \in Readings
                  /\ answer.result = ParsePresentCpus(question.text, question.present)
<1>1. /\ question.asks = "selection" => question \in SelectorCases
      /\ question.asks = "count" => question \in Counts
      /\ question.asks = "percent" => question \in Percents
      /\ question.asks = "writing" => question \in Writings
      /\ question.asks = "reading" => question \in Readings
  BY DEF Asked, SelectorCases, Counts, Percents, Writings, Readings
<1> QED BY <1>1 DEF Answered, Unanswered

\* A question to the selectors asks for no more than there are candidates.
LEMMA CasesTyped ==
    ASSUME question \in SelectorCases
    PROVE  /\ question.candidates \in SUBSET Int /\ IsFiniteSet(question.candidates)
           /\ question.count \in Nat /\ question.count <= Cardinality(question.candidates)
<1>1. /\ question.candidates \in SUBSET Host /\ question.count \in 1..Cardinality(Host)
      /\ question.count <= Cardinality(question.candidates)
  BY DEF SelectorCases
<1>2. IsFiniteSet(question.candidates)
  BY <1>1, HostAssumption, FS_Subset
<1>3. Cardinality(Host) \in Nat
  BY HostAssumption, FS_CardinalityType
<1>4. question.candidates \in SUBSET Int
  <2>1. \A c \in Host : c \in Int
    BY HostAssumption
  <2> QED BY <1>1, <2>1
<1>5. question.count \in Nat
  BY <1>1, <1>3
<1> QED BY <1>1, <1>2, <1>4, <1>5

\* The selectors return exactly what they are asked for on every host, with any
\* sibling map.
THEOREM SelectionsExact == Spec => []ExactSelection
<1>1. ASSUME Asked, Answered PROVE ExactSelection
  <2> SUFFICES ASSUME answer.of = "selection"
               PROVE  /\ answer.smt \subseteq question.candidates
                      /\ answer.stable \subseteq question.candidates
                      /\ Cardinality(answer.smt) = question.count
                      /\ Cardinality(answer.stable) = question.count
    BY DEF ExactSelection
  <2>1. /\ question \in SelectorCases
        /\ answer.smt = SelectSmtAware(question.candidates, question.count, question.siblings)
        /\ answer.stable = SelectStable(question.own, question.candidates,
                                        question.count, question.siblings)
    BY <1>1, AnswerKinds
  <2>2. /\ question.candidates \in SUBSET Int /\ IsFiniteSet(question.candidates)
        /\ question.count \in Nat /\ question.count <= Cardinality(question.candidates)
    BY <2>1, CasesTyped
  <2> QED BY <2>1, <2>2, SmtAwareExact, StableExact
<1> QED BY InitAnswered, StepAnswered, <1>1, PTL DEF Spec

\* A protected owner never trades a CPU which it may keep.
THEOREM SelectionsStable == Spec => []StableRetention
<1>1. ASSUME Asked, Answered PROVE StableRetention
  <2> SUFFICES ASSUME answer.of = "selection"
               PROVE  LET own == question.own \cap question.candidates
                      IN  own \subseteq answer.stable \/ answer.stable \subseteq own
    BY DEF StableRetention
  <2>1. /\ question \in SelectorCases
        /\ answer.stable = SelectStable(question.own, question.candidates,
                                        question.count, question.siblings)
    BY <1>1, AnswerKinds
  <2>2. /\ question.candidates \in SUBSET Int /\ IsFiniteSet(question.candidates)
        /\ question.count \in Nat /\ question.count <= Cardinality(question.candidates)
    BY <2>1, CasesTyped
  <2> QED BY <2>1, <2>2, StableExact
<1> QED BY InitAnswered, StepAnswered, <1>1, PTL DEF Spec

-----------------------------------------------------------------------------
(* The count arithmetic                                                    *)

\* A part of a whole, rounded down, is less than the whole and does not shrink
\* when the whole grows.
LEMMA PartOfTotal ==
    ASSUME NEW total \in Nat, NEW percent \in 0..99
    PROVE  /\ (total * percent) \div 100 \in Nat
           /\ (total * percent) \div 100 <= total
           /\ total > 0 => (total * percent) \div 100 < total
           /\ (total * percent) \div 100 <= ((total + 1) * percent) \div 100
<1> DEFINE part == total * percent
<1>1. part \in Nat /\ part <= 99 * total /\ (total + 1) * percent = part + percent
  OBVIOUS
<1> HIDE DEF part
<1>2. part \div 100 <= (part + percent) \div 100
  BY <1>1
<1>3. part \div 100 \in Nat /\ part \div 100 <= total /\ (total > 0 => part \div 100 < total)
  BY <1>1
<1>4. (total + 1) * percent = part + percent
  BY <1>1
<1> QED BY <1>2, <1>3, <1>4 DEF part

\* What the constants of cpu_pinning.py have in common with all others for
\* which the default leaves something to share and the default at the
\* large-system threshold is no higher than the one above it.
SoundHeuristic ==
    /\ RESERVED_CORES_LARGE_SYSTEM > 0
    /\ MAX_ALLOCATION_PERCENTAGE < 100
    /\ (LARGE_SYSTEM_THRESHOLD * MAX_ALLOCATION_PERCENTAGE) \div 100
           <= LARGE_SYSTEM_THRESHOLD + 1 - RESERVED_CORES_LARGE_SYSTEM

\* The default leaves something to share, and does not drop with one more CPU.
LEMMA DefaultCoresSound ==
    ASSUME SoundHeuristic, NEW total \in Nat, total > 0
    PROVE  /\ DefaultCores(total) \in Nat /\ DefaultCores(total) < total
           /\ DefaultCores(total) <= DefaultCores(total + 1)
<1> DEFINE percent == MAX_ALLOCATION_PERCENTAGE
<1> DEFINE large == LARGE_SYSTEM_THRESHOLD
<1> DEFINE reserved == RESERVED_CORES_LARGE_SYSTEM
<1> DEFINE part(t) == (t * percent) \div 100
<1>1. percent \in 0..99 /\ large \in Nat /\ reserved \in Nat /\ reserved > 0 /\ reserved <= large
  BY HeuristicAssumption DEF SoundHeuristic
<1>2. \A t \in Nat : DefaultCores(t) = IF t > large THEN t - reserved ELSE part(t)
  BY DEF DefaultCores
<1>3. \A t \in Nat : /\ part(t) \in Nat /\ (t > 0 => part(t) < t)
                     /\ part(t) <= part(t + 1)
  BY <1>1, PartOfTotal
<1>4. part(large) <= large + 1 - reserved
  BY DEF SoundHeuristic
<1> HIDE DEF part, percent, large, reserved
<1>5. CASE total > large
  BY <1>1, <1>2, <1>5
<1>6. CASE total < large
  <2>1. total + 1 \in Nat /\ ~(total + 1 > large) /\ ~(total > large)
    BY <1>1, <1>6
  <2> QED BY <1>2, <1>3, <2>1
<1>7. CASE total = large
  BY <1>1, <1>2, <1>3, <1>4, <1>7
<1> QED BY <1>1, <1>5, <1>6, <1>7

\* The default divides the candidates without remainder, leaves some to share
\* and never drops when there are more, for every set of sound constants.
THEOREM DefaultsMonotonic ==
    ASSUME SoundHeuristic
    PROVE  Spec => []DefaultReservesMonotonically
<1>1. ASSUME Asked, Answered PROVE DefaultReservesMonotonically
  <2> DEFINE total == question.total
  <2> DEFINE requested == question.requested
  <2> DEFINE cpus == 0..total-1
  <2> DEFINE cores == CoresRequested(total, requested)
  <2> SUFFICES ASSUME answer.of = "count"
               PROVE  /\ Cardinality(answer.dedicated) + Cardinality(answer.shared) =
                             IF requested > total THEN 0 ELSE total
                      /\ requested <= 0 =>
                             /\ answer.shared # {}
                             /\ DefaultCores(total) <= DefaultCores(total + 1)
    BY DEF DefaultReservesMonotonically
  <2>1. /\ question \in Counts
        /\ answer.dedicated = CalculateCpuPinning(cpus, requested).dedicated
        /\ answer.shared = CalculateCpuPinning(cpus, requested).shared
    BY <1>1, AnswerKinds
  <2>2. total \in Nat /\ total > 0 /\ requested \in Int
    <3>1. total \in 1..MaxTotal /\ requested \in Requested
      BY <2>1 DEF Counts
    <3> HIDE DEF total, requested
    <3> QED BY <3>1, BoundsAssumption
  <2> HIDE DEF total, requested
  <2>3. cpus \in SUBSET Int /\ IsFiniteSet(cpus) /\ Cardinality(cpus) = total
    BY <2>2, FS_Interval
  <2> HIDE DEF cpus
  <2>4. /\ answer.dedicated = IF cores > total THEN {} ELSE Lowest(cpus, cores)
        /\ answer.shared = IF cores > total THEN {} ELSE cpus \ answer.dedicated
    BY <2>1, <2>3 DEF CalculateCpuPinning
  <2>5. /\ DefaultCores(total) \in Nat /\ DefaultCores(total) < total
        /\ DefaultCores(total) <= DefaultCores(total + 1)
    BY <2>2, DefaultCoresSound
  <2>6. /\ cores \in Nat
        /\ cores > total <=> requested > total
        /\ requested <= 0 => cores < total
    BY <2>2, <2>5 DEF CoresRequested
  <2> HIDE DEF cores
  <2>7. CASE cores > total
    <3>1. Cardinality({}) = 0
      BY FS_EmptySet
    <3> QED BY <2>2, <2>4, <2>6, <2>7, <3>1
  <2>8. CASE cores <= total
    <3>1. /\ answer.dedicated = Lowest(cpus, cores)
          /\ answer.shared = cpus \ answer.dedicated
      BY <2>2, <2>4, <2>6, <2>8
    <3>2. answer.dedicated \subseteq cpus /\ Cardinality(answer.dedicated) = cores
      BY <2>2, <2>3, <2>6, <2>8, <3>1, LowestSize
    <3>3. cpus \cap answer.dedicated = answer.dedicated
      BY <3>2
    <3>4. Cardinality(answer.shared) = total - cores
      <4>1. Cardinality(cpus \ answer.dedicated) =
                Cardinality(cpus) - Cardinality(cpus \cap answer.dedicated)
        BY <2>3, FS_Difference
      <4> QED BY <2>3, <3>1, <3>2, <3>3, <4>1
    <3>5. requested <= 0 => answer.shared # {}
      <4>1. requested <= 0 => total - cores # 0
        BY <2>2, <2>6
      <4> QED BY <3>4, <4>1, FS_EmptySet
    <3>6. ~ (requested > total)
      BY <2>2, <2>6, <2>8
    <3> QED BY <2>2, <2>5, <2>6, <3>2, <3>4, <3>5, <3>6
  <2> QED BY <2>2, <2>6, <2>7, <2>8
<1> QED BY InitAnswered, StepAnswered, <1>1, PTL DEF Spec

\* A percentage of any pool is the least count which is at least that share.
THEOREM PercentagesLeast == Spec => []PercentIsLeastShare
<1>1. ASSUME Asked, Answered PROVE PercentIsLeastShare
  <2> DEFINE total == question.total
  <2> DEFINE percent == question.percent
  <2> DEFINE part == total * percent
  <2> SUFFICES ASSUME answer.of = "percent"
               PROVE  /\ answer.share \in 1..total
                      /\ 100 * answer.share >= part
                      /\ 100 * (answer.share - 1) < part
    BY DEF PercentIsLeastShare
  <2>1. question \in Percents /\ answer.share = (part + 99) \div 100
    BY <1>1, AnswerKinds DEF CeilPercent
  <2>2. total \in Nat /\ total > 0 /\ percent \in 1..100
    BY <2>1, BoundsAssumption DEF Percents
  <2> HIDE DEF total, percent
  <2>3. part \in Nat /\ part > 0 /\ part <= 100 * total
    BY <2>2
  <2> HIDE DEF part
  <2> QED BY <2>1, <2>2, <2>3
<1> QED BY InitAnswered, StepAnswered, <1>1, PTL DEF Spec

-----------------------------------------------------------------------------
(* The strict parser                                                       *)

\* The checks before a range is expanded take exactly the lists of present
\* CPUs, for every topology.
THEOREM PresentListsTaken == Spec => []PresentListsExact
<1>1. ASSUME Asked, Answered PROVE PresentListsExact
  <2> DEFINE text == question.text
  <2> DEFINE present == question.present
  <2> DEFINE lenient == ParseCpuRanges(text)
  <2> DEFINE meant == lenient.ok /\ Blank \notin {text[i] : i \in DOMAIN text}
  <2> SUFFICES ASSUME answer.of = "reading"
               PROVE  answer.result = IF meant /\ lenient.cpus \subseteq present
                                      THEN ParseCpuList(text) ELSE ValueError
    BY DEF PresentListsExact
  <2>1. question \in Readings /\ answer.result = ParsePresentCpus(text, present)
    BY <1>1, AnswerKinds
  <2>2. present \in SUBSET Host
    BY <2>1 DEF Readings
  <2>3. IsFiniteSet(present) /\ \A c \in present : c \in Nat
    BY <2>2, HostAssumption, FS_Subset
  <2> DEFINE parts == ToSet(text)
  <2>4. parts \subseteq Components /\ parts = {text[i] : i \in DOMAIN text}
    BY <2>1 DEF Readings, ToSet
  <2> HIDE DEF text, present
  <2>5. \A part \in parts : WellFormed(part) =>
            /\ part.start \in Nat /\ part.end \in Nat /\ part.start <= part.end
            /\ part.end <= MAX_CPU_ID
    BY <2>4, BoundsAssumption DEF Components, WellFormed, Cpu, Span, Blank, Junk
  <2>6. ~ WellFormed(Blank)
    BY DEF WellFormed, Blank
  <2> HIDE DEF parts
  <2> DEFINE within(part) == /\ part.start \in present /\ part.end \in present
                             /\ part.end - part.start + 1 <= Cardinality(present)
                             /\ Expand(part) \subseteq present
  <2>7. \A part \in parts : WellFormed(part) =>
            (within(part) <=> Expand(part) \subseteq present)
    <3> SUFFICES ASSUME NEW part \in parts, WellFormed(part), Expand(part) \subseteq present
                 PROVE  within(part)
      OBVIOUS
    <3>1. part.start \in Nat /\ part.end \in Nat /\ part.start <= part.end
      BY <2>5
    <3>2. Expand(part) = part.start .. part.end
      BY DEF Expand
    <3>3. part.start \in present /\ part.end \in present
      BY <3>1, <3>2
    <3>4. Cardinality(Expand(part)) = part.end - part.start + 1
      <4>1. Cardinality(part.start .. part.end) = part.end - part.start + 1
        BY <3>1, FS_Interval
      <4> QED BY <3>2, <4>1
    <3>5. Cardinality(Expand(part)) <= Cardinality(present)
      BY <2>3, FS_Subset
    <3> QED BY <3>3, <3>4, <3>5
  <2> DEFINE admitted == \A part \in parts : WellFormed(part) /\ within(part)
  <2>8. ParsePresentCpus(text, present) = IF admitted THEN Expanded(parts) ELSE ValueError
    BY DEF ParsePresentCpus, parts
  <2>9. admitted => ParseCpuList(text) = Expanded(parts)
    <3> HIDE DEF within
    <3> QED BY <2>5 DEF ParseCpuList, parts
  <2>10. meant <=> \A part \in parts : WellFormed(part)
    <3>1. meant <=> Blank \notin parts /\ \A part \in parts \ {Blank} : WellFormed(part)
      BY <2>4 DEF ParseCpuRanges, Expanded, Parsed, ValueError, parts
    <3> QED BY <2>6, <3>1
  <2>11. meant => lenient.cpus = UNION {Expand(part) : part \in parts}
    <3>1. meant => parts \ {Blank} = parts /\ \A part \in parts : WellFormed(part)
      BY <2>6, <2>10
    <3> QED BY <3>1 DEF ParseCpuRanges, Expanded, Parsed, parts
  <2> HIDE DEF lenient, meant
  <2>12. admitted <=> meant /\ lenient.cpus \subseteq present
    <3>1. meant => (lenient.cpus \subseteq present <=>
                        \A part \in parts : Expand(part) \subseteq present)
      BY <2>11
    <3> HIDE DEF within
    <3> QED BY <2>7, <2>10, <3>1
  <2> HIDE DEF admitted
  <2> QED BY <2>1, <2>8, <2>9, <2>12
<1> QED BY InitAnswered, StepAnswered, <1>1, PTL DEF Spec

-----------------------------------------------------------------------------
(* Writing a set down                                                      *)

Parts == {Cpu(n) : n \in Nat} \cup {Span(lo, hi) : lo \in Nat, hi \in Nat}

Works == [done : Seq(Parts), start : Nat, prev : Nat]

\* The work when the CPUs of a set have been visited: the finished ranges and
\* the one which goes on make up the set.
Visited(work, cpus) ==
    /\ work \in Works
    /\ \A part \in ToSet(work.done) : WellFormed(part)
    /\ work.start <= work.prev
    /\ (UNION {Expand(part) : part \in ToSet(work.done)}) \cup (work.start .. work.prev) = cpus
    /\ work.prev \in cpus /\ \A c \in cpus : c \in Nat /\ c <= work.prev

\* What is appended is in the list.
LEMMA ToSetAppend ==
    ASSUME NEW S, NEW list \in Seq(S), NEW e
    PROVE  ToSet(Append(list, e)) = ToSet(list) \cup {e}
<1>1. Len(list) \in Nat /\ DOMAIN list = 1..Len(list)
  BY LenProperties
<1>2. /\ DOMAIN Append(list, e) = 1..(Len(list) + 1)
      /\ \A i \in 1..Len(list) : Append(list, e)[i] = list[i]
      /\ Append(list, e)[Len(list) + 1] = e
  OBVIOUS
<1>3. \A i \in 1..(Len(list) + 1) : i \in 1..Len(list) \/ i = Len(list) + 1
  BY <1>1
<1>4. (Len(list) + 1) \in 1..(Len(list) + 1) /\ \A i \in 1..Len(list) : i \in 1..(Len(list) + 1)
  BY <1>1
<1> QED BY <1>1, <1>2, <1>3, <1>4 DEF ToSet

\* A written component denotes its run of CPUs.
LEMMA ComponentMeant ==
    ASSUME NEW lo \in Nat, NEW hi \in Nat, lo <= hi
    PROVE  /\ Component(lo, hi) \in Parts
           /\ WellFormed(Component(lo, hi))
           /\ Expand(Component(lo, hi)) = lo .. hi
  BY DEF Component, Parts, WellFormed, Expand, Cpu, Span

\* Each CPU visited goes on with the range before it or starts another.
LEMMA ContinueVisited ==
    ASSUME NEW work, NEW cpus, Visited(work, cpus), NEW cpu \in Nat,
           \A c \in cpus : c < cpu
    PROVE  Visited(Continue(work, cpu), cpus \cup {cpu})
<1> DEFINE lo == work.start
<1> DEFINE hi == work.prev
<1> DEFINE parts == ToSet(work.done)
<1>1. /\ work.done \in Seq(Parts) /\ lo \in Nat /\ hi \in Nat /\ lo <= hi
      /\ hi < cpu
      /\ work \in Works
      /\ cpus = (UNION {Expand(part) : part \in parts}) \cup (lo .. hi)
      /\ \A part \in parts : WellFormed(part)
  BY DEF Visited, Works
<1>2. \A c \in cpus : c \in Nat
  BY DEF Visited
<1>3. \A c \in cpus \cup {cpu} : c \in Nat /\ c <= cpu
  BY <1>2
<1>4. CASE cpu = hi + 1
  <2> DEFINE next == [work EXCEPT !.prev = cpu]
  <2>1. Continue(work, cpu) = next
    BY <1>4 DEF Continue
  <2>2. next \in Works /\ next.done = work.done /\ next.start = lo /\ next.prev = cpu
    BY <1>1 DEF Works
  <2>3. lo .. cpu = (lo .. hi) \cup {cpu} /\ lo <= cpu
    BY <1>1, <1>4
  <2> HIDE DEF next, parts
  <2>4. (UNION {Expand(part) : part \in parts}) \cup (lo .. cpu) = cpus \cup {cpu}
    BY <1>1, <2>3
  <2> QED BY <1>1, <1>3, <2>1, <2>2, <2>3, <2>4 DEF Visited, parts
<1>5. CASE cpu # hi + 1
  <2> DEFINE part == Component(lo, hi)
  <2> DEFINE next == [done |-> Append(work.done, part), start |-> cpu, prev |-> cpu]
  <2>1. Continue(work, cpu) = next
    BY <1>5 DEF Continue
  <2>2. part \in Parts /\ WellFormed(part) /\ Expand(part) = lo .. hi
    BY <1>1, ComponentMeant
  <2> HIDE DEF part
  <2>3. Append(work.done, part) \in Seq(Parts)
    BY <1>1, <2>2
  <2>4. ToSet(Append(work.done, part)) = parts \cup {part}
    BY <1>1, ToSetAppend
  <2>5. next \in Works /\ ToSet(next.done) = parts \cup {part}
        /\ next.start = cpu /\ next.prev = cpu
    BY <2>3, <2>4 DEF Works
  <2>6. cpu .. cpu = {cpu} /\ cpu <= cpu
    OBVIOUS
  <2> HIDE DEF next, parts
  <2>7. (UNION {Expand(p) : p \in parts \cup {part}}) \cup (cpu .. cpu) = cpus \cup {cpu}
    BY <1>1, <2>2, <2>6
  <2> QED BY <1>1, <1>3, <2>1, <2>2, <2>5, <2>6, <2>7 DEF Visited
<1> QED BY <1>4, <1>5

\* The ranges of a set make up the set.
LEMMA WalkVisited ==
    ASSUME NEW cpus \in SUBSET Nat, IsFiniteSet(cpus), cpus # {}
    PROVE  Visited(Walk(cpus), cpus)
<1> DEFINE first == Min(cpus)
<1> DEFINE D == cpus \ {first}
<1> DEFINE base == [done |-> << >>, start |-> first, prev |-> first]
<1> DEFINE pick(u) == Max(u)
<1> DEFINE next == [u \in SUBSET D |-> u \ {pick(u)}]
<1> DEFINE step == [u \in SUBSET D |->
                       [w \in Works |-> IF u = {} THEN w ELSE Continue(w, pick(u))]]
<1>1. /\ first \in Nat /\ first \in cpus
      /\ \A c \in D : c \in Nat /\ first < c
  <2>1. cpus \in SUBSET Int
    OBVIOUS
  <2>2. first \in cpus /\ \A c \in cpus : first <= c
    BY <2>1, FiniteExtremes, Zenon
  <2> HIDE DEF first
  <2> QED BY <2>2
<1> HIDE DEF first
<1>2. IsFiniteSet(D) /\ D \in SUBSET Int
  BY <1>1, FS_Subset
<1>3. \A u \in SUBSET D : u # {} => pick(u) \in u /\ \A c \in u : c <= pick(u)
  <2> SUFFICES ASSUME NEW u \in SUBSET D, u # {}
               PROVE  pick(u) \in u /\ \A c \in u : c <= pick(u)
    OBVIOUS
  <2>1. u \in SUBSET Int /\ IsFiniteSet(u)
    BY <1>2, FS_Subset
  <2>2. pick(u) \in u /\ \A c \in u : pick(u) >= c
    BY <2>1, FiniteExtremes, Zenon
  <2> HIDE DEF pick
  <2> QED BY <2>1, <2>2
<1> HIDE DEF pick, D
<1>4. base \in Works
  BY <1>1 DEF Works
<1>5. \A w \in Works, cpu \in Nat : Continue(w, cpu) \in Works
  <2> SUFFICES ASSUME NEW w \in Works, NEW cpu \in Nat PROVE Continue(w, cpu) \in Works
    OBVIOUS
  <2>1. w.done \in Seq(Parts) /\ w.start \in Nat /\ w.prev \in Nat
    BY DEF Works
  <2>2. Component(w.start, w.prev) \in Parts
    BY <2>1 DEF Component, Parts
  <2>3. Append(w.done, Component(w.start, w.prev)) \in Seq(Parts)
    BY <2>1, <2>2
  <2> QED BY <2>1, <2>3 DEF Continue, Works
<1>6. next \in [SUBSET D -> SUBSET D] /\ Descends(D, next)
  BY <1>3 DEF Descends
<1>7. step \in [SUBSET D -> [Works -> Works]]
  BY <1>1, <1>3, <1>5
<1> HIDE DEF base
<1>8. PICK f \in [SUBSET D -> Works] : Recurs(D, base, next, step, f)
  <2> HIDE DEF next, step
  <2> QED BY <1>2, <1>4, <1>6, <1>7, SubsetRecursion, Zenon
<1> DEFINE Solves(it) ==
       it = [u \in SUBSET D |-> IF u = {} THEN base ELSE Continue(it[u \ {pick(u)}], pick(u))]
<1>9. Solves(f)
  <2>1. \A u \in SUBSET D : u # {} => step[u][f[next[u]]] = Continue(f[u \ {pick(u)}], pick(u))
    BY <1>3, <1>6
  <2> HIDE DEF next, step
  <2> QED BY <1>8, <2>1 DEF Recurs
<1> DEFINE iter == CHOOSE it : Solves(it)
<1>10. Solves(iter)
  BY <1>9
<1>11. Walk(cpus) = iter[D]
  BY DEF Walk, MapThenFoldSet, base, pick, D, first
<1> HIDE DEF iter
<1> DEFINE Bad == {u \in SUBSET D : ~ Visited(iter[u], {first} \cup u)}
<1>12. Bad = {}
  <2> SUFFICES ASSUME Bad # {} PROVE FALSE
    OBVIOUS
  <2>1. PICK u \in Bad : Minimal(u, Bad)
    <3> Bad \subseteq SUBSET D
      OBVIOUS
    <3> HIDE DEF Bad
    <3> QED BY <1>2, LeastSet, Zenon
  <2>2. u # {}
    <3>1. first .. first = {first}
      BY <1>1
    <3>2. /\ base.done = << >> /\ base.start = first /\ base.prev = first
          /\ ToSet(<< >>) = {}
      BY DEF base, ToSet
    <3>3. Visited(base, {first} \cup {})
      BY <1>1, <1>4, <3>1, <3>2 DEF Visited
    <3> QED BY <1>10, <3>3
  <2> DEFINE cpu == pick(u)
  <2> DEFINE v == u \ {cpu}
  <2>3. cpu \in u /\ cpu \in D /\ v \in SUBSET D /\ v \subseteq u /\ v # u /\ u = v \cup {cpu}
    BY <1>3, <2>2
  <2>4. \A c \in {first} \cup v : c < cpu
    <3>1. \A c \in v : c <= cpu /\ c # cpu /\ c \in Nat
      BY <1>1, <1>3, <2>2
    <3>2. first < cpu /\ cpu \in Nat
      BY <1>1, <2>3
    <3> HIDE DEF cpu, v
    <3> QED BY <3>1, <3>2
  <2>5. iter[u] = Continue(iter[v], cpu)
    BY <1>10, <2>2
  <2> HIDE DEF cpu, v
  <2>6. Visited(iter[v], {first} \cup v)
    <3>1. v \notin Bad
      <4> HIDE DEF Bad
      <4> QED BY <2>1, <2>3 DEF Minimal
    <3> QED BY <2>3, <3>1
  <2>7. Visited(Continue(iter[v], cpu), ({first} \cup v) \cup {cpu})
    BY <1>1, <2>3, <2>4, <2>6, ContinueVisited
  <2>8. ({first} \cup v) \cup {cpu} = {first} \cup u
    BY <2>3
  <2> QED BY <2>5, <2>7, <2>8
<1>13. Visited(iter[D], {first} \cup D) /\ {first} \cup D = cpus
  BY <1>1, <1>12 DEF D
<1> QED BY <1>11, <1>13

\* Whatever is written is read back, by either parser: for every finite set of
\* CPUs, the empty one included.
THEOREM RangesReadBack == Spec => []RangesRoundTrip
<1>1. ASSUME NEW cpus \in SUBSET (0..MaxCpu)
      PROVE  /\ ParseCpuRanges(ToRanges(cpus)) = Parsed(cpus)
             /\ cpus # {} => ParseCpuList(ToRanges(cpus)) = Parsed(cpus)
  <2>1. cpus \in SUBSET Nat /\ IsFiniteSet(cpus) /\ \A c \in cpus : c <= MAX_CPU_ID
    <3>1. MaxCpu \in Nat /\ MAX_CPU_ID \in Nat /\ MaxCpu <= MAX_CPU_ID
      BY BoundsAssumption
    <3>2. IsFiniteSet(0..MaxCpu)
      BY <3>1, FS_Interval
    <3>3. IsFiniteSet(cpus)
      BY <3>2, FS_Subset
    <3>4. \A c \in 0..MaxCpu : c \in Nat /\ c <= MAX_CPU_ID
      BY <3>1
    <3> QED BY <3>3, <3>4
  <2>2. CASE cpus = {}
    <3>1. ToSet(<< Blank >>) \ {Blank} = {} /\ UNION {Expand(part) : part \in {}} = {}
      BY DEF ToSet
    <3> QED BY <2>2, <3>1 DEF ToRanges, ParseCpuRanges, Expanded
  <2>3. CASE cpus # {}
    <3> DEFINE work == Walk(cpus)
    <3> DEFINE last == Component(work.start, work.prev)
    <3> DEFINE parts == ToSet(work.done)
    <3>1. Visited(work, cpus)
      BY <2>1, <2>3, WalkVisited
    <3> HIDE DEF work
    <3>2. /\ work.done \in Seq(Parts) /\ work.start \in Nat /\ work.prev \in Nat
          /\ work.start <= work.prev
          /\ \A part \in parts : WellFormed(part)
          /\ cpus = (UNION {Expand(part) : part \in parts}) \cup (work.start .. work.prev)
      BY <3>1 DEF Visited, Works
    <3>3. WellFormed(last) /\ Expand(last) = work.start .. work.prev
      BY <3>2, ComponentMeant
    <3> HIDE DEF last
    <3> DEFINE text == Append(work.done, last)
    <3>4. ToRanges(cpus) = text
      BY <2>3 DEF ToRanges, work, last
    <3>5. ToSet(text) = parts \cup {last}
      BY <3>2, ToSetAppend
    <3> HIDE DEF text, parts
    <3>6. /\ \A part \in ToSet(text) : WellFormed(part)
          /\ UNION {Expand(part) : part \in ToSet(text)} = cpus
      BY <3>2, <3>3, <3>5
    <3>7. ParseCpuRanges(text) = Parsed(cpus)
      <4>1. Blank \notin ToSet(text)
        BY <3>6 DEF WellFormed, Blank
      <4>2. ToSet(text) \ {Blank} = ToSet(text)
        BY <4>1
      <4> QED BY <3>6, <4>2 DEF ParseCpuRanges, Expanded
    <3>8. \A part \in ToSet(text) : part.end <= MAX_CPU_ID
      <4> SUFFICES ASSUME NEW part \in ToSet(text) PROVE part.end <= MAX_CPU_ID
        OBVIOUS
      <4>1. part.start \in Nat /\ part.end \in Nat /\ part.start <= part.end
        <5>1. part \in Parts \/ part = last
          <6>1. parts \subseteq Parts
            BY <3>2 DEF parts, ToSet
          <6> QED BY <3>5, <6>1
        <5>2. last \in Parts
          BY <3>2, ComponentMeant DEF last
        <5> QED BY <3>6, <5>1, <5>2 DEF Parts, Cpu, Span, WellFormed
      <4>2. part.end \in Expand(part)
        BY <4>1 DEF Expand
      <4>3. part.end \in cpus
        BY <3>6, <4>2
      <4> QED BY <2>1, <4>3
    <3>9. ParseCpuList(text) = Parsed(cpus)
      BY <3>6, <3>8 DEF ParseCpuList, Expanded
    <3> QED BY <3>4, <3>7, <3>9
  <2> QED BY <2>2, <2>3
<1>2. ASSUME Asked, Answered PROVE RangesRoundTrip
  <2> SUFFICES ASSUME answer.of = "writing"
               PROVE  /\ ParseCpuRanges(answer.text) = Parsed(question.cpus)
                      /\ question.cpus # {} => ParseCpuList(answer.text) = Parsed(question.cpus)
    BY DEF RangesRoundTrip
  <2>1. question \in Writings /\ answer.text = ToRanges(question.cpus)
    BY <1>2, AnswerKinds
  <2>2. question.cpus \in SUBSET (0..MaxCpu)
    BY <2>1 DEF Writings
  <2> QED BY <1>1, <2>1, <2>2
<1> QED BY InitAnswered, StepAnswered, <1>2, PTL DEF Spec

-----------------------------------------------------------------------------
(* Whole cores                                                             *)

\* A CPU is among its siblings, which have the same siblings.
Classes(siblings) ==
    /\ \A c \in Host : siblings[c] \in SUBSET Host /\ c \in siblings[c]
    /\ \A c, d \in Host : d \in siblings[c] => siblings[d] = siblings[c]

\* The cores of a topology are disjoint.
LEMMA TopologyClasses ==
    ASSUME NEW siblings \in Topologies
    PROVE  Classes(siblings)
<1>1. PICK label \in [Host -> Host] :
          siblings = [c \in Host |-> {d \in Host : label[d] = label[c]}]
  BY DEF Topologies
<1> QED BY <1>1 DEF Classes

\* Where sysfs is read without failure, the groups are what the candidates have
\* of each core.
LEMMA GroupsAreCores ==
    ASSUME NEW candidates \in SUBSET Host, NEW siblings, Classes(siblings)
    PROVE  LET groups == GroupCandidatesBySiblings(candidates, siblings)
           IN  \A i \in DOMAIN groups :
                   \E c \in candidates : groups[i] = siblings[c] \cap candidates
<1>1. candidates \in SUBSET Int /\ IsFiniteSet(candidates)
  <2>1. \A c \in Host : c \in Int
    BY HostAssumption
  <2> QED BY <2>1, HostAssumption, FS_Subset
<1>2. PICK groupsOf \in [SUBSET candidates -> Seq(SUBSET candidates)] :
          DividesInto(candidates, siblings, groupsOf)
  BY <1>1, GroupsDefined
<1> DEFINE core(c) == siblings[c] \cap candidates
<1> DEFINE closed(u) == \A c \in u : core(c) \subseteq u
<1> DEFINE good(groups) == \A i \in DOMAIN groups : \E c \in candidates : groups[i] = core(c)
<1> DEFINE Bad == {u \in SUBSET candidates : closed(u) /\ ~ good(groupsOf[u])}
<1>3. Bad = {}
  <2> SUFFICES ASSUME Bad # {} PROVE FALSE
    OBVIOUS
  <2>1. PICK u \in Bad : Minimal(u, Bad)
    <3> Bad \subseteq SUBSET candidates
      OBVIOUS
    <3> HIDE DEF Bad
    <3> QED BY <1>1, LeastSet, Zenon
  <2>2. u \in SUBSET candidates /\ closed(u) /\ ~ good(groupsOf[u])
    OBVIOUS
  <2>3. u # {}
    <3>1. good(<< >>)
      OBVIOUS
    <3> HIDE DEF good
    <3> QED BY <1>2, <2>2, <3>1 DEF DividesInto
  <2> DEFINE first == FirstGroup(u, siblings)
  <2> DEFINE rest == u \ first
  <2>4. /\ first \in SUBSET u /\ first # {}
        /\ Min(u) \in u /\ Min(u) \in candidates
    BY <1>1, <2>2, <2>3, FirstGroupNonempty
  <2>5. first = core(Min(u))
    <3>1. Min(u) \in siblings[Min(u)]
      BY <2>4 DEF Classes
    <3>2. core(Min(u)) \subseteq u
      BY <2>2, <2>4
    <3> QED BY <2>2, <3>1, <3>2 DEF FirstGroup
  <2>6. groupsOf[u] = << first >> \o groupsOf[rest]
    BY <1>2, <2>2, <2>3 DEF DividesInto
  <2> HIDE DEF first
  <2>7. closed(rest)
    <3> SUFFICES ASSUME NEW c \in rest, NEW d \in core(c) PROVE d \in rest
      OBVIOUS
    <3>1. c \in u /\ c \in candidates /\ c \in Host /\ d \in u /\ d \in Host /\ Min(u) \in Host
      BY <2>2, <2>4
    <3>2. siblings[d] = siblings[c]
      BY <3>1 DEF Classes
    <3>3. d \notin first
      <4> SUFFICES ASSUME d \in first PROVE FALSE
        OBVIOUS
      <4>1. siblings[d] = siblings[Min(u)]
        BY <2>5, <3>1 DEF Classes
      <4>2. c \in first
        BY <2>5, <3>1, <3>2, <4>1 DEF Classes
      <4> QED BY <4>2
    <3> QED BY <3>1, <3>3
  <2>8. rest \in SUBSET candidates /\ rest \subseteq u /\ rest # u
    BY <2>2, <2>4
  <2> HIDE DEF rest
  <2>9. good(groupsOf[rest])
    <3>1. rest \notin Bad
      <4> HIDE DEF Bad
      <4> QED BY <2>1, <2>8 DEF Minimal
    <3> HIDE DEF good, closed
    <3> QED BY <2>7, <2>8, <3>1
  <2>10. good(groupsOf[u])
    <3> DEFINE groups == groupsOf[rest]
    <3> DEFINE all == << first >> \o groups
    <3>1. groups \in Seq(SUBSET candidates) /\ Len(groups) \in Nat /\ DOMAIN groups = 1..Len(groups)
      BY <2>8
    <3>2. << first >> \in Seq(SUBSET candidates) /\ Len(<< first >>) = 1
      BY <2>2, <2>4
    <3> HIDE DEF groups
    <3>3. /\ DOMAIN all = 1..(Len(groups) + 1)
          /\ all[1] = first
          /\ \A i \in 2..(Len(groups) + 1) : all[i] = groups[i-1]
      BY <3>1, <3>2
    <3> HIDE DEF all
    <3> SUFFICES ASSUME NEW i \in 1..(Len(groups) + 1)
                 PROVE  \E c \in candidates : all[i] = core(c)
      BY <2>6, <3>3 DEF all, groups
    <3>4. CASE i = 1
      BY <2>4, <2>5, <3>3, <3>4
    <3>5. CASE i # 1
      <4>1. i \in 2..(Len(groups) + 1) /\ i-1 \in 1..Len(groups)
        BY <3>1, <3>5
      <4>2. PICK c \in candidates : groups[i-1] = core(c)
        BY <2>9, <3>1, <4>1 DEF groups
      <4> QED BY <3>3, <4>1, <4>2
    <3> QED BY <3>4, <3>5
  <2> QED BY <2>2, <2>10
<1>4. closed(candidates)
  OBVIOUS
<1>5. good(groupsOf[candidates])
  <2> HIDE DEF good, closed
  <2> QED BY <1>3, <1>4
<1> QED BY <1>2, <1>5 DEF DividesInto

\* The cores of two threads which a set of CPUs holds whole.
CoresIn(S, siblings) ==
    {core \in {siblings[c] : c \in Host} : Cardinality(core) = 2 /\ core \subseteq S}

\* There are finitely many whole cores in a set.
LEMMA CoresInFinite ==
    ASSUME NEW S, NEW siblings, Classes(siblings)
    PROVE  IsFiniteSet(CoresIn(S, siblings)) /\ Cardinality(CoresIn(S, siblings)) \in Nat
<1>1. CoresIn(S, siblings) \in SUBSET (SUBSET Host)
  BY DEF CoresIn, Classes
<1>2. IsFiniteSet(SUBSET Host)
  BY HostAssumption, FS_SUBSET
<1>3. IsFiniteSet(CoresIn(S, siblings))
  BY <1>1, <1>2, FS_Subset
<1> QED BY <1>3, FS_CardinalityType

\* Cores are disjoint: a set holds no more of them than half its CPUs.
LEMMA CoresAreDisjoint ==
    ASSUME NEW S \in SUBSET Host, NEW siblings, Classes(siblings)
    PROVE  2 * Cardinality(CoresIn(S, siblings)) <= Cardinality(S)
<1> DEFINE cores == CoresIn(S, siblings)
<1>1. IsFiniteSet(cores) /\ Cardinality(cores) \in Nat
  BY CoresInFinite
<1>2. \A core \in cores : /\ IsFiniteSet(core) /\ Cardinality(core) = 2
                          /\ core \in SUBSET S
  <2> SUFFICES ASSUME NEW core \in cores
               PROVE  IsFiniteSet(core) /\ Cardinality(core) = 2 /\ core \in SUBSET S
    OBVIOUS
  <2>1. core \in SUBSET Host /\ Cardinality(core) = 2 /\ core \subseteq S
    BY DEF CoresIn
  <2> QED BY <2>1, HostAssumption, FS_Subset
<1>3. \A p, q \in cores : p # q => p \cap q = {}
  <2> SUFFICES ASSUME NEW p \in cores, NEW q \in cores, NEW e \in p \cap q
               PROVE  p = q
    OBVIOUS
  <2>1. PICK c \in Host : p = siblings[c]
    BY DEF CoresIn
  <2>2. PICK d \in Host : q = siblings[d]
    BY DEF CoresIn
  <2>3. e \in Host
    BY <1>2
  <2> QED BY <2>1, <2>2, <2>3 DEF Classes
<1> HIDE DEF cores
<1>4. Cardinality(UNION cores) = 2 * Cardinality(cores)
  <2>1. \A core \in cores : IsFiniteSet(core) /\ Cardinality(core) <= 2
    BY <1>2
  <2>2. \A core \in cores : Cardinality(core) = 2
    BY <1>2
  <2> QED BY <1>1, <1>3, <2>1, <2>2, UnionOfPairs
<1>5. Cardinality(UNION cores) <= Cardinality(S)
  <2>1. IsFiniteSet(S) /\ UNION cores \in SUBSET S
    BY <1>2, HostAssumption, FS_Subset
  <2> QED BY <2>1, FS_Subset
<1> QED BY <1>4, <1>5 DEF cores

\* The pair pass takes as many whole cores as the count allows and the
\* candidates have.
LEMMA MostCores ==
    ASSUME NEW candidates \in SUBSET Host, NEW siblings, Classes(siblings),
           \A c \in Host : Cardinality(siblings[c]) <= 2,
           NEW count \in Nat, NEW other \in SUBSET candidates, Cardinality(other) = count
    PROVE  Cardinality(CoresIn(other, siblings))
               <= Cardinality(CoresIn(SelectSmtAware(candidates, count, siblings), siblings))
<1> DEFINE groups == GroupCandidatesBySiblings(candidates, siblings)
<1> DEFINE pairable == {i \in DOMAIN groups : Cardinality(groups[i]) >= 2}
<1> DEFINE firsts == Lowest(pairable, count \div 2)
<1> DEFINE smt == SelectSmtAware(candidates, count, siblings)
<1> DEFINE best == CoresIn(smt, siblings)
<1> DEFINE cores == CoresIn(other, siblings)
<1>1. candidates \in SUBSET Int /\ IsFiniteSet(candidates)
  <2>1. \A c \in Host : c \in Int
    BY HostAssumption
  <2> QED BY <2>1, HostAssumption, FS_Subset
<1>2. Partitions(groups, candidates)
  BY <1>1, GroupsPartition
<1>3. \A i \in DOMAIN groups : \E c \in candidates : groups[i] = siblings[c] \cap candidates
  BY GroupsAreCores
<1>4. TakePairsFromGroups(groups, count) = UNION {Lowest(groups[i], 2) : i \in firsts}
  BY DEF TakePairsFromGroups
<1>5. TakePairsFromGroups(groups, count) \subseteq smt
  BY DEF SelectSmtAware
<1>6. IsFiniteSet(cores) /\ Cardinality(cores) \in Nat /\ IsFiniteSet(best)
      /\ Cardinality(best) \in Nat
  BY CoresInFinite
<1>7. 2 * Cardinality(cores) <= count
  BY CoresAreDisjoint
<1>8. /\ Pieces(groups, candidates)
      /\ pairable \in SUBSET Int /\ IsFiniteSet(pairable) /\ Cardinality(pairable) \in Nat
      /\ \A i \in pairable : i \in DOMAIN groups /\ Cardinality(groups[i]) >= 2
  <2>1. Pieces(groups, candidates)
    BY <1>2, PartitionInPieces
  <2>2. pairable \in SUBSET DOMAIN groups
    OBVIOUS
  <2>3. pairable \in SUBSET Int /\ IsFiniteSet(pairable)
    BY <2>1, <2>2, FS_Subset DEF Pieces
  <2> QED BY <2>1, <2>3, FS_CardinalityType
<1> HIDE DEF smt
<1>9. count \div 2 \in Nat /\ Cardinality(cores) <= count \div 2
  BY <1>6, <1>7
<1>10. Cardinality(cores) <= Cardinality(pairable)
  <2> DEFINE at(core) == CHOOSE i \in DOMAIN groups : groups[i] = core
  <2> DEFINE place == [core \in cores |-> at(core)]
  <2>1. \A core \in cores : at(core) \in pairable /\ groups[at(core)] = core
    <3> SUFFICES ASSUME NEW core \in cores
                 PROVE  at(core) \in pairable /\ groups[at(core)] = core
      OBVIOUS
    <3>1. core \subseteq candidates /\ Cardinality(core) = 2
      BY DEF CoresIn
    <3>2. PICK c \in Host : core = siblings[c]
      BY DEF CoresIn
    <3>3. c \in candidates /\ c \in core
      BY <3>1, <3>2 DEF Classes
    <3>4. PICK i \in DOMAIN groups : c \in groups[i]
      BY <1>2, <3>3 DEF Partitions
    <3>5. PICK d \in candidates : groups[i] = siblings[d] \cap candidates
      BY <1>3
    <3>6. siblings[d] = core
      BY <3>2, <3>4, <3>5 DEF Classes
    <3>7. groups[i] = core
      BY <3>1, <3>5, <3>6
    <3>8. at(core) \in DOMAIN groups /\ groups[at(core)] = core
      BY <3>7
    <3> HIDE DEF at, groups
    <3> QED BY <3>1, <3>8
  <2> HIDE DEF at, pairable, cores, groups
  <2>2. place \in Injection(cores, pairable)
    BY <2>1 DEF Injection, IsInjective
  <2> HIDE DEF place
  <2> QED BY <1>8, <2>2, FS_Injection
<1>11. /\ firsts \subseteq pairable /\ IsFiniteSet(firsts)
       /\ Cardinality(firsts) = IF count \div 2 <= Cardinality(pairable)
                                THEN count \div 2 ELSE Cardinality(pairable)
  <2> HIDE DEF pairable
  <2> QED BY <1>8, <1>9, LowestSize
<1>12. \A i \in firsts : groups[i] \in best
  <2> SUFFICES ASSUME NEW i \in firsts PROVE groups[i] \in best
    OBVIOUS
  <2>1. i \in DOMAIN groups /\ Cardinality(groups[i]) >= 2 /\ groups[i] \in SUBSET candidates
    BY <1>8, <1>11 DEF Pieces
  <2>2. PICK c \in candidates : groups[i] = siblings[c] \cap candidates
    BY <1>3, <2>1
  <2> HIDE DEF groups, firsts, best
  <2>3. c \in Host /\ IsFiniteSet(siblings[c]) /\ Cardinality(siblings[c]) \in Nat
        /\ Cardinality(siblings[c]) <= 2
    <3>1. c \in Host /\ siblings[c] \in SUBSET Host
      BY DEF Classes
    <3>2. IsFiniteSet(siblings[c])
      BY <3>1, HostAssumption, FS_Subset
    <3> QED BY <3>1, <3>2, FS_CardinalityType
  <2>4. /\ groups[i] = siblings[c] /\ Cardinality(groups[i]) = 2 /\ IsFiniteSet(groups[i])
    <3>1. groups[i] \in SUBSET siblings[c]
      BY <2>2
    <3>2. IsFiniteSet(groups[i]) /\ Cardinality(groups[i]) <= Cardinality(siblings[c])
          /\ (Cardinality(siblings[c]) = Cardinality(groups[i]) => siblings[c] = groups[i])
      BY <2>3, <3>1, FS_Subset
    <3>3. Cardinality(groups[i]) \in Nat
      BY <3>2, FS_CardinalityType
    <3>4. Cardinality(groups[i]) = 2 /\ Cardinality(siblings[c]) = 2
      BY <2>1, <2>3, <3>2, <3>3
    <3> QED BY <3>2, <3>4
  <2>5. Lowest(groups[i], 2) = groups[i]
    <3>1. groups[i] \in SUBSET Int
      BY <1>1, <2>1
    <3>2. Lowest(groups[i], 2) \subseteq groups[i] /\ Cardinality(Lowest(groups[i], 2)) = 2
      BY <2>4, <3>1, LowestSize
    <3> QED BY <2>4, <3>2, FS_Subset
  <2>6. groups[i] \subseteq smt
    BY <1>4, <1>5, <2>5
  <2> QED BY <2>3, <2>4, <2>6 DEF CoresIn, best
<1>13. Cardinality(firsts) <= Cardinality(best)
  <2> DEFINE whole == [i \in firsts |-> groups[i]]
  <2>1. \A i, j \in firsts : groups[i] = groups[j] => i = j
    BY <1>2, <1>8, <1>11 DEF Partitions
  <2> HIDE DEF groups, firsts, best
  <2>2. whole \in Injection(firsts, best)
    BY <1>12, <2>1 DEF Injection, IsInjective
  <2> HIDE DEF whole
  <2> QED BY <1>6, <2>2, FS_Injection
<1> HIDE DEF cores, best, firsts, pairable
<1>14. Cardinality(cores) <= Cardinality(best)
  <2>1. Cardinality(firsts) \in Nat
    BY <1>11, FS_CardinalityType
  <2> QED BY <1>6, <1>8, <1>9, <1>10, <1>11, <1>13, <2>1
<1> QED BY <1>14 DEF cores, best, smt

\* No choice of as many candidates holds more whole cores, on any host whose
\* cores have at most two threads.
THEOREM SelectionsWhole == Spec => []WholeCoresFirst
<1>1. ASSUME Asked, Answered PROVE WholeCoresFirst
  <2> SUFFICES ASSUME answer.of = "selection", question.siblings \in Topologies,
                      \A c \in Host : Cardinality(question.siblings[c]) <= 2,
                      NEW other \in kSubset(question.count, question.candidates)
               PROVE  Cardinality(WholeCores(other)) <= Cardinality(WholeCores(answer.smt))
    BY DEF WholeCoresFirst
  <2>1. /\ question \in SelectorCases
        /\ answer.smt = SelectSmtAware(question.candidates, question.count, question.siblings)
    BY <1>1, AnswerKinds
  <2>2. question.candidates \in SUBSET Host /\ question.count \in Nat
    BY <2>1, CasesTyped DEF SelectorCases
  <2>3. other \in SUBSET question.candidates /\ Cardinality(other) = question.count
    BY DEF kSubset
  <2>4. Classes(question.siblings)
    BY TopologyClasses
  <2>5. \A S : WholeCores(S) = CoresIn(S, question.siblings)
    BY DEF WholeCores, CoresIn
  <2>6. Cardinality(CoresIn(other, question.siblings))
            <= Cardinality(CoresIn(answer.smt, question.siblings))
    BY <2>1, <2>2, <2>3, <2>4, MostCores
  <2> QED BY <2>5, <2>6
<1> QED BY InitAnswered, StepAnswered, <1>1, PTL DEF Spec
=============================================================================
