--------------------------- MODULE HugepagesProofs ---------------------------
(***************************************************************************)
(* The properties of module Hugepages, for any services, keys, counts and  *)
(* requests, by induction over the entries of a service and over the       *)
(* services.                                                               *)
(*                                                                         *)
(* Typed holds of every run.  If requests have counts which the            *)
(* documentation knows, and so has the first state file, records stay      *)
(* positive and the inspection of a request counts every reservation       *)
(* (Known).  If moreover nobody resizes the pool and the first             *)
(* reservations fit, they always do (Fitting).                             *)
(***************************************************************************)
EXTENDS Hugepages, SetLemmas, SequenceTheorems

-----------------------------------------------------------------------------
(* The lists of entries                                                    *)

Kept(E, keys) == {e \in E : e.key \in keys}

\* kept[i] is what is kept of the first i entries.
Walks(list, keys, kept) ==
    /\ kept[0] = << >>
    /\ \A i \in 1..Len(list) :
           kept[i] = IF list[i].key \in keys THEN Append(kept[i-1], list[i])
                                             ELSE kept[i-1]
    /\ EntriesFor(list, keys) = kept[Len(list)]

\* EntriesFor reads a list from its first entry to its last.
LEMMA EntriesForTaken ==
    ASSUME NEW E, NEW list \in Seq(E), NEW keys
    PROVE  \E kept \in [0..Len(list) -> Seq(Kept(E, keys))] : Walks(list, keys, kept)
<1> DEFINE n == Len(list)
<1> DEFINE D == DOMAIN list
<1> DEFINE pick(u) == Max(u)
<1> DEFINE body(u, before) ==
       IF list[pick(u)].key \in keys THEN Append(before, list[pick(u)]) ELSE before
<1> DEFINE next == [u \in SUBSET D |-> u \ {pick(u)}]
<1> DEFINE step == [u \in SUBSET D |->
                       [v \in Seq(Kept(E, keys)) |-> IF u = {} THEN v ELSE body(u, v)]]
<1>1. n \in Nat /\ D = 1..n /\ IsFiniteSet(D) /\ D \subseteq Int
  <2>1. n \in Nat /\ D = 1..n
    BY LenProperties
  <2> QED BY <2>1, FS_Interval
<1>2. \A i \in D : list[i] \in E
  BY <1>1
<1>3. \A u \in SUBSET D : u # {} => pick(u) \in u /\ \A y \in u : pick(u) >= y
  <2> SUFFICES ASSUME NEW u \in SUBSET D, u # {}
               PROVE  pick(u) \in u /\ \A y \in u : pick(u) >= y
    OBVIOUS
  <2>1. u \in SUBSET Int /\ IsFiniteSet(u)
    BY <1>1, FS_Subset
  <2> QED BY <2>1, FiniteExtremes, Zenon
<1> HIDE DEF pick, D, n
<1>4. << >> \in Seq(Kept(E, keys))
  OBVIOUS
<1>5. \A u \in SUBSET D, v \in Seq(Kept(E, keys)) : u # {} => body(u, v) \in Seq(Kept(E, keys))
  <2> SUFFICES ASSUME NEW u \in SUBSET D, NEW v \in Seq(Kept(E, keys)), u # {}
               PROVE  body(u, v) \in Seq(Kept(E, keys))
    OBVIOUS
  <2>1. list[pick(u)] \in E
    BY <1>2, <1>3
  <2> QED BY <2>1 DEF Kept
<1> HIDE DEF body
<1>6. next \in [SUBSET D -> SUBSET D] /\ Descends(D, next)
  BY <1>3 DEF Descends
<1>7. step \in [SUBSET D -> [Seq(Kept(E, keys)) -> Seq(Kept(E, keys))]]
  BY <1>5
<1>8. PICK f \in [SUBSET D -> Seq(Kept(E, keys))] : Recurs(D, << >>, next, step, f)
  <2> HIDE DEF next, step
  <2> QED BY <1>1, <1>4, <1>6, <1>7, SubsetRecursion, Zenon
<1> DEFINE Folds(it) == it = [u \in SUBSET D |->
                                 IF u = {} THEN << >> ELSE body(u, it[u \ {pick(u)}])]
<1>9. Folds(f)
  <2>1. \A u \in SUBSET D : u # {} => step[u][f[next[u]]] = body(u, f[u \ {pick(u)}])
    BY <1>3, <1>6
  <2> HIDE DEF next, step
  <2> QED BY <1>8, <2>1 DEF Recurs
<1> DEFINE iter == CHOOSE it : Folds(it)
<1>10. Folds(iter)
  BY <1>9
<1>11. EntriesFor(list, keys) = iter[D]
  BY DEF EntriesFor, FoldLeft, MapThenFoldSet, D, body, pick
<1> HIDE DEF iter
<1>12. iter \in [SUBSET D -> Seq(Kept(E, keys))]
  <2> DEFINE Bad == {u \in SUBSET D : iter[u] \notin Seq(Kept(E, keys))}
  <2> SUFFICES Bad = {}
    BY <1>10
  <2> SUFFICES ASSUME Bad # {} PROVE FALSE
    OBVIOUS
  <2>1. PICK u \in Bad : Minimal(u, Bad)
    <3> Bad \subseteq SUBSET D
      OBVIOUS
    <3> HIDE DEF Bad
    <3> QED BY <1>1, LeastSet, Zenon
  <2>2. u # {} /\ pick(u) \in u
    BY <1>3, <1>4, <1>10
  <2>3. u \ {pick(u)} \notin Bad /\ u \ {pick(u)} \in SUBSET D
    BY <2>1, <2>2 DEF Minimal
  <2>4. iter[u] = body(u, iter[u \ {pick(u)}])
    BY <1>10, <2>2
  <2> QED BY <1>5, <2>2, <2>3, <2>4
<1> DEFINE kept == [i \in 0..n |-> iter[1..i]]
<1>13. \A i \in 0..n : 1..i \in SUBSET D
  BY <1>1
<1>14. kept \in [0..n -> Seq(Kept(E, keys))] /\ EntriesFor(list, keys) = kept[n]
  BY <1>1, <1>11, <1>12, <1>13
<1>15. kept[0] = << >>
  <2>1. 1..0 = {} /\ 0 \in 0..n
    BY <1>1
  <2> QED BY <1>10, <2>1
<1>16. \A i \in 1..n : kept[i] = IF list[i].key \in keys THEN Append(kept[i-1], list[i])
                                                         ELSE kept[i-1]
  <2> SUFFICES ASSUME NEW i \in 1..n
               PROVE  kept[i] = IF list[i].key \in keys THEN Append(kept[i-1], list[i])
                                                        ELSE kept[i-1]
    OBVIOUS
  <2>1. 1..i \in SUBSET D /\ 1..i # {} /\ i \in 1..i
    <3>1. i \in Nat /\ i >= 1 /\ i \in 0..n
      BY <1>1
    <3>2. 1..i \in SUBSET D
      BY <1>13, <3>1
    <3>3. i \in 1..i
      BY <3>1
    <3> QED BY <3>2, <3>3
  <2>2. pick(1..i) = i
    <3>1. pick(1..i) \in 1..i /\ pick(1..i) >= i
      BY <1>3, <2>1
    <3> QED BY <1>1, <3>1
  <2>3. (1..i) \ {i} = 1..(i-1) /\ i-1 \in 0..n /\ i \in 0..n
    BY <1>1
  <2>4. iter[1..i] = body(1..i, iter[1..(i-1)])
    BY <1>10, <2>1, <2>2, <2>3
  <2> QED BY <2>2, <2>3, <2>4 DEF body
<1> QED BY <1>14, <1>15, <1>16 DEF n, Walks

\* What is picked from a list are entries of it with the keys asked for.
LEMMA EntriesForTyped ==
    ASSUME NEW E, NEW list \in Seq(E), NEW keys
    PROVE  EntriesFor(list, keys) \in Seq(Kept(E, keys)) /\ EntriesFor(list, keys) \in Seq(E)
<1>1. PICK kept \in [0..Len(list) -> Seq(Kept(E, keys))] : Walks(list, keys, kept)
  BY EntriesForTaken, Zenon
<1>2. EntriesFor(list, keys) \in Seq(Kept(E, keys))
  <2>1. Len(list) \in Nat
    BY LenProperties
  <2> QED BY <1>1, <2>1 DEF Walks
<1>3. Kept(E, keys) \subseteq E
  BY DEF Kept
<1> QED BY <1>2, <1>3, SeqMonotonic

\* Nothing is picked from an empty list.
LEMMA EntriesForEmpty ==
    ASSUME NEW keys
    PROVE  EntriesFor(<< >>, keys) = << >>
<1> DEFINE E == {}
<1>1. << >> \in Seq(E) /\ Len(<< >>) = 0
  OBVIOUS
<1>2. PICK kept \in [0..Len(<< >>) -> Seq(Kept(E, keys))] : Walks(<< >>, keys, kept)
  BY <1>1, EntriesForTaken, Zenon
<1> QED BY <1>1, <1>2 DEF Walks

\* An entry at the end stays there, if it is for one of the keys.
LEMMA EntriesForAppend ==
    ASSUME NEW E, NEW list \in Seq(E), NEW e \in E, NEW keys
    PROVE  EntriesFor(Append(list, e), keys) =
               IF e.key \in keys THEN Append(EntriesFor(list, keys), e)
                                 ELSE EntriesFor(list, keys)
<1> DEFINE longer == Append(list, e)
<1> DEFINE n == Len(list)
<1>1. /\ longer \in Seq(E) /\ Len(longer) = n + 1 /\ n \in Nat
      /\ longer[n + 1] = e /\ \A i \in 1..n : longer[i] = list[i]
  BY AppendProperties, LenProperties
<1>2. PICK kept \in [0..n -> Seq(Kept(E, keys))] : Walks(list, keys, kept)
  BY EntriesForTaken, Zenon
<1> HIDE DEF longer
<1>3. PICK more \in [0..Len(longer) -> Seq(Kept(E, keys))] : Walks(longer, keys, more)
  BY <1>1, EntriesForTaken, Zenon
<1> HIDE DEF n
<1> DEFINE Bad == {i \in 0..n : more[i] # kept[i]}
<1>4. Bad = {}
  <2> SUFFICES ASSUME Bad # {} PROVE FALSE
    OBVIOUS
  <2>1. PICK i \in Bad : \A j \in Bad : i <= j
    <3> Bad \in SUBSET Nat
      BY <1>1
    <3> HIDE DEF Bad
    <3> QED BY LeastNat
  <2>2. i # 0 /\ i \in 0..n
    BY <1>2, <1>3 DEF Walks
  <2>3. i \in 1..n /\ i \in 1..n+1 /\ i-1 \in 0..n
    BY <1>1, <2>2
  <2>4. more[i-1] = kept[i-1]
    <3>1. i-1 \notin Bad
      BY <1>1, <2>1, <2>3
    <3> QED BY <2>3, <3>1
  <2> QED BY <1>1, <1>2, <1>3, <2>3, <2>4 DEF Walks, n
<1>5. more[n] = kept[n] /\ n + 1 \in 1..n+1 /\ (n + 1) - 1 = n
  <2>1. n \in 0..n /\ n + 1 \in 1..n+1 /\ (n + 1) - 1 = n
    BY <1>1
  <2> QED BY <1>4, <2>1
<1>6. more[n + 1] = IF e.key \in keys THEN Append(kept[n], e) ELSE kept[n]
  <2>1. n + 1 \in 1..Len(longer)
    BY <1>1
  <2>2. more[n + 1] = IF longer[n + 1].key \in keys THEN Append(more[(n + 1) - 1], longer[n + 1])
                                                    ELSE more[(n + 1) - 1]
    BY <1>3, <2>1 DEF Walks
  <2> QED BY <1>1, <1>5, <2>2
<1> QED BY <1>1, <1>2, <1>3, <1>6 DEF longer, Walks, n

\* What is left of what is left.
LEMMA EntriesForTwice ==
    ASSUME NEW E, NEW list \in Seq(E), NEW keys, NEW others
    PROVE  EntriesFor(EntriesFor(list, keys), others) = EntriesFor(list, keys \cap others)
<1> DEFINE n == Len(list)
<1>1. n \in Nat
  BY LenProperties
<1>2. PICK kept \in [0..n -> Seq(Kept(E, keys))] : Walks(list, keys, kept)
  BY EntriesForTaken, Zenon
<1>3. PICK both \in [0..n -> Seq(Kept(E, keys \cap others))] : Walks(list, keys \cap others, both)
  BY EntriesForTaken, Zenon
<1>4. \A i \in 1..n : list[i] \in E
  OBVIOUS
<1>5. \A i \in 0..n : kept[i] \in Seq(E)
  <2>1. Kept(E, keys) \subseteq E
    BY DEF Kept
  <2> QED BY <2>1, SeqMonotonic
<1> HIDE DEF n
<1> DEFINE Bad == {i \in 0..n : EntriesFor(kept[i], others) # both[i]}
<1>6. Bad = {}
  <2> SUFFICES ASSUME Bad # {} PROVE FALSE
    OBVIOUS
  <2>1. PICK i \in Bad : \A j \in Bad : i <= j
    <3> Bad \in SUBSET Nat
      BY <1>1
    <3> HIDE DEF Bad
    <3> QED BY LeastNat
  <2>2. i # 0 /\ i \in 0..n
    BY <1>2, <1>3, EntriesForEmpty DEF Walks
  <2>3. i \in 1..n /\ i-1 \in 0..n
    BY <1>1, <2>2
  <2>4. EntriesFor(kept[i-1], others) = both[i-1]
    <3>1. i-1 \notin Bad
      BY <1>1, <2>1, <2>3
    <3> QED BY <2>3, <3>1
  <2>5. EntriesFor(Append(kept[i-1], list[i]), others) =
            IF list[i].key \in others THEN Append(EntriesFor(kept[i-1], others), list[i])
                                      ELSE EntriesFor(kept[i-1], others)
    <3>1. kept[i-1] \in Seq(E) /\ list[i] \in E
      BY <1>4, <1>5, <2>3
    <3>2. \A l \in Seq(E), e \in E :
              EntriesFor(Append(l, e), others) =
                  IF e.key \in others THEN Append(EntriesFor(l, others), e)
                                      ELSE EntriesFor(l, others)
      BY EntriesForAppend
    <3> QED BY <3>1, <3>2
  <2>6. EntriesFor(kept[i], others) = both[i]
    <3>1. CASE list[i].key \in keys
      BY <1>2, <1>3, <2>3, <2>4, <2>5, <3>1 DEF Walks, n
    <3>2. CASE list[i].key \notin keys
      BY <1>2, <1>3, <2>3, <2>4, <3>2 DEF Walks, n
    <3> QED BY <3>1, <3>2
  <2> QED BY <2>6
<1>7. EntriesFor(kept[n], others) = both[n]
  <2>1. n \in 0..n
    BY <1>1
  <2> QED BY <1>6, <2>1
<1> QED BY <1>2, <1>3, <1>7 DEF Walks, n

-----------------------------------------------------------------------------
(* The records                                                             *)

Records == [Services -> Seq(Entries)]

\* What the request leaves of the reservation of its service and key.
Wanted(r) == IF r.hugepages_requested = -1 THEN 0 ELSE r.hugepages_requested

\* The entries of a service for a key are entries, with counts to add up.
LEMMA EntriesOfTyped ==
    ASSUME NEW all \in Records, NEW s \in Services, NEW k
    PROVE  /\ EntriesOf(all, s, k) \in Seq(Entries)
           /\ Len(EntriesOf(all, s, k)) \in Nat
           /\ DOMAIN EntriesOf(all, s, k) = 1..Len(EntriesOf(all, s, k))
           /\ IsFiniteSet(DOMAIN EntriesOf(all, s, k))
           /\ [i \in DOMAIN EntriesOf(all, s, k) |-> EntriesOf(all, s, k)[i].count]
                  \in [DOMAIN EntriesOf(all, s, k) -> Int]
           /\ Reserved(all, s, k) \in Int
           /\ Existing(all, s, k) \in Int
<1> DEFINE entries == EntriesOf(all, s, k)
<1> DEFINE counts == [i \in DOMAIN entries |-> entries[i].count]
<1>1. entries \in Seq(Entries)
  BY EntriesForTyped DEF EntriesOf, Records
<1> HIDE DEF entries
<1>2. Len(entries) \in Nat /\ DOMAIN entries = 1..Len(entries)
  BY <1>1, LenProperties
<1>3. IsFiniteSet(DOMAIN entries)
  BY <1>2, FS_Interval
<1>4. \A i \in DOMAIN entries : entries[i].count \in Int
  <2> SUFFICES ASSUME NEW i \in DOMAIN entries PROVE entries[i].count \in Int
    OBVIOUS
  <2>1. entries[i] \in Entries
    BY <1>1, <1>2
  <2> QED BY <2>1 DEF Entries
<1>5. counts \in [DOMAIN entries -> Int]
  BY <1>4
<1>6. SumFunction(counts) \in Int
  <2> HIDE DEF counts
  <2> QED BY <1>3, <1>5, SumType
<1>7. Reserved(all, s, k) = SumFunction(counts)
  BY DEF Reserved, entries
<1>8. Existing(all, s, k) \in Int
  <2>1. entries # << >> => 1 \in DOMAIN entries
    BY <1>1, <1>2
  <2> QED BY <1>4, <2>1 DEF Existing, entries
<1> HIDE DEF counts
<1>9. /\ entries \in Seq(Entries) /\ Len(entries) \in Nat /\ DOMAIN entries = 1..Len(entries)
      /\ IsFiniteSet(DOMAIN entries) /\ counts \in [DOMAIN entries -> Int]
      /\ Reserved(all, s, k) \in Int /\ Existing(all, s, k) \in Int
  BY <1>1, <1>2, <1>3, <1>5, <1>6, <1>7, <1>8
<1> QED BY <1>9, Zenon DEF entries, counts

\* No entry reserves nothing, a single one its count.
LEMMA ReservedFew ==
    ASSUME NEW all, NEW s, NEW k
    PROVE  /\ EntriesOf(all, s, k) = << >> => Reserved(all, s, k) = 0
           /\ \A e : e.count \in Int /\ EntriesOf(all, s, k) = << e >>
                      => Reserved(all, s, k) = e.count
<1>1. ASSUME EntriesOf(all, s, k) = << >> PROVE Reserved(all, s, k) = 0
  <2> DEFINE counts == [i \in DOMAIN << >> |-> << >>[i].count]
  <2>1. counts \in [{} -> Int]
    OBVIOUS
  <2>2. Reserved(all, s, k) = SumFunction(counts)
    BY <1>1 DEF Reserved
  <2> HIDE DEF counts
  <2> QED BY <2>1, <2>2, SumEmpty
<1>2. ASSUME NEW e, e.count \in Int, EntriesOf(all, s, k) = << e >>
      PROVE  Reserved(all, s, k) = e.count
  <2> DEFINE counts == [i \in DOMAIN << e >> |-> << e >>[i].count]
  <2>1. counts \in [{1} -> Int] /\ counts[1] = e.count
    BY <1>2
  <2>2. Reserved(all, s, k) = SumFunction(counts)
    BY <1>2 DEF Reserved
  <2> HIDE DEF counts
  <2> QED BY <2>1, <2>2, SumSingle
<1> QED BY <1>1, <1>2

\* Reservations, of one service or of all, are numbers.
LEMMA TrackedTyped ==
    ASSUME NEW all \in Records, NEW k
    PROVE  /\ [s \in Services |-> Reserved(all, s, k)] \in [Services -> Int]
           /\ Tracked(all, k) \in Int
<1> DEFINE shares == [s \in Services |-> Reserved(all, s, k)]
<1>1. shares \in [Services -> Int]
  BY EntriesOfTyped
<1>2. Tracked(all, k) = SumFunction(shares)
  BY DEF Tracked
<1>3. Tracked(all, k) \in Int
  <2> HIDE DEF shares
  <2> QED BY <1>1, <1>2, SumType, ServicesAssumption
<1> QED BY <1>1, <1>3

\* A recorded request sets what its service has of its key, and changes no
\* other entries.
LEMMA ReplacementEffect ==
    ASSUME NEW all \in Records, NEW r \in HugepageRequests
    PROVE  LET new == Replacement(all, r)
               s   == r.service_name
               k   == r.key
           IN  /\ new \in Records
               /\ \A t \in Services, j \in Keys :
                      << t, j >> # << s, k >> => EntriesOf(new, t, j) = EntriesOf(all, t, j)
               /\ Reserved(new, s, k) = Wanted(r)
               /\ Existing(new, s, k) = Wanted(r)
<1> DEFINE s == r.service_name
<1> DEFINE k == r.key
<1> DEFINE n == r.hugepages_requested
<1> DEFINE rest == EntriesFor(all[s], Keys \ {k})
<1> DEFINE entry == [key |-> k, count |-> n]
<1> DEFINE list == IF n = -1 THEN rest ELSE Append(rest, entry)
<1> DEFINE new == Replacement(all, r)
<1>1. s \in Services /\ k \in Keys /\ n \in Int \ {0} /\ entry \in Entries
  BY DEF HugepageRequests, Entries
<1>2. all[s] \in Seq(Entries)
  BY <1>1 DEF Records
<1>3. rest \in Seq(Entries)
  BY <1>2, EntriesForTyped
<1>4. new = [all EXCEPT ![s] = list]
  BY <1>1 DEF Replacement, Without, Upsert, Records
<1>5. list \in Seq(Entries)
  BY <1>1, <1>3
<1>6. \A keys : EntriesFor(rest, keys) = EntriesFor(all[s], (Keys \ {k}) \cap keys)
  BY <1>2, EntriesForTwice
<1>7. \A keys : n # -1 => EntriesFor(list, keys) =
                   IF k \in keys THEN Append(EntriesFor(rest, keys), entry)
                                 ELSE EntriesFor(rest, keys)
  <2>1. \A l \in Seq(Entries), e \in Entries : \A keys :
            EntriesFor(Append(l, e), keys) =
                IF e.key \in keys THEN Append(EntriesFor(l, keys), e)
                                  ELSE EntriesFor(l, keys)
    BY EntriesForAppend
  <2>2. entry.key = k
    OBVIOUS
  <2> HIDE DEF rest, entry
  <2> QED BY <1>1, <1>3, <2>1, <2>2
<1>8. new \in Records
  BY <1>1, <1>4, <1>5 DEF Records
<1>9. new[s] = list /\ \A t \in Services : t # s => new[t] = all[t]
  BY <1>1, <1>4 DEF Records
<1> HIDE DEF new, list, rest
<1>10. \A j \in Keys : j # k => EntriesFor(list, {j}) = EntriesFor(all[s], {j})
  <2> SUFFICES ASSUME NEW j \in Keys, j # k
               PROVE  EntriesFor(list, {j}) = EntriesFor(all[s], {j})
    OBVIOUS
  <2>1. (Keys \ {k}) \cap {j} = {j} /\ k \notin {j}
    OBVIOUS
  <2>2. EntriesFor(rest, {j}) = EntriesFor(all[s], {j})
    BY <1>6, <2>1
  <2> QED BY <1>7, <2>1, <2>2 DEF list
<1>11. EntriesFor(rest, {k}) = << >>
  <2>1. EntriesFor(rest, {k}) = EntriesFor(all[s], {})
    <3>1. (Keys \ {k}) \cap {k} = {}
      OBVIOUS
    <3> QED BY <1>6, <3>1
  <2>2. EntriesFor(all[s], {}) \in Seq(Kept(Entries, {}))
    BY <1>2, EntriesForTyped
  <2>3. Kept(Entries, {}) = {}
    BY DEF Kept
  <2>4. \A l \in Seq({}) : l = << >>
    OBVIOUS
  <2> QED BY <2>1, <2>2, <2>3, <2>4
<1>12. EntriesFor(list, {k}) = IF n = -1 THEN << >> ELSE << entry >>
  <2>1. Append(<< >>, entry) = << entry >>
    OBVIOUS
  <2> QED BY <1>7, <1>11, <2>1 DEF list
<1>13. \A t \in Services, j \in Keys :
          << t, j >> # << s, k >> => EntriesOf(new, t, j) = EntriesOf(all, t, j)
  BY <1>9, <1>10 DEF EntriesOf
<1>14. EntriesOf(new, s, k) = IF n = -1 THEN << >> ELSE << entry >>
  BY <1>9, <1>12 DEF EntriesOf
<1>15. Reserved(new, s, k) = Wanted(r)
  <2>1. entry.count = n /\ entry.count \in Int
    BY <1>1
  <2> HIDE DEF entry
  <2>2. EntriesOf(new, s, k) = << >> => Reserved(new, s, k) = 0
    BY ReservedFew
  <2>3. EntriesOf(new, s, k) = << entry >> => Reserved(new, s, k) = n
    BY <2>1, ReservedFew
  <2> QED BY <1>14, <2>2, <2>3 DEF Wanted
<1>16. Existing(new, s, k) = Wanted(r)
  <2>1. n # -1 => EntriesOf(new, s, k) # << >> /\ EntriesOf(new, s, k)[1].count = n
    BY <1>14
  <2> QED BY <1>14, <2>1 DEF Existing, Wanted
<1> QED BY <1>8, <1>13, <1>15, <1>16 DEF new

\* What is reserved by all changes by what the service's own share changes.
LEMMA TrackedEffect ==
    ASSUME NEW all \in Records, NEW r \in HugepageRequests, NEW k \in Keys
    PROVE  Tracked(Replacement(all, r), k) =
               IF k = r.key THEN Tracked(all, k) - Reserved(all, r.service_name, k) + Wanted(r)
                            ELSE Tracked(all, k)
<1> DEFINE s == r.service_name
<1> DEFINE new == Replacement(all, r)
<1> DEFINE before == [t \in Services |-> Reserved(all, t, k)]
<1> DEFINE after == [t \in Services |-> Reserved(new, t, k)]
<1>1. s \in Services
  BY DEF HugepageRequests
<1>2. /\ new \in Records
      /\ \A t \in Services, j \in Keys :
             << t, j >> # << s, r.key >> => EntriesOf(new, t, j) = EntriesOf(all, t, j)
      /\ Reserved(new, s, r.key) = Wanted(r)
  BY ReplacementEffect
<1> HIDE DEF new
<1>3. before \in [Services -> Int] /\ after \in [Services -> Int]
  BY <1>2, TrackedTyped
<1>4. Tracked(all, k) = SumFunction(before) /\ Tracked(new, k) = SumFunction(after)
  BY DEF Tracked
<1>5. \A t \in Services : t # s \/ k # r.key => after[t] = before[t]
  <2> SUFFICES ASSUME NEW t \in Services, t # s \/ k # r.key
               PROVE  Reserved(new, t, k) = Reserved(all, t, k)
    OBVIOUS
  <2>1. EntriesOf(new, t, k) = EntriesOf(all, t, k)
    BY <1>2
  <2> QED BY <2>1 DEF Reserved
<1>6. before[s] = Reserved(all, s, k) /\ after[s] = Reserved(new, s, k)
  BY <1>1
<1> HIDE DEF before, after, s
<1>7. SumFunction(after) = SumFunction(before) - before[s] + after[s]
  <2>1. \A t \in Services : t # s => after[t] = before[t]
    BY <1>5
  <2> QED BY <1>1, <1>3, <2>1, SumUpdate, ServicesAssumption
<1>8. CASE k = r.key
  BY <1>2, <1>4, <1>6, <1>7, <1>8 DEF new, s
<1>9. CASE k # r.key
  <2>1. after[s] = before[s] /\ before[s] \in Int
    BY <1>1, <1>3, <1>5, <1>9
  <2>2. SumFunction(before) \in Int
    BY <1>4, TrackedTyped
  <2> QED BY <1>4, <1>7, <1>9, <2>1, <2>2 DEF new
<1> QED BY <1>8, <1>9
-----------------------------------------------------------------------------
(* Records of positive counts                                              *)

PositiveEntries == {e \in Entries : e.count > 0}

PositiveRecords == [Services -> Seq(PositiveEntries)]

\* Records with positive counts are records.
LEMMA PositiveRecordsTyped == PositiveRecords \subseteq Records
<1>1. Seq(PositiveEntries) \subseteq Seq(Entries)
  BY SeqMonotonic DEF PositiveEntries
<1> QED BY <1>1 DEF PositiveRecords, Records

\* What the service holds of a key is at least its first entry.
LEMMA ReservedPositive ==
    ASSUME NEW all \in PositiveRecords, NEW s \in Services, NEW k
    PROVE  /\ Reserved(all, s, k) \in Nat
           /\ Existing(all, s, k) \in Nat
           /\ Existing(all, s, k) <= Reserved(all, s, k)
<1> DEFINE entries == EntriesOf(all, s, k)
<1> DEFINE counts == [i \in DOMAIN entries |-> entries[i].count]
<1>1. entries \in Seq(PositiveEntries)
  BY EntriesForTyped DEF EntriesOf, PositiveRecords
<1>2. Reserved(all, s, k) = SumFunction(counts)
  BY DEF Reserved
<1>3. Existing(all, s, k) = IF entries = << >> THEN 0 ELSE entries[1].count
  BY DEF Existing
<1> HIDE DEF entries
<1>4. Len(entries) \in Nat /\ DOMAIN entries = 1..Len(entries)
  BY <1>1, LenProperties
<1>5. IsFiniteSet(DOMAIN entries)
  BY <1>4, FS_Interval
<1>6. \A i \in DOMAIN entries : entries[i].count \in Nat
  <2> SUFFICES ASSUME NEW i \in DOMAIN entries PROVE entries[i].count \in Nat
    OBVIOUS
  <2>1. entries[i] \in PositiveEntries
    BY <1>1, <1>4
  <2> QED BY <2>1 DEF PositiveEntries, Entries
<1>7. counts \in [DOMAIN entries -> Nat]
  BY <1>6
<1>8. CASE entries = << >>
  <2>1. SumFunction(counts) \in Nat
    <3> HIDE DEF counts
    <3> QED BY <1>5, <1>7, SumNat
  <2> QED BY <1>2, <1>3, <1>8, <2>1
<1>9. CASE entries # << >>
  <2>1. 1 \in DOMAIN entries
    BY <1>1, <1>4, <1>9
  <2>2. counts[1] = entries[1].count /\ entries[1].count \in Nat
    BY <1>6, <2>1
  <2>3. SumFunction(counts) \in Nat /\ SumFunction(counts) >= counts[1]
    <3> HIDE DEF counts
    <3> QED BY <1>5, <1>7, <2>1, SumNat, SumAtLeast
  <2> QED BY <1>2, <1>3, <1>9, <2>2, <2>3
<1> QED BY <1>8, <1>9

\* Positive records add up to a natural number.
LEMMA TrackedPositive ==
    ASSUME NEW all \in PositiveRecords, NEW k
    PROVE  Tracked(all, k) \in Nat
<1> DEFINE shares == [s \in Services |-> Reserved(all, s, k)]
<1>1. shares \in [Services -> Nat]
  BY ReservedPositive
<1>2. Tracked(all, k) = SumFunction(shares)
  BY DEF Tracked
<1> HIDE DEF shares
<1> QED BY <1>1, <1>2, SumNat, ServicesAssumption

\* A documented request leaves records positive: a release leaves no entry.
LEMMA ReplacementPositive ==
    ASSUME NEW all \in PositiveRecords, NEW r \in HugepageRequests,
           r.hugepages_requested >= -1
    PROVE  Replacement(all, r) \in PositiveRecords
<1> DEFINE s == r.service_name
<1> DEFINE k == r.key
<1> DEFINE n == r.hugepages_requested
<1> DEFINE rest == EntriesFor(all[s], Keys \ {k})
<1> DEFINE entry == [key |-> k, count |-> n]
<1>1. /\ s \in Services /\ k \in Keys /\ n \in Int \ {0}
      /\ n # -1 => entry \in PositiveEntries
  BY DEF HugepageRequests, Entries, PositiveEntries
<1>2. rest \in Seq(PositiveEntries)
  BY <1>1, EntriesForTyped DEF PositiveRecords
<1>3. n = -1 => Replacement(all, r) = [all EXCEPT ![s] = rest]
  BY <1>1 DEF Replacement, Without, PositiveRecords
<1>4. n # -1 => Replacement(all, r) = [all EXCEPT ![s] = Append(rest, entry)]
  BY <1>1 DEF Replacement, Without, Upsert, PositiveRecords
<1> HIDE DEF rest, entry
<1>5. n # -1 => Append(rest, entry) \in Seq(PositiveEntries)
  BY <1>1, <1>2
<1> QED BY <1>1, <1>2, <1>3, <1>4, <1>5 DEF PositiveRecords

-----------------------------------------------------------------------------
(* The overlay                                                             *)

\* max(a, b), as the overlay uses it.
LEMMA MaxOfTwo ==
    ASSUME NEW i \in Int, NEW j \in Int
    PROVE  Max({i, j}) = IF i >= j THEN i ELSE j
<1>1. {i, j} \in SUBSET Int /\ IsFiniteSet({i, j}) /\ {i, j} # {}
  <2>1. IsFiniteSet({i}) /\ {i, j} = {i} \cup {j}
    BY FS_Singleton
  <2> QED BY <2>1, FS_AddElement
<1>2. Max({i, j}) \in {i, j} /\ \A y \in {i, j} : Max({i, j}) >= y
  BY <1>1, FiniteExtremes, Zenon
<1> QED BY <1>2

\* What is given out on top of what is reserved stays within a count which
\* was read, whichever of the two counts is the larger.
LEMMA OverlayBound ==
    ASSUME NEW t \in Nat, NEW f \in Nat, NEW tracked \in Nat, NEW delta \in Nat,
           delta > 0, delta <= Overlay(t, f, tracked)
    PROVE  tracked + delta <= Max({t, f})
<1> DEFINE usedRaw == Max({t - f, 0})
<1> DEFINE toOverlay == Max({tracked - usedRaw, 0})
<1>1. Overlay(t, f, tracked) = IF tracked <= 0 THEN f ELSE Max({f - toOverlay, 0})
  BY DEF Overlay
<1>2. usedRaw = IF t - f >= 0 THEN t - f ELSE 0
  BY MaxOfTwo
<1> HIDE DEF usedRaw
<1>3. usedRaw \in Nat
  BY <1>2
<1>4. toOverlay = IF tracked - usedRaw >= 0 THEN tracked - usedRaw ELSE 0
  BY <1>3, MaxOfTwo
<1> HIDE DEF toOverlay
<1>5. toOverlay \in Nat
  BY <1>3, <1>4
<1>6. Max({f - toOverlay, 0}) = IF f - toOverlay >= 0 THEN f - toOverlay ELSE 0
  BY <1>5, MaxOfTwo
<1>7. Max({t, f}) = IF t >= f THEN t ELSE f
  BY MaxOfTwo
<1> QED BY <1>1, <1>2, <1>3, <1>4, <1>5, <1>6, <1>7
-----------------------------------------------------------------------------
(* Types                                                                   *)

\* What the kernel has in use it also has.
UsedWithinTotal == \A k \in Keys : used[k] <= total[k]

Typed == TypeOK /\ UsedWithinTotal

\* What the request being served has read so far is of its type.
LEMMA WorkTyped ==
    ASSUME TypeOK, work # Ready
    PROVE  /\ work \in Checks
           /\ work.request \in HugepageRequests
           /\ Service \in Services /\ Key \in Keys
           /\ work.request.hugepages_requested \in Int \ {0}
           /\ work.total \in 0..MaxPages /\ work.free \in 0..MaxPages
           /\ work.tracked \in Int /\ work.existing \in Int
<1>1. work \in Checks
  BY DEF TypeOK
<1>2. work.request \in HugepageRequests
  BY <1>1, HugepageRequestAssumption DEF Checks
<1> QED BY <1>1, <1>2 DEF Checks, HugepageRequests, Service, Key

\* The typed invariant holds at first.
LEMMA InitTyped == Init => Typed
  BY PagesAssumption, RecordsAssumption DEF Init, Typed, TypeOK, UsedWithinTotal

\* Every step keeps it: the counters of the kernel never cross.
LEMMA StepTyped == Typed /\ [Next]_vars => Typed'
<1> SUFFICES ASSUME Typed, [Next]_vars PROVE Typed'
  OBVIOUS
<1> USE PagesAssumption
<1>a. /\ TypeOK /\ UsedWithinTotal
      /\ records \in Records /\ uncertain \in BOOLEAN
      /\ total \in [Keys -> 0..MaxPages] /\ used \in [Keys -> 0..MaxPages]
      /\ work \in Checks \cup {Ready}
  BY DEF Typed, TypeOK, Records
<1>b. ASSUME NEW w \in Checks \cup {Ready}, Step(w) PROVE Typed'
  BY <1>a, <1>b DEF Step, kernel, Typed, TypeOK, UsedWithinTotal
<1>1. ASSUME NEW r \in Requests, Begin(r) PROVE Typed'
  <2> DEFINE w == [ at       |-> IF r.hugepages_requested > 0 THEN "total" ELSE "record",
                    request  |-> r,
                    total    |-> 0,
                    free     |-> 0,
                    tracked  |-> 0,
                    existing |-> 0 ]
  <2>1. w \in Checks
    BY DEF Checks
  <2>2. Step(w)
    BY <1>1 DEF Begin
  <2> QED BY <1>b, <2>1, <2>2
<1>2. ASSUME ReadTotal PROVE Typed'
  <2>1. work # Ready /\ work.at = "total"
    BY <1>2 DEF ReadTotal, Ready
  <2>2. PICK n \in {0, total[Key]} : Step([work EXCEPT !.at = "free", !.total = n])
    BY <1>2 DEF ReadTotal
  <2>3. n \in 0..MaxPages
    BY <1>a, <2>1, WorkTyped
  <2>4. [work EXCEPT !.at = "free", !.total = n] \in Checks
    BY <1>a, <2>1, <2>3, WorkTyped DEF Checks
  <2> QED BY <1>b, <2>2, <2>4
<1>3. ASSUME ReadFree PROVE Typed'
  <2>1. work # Ready /\ work.at = "free"
    BY <1>3 DEF ReadFree, Ready
  <2>2. PICK n \in {0, total[Key] - used[Key]} :
            Step([work EXCEPT !.at = "tracked", !.free = n])
    BY <1>3 DEF ReadFree
  <2>3. n \in 0..MaxPages
    <3>1. Key \in Keys
      BY <1>a, <2>1, WorkTyped
    <3>2. total[Key] \in 0..MaxPages /\ used[Key] \in 0..MaxPages /\ used[Key] <= total[Key]
      BY <1>a, <3>1 DEF UsedWithinTotal
    <3> QED BY <3>2
  <2>4. [work EXCEPT !.at = "tracked", !.free = n] \in Checks
    BY <1>a, <2>1, <2>3, WorkTyped DEF Checks
  <2> QED BY <1>b, <2>2, <2>4
<1>4. ASSUME ReadTracked PROVE Typed'
  <2>1. work # Ready /\ work.at = "tracked"
    BY <1>4 DEF ReadTracked, Ready
  <2>2. Tracked(records, Key) \in Int
    BY <1>a, TrackedTyped
  <2>3. [work EXCEPT !.at = "existing", !.tracked = Tracked(records, Key)] \in Checks
    BY <1>a, <2>1, <2>2, WorkTyped DEF Checks
  <2> QED BY <1>b, <1>4, <2>3 DEF ReadTracked
<1>5. ASSUME ReadExisting PROVE Typed'
  <2>1. work # Ready /\ work.at = "existing"
    BY <1>5 DEF ReadExisting, Ready
  <2>2. Existing(records, Service, Key) \in Int
    BY <1>a, <2>1, WorkTyped, EntriesOfTyped
  <2> DEFINE w == [work EXCEPT !.existing = Existing(records, Service, Key)]
  <2>3. w \in Checks /\ [w EXCEPT !.at = "record"] \in Checks
    BY <1>a, <2>1, <2>2, WorkTyped DEF Checks
  <2>4. Step(IF Fits(w) THEN [w EXCEPT !.at = "record"] ELSE Ready)
    BY <1>5 DEF ReadExisting
  <2> HIDE DEF w
  <2> QED BY <1>b, <2>3, <2>4
<1>6. ASSUME CheckFails \/ Restart PROVE Typed'
  BY <1>b, <1>6 DEF CheckFails, Restart
<1>7. ASSUME Record PROVE Typed'
  <2>1. work # Ready
    BY <1>7 DEF Record, Ready
  <2>2. Replacement(records, work.request) \in Records
    BY <1>a, <2>1, WorkTyped, ReplacementEffect
  <2> QED BY <1>7, <1>a, <2>2 DEF Record, kernel, Typed, TypeOK, UsedWithinTotal, Records
<1>8. ASSUME RecordFails PROVE Typed'
  BY <1>8, <1>a DEF RecordFails, kernel, Typed, TypeOK, UsedWithinTotal
<1>9. ASSUME Recover PROVE Typed'
  BY <1>9, <1>a DEF Recover, kernel, Typed, TypeOK, UsedWithinTotal
<1>10. ASSUME NEW k \in Keys, NEW n \in 0..MaxPages, Use(k, n) PROVE Typed'
  BY <1>10, <1>a DEF Use, Typed, TypeOK, UsedWithinTotal
<1>11. ASSUME NEW k \in Resizable, NEW n \in 0..MaxPages, Resize(k, n) PROVE Typed'
  BY <1>11, <1>a DEF Resize, Typed, TypeOK, UsedWithinTotal
<1>12. ASSUME UNCHANGED vars PROVE Typed'
  BY <1>12, <1>a DEF vars, Typed, TypeOK, UsedWithinTotal
<1> QED BY <1>1, <1>2, <1>3, <1>4, <1>5, <1>6, <1>7, <1>8, <1>9, <1>10, <1>11, <1>12 DEF Next

\* The counts which a request works with are counts, and what is recorded are
\* entries, whatever is requested, found in a state file or changed in the
\* kernel between the reads.
THEOREM TypeCorrect == Spec => []TypeOK
<1>1. Typed => TypeOK
  BY DEF Typed
<1> QED BY InitTyped, StepTyped, <1>1, PTL DEF Spec
-----------------------------------------------------------------------------
(* Growth                                                                  *)

\* README: a request is for a positive number, or -1 to give back.
DocumentedCounts == \A r \in Requests : r.hugepages_requested >= -1

\* State files which such requests left.
PositiveFiles == InitialRecords \subseteq PositiveRecords

\* No request is recorded between two reads of another: what was read of the
\* records still holds when the request is recorded.
Inspected ==
    work # Ready =>
        /\ work.at # "record" => work.request.hugepages_requested > 0
        /\ work.at = "existing" => work.tracked = Tracked(records, Key)
        /\ work.at = "record" /\ work.request.hugepages_requested > 0 =>
               /\ work.tracked = Tracked(records, Key)
               /\ work.existing = Existing(records, Service, Key)
               /\ Fits(work)

Known == Typed /\ records \in PositiveRecords /\ Inspected

\* What is known of the reads holds at first.
LEMMA InitKnown == PositiveFiles /\ Init => Known
  BY InitTyped DEF PositiveFiles, Init, Known, Inspected

\* Every step keeps it.
LEMMA StepKnown == DocumentedCounts /\ Known /\ [Next]_vars => Known'
<1> SUFFICES ASSUME DocumentedCounts, Known, [Next]_vars PROVE Known'
  OBVIOUS
<1>a. Typed' /\ Typed /\ TypeOK /\ records \in PositiveRecords /\ Inspected
  BY StepTyped DEF Known, Typed
<1>b. ASSUME records' = records, work' = work PROVE Known'
  BY <1>a, <1>b DEF Known, Inspected, Key, Service, Fits
<1>c. ASSUME records' = records, work' = Ready PROVE Known'
  BY <1>a, <1>c DEF Known, Inspected
<1>1. ASSUME NEW r \in Requests, Begin(r) PROVE Known'
  <2>1. /\ records' = records
        /\ work'.at = IF r.hugepages_requested > 0 THEN "total" ELSE "record"
        /\ work'.request = r
    BY <1>1 DEF Begin, Step
  <2> QED BY <1>a, <2>1 DEF Known, Inspected
<1>2. ASSUME ReadTotal PROVE Known'
  <2>1. work # Ready /\ work \in Checks
    BY <1>2, <1>a, WorkTyped DEF ReadTotal, Ready
  <2>2. records' = records /\ work'.at = "free" /\ work'.request = work.request
    BY <1>2, <2>1 DEF ReadTotal, Step, Checks
  <2>3. work.request.hugepages_requested > 0
    BY <1>2, <1>a, <2>1 DEF ReadTotal, Inspected
  <2> QED BY <1>a, <2>2, <2>3 DEF Known, Inspected
<1>3. ASSUME ReadFree PROVE Known'
  <2>1. work # Ready /\ work \in Checks
    BY <1>3, <1>a, WorkTyped DEF ReadFree, Ready
  <2>2. records' = records /\ work'.at = "tracked" /\ work'.request = work.request
    BY <1>3, <2>1 DEF ReadFree, Step, Checks
  <2>3. work.request.hugepages_requested > 0
    BY <1>3, <1>a, <2>1 DEF ReadFree, Inspected
  <2> QED BY <1>a, <2>2, <2>3 DEF Known, Inspected
<1>4. ASSUME ReadTracked PROVE Known'
  <2>1. work # Ready /\ work \in Checks
    BY <1>4, <1>a, WorkTyped DEF ReadTracked, Ready
  <2>2. /\ records' = records /\ work'.at = "existing" /\ work'.request = work.request
        /\ work'.tracked = Tracked(records, Key)
    BY <1>4, <2>1 DEF ReadTracked, Step, Checks
  <2>3. work.request.hugepages_requested > 0
    BY <1>4, <1>a, <2>1 DEF ReadTracked, Inspected
  <2> QED BY <1>a, <2>2, <2>3 DEF Known, Inspected, Key
<1>5. ASSUME ReadExisting PROVE Known'
  <2>1. work # Ready /\ work \in Checks
    BY <1>5, <1>a, WorkTyped DEF ReadExisting, Ready
  <2>2. work.tracked = Tracked(records, Key)
    BY <1>5, <1>a, <2>1 DEF ReadExisting, Inspected
  <2> DEFINE w == [work EXCEPT !.existing = Existing(records, Service, Key)]
  <2> DEFINE done == [w EXCEPT !.at = "record"]
  <2>3. records' = records /\ work' = IF Fits(w) THEN done ELSE Ready
    BY <1>5 DEF ReadExisting, Step
  <2>4. CASE Fits(w)
    <3>1. /\ done.at = "record" /\ done.request = work.request /\ done.tracked = work.tracked
          /\ done.total = w.total /\ done.free = w.free /\ done.tracked = w.tracked
          /\ done.request = w.request /\ done.existing = w.existing
          /\ w.existing = Existing(records, Service, Key)
      BY <2>1 DEF Checks
    <3> HIDE DEF done, w
    <3>2. Fits(done)
      BY <2>4, <3>1 DEF Fits
    <3>3. work' = done
      BY <2>3, <2>4
    <3>4. Service' = Service /\ Key' = Key /\ Fits(work)'
      BY <3>1, <3>2, <3>3 DEF Service, Key, Fits
    <3>5. work'.at = "record" /\ work'.tracked = Tracked(records, Key)
          /\ work'.existing = Existing(records, Service, Key)
      BY <2>2, <3>1, <3>3
    <3> QED BY <1>a, <2>3, <3>4, <3>5 DEF Known, Inspected
  <2>5. CASE ~Fits(w)
    BY <1>c, <2>3, <2>5
  <2> QED BY <2>4, <2>5
<1>6. ASSUME CheckFails \/ RecordFails \/ Restart PROVE Known'
  BY <1>c, <1>6 DEF CheckFails, RecordFails, Restart, Step
<1>7. ASSUME Record PROVE Known'
  <2>1. work # Ready /\ work.request \in Requests
    BY <1>7, <1>a, WorkTyped DEF Record, Ready, Checks
  <2>2. work.request \in HugepageRequests /\ work.request.hugepages_requested >= -1
    BY <2>1, HugepageRequestAssumption DEF DocumentedCounts
  <2>3. records' \in PositiveRecords /\ work' = Ready
    BY <1>7, <1>a, <2>2, ReplacementPositive DEF Record
  <2> QED BY <1>a, <2>3 DEF Known, Inspected
<1>8. ASSUME Recover \/ UNCHANGED vars PROVE Known'
  BY <1>b, <1>8 DEF Recover, vars
<1>9. ASSUME NEW k \in Keys, NEW n \in 0..MaxPages, Use(k, n) PROVE Known'
  BY <1>b, <1>9 DEF Use
<1>10. ASSUME NEW k \in Resizable, NEW n \in 0..MaxPages, Resize(k, n) PROVE Known'
  BY <1>b, <1>10 DEF Resize
<1> QED BY <1>1, <1>2, <1>3, <1>4, <1>5, <1>6, <1>7, <1>8, <1>9, <1>10 DEF Next

\* Only Record changes the records.
LEMMA RecordsChange ==
    ASSUME [Next]_vars, records' # records
    PROVE  Record
  BY DEF Next, vars, Begin, ReadTotal, ReadFree, ReadTracked, ReadExisting, CheckFails,
         RecordFails, Restart, Recover, Use, Resize, Step

\* Only a recorded request makes the reservations of a key grow.
LEMMA StepGrowth ==
    ASSUME DocumentedCounts, Known, [Next]_vars, NEW k \in Keys,
           Tracked(records', k) > Tracked(records, k)
    PROVE  /\ Record
           /\ k = Key /\ Tracked(records', k) <= Max({work.total, work.free})
<1> DEFINE n == work.request.hugepages_requested
<1>1. Typed /\ TypeOK /\ records \in PositiveRecords /\ Inspected
  BY DEF Known, Typed
<1>2. Tracked(records, k) \in Nat
  BY <1>1, TrackedPositive
<1>3. Record
  <2>1. records' # records
    BY <1>2
  <2> QED BY <2>1, RecordsChange
<1>4. work # Ready /\ work \in Checks /\ work.at = "record"
  BY <1>1, <1>3, WorkTyped DEF Record, Ready
<1>5. /\ work.request \in Requests /\ work.request \in HugepageRequests /\ n \in Int \ {0}
      /\ Service \in Services /\ Key \in Keys /\ n >= -1
      /\ work.total \in Nat /\ work.free \in Nat
  BY <1>1, <1>4, WorkTyped, PagesAssumption DEF DocumentedCounts, Checks
<1>6. records \in Records /\ records' = Replacement(records, work.request)
  BY <1>1, <1>3, PositiveRecordsTyped DEF Record
<1>7. Tracked(records', k) =
          IF k = Key THEN Tracked(records, k) - Reserved(records, Service, k) + Wanted(work.request)
                     ELSE Tracked(records, k)
  BY <1>5, <1>6, TrackedEffect DEF Key, Service
<1>8. k = Key
  BY <1>2, <1>7
<1>9. /\ Reserved(records, Service, Key) \in Nat
      /\ Existing(records, Service, Key) \in Nat
      /\ Existing(records, Service, Key) <= Reserved(records, Service, Key)
  BY <1>1, <1>5, ReservedPositive
<1>10. n > 0 /\ Wanted(work.request) = n
  BY <1>2, <1>5, <1>7, <1>8, <1>9 DEF Wanted
<1>11. /\ work.tracked = Tracked(records, Key)
       /\ work.existing = Existing(records, Service, Key)
       /\ Fits(work)
  BY <1>1, <1>4, <1>10 DEF Inspected
<1> DEFINE delta == n - work.existing
<1>12. delta \in Nat /\ delta > 0
  BY <1>2, <1>5, <1>7, <1>8, <1>9, <1>10, <1>11
<1>13. delta <= Overlay(work.total, work.free, work.tracked)
  BY <1>11, <1>12 DEF Fits
<1>14. work.tracked + delta <= Max({work.total, work.free})
  <2>1. work.tracked \in Nat
    BY <1>2, <1>8, <1>11
  <2> HIDE DEF delta
  <2> QED BY <1>5, <1>12, <1>13, <2>1, OverlayBound, Zenon
<1>15. Max({work.total, work.free}) \in Int
  BY <1>5, MaxOfTwo
<1>16. Tracked(records', k) <= work.tracked + delta
  BY <1>2, <1>5, <1>7, <1>8, <1>9, <1>10, <1>11
<1>17. work.tracked + delta \in Int /\ Tracked(records', k) \in Int
  BY <1>2, <1>5, <1>7, <1>8, <1>9, <1>10, <1>11
<1> HIDE DEF delta
<1> QED BY <1>3, <1>8, <1>14, <1>15, <1>16, <1>17

\* More pages of a key are reserved only for the request which is recorded,
\* and only as far as one of the counts read from sysfs allows, even if the
\* pool is resized or its pages are mapped between the reads, or a state file
\* holds several entries for one key.
THEOREM GrowthWithinCounts ==
    ASSUME DocumentedCounts, PositiveFiles
    PROVE  Spec => GrowthWithinRead
<1>1. ASSUME Known, [Next]_vars
      PROVE  [\A k \in Keys : Tracked(records', k) > Tracked(records, k) =>
                 k = Key /\ Tracked(records', k) <= Max({work.total, work.free})
             ]_vars
  BY <1>1, StepGrowth
<1>2. Init => Known
  BY InitKnown
<1>3. Known /\ [Next]_vars => Known'
  BY StepKnown
<1> QED BY <1>1, <1>2, <1>3, PTL DEF Spec, GrowthWithinRead

\* If requests are as documented, so are the records.
THEOREM PositiveCounts ==
    ASSUME DocumentedCounts, PositiveFiles
    PROVE  Spec => []RecordsPositive
<1>1. ASSUME Known PROVE RecordsPositive
  <2> SUFFICES ASSUME NEW s \in Services, NEW i \in DOMAIN records[s]
               PROVE  records[s][i].count > 0
    BY DEF RecordsPositive
  <2>1. records[s] \in Seq(PositiveEntries)
    BY <1>1 DEF Known, PositiveRecords
  <2>2. records[s][i] \in PositiveEntries
    BY <2>1
  <2> QED BY <2>2 DEF PositiveEntries
<1>2. Init => Known
  BY InitKnown
<1>3. Known /\ [Next]_vars => Known'
  BY StepKnown
<1> QED BY <1>1, <1>2, <1>3, PTL DEF Spec

\* What is recorded of a request is all that its service has of its key, and
\* nothing else changes, whatever an older version left in the state file.
THEOREM WholeRequestRecorded ==
    ASSUME DocumentedCounts
    PROVE  Spec => RequestRecorded
<1>1. ASSUME Typed, [Next]_vars, records' # records
      PROVE  /\ Reserved(records', Service, Key) = Max({work.request.hugepages_requested, 0})
             /\ \A s \in Services, k \in Keys :
                    << s, k >> # << Service, Key >>
                        => EntriesOf(records', s, k) = EntriesOf(records, s, k)
  <2>1. Record
    BY <1>1, RecordsChange
  <2>2. TypeOK /\ work # Ready /\ records \in Records
    BY <1>1, <2>1 DEF Typed, TypeOK, Record, Ready, Records
  <2>3. work.request \in Requests /\ work.request \in HugepageRequests
    BY <2>2, WorkTyped DEF Checks
  <2>4. records' = Replacement(records, work.request)
    BY <2>1 DEF Record
  <2>5. /\ \A s \in Services, k \in Keys :
               << s, k >> # << Service, Key >>
                   => EntriesOf(records', s, k) = EntriesOf(records, s, k)
        /\ Reserved(records', Service, Key) = Wanted(work.request)
    BY <2>2, <2>3, <2>4, ReplacementEffect DEF Service, Key
  <2>6. /\ work.request.hugepages_requested \in Int \ {0}
        /\ work.request.hugepages_requested >= -1
    BY <2>2, <2>3, WorkTyped DEF DocumentedCounts
  <2>7. Wanted(work.request) = Max({work.request.hugepages_requested, 0})
    BY <2>6, MaxOfTwo DEF Wanted
  <2> QED BY <2>5, <2>7
<1>2. ASSUME Typed, [Next]_vars
      PROVE  [records' # records =>
                 /\ Reserved(records', Service, Key) = Max({work.request.hugepages_requested, 0})
                 /\ \A s \in Services, k \in Keys :
                        << s, k >> # << Service, Key >>
                            => EntriesOf(records', s, k) = EntriesOf(records, s, k)
             ]_vars
  BY <1>1, <1>2
<1> QED BY InitTyped, StepTyped, <1>2, PTL DEF Spec, RequestRecorded

-----------------------------------------------------------------------------
(* The capacity                                                            *)

\* State files which reserve no more than there is.
FittingFiles ==
    \A all \in InitialRecords, k \in Keys \ Resizable : Tracked(all, k) <= Pages[k]

\* A count read of a pool which nobody resizes is not too high.
CountsRead ==
    work # Ready /\ Key \notin Resizable =>
        work.total <= total[Key] /\ work.free <= total[Key]

Fitting == Known /\ CountsRead /\ ReservationsFit

\* The fitting invariant holds at first.
LEMMA InitFitting == PositiveFiles /\ FittingFiles /\ Init => Fitting
<1> SUFFICES ASSUME PositiveFiles, FittingFiles, Init PROVE Fitting
  OBVIOUS
<1>1. Known
  BY InitKnown
<1>2. CountsRead /\ ReservationsFit
  BY DEF Init, FittingFiles, CountsRead, ReservationsFit
<1> QED BY <1>1, <1>2 DEF Fitting

\* The counts which were read do not depend on what is in use afterwards.
LEMMA StepCountsRead ==
    ASSUME Typed, CountsRead, [Next]_vars
    PROVE  CountsRead'
<1> USE PagesAssumption
<1>a. /\ TypeOK /\ UsedWithinTotal
      /\ total \in [Keys -> 0..MaxPages] /\ used \in [Keys -> 0..MaxPages]
  BY DEF Typed, TypeOK
<1>b. ASSUME work' = Ready PROVE CountsRead'
  BY <1>b DEF CountsRead
<1>c. ASSUME work' = work, total' = total PROVE CountsRead'
  BY <1>c DEF CountsRead, Key
<1>d. ASSUME work # Ready, work'.request = work.request, total' = total,
             work'.total \in {work.total, 0, total[Key]},
             work'.free \in {work.free, 0, total[Key] - used[Key]}
      PROVE  CountsRead'
  <2>1. Key' = Key /\ Key \in Keys
    BY <1>a, <1>d, WorkTyped DEF Key
  <2>2. total[Key] \in Nat /\ used[Key] \in Nat /\ used[Key] <= total[Key]
    BY <1>a, <2>1 DEF UsedWithinTotal
  <2> QED BY <1>d, <2>1, <2>2 DEF CountsRead
<1>1. ASSUME NEW r \in Requests, Begin(r) PROVE CountsRead'
  <2>1. work'.total = 0 /\ work'.free = 0 /\ work'.request = r /\ total' = total
    BY <1>1 DEF Begin, Step, kernel
  <2>2. r.key \in Keys
    BY HugepageRequestAssumption DEF HugepageRequests
  <2>3. total[r.key] \in Nat
    BY <1>a, <2>2
  <2> QED BY <2>1, <2>3 DEF CountsRead, Key
<1>2. ASSUME ReadTotal \/ ReadFree \/ ReadTracked PROVE CountsRead'
  <2>1. work # Ready /\ work \in Checks
    BY <1>a, <1>2, WorkTyped DEF ReadTotal, ReadFree, ReadTracked, Ready
  <2>2. work'.request = work.request /\ total' = total
        /\ work'.total \in {work.total, 0, total[Key]}
        /\ work'.free \in {work.free, 0, total[Key] - used[Key]}
    BY <1>2, <2>1 DEF ReadTotal, ReadFree, ReadTracked, Step, kernel, Checks
  <2> QED BY <1>d, <2>1, <2>2
<1>3. ASSUME ReadExisting PROVE CountsRead'
  <2>1. work # Ready /\ work \in Checks
    BY <1>a, <1>3, WorkTyped DEF ReadExisting, Ready
  <2>2. \/ work' = Ready
        \/ /\ work'.request = work.request /\ total' = total
           /\ work'.total = work.total /\ work'.free = work.free
    BY <1>3, <2>1 DEF ReadExisting, Step, kernel, Checks
  <2> QED BY <1>b, <1>d, <2>1, <2>2
<1>4. ASSUME CheckFails \/ Record \/ RecordFails \/ Restart PROVE CountsRead'
  BY <1>b, <1>4 DEF CheckFails, Record, RecordFails, Restart, Step
<1>5. ASSUME Recover \/ UNCHANGED vars PROVE CountsRead'
  BY <1>c, <1>5 DEF Recover, kernel, vars
<1>6. ASSUME NEW k \in Keys, NEW n \in 0..MaxPages, Use(k, n) PROVE CountsRead'
  BY <1>c, <1>6 DEF Use
<1>7. ASSUME NEW k \in Resizable, NEW n \in 0..MaxPages, Resize(k, n) PROVE CountsRead'
  <2>1. work' = work /\ \A j \in Keys : j # k => total'[j] = total[j]
    BY <1>a, <1>7 DEF Resize
  <2>2. work # Ready => Key \in Keys
    BY <1>a, WorkTyped
  <2> QED BY <2>1, <2>2 DEF CountsRead, Key
<1> QED BY <1>1, <1>2, <1>3, <1>4, <1>5, <1>6, <1>7 DEF Next

\* Every step keeps it.
LEMMA StepFitting == DocumentedCounts /\ Fitting /\ [Next]_vars => Fitting'
<1> SUFFICES ASSUME DocumentedCounts, Fitting, [Next]_vars PROVE Fitting'
  OBVIOUS
<1>1. Known' /\ Known /\ Typed /\ CountsRead
  BY StepKnown DEF Fitting, Known
<1>2. CountsRead'
  BY <1>1, StepCountsRead
<1>3. \A k \in Keys \ Resizable : Tracked(records', k) <= total'[k]
  <2> SUFFICES ASSUME NEW k \in Keys, k \notin Resizable
               PROVE  Tracked(records', k) <= total'[k]
    OBVIOUS
  <2>1. total'[k] = total[k] /\ total[k] \in Nat
    <3>1. total \in [Keys -> 0..MaxPages]
      BY <1>1 DEF Typed, TypeOK
    <3>2. \/ total' = total
          \/ \E j \in Resizable, n \in 0..MaxPages : Resize(j, n)
      BY DEF Next, vars, kernel, Begin, ReadTotal, ReadFree, ReadTracked, ReadExisting,
             CheckFails, Record, RecordFails, Restart, Recover, Use, Step
    <3>3. ASSUME NEW j \in Resizable, NEW n \in 0..MaxPages, Resize(j, n)
          PROVE  total'[k] = total[k]
      BY <3>1, <3>3 DEF Resize
    <3> QED BY <3>1, <3>2, <3>3, PagesAssumption
  <2>2. Tracked(records, k) <= total[k]
    BY DEF Fitting, ReservationsFit
  <2>3. Tracked(records, k) \in Int /\ Tracked(records', k) \in Int
    BY <1>1, PositiveRecordsTyped, TrackedTyped DEF Known
  <2>4. CASE Tracked(records', k) > Tracked(records, k)
    <3>1. Record /\ k = Key /\ Tracked(records', k) <= Max({work.total, work.free})
      BY <1>1, <2>4, StepGrowth
    <3>2. work # Ready
      BY <3>1 DEF Record, Ready
    <3>3. work.total \in Nat /\ work.free \in Nat
      BY <1>1, <3>2, WorkTyped, PagesAssumption DEF Typed
    <3>4. work.total <= total[k] /\ work.free <= total[k]
      BY <1>1, <3>1, <3>2 DEF CountsRead
    <3>5. Max({work.total, work.free}) <= total[k] /\ Max({work.total, work.free}) \in Int
      BY <3>3, <3>4, MaxOfTwo
    <3> QED BY <2>1, <2>3, <3>1, <3>5
  <2>5. CASE ~(Tracked(records', k) > Tracked(records, k))
    BY <2>1, <2>2, <2>3, <2>5
  <2> QED BY <2>4, <2>5
<1> QED BY <1>1, <1>2, <1>3 DEF Fitting, ReservationsFit

\* The reservations of a pool which nobody resizes stay within it, for any
\* number of services, pages and requests, and whatever the kernel gives to
\* other programs in between.  A count which cannot be read is taken for 0;
\* no request is granted more for it.
THEOREM ReservationsWithinPages ==
    ASSUME DocumentedCounts, PositiveFiles, FittingFiles
    PROVE  Spec => []ReservationsFit
<1>1. Init => Fitting
  BY InitFitting
<1>2. Fitting /\ [Next]_vars => Fitting'
  BY StepFitting
<1>3. Fitting => ReservationsFit
  BY DEF Fitting
<1> QED BY <1>1, <1>2, <1>3, PTL DEF Spec
=============================================================================
