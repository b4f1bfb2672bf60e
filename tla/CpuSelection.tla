---------------------------- MODULE CpuSelection ----------------------------
(***************************************************************************)
(* The pure algorithms which pick CPUs: the default/explicit count split   *)
(* of cpu_pinning.py, the SMT-aware selector and the stable selector of    *)
(* allocations_db.py, and the percentage conversion of daemon_handler.py.  *)
(*                                                                         *)
(* A CPU is its number.  The range strings which the code passes between   *)
(* these functions ("0-3,6") are canonical, so each is modelled as the set *)
(* of CPUs it denotes; an ordered list of CPUs is modelled as a set        *)
(* wherever the code sorts it before use.                                  *)
(***************************************************************************)
EXTENDS Integers, FiniteSets, FiniteSetsExt, Sequences

CONSTANTS
    LARGE_SYSTEM_THRESHOLD,      \* a larger candidate set is a large system
    RESERVED_CORES_LARGE_SYSTEM, \* what a default request leaves there
    MAX_ALLOCATION_PERCENTAGE    \* what a default request takes elsewhere

\* The heuristic never asks for a negative number of CPUs, nor for more than
\* there are (the values in cpu_pinning.py are 100, 16 and 80).
ASSUME HeuristicAssumption ==
    /\ LARGE_SYSTEM_THRESHOLD \in Nat
    /\ RESERVED_CORES_LARGE_SYSTEM \in 0..LARGE_SYSTEM_THRESHOLD
    /\ MAX_ALLOCATION_PERCENTAGE \in 0..100

-----------------------------------------------------------------------------

\* sorted(S)[:k], as a set.
Lowest(S, k) == {c \in S : Cardinality({d \in S : d < c}) < k}

-----------------------------------------------------------------------------
(* Count selection                                                         *)

\* Faulty variant: nothing is left to share on a large system.
DefaultCoresUnreserved(total) ==
    IF total > LARGE_SYSTEM_THRESHOLD
    THEN total
    ELSE (total * MAX_ALLOCATION_PERCENTAGE) \div 100

DefaultCores(total) ==
    IF total > LARGE_SYSTEM_THRESHOLD
    THEN total - RESERVED_CORES_LARGE_SYSTEM
    ELSE (total * MAX_ALLOCATION_PERCENTAGE) \div 100

\* A request of 0, or a negative one, asks for the default.
CoresRequested(total, requested) ==
    IF requested > 0 THEN requested ELSE DefaultCores(total)

CalculateCpuPinning(cpus, requested) ==
    LET cores     == CoresRequested(Cardinality(cpus), requested)
        dedicated == IF cores > Cardinality(cpus) THEN {} ELSE Lowest(cpus, cores)
    IN  [ dedicated |-> dedicated,
          shared    |-> IF cores > Cardinality(cpus) THEN {} ELSE cpus \ dedicated ]

\* Faulty variant: the share is rounded down.
FloorPercent(total, percent) == (total * percent) \div 100

\* The count a percentage request stands for: the ceiling, so that a small
\* positive percentage never becomes 0, which would mean the default.
CeilPercent(total, percent) == (total * percent + 99) \div 100

-----------------------------------------------------------------------------
(* SMT-aware selection.  `siblings` is what sysfs says of each candidate;  *)
(* reads can fail one by one, so it need not be symmetric.                 *)

\* Faulty variant: a candidate whose siblings were grouped without it, because
\* they disagree, is lost.
GroupDroppingDisagreements(candidates, siblings) ==
    LET groupsOf[ungrouped \in SUBSET candidates] ==
            IF ungrouped = {} THEN << >>
            ELSE LET cpu     == Min(ungrouped)
                     members == (siblings[cpu] \cup {cpu}) \cap candidates
                 IN  IF members \subseteq ungrouped
                     THEN << members >> \o groupsOf[ungrouped \ members]
                     ELSE groupsOf[ungrouped \ {cpu}]
    IN  groupsOf[candidates]

\* The candidates in groups of siblings, ordered by lowest member; each
\* candidate belongs to the first group which claims it.
GroupCandidatesBySiblings(candidates, siblings) ==
    LET groupsOf[ungrouped \in SUBSET candidates] ==
            IF ungrouped = {} THEN << >>
            ELSE LET cpu     == Min(ungrouped)
                     members == (siblings[cpu] \cup {cpu}) \cap ungrouped
                 IN  << members >> \o groupsOf[ungrouped \ members]
    IN  groupsOf[candidates]

\* Faulty variant: no group is taken whole.
TakeNoPairs(groups, budget) == {}

\* The two lowest members of each of the first groups which have two, while
\* the budget covers a whole pair.
TakePairsFromGroups(groups, budget) ==
    LET pairable == {i \in DOMAIN groups : Cardinality(groups[i]) >= 2}
    IN  UNION {Lowest(groups[i], 2) : i \in Lowest(pairable, budget \div 2)}

\* One member of each of the first groups which still have one.
TakeSinglesFromGroups(groups, budget) ==
    LET nonempty == {i \in DOMAIN groups : groups[i] # {}}
    IN  {Min(groups[i]) : i \in Lowest(nonempty, budget)}

\* The first `budget` CPUs of the groups laid end to end.
TakeLeftovers(groups, budget) ==
    LET Before(i, c) == (UNION {groups[j] : j \in {k \in DOMAIN groups : k < i}})
                            \cup {d \in groups[i] : d < c}
    IN  UNION { {c \in groups[i] : Cardinality(Before(i, c)) < budget}
                : i \in DOMAIN groups }

SelectSmtAware(candidates, count, siblings) ==
    LET groups  == GroupCandidatesBySiblings(candidates, siblings)
        Without(taken) == [i \in DOMAIN groups |-> groups[i] \ taken]
        pairs   == TakePairsFromGroups(groups, count)
        singles == TakeSinglesFromGroups(Without(pairs), count - Cardinality(pairs))
        taken   == pairs \cup singles
    IN  taken \cup TakeLeftovers(Without(taken), count - Cardinality(taken))

\* Faulty variant: the owner's CPUs are candidates like all others.
SelectUnstable(own, candidates, count, siblings) ==
    SelectSmtAware(candidates, count, siblings)

\* A protected owner keeps its lowest own CPUs and grows into free ones.
SelectStable(own, candidates, count, siblings) ==
    LET eligibleOwn == own \cap candidates
        retained    == Lowest(eligibleOwn, count)
    IN  IF Cardinality(retained) = count
        THEN retained
        ELSE retained \cup SelectSmtAware(candidates \ eligibleOwn,
                                          count - Cardinality(retained), siblings)
=============================================================================
