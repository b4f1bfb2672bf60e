------------------------------- MODULE Ledger -------------------------------
(***************************************************************************)
(* The ownership ledger of allocations_db.py as data: the "allocations_db" *)
(* section of the state file, the private candidate (`db`) on which one    *)
(* transaction works, the questions it asks and the changes it makes.      *)
(* Each change is a function from one candidate to the next; the validity  *)
(* checks which raise in the code are predicates here, and guards of the   *)
(* actions of module Allocations.                                          *)
(*                                                                         *)
(* A Python dict entry is absent exactly when the field is {} (claims) or  *)
(* Absent (metadata): the code never stores an empty CPU list.  The cache  *)
(* _explicitly_allocated_cpus is left out: no code reads it.               *)
(***************************************************************************)

CONSTANTS
    CPUs,       \* the CPUs of the host
    Services    \* the service names which clients use

Pools    == {"isolated", "general"}
Policies == {"legacy", "non-preemptive"}
Absent   == "absent"    \* no metadata recorded
Omitted  == "omitted"   \* a request without a preemption_policy

\* The persisted section.
Ledgers == [ allocations : [Services -> SUBSET CPUs],
             explicit    : [Services -> SUBSET CPUs],
             policies    : [Services -> Policies \cup {Absent}],
             pools       : [Services -> Pools \cup {Absent}] ]

\* A candidate: the section and the cache of all its claims.
Databases == [ allocations : [Services -> SUBSET CPUs],
               explicit    : [Services -> SUBSET CPUs],
               policies    : [Services -> Policies \cup {Absent}],
               pools       : [Services -> Pools \cup {Absent}],
               allocated   : SUBSET CPUs ]

EmptyLedger == [ allocations |-> [s \in Services |-> {}],
                 explicit    |-> [s \in Services |-> {}],
                 policies    |-> [s \in Services |-> Absent],
                 pools       |-> [s \in Services |-> Absent] ]

Claims(db) == UNION {db.allocations[s] : s \in Services}

Load(ledger) == [ allocations |-> ledger.allocations,
                  explicit    |-> ledger.explicit,
                  policies    |-> ledger.policies,
                  pools       |-> ledger.pools,
                  allocated   |-> Claims(ledger) ]

Snapshot(db) == [ allocations |-> db.allocations,
                  explicit    |-> db.explicit,
                  policies    |-> db.policies,
                  pools       |-> db.pools ]

-----------------------------------------------------------------------------
(* Questions                                                               *)

Owns(db, s) == db.allocations[s] # {}

\* Claims of an older version, without metadata, are isolated and legacy.
ServicePool(db, s)  == IF db.pools[s] = Absent THEN "isolated" ELSE db.pools[s]
StoredPolicy(db, s) == IF db.policies[s] = Absent THEN "legacy" ELSE db.policies[s]

\* Faulty variant: an omitted policy is not resolved.
UnresolvedPolicy(db, s, requested) == requested

EffectivePolicy(db, s, requested) ==
    IF requested = Omitted THEN StoredPolicy(db, s) ELSE requested

\* _effective_policy does not raise: no downgrade of protected claims.
PolicyAccepted(db, s, requested) ==
    StoredPolicy(db, s) = "non-preemptive"
        => EffectivePolicy(db, s, requested) = "non-preemptive"

\* Faulty variant: the pool of an owner is not compared.
PoolUnchecked(db, s, pool) == TRUE

\* ensure_service_pool does not raise.
PoolAccepted(db, s, pool) == Owns(db, s) => ServicePool(db, s) = pool

ClaimedIn(db, pool) ==
    UNION {db.allocations[s] : s \in {t \in Services : ServicePool(db, t) = pool}}

\* What a service may be (re)allocated from.
AvailableFor(db, s, eligible) ==
    eligible \ (db.allocated \ (db.allocations[s] \cup db.explicit[s]))

\* Faulty variant: claims on ineligible CPUs are not noticed.
OfflineClaimsUnchecked(db, s, eligible) == TRUE

\* _check_offline_claims does not raise.
NoOfflineClaims(db, s, eligible) == db.allocations[s] \subseteq eligible

\* What a NUMA request may not take from another owner.
Shielded(db, owner, policy, pool) ==
    IF \/ ServicePool(db, owner) # pool
       \/ policy = "non-preemptive"
       \/ StoredPolicy(db, owner) = "non-preemptive"
    THEN db.allocations[owner]
    ELSE db.explicit[owner]

AllocatableNuma(db, s, nodeCpus, policy, pool) ==
    nodeCpus \ UNION {Shielded(db, owner, policy, pool) :
                          owner \in {t \in Services : t # s /\ Owns(db, t)}}

\* _validate_reclamation does not raise.
ReclamationAccepted(db, owner, cpus, policy, pool) ==
    /\ ServicePool(db, owner) = pool
    /\ policy # "non-preemptive"
    /\ StoredPolicy(db, owner) # "non-preemptive"
    /\ cpus \cap db.explicit[owner] = {}

-----------------------------------------------------------------------------
(* Changes                                                                 *)

RemoveServiceAllocation(db, s) ==
    [ allocations |-> [db.allocations EXCEPT ![s] = {}],
      explicit    |-> [db.explicit EXCEPT ![s] = {}],
      policies    |-> [db.policies EXCEPT ![s] = Absent],
      pools       |-> [db.pools EXCEPT ![s] = Absent],
      allocated   |-> db.allocated \ db.allocations[s] ]

\* Faulty variant: a service left without CPUs keeps its metadata.
SubtractKeepingMetadata(db, lost) ==
    [ db EXCEPT !.allocations = [t \in Services |-> @[t] \ lost[t]],
                !.explicit    = [t \in Services |-> @[t] \ lost[t]],
                !.allocated   = @ \ UNION {lost[t] : t \in Services} ]

\* Faulty variant: the cache is not updated.
SubtractWithStaleCache(db, lost) ==
    [ db EXCEPT !.allocations = [t \in Services |-> @[t] \ lost[t]],
                !.explicit    = [t \in Services |-> @[t] \ lost[t]] ]

\* Every service t loses lost[t]; one left without CPUs loses its metadata.
SubtractCpus(db, lost) ==
    [ allocations |-> [t \in Services |-> db.allocations[t] \ lost[t]],
      explicit    |-> [t \in Services |-> db.explicit[t] \ lost[t]],
      policies    |-> [t \in Services |-> IF db.allocations[t] \subseteq lost[t]
                                          THEN Absent ELSE db.policies[t]],
      pools       |-> [t \in Services |-> IF db.allocations[t] \subseteq lost[t]
                                          THEN Absent ELSE db.pools[t]],
      allocated   |-> db.allocated
                        \ UNION {db.allocations[t] \cap lost[t] : t \in Services} ]

OnlyFrom(s, cpus) == [t \in Services |-> IF t = s THEN cpus ELSE {}]

\* allocate_cores does not raise.
OverlapFree(db, s, cpus) == cpus \cap (db.allocated \ db.allocations[s]) = {}

\* Faulty variant: the earlier claims are not removed.
AllocateCoresAppending(db, s, cpus, policy, pool) ==
    [ db EXCEPT !.allocations[s] = @ \cup cpus,
                !.explicit[s]    = {},
                !.policies[s]    = policy,
                !.pools[s]       = pool,
                !.allocated      = @ \cup cpus ]

\* Replaces all claims of s by ordinary, non-explicit ones.
AllocateCores(db, s, cpus, policy, pool) ==
    LET freed == RemoveServiceAllocation(db, s)
    IN  [ allocations |-> [freed.allocations EXCEPT ![s] = cpus],
          explicit    |-> freed.explicit,
          policies    |-> [freed.policies EXCEPT ![s] = policy],
          pools       |-> [freed.pools EXCEPT ![s] = pool],
          allocated   |-> freed.allocated \cup cpus ]

\* Faulty variant: the other owners keep the CPUs taken from them.
ApplyNumaWithoutReclaiming(db, s, nodeCpus, cpus, policy, pool) ==
    LET kept == db.allocations[s] \ nodeCpus
    IN  [ db EXCEPT !.allocations[s] = kept \cup cpus,
                    !.explicit[s]    = (@ \ nodeCpus) \cup cpus,
                    !.policies[s]    = policy,
                    !.pools[s]       = pool,
                    !.allocated      = (@ \ nodeCpus) \cup cpus ]

\* Faulty variant: the earlier claims of s in the node are kept.
ApplyNumaAppending(db, s, nodeCpus, cpus, policy, pool) ==
    LET reduced == SubtractCpus(db, [t \in Services |->
                       IF t = s THEN {} ELSE db.allocations[t] \cap cpus])
    IN  [ reduced EXCEPT !.allocations[s] = @ \cup cpus,
                         !.explicit[s]    = @ \cup cpus,
                         !.policies[s]    = policy,
                         !.pools[s]       = pool,
                         !.allocated      = @ \cup cpus ]

\* Replaces the claims of s in one node by explicit ones, taking them from
\* whoever holds them.
ApplyNumaExplicit(db, s, nodeCpus, cpus, policy, pool) ==
    LET inNode  == db.allocations[s] \cap nodeCpus
        updated == (db.allocations[s] \ inNode) \cup cpus
        reduced == SubtractCpus(db, [t \in Services |->
                       IF t = s THEN inNode ELSE db.allocations[t] \cap cpus])
    IN  [ allocations |-> [reduced.allocations EXCEPT ![s] = updated],
          explicit    |-> [reduced.explicit EXCEPT
                               ![s] = (db.explicit[s] \ inNode) \cup cpus],
          policies    |-> [reduced.policies EXCEPT ![s] = policy],
          pools       |-> [reduced.pools EXCEPT ![s] = pool],
          allocated   |-> reduced.allocated \cup updated ]

-----------------------------------------------------------------------------
(* What must hold of a ledger or a candidate                               *)

\* No CPU has two owners.
Exclusive(db) ==
    \A s, t \in Services : s # t => db.allocations[s] \cap db.allocations[t] = {}

\* NUMA claims are claims.
ExplicitOwned(db) == \A s \in Services : db.explicit[s] \subseteq db.allocations[s]

\* _load_snapshot does not raise StateCorruptionError: metadata has an owner.
MetadataOwned(db) ==
    \A s \in Services : \/ db.policies[s] # Absent
                        \/ db.pools[s] # Absent
                        => Owns(db, s)

WellFormed(db) == Exclusive(db) /\ ExplicitOwned(db) /\ MetadataOwned(db)

\* The incrementally updated cache is what a reload would compute.
CacheExact(db) == db.allocated = Claims(db)
=============================================================================
