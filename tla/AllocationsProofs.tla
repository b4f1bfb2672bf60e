-------------------------- MODULE AllocationsProofs --------------------------
(***************************************************************************)
(* The safety properties of module Allocations, for every host, set of     *)
(* services, pool configuration and set of requests.                       *)
(*                                                                         *)
(* Every change which allocations_db.py makes to a candidate keeps it      *)
(* sound: each CPU has at most one owner, NUMA marks and metadata are on   *)
(* owned claims, and the incrementally updated cache is exact.             *)
(*                                                                         *)
(* None of the properties is inductive: they speak of what a commit        *)
(* writes, which depends on what the handler checked and selected some     *)
(* steps before. IInv records that.  Until it applies its selection a      *)
(* transaction works on exactly what the ledger says; a selection still    *)
(* satisfies the checks it was made under; and a candidate ready for the   *)
(* commit is the ledger changed by one of the four operations of           *)
(* allocations_db.py, under the checks of that operation.                  *)
(***************************************************************************)
EXTENDS Allocations, SetLemmas

Sound(db) == db \in Databases /\ WellFormed(db) /\ CacheExact(db)

\* What a transaction loads from a well-formed state file is sound.
LEMMA LoadSound ==
    ASSUME NEW l \in Ledgers, WellFormed(l)
    PROVE  Sound(Load(l))
BY DEF Ledgers, Databases, Sound, WellFormed, Exclusive, ExplicitOwned,
       MetadataOwned, CacheExact, Load, Claims, Owns

\* What it writes back is a well-formed state file.
LEMMA SnapshotSound ==
    ASSUME NEW db, Sound(db)
    PROVE  Snapshot(db) \in Ledgers /\ WellFormed(Snapshot(db))
BY DEF Ledgers, Databases, Sound, WellFormed, Exclusive, ExplicitOwned,
       MetadataOwned, Snapshot, Owns

\* _remove_service_allocation keeps a candidate sound.
LEMMA RemoveSound ==
    ASSUME NEW db, Sound(db), NEW s \in Services
    PROVE  Sound(RemoveServiceAllocation(db, s))
BY DEF Databases, Sound, WellFormed, Exclusive, ExplicitOwned, MetadataOwned,
       CacheExact, RemoveServiceAllocation, Claims, Owns

\* _subtract_cpus_from_service keeps a candidate sound.
LEMMA SubtractSound ==
    ASSUME NEW db, Sound(db), NEW lost \in [Services -> SUBSET CPUs]
    PROVE  Sound(SubtractCpus(db, lost))
BY DEF Databases, Sound, WellFormed, Exclusive, ExplicitOwned, MetadataOwned,
       CacheExact, SubtractCpus, Claims, Owns

\* allocate_cores keeps a candidate sound, given its overlap check.
LEMMA AllocateCoresSound ==
    ASSUME NEW db, Sound(db), NEW s \in Services,
           NEW cpus \in SUBSET CPUs, cpus # {}, OverlapFree(db, s, cpus),
           NEW policy \in Policies, NEW pool \in Pools
    PROVE  Sound(AllocateCores(db, s, cpus, policy, pool))
BY DEF Databases, Sound, WellFormed, Exclusive, ExplicitOwned, MetadataOwned,
       CacheExact, AllocateCores, RemoveServiceAllocation, OverlapFree, Claims, Owns

\* _apply_numa_explicit_allocation keeps a candidate sound, whichever CPUs it
\* takes from whomever.
LEMMA ApplyNumaSound ==
    ASSUME NEW db, Sound(db), NEW s \in Services,
           NEW nodeCpus \in SUBSET CPUs, NEW cpus \in SUBSET CPUs, cpus # {},
           NEW policy \in Policies, NEW pool \in Pools
    PROVE  Sound(ApplyNumaExplicit(db, s, nodeCpus, cpus, policy, pool))
<1> DEFINE inNode  == db.allocations[s] \cap nodeCpus
           updated == (db.allocations[s] \ inNode) \cup cpus
           lost    == [t \in Services |->
                           IF t = s THEN inNode ELSE db.allocations[t] \cap cpus]
           reduced == SubtractCpus(db, lost)
           result  == ApplyNumaExplicit(db, s, nodeCpus, cpus, policy, pool)
<1>1. lost \in [Services -> SUBSET CPUs]
  BY DEF Sound, Databases
<1>2. Sound(reduced)
  <2> HIDE DEF lost
  <2> QED BY <1>1, SubtractSound
<1>3. /\ reduced.allocations[s] \subseteq updated
      /\ reduced.allocations[s] = db.allocations[s] \ inNode
      /\ reduced.explicit[s] = db.explicit[s] \ inNode
      /\ \A t \in Services \ {s} : reduced.allocations[t] \cap cpus = {}
  BY DEF SubtractCpus
<1>4. /\ result.allocations = [reduced.allocations EXCEPT ![s] = updated]
      /\ result.explicit = [reduced.explicit EXCEPT
                                ![s] = (db.explicit[s] \ inNode) \cup cpus]
      /\ result.policies = [reduced.policies EXCEPT ![s] = policy]
      /\ result.pools = [reduced.pools EXCEPT ![s] = pool]
      /\ result.allocated = reduced.allocated \cup updated
      /\ result = [ allocations |-> result.allocations, explicit |-> result.explicit,
                    policies |-> result.policies, pools |-> result.pools,
                    allocated |-> result.allocated ]
  BY DEF ApplyNumaExplicit
<1>5. updated \in SUBSET CPUs /\ updated # {}
  BY DEF Sound, Databases
<1>6. (db.explicit[s] \ inNode) \cup cpus \in SUBSET updated
  BY DEF Sound, Databases, WellFormed, ExplicitOwned
<1> HIDE DEF inNode, updated, lost, reduced, result
<1>7. result \in Databases
  BY <1>2, <1>4, <1>5, <1>6 DEF Sound, Databases
<1>8. \A t \in Services \ {s} : /\ result.allocations[t] = reduced.allocations[t]
                                /\ result.explicit[t] = reduced.explicit[t]
                                /\ result.policies[t] = reduced.policies[t]
                                /\ result.pools[t] = reduced.pools[t]
  BY <1>2, <1>4 DEF Sound, Databases
<1>9. /\ result.allocations[s] = updated
      /\ result.explicit[s] \subseteq updated
  BY <1>2, <1>4, <1>6 DEF Sound, Databases
<1>10. \A t \in Services \ {s} : reduced.allocations[t] \cap updated = {}
  BY <1>2, <1>3 DEF Sound, WellFormed, Exclusive, updated
<1>11. Exclusive(result)
  BY <1>2, <1>8, <1>9, <1>10 DEF Sound, WellFormed, Exclusive
<1>12. ExplicitOwned(result)
  BY <1>2, <1>8, <1>9 DEF Sound, WellFormed, ExplicitOwned
<1>13. MetadataOwned(result)
  BY <1>2, <1>5, <1>8, <1>9 DEF Sound, WellFormed, MetadataOwned, Owns
<1>14. CacheExact(result)
  <2>1. Claims(result) = Claims(reduced) \cup updated
    BY <1>3, <1>8, <1>9 DEF Claims
  <2> QED BY <1>2, <1>4, <2>1 DEF Sound, CacheExact
<1> QED BY <1>7, <1>11, <1>12, <1>13, <1>14 DEF Sound, WellFormed, result

-----------------------------------------------------------------------------
(* What each change from db to new does to every service                   *)

\* Only the claims and metadata of s are affected.
OthersKept(db, new, s) ==
    \A t \in Services \ {s} : /\ new.allocations[t] = db.allocations[t]
                              /\ new.explicit[t] = db.explicit[t]
                              /\ new.policies[t] = db.policies[t]
                              /\ new.pools[t] = db.pools[t]

\* A service which keeps some CPUs keeps its metadata.
MetadataFollowsClaims(db, new, t) ==
    /\ Owns(new, t) => /\ new.policies[t] = db.policies[t]
                       /\ new.pools[t] = db.pools[t]
    /\ ~Owns(new, t) => /\ new.policies[t] = Absent
                        /\ new.pools[t] = Absent

RemoveChange(db, new, s) ==
    /\ new.allocations[s] = {} /\ new.explicit[s] = {}
    /\ MetadataFollowsClaims(db, new, s)
    /\ OthersKept(db, new, s)

SubtractChange(db, new, lost) ==
    \A t \in Services : /\ new.allocations[t] = db.allocations[t] \ lost[t]
                        /\ new.explicit[t] = db.explicit[t] \ lost[t]
                        /\ MetadataFollowsClaims(db, new, t)

CoresChange(db, new, s, cpus, policy, pool) ==
    /\ new.allocations[s] = cpus /\ new.explicit[s] = {}
    /\ new.policies[s] = policy /\ new.pools[s] = pool
    /\ OthersKept(db, new, s)

NumaChange(db, new, s, nodeCpus, cpus, policy, pool) ==
    /\ new.allocations[s] = (db.allocations[s] \ nodeCpus) \cup cpus
    /\ new.explicit[s] = (db.explicit[s] \ nodeCpus) \cup cpus
    /\ new.policies[s] = policy /\ new.pools[s] = pool
    /\ \A t \in Services \ {s} : /\ new.allocations[t] = db.allocations[t] \ cpus
                                 /\ new.explicit[t] = db.explicit[t] \ cpus
                                 /\ MetadataFollowsClaims(db, new, t)

\* A full release leaves s nothing, and all others everything.
LEMMA RemoveEffect ==
    ASSUME NEW db, Sound(db), NEW s \in Services
    PROVE  RemoveChange(db, RemoveServiceAllocation(db, s), s)
BY DEF Sound, Databases, RemoveServiceAllocation, RemoveChange, OthersKept,
       MetadataFollowsClaims, Owns

\* Claims are taken as told, metadata with the last claim of a service.
LEMMA SubtractEffect ==
    ASSUME NEW db, Sound(db), NEW lost \in [Services -> SUBSET CPUs]
    PROVE  SubtractChange(db, SubtractCpus(db, lost), lost)
BY DEF Sound, Databases, SubtractCpus, SubtractChange, MetadataFollowsClaims, Owns

\* The requester owns exactly its new CPUs; nobody else is affected.
LEMMA AllocateCoresEffect ==
    ASSUME NEW db, Sound(db), NEW s \in Services,
           NEW cpus \in SUBSET CPUs, NEW policy \in Policies, NEW pool \in Pools
    PROVE  CoresChange(db, AllocateCores(db, s, cpus, policy, pool), s, cpus, policy, pool)
BY DEF Sound, Databases, AllocateCores, RemoveServiceAllocation, CoresChange, OthersKept

\* The requester keeps its CPUs outside the node; the others lose exactly the
\* granted CPUs, and their metadata with their last one.
LEMMA ApplyNumaEffect ==
    ASSUME NEW db, Sound(db), NEW s \in Services,
           NEW nodeCpus \in SUBSET CPUs, NEW cpus \in SUBSET CPUs,
           NEW policy \in Policies, NEW pool \in Pools
    PROVE  NumaChange(db, ApplyNumaExplicit(db, s, nodeCpus, cpus, policy, pool),
                      s, nodeCpus, cpus, policy, pool)
<1> DEFINE inNode  == db.allocations[s] \cap nodeCpus
           lost    == [u \in Services |->
                           IF u = s THEN inNode ELSE db.allocations[u] \cap cpus]
           reduced == SubtractCpus(db, lost)
           new     == ApplyNumaExplicit(db, s, nodeCpus, cpus, policy, pool)
<1>1. lost \in [Services -> SUBSET CPUs]
  BY DEF Sound, Databases
<1>2. Sound(reduced) /\ SubtractChange(db, reduced, lost)
  <2> HIDE DEF lost
  <2> QED BY <1>1, SubtractSound, SubtractEffect
<1>3. /\ new.allocations = [reduced.allocations EXCEPT
                                ![s] = (db.allocations[s] \ inNode) \cup cpus]
      /\ new.explicit = [reduced.explicit EXCEPT
                             ![s] = (db.explicit[s] \ inNode) \cup cpus]
      /\ new.policies = [reduced.policies EXCEPT ![s] = policy]
      /\ new.pools = [reduced.pools EXCEPT ![s] = pool]
  BY DEF ApplyNumaExplicit
<1>4. \A t \in Services : db.explicit[t] \subseteq db.allocations[t]
  BY DEF Sound, WellFormed, ExplicitOwned
<1>5. \A t \in Services \ {s} : lost[t] = db.allocations[t] \cap cpus
  OBVIOUS
<1> HIDE DEF lost, reduced, new
<1>6. /\ new.allocations[s] = (db.allocations[s] \ nodeCpus) \cup cpus
      /\ new.explicit[s] = (db.explicit[s] \ nodeCpus) \cup cpus
      /\ new.policies[s] = policy /\ new.pools[s] = pool
  BY <1>2, <1>3, <1>4 DEF Sound, Databases
<1>7. ASSUME NEW t \in Services \ {s}
      PROVE  /\ new.allocations[t] = db.allocations[t] \ cpus
             /\ new.explicit[t] = db.explicit[t] \ cpus
             /\ MetadataFollowsClaims(db, new, t)
  <2>1. /\ new.allocations[t] = reduced.allocations[t]
        /\ new.explicit[t] = reduced.explicit[t]
        /\ new.policies[t] = reduced.policies[t]
        /\ new.pools[t] = reduced.pools[t]
    BY <1>2, <1>3 DEF Sound, Databases
  <2> QED BY <1>2, <1>4, <1>5, <2>1 DEF SubtractChange, MetadataFollowsClaims, Owns
<1> QED BY <1>6, <1>7 DEF NumaChange, new

-----------------------------------------------------------------------------
(* The inductive invariant                                                 *)

\* The checks which a grant passed, on the candidate it started from.
Checked(old) ==
    /\ ~IsRelease(tx.request)
    /\ PoolAccepted(old, Service, Pool)
    /\ PolicyAccepted(old, Service, tx.request.preemption_policy)
    /\ NoOfflineClaims(old, Service, tx.eligible)
    /\ ClaimedIn(old, Pool) \subseteq config.cpus[Pool]
    /\ tx.eligible \subseteq config.cpus[Pool]

\* A grant is as large as the request, unless that asks for the default.
SizeExact(cores) ==
    Count(tx.request, tx.eligible) > 0
        => Cardinality(cores) = Count(tx.request, tx.eligible)

\* Of a selection: what was seen as shared is what the service leaves.
SelectionChecked ==
    /\ Checked(tx.db)
    /\ tx.selected # {}
    /\ tx.selected \subseteq tx.eligible
    /\ SizeExact(tx.selected)
    /\ ~IsNuma => tx.shared = CoresCandidates \ tx.selected

PolicyOn(old) == EffectivePolicy(old, Service, tx.request.preemption_policy)

ReleasedAll(old) ==
    /\ IsRelease(tx.request) /\ ~IsNuma
    /\ PoolAccepted(old, Service, Pool)
    /\ tx.db = RemoveServiceAllocation(old, Service)
    /\ tx.reply.shared = tx.eligible \ tx.db.allocated

\* What a listing of the node has shown of the claims of the service: at least
\* those which have been there throughout.
ListedInNode(old, listed) ==
    /\ listed \subseteq NodeCpus[tx.request.numa_node]
    /\ old.allocations[Service] \cap NodeCpus[tx.request.numa_node] \cap tx.steady
           \subseteq listed

\* The checks of a selection in a node.
Confirmed(old, cores) ==
    /\ cores \subseteq NodeCpus[tx.request.numa_node]
    /\ \A owner \in Services \ {Service} :
           LET overlap == old.allocations[owner] \cap cores
           IN  overlap # {} =>
                   ReclamationAccepted(old, owner, overlap, PolicyOn(old), Pool)

ReleasedNode(old) ==
    /\ IsRelease(tx.request) /\ IsNuma
    /\ PoolAccepted(old, Service, Pool)
    /\ tx.reply.cores = {}
    /\ \E listed \in SUBSET CPUs :
           /\ ListedInNode(old, listed)
           /\ tx.db = SubtractCpus(old, OnlyFrom(Service, listed))

GrantedCores(old) ==
    /\ Checked(old) /\ ~IsNuma
    /\ tx.reply.cores # {}
    /\ tx.reply.cores \subseteq tx.eligible
    /\ SizeExact(tx.reply.cores)
    /\ OverlapFree(old, Service, tx.reply.cores)
    /\ tx.db = AllocateCores(old, Service, tx.reply.cores, PolicyOn(old), Pool)
    /\ tx.reply.shared = AvailableFor(old, Service, tx.eligible) \ tx.reply.cores

GrantedNuma(old) ==
    /\ Checked(old) /\ IsNuma
    /\ tx.reply.cores # {}
    /\ tx.reply.cores \subseteq tx.eligible
    /\ SizeExact(tx.reply.cores)
    /\ Confirmed(old, tx.reply.cores)
    /\ ListedInNode(old, tx.in_node)
    /\ tx.db = ApplyNumaExplicit(old, Service, tx.in_node, tx.reply.cores,
                                 PolicyOn(old), Pool)

Derived(old) == \/ ReleasedAll(old)
                \/ ReleasedNode(old)
                \/ GrantedCores(old)
                \/ GrantedNuma(old)

\* A transaction which has selected the CPUs of a grant.
HasSelected == tx.stage \in {"confirm", "list", "apply"} /\ ~IsRelease(tx.request)

IInv ==
    /\ TypeOK
    /\ WellFormed(ledger)
    /\ tx.stage \in {"select", "confirm", "list", "apply"}
           => tx.db = Load(ledger) /\ tx.reply = NoReply
    /\ tx.stage = "select" => tx.eligible \subseteq config.cpus[Pool]
    /\ tx.stage \in {"confirm", "list"} => IsNuma
    /\ tx.stage \in {"confirm", "apply"} => ~IsRelease(tx.request)
    /\ tx.stage = "list" => /\ tx.request.numa_node \in Nodes
                            /\ PoolAccepted(tx.db, Service, Pool)
    /\ HasSelected => SelectionChecked
    /\ HasSelected /\ IsNuma /\ tx.stage # "confirm" => Confirmed(tx.db, tx.selected)
    /\ tx.stage = "apply" /\ IsNuma => ListedInNode(tx.db, tx.in_node)
    /\ tx.stage = "commit" => /\ Derived(Load(ledger))
                              /\ tx.reply = ReplyFrom(tx.db, tx.reply.cores,
                                                      tx.reply.shared)
    /\ tx # Idle => tx.steady \subseteq online
    /\ uncertain => tx = Idle

-----------------------------------------------------------------------------
(* Types                                                                   *)

\* A transaction names a known service and pool, and resolves a known policy.
LEMMA TransactionTyped ==
    ASSUME tx \in Transactions
    PROVE  /\ Service \in Services
           /\ Pool \in Pools
           /\ tx.request \in Requests
           /\ tx.request.preemption_policy \in Policies \cup {Omitted}
           /\ tx.db \in Databases
           /\ tx.eligible \in SUBSET CPUs
           /\ tx.selected \in SUBSET CPUs
           /\ tx.shared \in SUBSET CPUs
           /\ tx.in_node \in SUBSET CPUs
           /\ tx.steady \in SUBSET CPUs
           /\ tx # Idle
<1>1. tx.request \in CoresRequests \cup PercentRequests \cup NumaRequests
  BY RequestAssumption DEF Transactions
<1>2. tx # Idle
  BY DEF Transactions, Idle
<1> QED BY <1>1, <1>2
           DEF Transactions, CoresRequests, PercentRequests, NumaRequests, Service, Pool

\* EffectivePolicy never yields an omitted or absent policy.
LEMMA PolicyTyped ==
    ASSUME NEW db \in Databases, NEW s \in Services,
           NEW requested \in Policies \cup {Omitted}
    PROVE  EffectivePolicy(db, s, requested) \in Policies
BY DEF Databases, EffectivePolicy, StoredPolicy, Policies, Absent, Omitted

\* sysfs lists known CPUs of the node only.
LEMMA ListingTyped ==
    ASSUME tx \in Transactions, IsNuma
    PROVE  /\ Listing \in SUBSET CPUs
           /\ Listing # {} => /\ tx.request.numa_node \in Nodes
                              /\ Listing \in SUBSET NodeCpus[tx.request.numa_node]
BY TopologyAssumption DEF Listing, NodeListing

\* The replies are well-typed.
LEMMA ReplyTyped ==
    ASSUME tx \in Transactions, NEW db \in Databases,
           NEW cores \in SUBSET CPUs, NEW shared \in SUBSET CPUs
    PROVE  ReplyFrom(db, cores, shared) \in Replies
<1>1. StoredPolicy(db, Service) \in Policies
  BY TransactionTyped DEF Databases, StoredPolicy, Policies, Absent
<1> QED BY <1>1, TransactionTyped DEF ReplyFrom, Replies

-----------------------------------------------------------------------------
(* Candidates                                                              *)

\* The four changes keep a candidate sound under the checks they are made with.
LEMMA DerivedSound ==
    ASSUME tx \in Transactions, NEW old, Sound(old), Derived(old)
    PROVE  Sound(tx.db)
<1>1. CASE ReleasedAll(old)
  BY <1>1, TransactionTyped, RemoveSound DEF ReleasedAll
<1>2. CASE ReleasedNode(old)
  <2>1. PICK listed \in SUBSET CPUs : tx.db = SubtractCpus(old, OnlyFrom(Service, listed))
    BY <1>2 DEF ReleasedNode
  <2>2. OnlyFrom(Service, listed) \in [Services -> SUBSET CPUs]
    BY DEF OnlyFrom
  <2> QED BY <2>1, <2>2, SubtractSound
<1>3. PolicyOn(old) \in Policies
  BY TransactionTyped, PolicyTyped DEF PolicyOn, Sound
<1>4. CASE GrantedCores(old)
  <2>1. tx.reply.cores \in SUBSET CPUs
    BY <1>4, TransactionTyped DEF GrantedCores
  <2> QED BY <1>3, <1>4, <2>1, TransactionTyped, AllocateCoresSound DEF GrantedCores
<1>5. CASE GrantedNuma(old)
  <2>1. tx.reply.cores \in SUBSET CPUs
    BY <1>5, TransactionTyped DEF GrantedNuma
  <2> QED BY <1>3, <1>5, <2>1, TransactionTyped, ApplyNumaSound DEF GrantedNuma
<1> QED BY <1>1, <1>2, <1>4, <1>5 DEF Derived

\* Every candidate is sound.
LEMMA CandidateSound ==
    ASSUME IInv, tx # Idle
    PROVE  tx \in Transactions /\ Sound(Load(ledger)) /\ Sound(tx.db)
<1>1. tx \in Transactions /\ tx.stage \in {"select", "confirm", "list", "apply", "commit"}
  BY DEF IInv, TypeOK, Transactions
<1>2. Sound(Load(ledger))
  BY LoadSound DEF IInv, TypeOK
<1> QED BY <1>1, <1>2, DerivedSound DEF IInv

\* A validated selection is not empty: a target is never 0.
LEMMA CoresSelectionNonEmpty ==
    ASSUME tx \in Transactions, CoresAccepted, NEW selected,
           ValidSelection(selected, CoresCandidates, CoresTarget)
    PROVE  selected # {}
<1>1. IsFiniteSet(CoresCandidates)
  BY TransactionTyped, CpuAssumption, FS_Subset DEF CoresCandidates, AvailableFor
<1>2. CoresPinning.dedicated \subseteq CoresCandidates
  BY DEF CoresPinning, CalculateCpuPinning, Lowest
<1>3. Cardinality(CoresPinning.dedicated) # 0
  BY <1>1, <1>2, FS_Subset, FS_EmptySet DEF CoresAccepted
<1>4. Cardinality({}) = 0
  BY FS_EmptySet
<1> QED BY <1>3, <1>4 DEF ValidSelection, CoresTarget

-----------------------------------------------------------------------------
(* The inductive invariant, one lemma per kind of step                     *)

\* Every initial state satisfies IInv.
LEMMA InitKeeps ==
    ASSUME Init
    PROVE  IInv
BY InitialLedgerAssumption DEF Init, IInv, TypeOK, HasSelected, Idle

\* Taking the lock and loading a candidate keeps IInv.
LEMMA BeginKeeps ==
    ASSUME IInv, NEW r \in Requests, NEW readable \in BOOLEAN, Begin(r, readable)
    PROVE  IInv'
<1>1. config.cpus[r.pool] \in SUBSET CPUs
  <2>1. r.pool \in Pools
    BY RequestAssumption DEF CoresRequests, PercentRequests, NumaRequests
  <2> QED BY <2>1, ConfigAssumption DEF IInv, TypeOK, Configs
<1>2. Load(ledger) \in Databases
  BY LoadSound DEF IInv, TypeOK, Sound
<1>3. NoReply \in Replies
  BY DEF NoReply, Replies
<1>4. /\ tx' \in Transactions
      /\ tx'.stage = "select" /\ tx'.db = Load(ledger) /\ tx'.reply = NoReply
      /\ tx'.steady = online
  BY <1>1, <1>2, <1>3 DEF Begin, Transactions, IInv, TypeOK
<1>5. tx'.eligible \subseteq config.cpus[Pool']
  BY DEF Begin, Pool
<1> QED BY <1>4, <1>5 DEF Begin, IInv, TypeOK, HasSelected

\* A full release keeps IInv.
LEMMA ReleaseAllKeeps ==
    ASSUME IInv, ReleaseAll
    PROVE  IInv'
<1> DEFINE db == RemoveServiceAllocation(tx.db, Service)
<1>1. tx # Idle
  BY DEF ReleaseAll, Idle
<1>2. tx \in Transactions /\ Sound(tx.db) /\ tx.db = Load(ledger)
  BY <1>1, CandidateSound DEF ReleaseAll, IInv
<1>3. db \in Databases
  BY <1>2, TransactionTyped, RemoveSound DEF Sound
<1>4. ReplyFrom(db, {}, tx.eligible \ db.allocated) \in Replies
  BY <1>2, <1>3, TransactionTyped, ReplyTyped
<1>5. /\ tx' \in Transactions
      /\ tx'.stage = "commit"
      /\ tx'.request = tx.request /\ tx'.eligible = tx.eligible
      /\ tx'.db = db
      /\ tx'.reply = ReplyFrom(db, {}, tx.eligible \ db.allocated)
      /\ tx'.steady = tx.steady
  BY <1>2, <1>3, <1>4 DEF ReleaseAll, Transactions
<1>6. ReleasedAll(Load(ledger))'
  BY <1>2, <1>5
     DEF ReleaseAll, ReleaseAccepted, ReleasedAll, IsNuma, Service, Pool, ReplyFrom
<1>7. (tx.reply = ReplyFrom(tx.db, tx.reply.cores, tx.reply.shared))'
  BY <1>5 DEF ReplyFrom, Service
<1> QED BY <1>1, <1>5, <1>6, <1>7 DEF ReleaseAll, IInv, TypeOK, Derived, HasSelected

\* Seeing that the node exists keeps IInv.
LEMMA FindNodeKeeps ==
    ASSUME IInv, FindNode
    PROVE  IInv'
<1>1. tx # Idle
  BY DEF FindNode, Idle
<1>2. tx \in Transactions
  BY <1>1, CandidateSound
<1>3. /\ tx' \in Transactions
      /\ tx'.stage = "list" /\ tx'.request = tx.request
      /\ tx'.db = tx.db /\ tx'.reply = tx.reply /\ tx'.steady = tx.steady
  BY <1>2 DEF FindNode, Transactions
<1>4. tx.request.numa_node \in Nodes /\ PoolAccepted(tx.db, Service, Pool)
  BY <1>2, ListingTyped DEF FindNode, ReleaseAccepted
<1> QED BY <1>1, <1>3, <1>4
           DEF FindNode, IInv, TypeOK, HasSelected, IsNuma, Service, Pool

\* A listing of the node shows the claims which have been there throughout.
LEMMA ListingShows ==
    ASSUME IInv, tx.stage = "list", NEW readable \in BOOLEAN
    PROVE  /\ OwnListed(readable) \in SUBSET CPUs
           /\ OwnListed(readable) \subseteq NodeCpus[tx.request.numa_node]
           /\ Own \cap NodeCpus[tx.request.numa_node] \cap StillSteady(readable)
                  \subseteq OwnListed(readable)
           /\ StillSteady(readable) \in SUBSET tx.steady
           /\ StillSteady(readable) \in SUBSET CPUs
<1>1. /\ tx \in Transactions
      /\ tx.steady \subseteq online /\ tx.request.numa_node \in Nodes /\ IsNuma
  BY CandidateSound DEF IInv, Idle
<1>2. Listing = NodeCpus[tx.request.numa_node] \cap online
  BY <1>1 DEF Listing, NodeListing
<1>3. Listing \in SUBSET CPUs /\ tx.steady \in SUBSET CPUs
  BY <1>1, ListingTyped, TransactionTyped
<1> QED BY <1>1, <1>2, <1>3 DEF OwnListed, StillSteady

\* A NUMA release keeps IInv.
LEMMA ReleaseNodeKeeps ==
    ASSUME IInv, NEW readable \in BOOLEAN, ReleaseNode(readable)
    PROVE  IInv'
<1>1. PICK listed \in SUBSET CPUs : tx.stage = "list" /\ listed = OwnListed(readable)
  BY ListingShows DEF ReleaseNode
<1> DEFINE lost == OnlyFrom(Service, listed)
           db   == SubtractCpus(tx.db, lost)
<1>2. tx # Idle /\ tx.stage = "list"
  BY DEF ReleaseNode, Idle
<1>3. tx \in Transactions /\ Sound(tx.db) /\ tx.db = Load(ledger)
  BY <1>2, CandidateSound DEF IInv
<1>4. /\ listed \in SUBSET CPUs
      /\ listed \subseteq NodeCpus[tx.request.numa_node]
      /\ Own \cap NodeCpus[tx.request.numa_node] \cap StillSteady(readable)
             \subseteq listed
      /\ StillSteady(readable) \in SUBSET tx.steady
      /\ StillSteady(readable) \in SUBSET CPUs
  BY <1>1, <1>2, ListingShows
<1>5. tx' = [tx EXCEPT !.stage = "commit", !.db = db,
                       !.reply = ReplyFrom(db, {}, {}),
                       !.steady = StillSteady(readable)]
  BY <1>1 DEF ReleaseNode
<1>6. db \in Databases
  <2>1. lost \in [Services -> SUBSET CPUs]
    BY <1>4 DEF OnlyFrom
  <2> HIDE DEF lost
  <2> QED BY <1>3, <2>1, SubtractSound DEF Sound
<1>7. ReplyFrom(db, {}, {}) \in Replies
  BY <1>3, <1>6, ReplyTyped
<1>8. /\ tx' \in Transactions
      /\ tx'.stage = "commit"
      /\ tx'.request = tx.request /\ tx'.eligible = tx.eligible
      /\ tx'.db = db
      /\ tx'.reply = ReplyFrom(db, {}, {})
      /\ tx'.steady = StillSteady(readable)
  <2> HIDE DEF db
  <2> QED BY <1>3, <1>4, <1>5, <1>6, <1>7 DEF Transactions
<1>9. ledger' = ledger
  BY DEF ReleaseNode
<1>10. ReleasedNode(Load(ledger))'
  <2>1. ListedInNode(Load(ledger), listed)'
    BY <1>3, <1>4, <1>8, <1>9 DEF ListedInNode, Service, Own
  <2>2. PoolAccepted(Load(ledger), Service, Pool)'
    BY <1>2, <1>3, <1>8, <1>9 DEF IInv, Service, Pool
  <2>3. /\ (IsRelease(tx.request) /\ IsNuma)'
        /\ tx'.reply.cores = {}
    BY <1>2, <1>8 DEF IInv, ReleaseNode, IsNuma, ReplyFrom
  <2>4. tx'.db = SubtractCpus(Load(ledger)', OnlyFrom(Service', listed))
    BY <1>3, <1>8, <1>9 DEF Service
  <2> QED BY <1>4, <2>1, <2>2, <2>3, <2>4 DEF ReleasedNode
<1>11. (tx.reply = ReplyFrom(tx.db, tx.reply.cores, tx.reply.shared))'
  <2> HIDE DEF db
  <2> QED BY <1>8 DEF ReplyFrom, Service
<1>12. tx'.steady \subseteq online'
  BY <1>2, <1>4, <1>8 DEF ReleaseNode, IInv
<1> HIDE DEF db
<1> QED BY <1>2, <1>8, <1>10, <1>11, <1>12 DEF ReleaseNode, IInv, TypeOK, Derived, HasSelected

\* What the checks of a grant establish of the selection made under them.
LEMMA SelectionKeeps ==
    ASSUME IInv, tx.stage = "select", ~IsRelease(tx.request), GrantAccepted,
           NEW selected \in SUBSET tx.eligible, selected # {}, SizeExact(selected),
           tx' = [tx EXCEPT !.stage = IF IsNuma THEN "confirm" ELSE "apply",
                            !.selected = selected, !.shared = tx'.shared],
           tx'.shared \in SUBSET CPUs,
           ~IsNuma => tx'.shared = CoresCandidates \ selected,
           UNCHANGED << ledger, uncertain, config, online >>
    PROVE  IInv'
<1>1. tx \in Transactions /\ Sound(tx.db)
  BY CandidateSound DEF Idle
<1>2. /\ tx' \in Transactions
      /\ tx'.stage = IF IsNuma THEN "confirm" ELSE "apply"
      /\ tx'.request = tx.request /\ tx'.eligible = tx.eligible
      /\ tx'.db = tx.db /\ tx'.selected = selected /\ tx'.reply = tx.reply
      /\ tx'.steady = tx.steady
  BY <1>1 DEF Transactions
<1>3. Checked(tx.db)'
  BY <1>2 DEF Checked, GrantAccepted, ClaimsConfigured, Service, Pool, IInv
<1>4. SelectionChecked'
  BY <1>2, <1>3 DEF SelectionChecked, SizeExact, CoresCandidates, IsNuma, Service
<1>5. tx # Idle
  BY DEF Idle
<1>6. IsNuma' = IsNuma
  BY <1>2 DEF IsNuma
<1> QED BY <1>2, <1>4, <1>5, <1>6 DEF IInv, TypeOK, HasSelected

\* Selecting for a count or a percentage keeps IInv.
LEMMA SelectCoresKeeps ==
    ASSUME IInv, NEW siblings \in SiblingMaps, SelectCores(siblings)
    PROVE  IInv'
<1> DEFINE selected == CoresSelection(siblings)
<1>1. tx \in Transactions
  BY CandidateSound DEF SelectCores, Idle
<1>2. /\ ValidSelection(selected, CoresCandidates, CoresTarget)
      /\ tx' = [tx EXCEPT !.stage = "apply", !.selected = selected,
                          !.shared = CoresCandidates \ selected]
      /\ CoresAccepted
  BY DEF SelectCores
<1>3. ~IsNuma
  BY DEF SelectCores
<1>4. CoresCandidates \subseteq tx.eligible
  BY DEF CoresCandidates, AvailableFor
<1> HIDE DEF selected
<1>5. selected \in SUBSET tx.eligible
  BY <1>2, <1>4 DEF ValidSelection
<1>6. selected # {}
  BY <1>1, <1>2, CoresSelectionNonEmpty
<1>7. tx'.shared = CoresCandidates \ selected
  BY <1>1, <1>2 DEF Transactions
<1>8. tx'.shared \in SUBSET CPUs
  BY <1>1, <1>4, <1>7, TransactionTyped
<1>9. SizeExact(selected)
  BY <1>2 DEF SizeExact, ValidSelection, CoresTarget
<1> QED BY <1>2, <1>5, <1>6, <1>7, <1>8, <1>9, <1>3, SelectionKeeps
           DEF SelectCores, CoresAccepted

\* Selecting in a NUMA node keeps IInv.
LEMMA SelectNumaKeeps ==
    ASSUME IInv, NEW siblings \in SiblingMaps, SelectNuma(siblings)
    PROVE  IInv'
<1> DEFINE selected == NumaSelection(siblings)
<1>1. tx \in Transactions
  BY CandidateSound DEF SelectNuma, Idle
<1>2. /\ ValidSelection(selected, NumaCandidates, tx.request.num_of_cores)
      /\ tx' = [tx EXCEPT !.stage = "confirm", !.selected = selected]
      /\ NumaAccepted /\ IsNuma
  BY DEF SelectNuma
<1> HIDE DEF selected
<1>3. selected \in SUBSET tx.eligible
  BY <1>2 DEF ValidSelection, NumaCandidates, AllocatableNuma
<1>4. selected # {}
  BY <1>2, FS_EmptySet DEF ValidSelection, NumaAccepted
<1>5. tx'.shared = tx.shared
  BY <1>1, <1>2 DEF Transactions
<1>6. tx' = [tx EXCEPT !.stage = IF IsNuma THEN "confirm" ELSE "apply",
                       !.selected = selected, !.shared = tx'.shared]
  BY <1>1, <1>2, <1>5 DEF Transactions
<1>7. tx'.shared \in SUBSET CPUs
  BY <1>1, <1>5, TransactionTyped
<1>8. SizeExact(selected)
  BY <1>2 DEF SelectNuma, SizeExact, ValidSelection, Count, IsNuma
<1> QED BY <1>3, <1>4, <1>6, <1>7, <1>8, SelectionKeeps DEF SelectNuma, NumaAccepted

\* allocate_cores keeps IInv.
LEMMA ApplyCoresKeeps ==
    ASSUME IInv, ApplyCores
    PROVE  IInv'
<1> DEFINE db == AllocateCores(tx.db, Service, tx.selected, Policy, Pool)
<1>1. tx # Idle /\ tx.stage = "apply"
  BY DEF ApplyCores, Idle
<1>2. /\ tx \in Transactions /\ Sound(tx.db)
      /\ tx.db = Load(ledger) /\ SelectionChecked
  BY <1>1, CandidateSound DEF ApplyCores, IInv, HasSelected
<1>3. db \in Databases
  <2>1. Policy \in Policies
    BY <1>2, TransactionTyped, PolicyTyped DEF Policy
  <2> QED BY <1>2, <2>1, TransactionTyped, AllocateCoresSound
             DEF SelectionChecked, ApplyCores, ApplyCoresAccepted, Sound
<1>4. ReplyFrom(db, tx.selected, tx.shared) \in Replies
  BY <1>2, <1>3, TransactionTyped, ReplyTyped
<1>5. /\ tx' \in Transactions
      /\ tx'.stage = "commit"
      /\ tx'.request = tx.request /\ tx'.eligible = tx.eligible
      /\ tx'.db = db
      /\ tx'.reply = ReplyFrom(db, tx.selected, tx.shared)
      /\ tx'.steady = tx.steady
  BY <1>2, <1>3, <1>4 DEF ApplyCores, Transactions
<1>6. /\ (tx.reply = ReplyFrom(tx.db, tx.reply.cores, tx.reply.shared))'
      /\ tx'.reply.cores = tx.selected
      /\ tx'.reply.shared = tx.shared
  BY <1>5 DEF ReplyFrom, Service
<1>7. ledger' = ledger /\ config' = config
  BY DEF ApplyCores
<1>8. Checked(Load(ledger))'
  BY <1>2, <1>5, <1>7 DEF SelectionChecked, Checked, Service, Pool
<1>9. GrantedCores(Load(ledger))'
  BY <1>2, <1>5, <1>6, <1>7, <1>8
     DEF ApplyCores, ApplyCoresAccepted, GrantedCores, SelectionChecked, SizeExact,
         CoresCandidates,
         PolicyOn, Policy, IsNuma, Service, Pool
<1> QED BY <1>1, <1>5, <1>6, <1>9 DEF ApplyCores, IInv, TypeOK, Derived, HasSelected

\* Confirming a selection in a node keeps IInv.
LEMMA ConfirmNumaKeeps ==
    ASSUME IInv, ConfirmNuma
    PROVE  IInv'
<1>1. tx # Idle /\ tx.stage = "confirm"
  BY DEF ConfirmNuma, Idle
<1>2. /\ tx \in Transactions /\ tx.db = Load(ledger)
      /\ IsNuma /\ ~IsRelease(tx.request) /\ SelectionChecked
  BY <1>1, CandidateSound DEF IInv, HasSelected
<1>3. /\ tx' \in Transactions
      /\ tx'.stage = "list" /\ tx'.request = tx.request /\ tx'.eligible = tx.eligible
      /\ tx'.selected = tx.selected /\ tx'.shared = tx.shared
      /\ tx'.db = tx.db /\ tx'.reply = tx.reply /\ tx'.steady = tx.steady
  BY <1>2 DEF ConfirmNuma, Transactions
<1>4. /\ tx.request.numa_node \in Nodes
      /\ tx.selected \subseteq NodeCpus[tx.request.numa_node]
  <2>1. tx.selected # {} /\ tx.selected \subseteq Listing
    BY <1>2 DEF ConfirmNuma, ConfirmAccepted, SelectionChecked
  <2> QED BY <1>2, <2>1, ListingTyped
<1>5. Confirmed(tx.db, tx.selected)
  BY <1>4 DEF ConfirmNuma, ConfirmAccepted, Confirmed, Policy, PolicyOn
<1>6. PoolAccepted(tx.db, Service, Pool)
  BY <1>2 DEF SelectionChecked, Checked
<1>7. UNCHANGED << ledger, uncertain, config, online >>
  BY DEF ConfirmNuma
<1>8. SelectionChecked'
  BY <1>2, <1>3, <1>7
     DEF SelectionChecked, Checked, SizeExact, CoresCandidates, IsNuma, Service, Pool
<1>9. Confirmed(tx.db, tx.selected)'
  BY <1>3, <1>5 DEF Confirmed, PolicyOn, Service, Pool
<1> QED BY <1>1, <1>2, <1>3, <1>4, <1>6, <1>7, <1>8, <1>9
           DEF IInv, TypeOK, HasSelected, IsNuma, Service, Pool

\* Listing the claims to be replaced keeps IInv.
LEMMA ListNodeKeeps ==
    ASSUME IInv, NEW readable \in BOOLEAN, ListNode(readable)
    PROVE  IInv'
<1> DEFINE listed == OwnListed(readable)
           steady == StillSteady(readable)
<1>1. tx # Idle /\ tx.stage = "list"
  BY DEF ListNode, Idle
<1>2. /\ tx \in Transactions /\ tx.db = Load(ledger)
      /\ IsNuma /\ ~IsRelease(tx.request) /\ SelectionChecked
      /\ Confirmed(tx.db, tx.selected)
  BY <1>1, CandidateSound DEF ListNode, IInv, HasSelected
<1>3. /\ listed \in SUBSET CPUs
      /\ listed \subseteq NodeCpus[tx.request.numa_node]
      /\ Own \cap NodeCpus[tx.request.numa_node] \cap steady \subseteq listed
      /\ steady \in SUBSET tx.steady
      /\ steady \in SUBSET CPUs
  BY <1>1, ListingShows
<1>4. /\ tx' = [tx EXCEPT !.stage = "apply", !.in_node = listed, !.steady = steady]
      /\ UNCHANGED << ledger, uncertain, config, online >>
  BY DEF ListNode
<1> HIDE DEF listed, steady
<1>5. /\ tx' \in Transactions
      /\ tx'.stage = "apply" /\ tx'.request = tx.request /\ tx'.eligible = tx.eligible
      /\ tx'.selected = tx.selected /\ tx'.shared = tx.shared
      /\ tx'.db = tx.db /\ tx'.reply = tx.reply
      /\ tx'.in_node = listed /\ tx'.steady = steady
  BY <1>2, <1>3, <1>4 DEF Transactions
<1>6. ListedInNode(tx.db, tx.in_node)'
  BY <1>3, <1>5 DEF ListedInNode, Service, Own
<1>7. SelectionChecked'
  BY <1>2, <1>4, <1>5
     DEF SelectionChecked, Checked, SizeExact, CoresCandidates, IsNuma, Service, Pool
<1>8. Confirmed(tx.db, tx.selected)'
  BY <1>2, <1>5 DEF Confirmed, PolicyOn, Service, Pool
<1>9. tx'.steady \subseteq online'
  BY <1>1, <1>3, <1>4, <1>5 DEF IInv
<1> QED BY <1>1, <1>2, <1>4, <1>5, <1>6, <1>7, <1>8, <1>9
           DEF IInv, TypeOK, HasSelected, IsNuma

\* _apply_numa_explicit_allocation keeps IInv.
LEMMA ApplyNumaKeeps ==
    ASSUME IInv, ApplyNuma
    PROVE  IInv'
<1> DEFINE db == ApplyNumaExplicit(tx.db, Service, tx.in_node, tx.selected, Policy, Pool)
<1>1. tx # Idle /\ tx.stage = "apply"
  BY DEF ApplyNuma, Idle
<1>2. /\ tx \in Transactions /\ Sound(tx.db) /\ IsNuma
      /\ tx.db = Load(ledger) /\ SelectionChecked
      /\ Confirmed(tx.db, tx.selected) /\ ListedInNode(tx.db, tx.in_node)
  BY <1>1, CandidateSound DEF ApplyNuma, IInv, HasSelected
<1>3. db \in Databases
  <2>1. Policy \in Policies
    BY <1>2, TransactionTyped, PolicyTyped DEF Policy
  <2> QED BY <1>2, <2>1, TransactionTyped, ApplyNumaSound DEF SelectionChecked, Sound
<1>4. ReplyFrom(db, tx.selected, {}) \in Replies
  BY <1>2, <1>3, TransactionTyped, ReplyTyped
<1>5. /\ tx' \in Transactions
      /\ tx'.stage = "commit"
      /\ tx'.request = tx.request /\ tx'.eligible = tx.eligible
      /\ tx'.in_node = tx.in_node /\ tx'.steady = tx.steady
      /\ tx'.db = db
      /\ tx'.reply = ReplyFrom(db, tx.selected, {})
  BY <1>2, <1>3, <1>4 DEF ApplyNuma, Transactions
<1>6. /\ (tx.reply = ReplyFrom(tx.db, tx.reply.cores, tx.reply.shared))'
      /\ tx'.reply.cores = tx.selected
  BY <1>5 DEF ReplyFrom, Service
<1>7. UNCHANGED << ledger, uncertain, config, online >>
  BY DEF ApplyNuma
<1>8. Checked(Load(ledger))'
  BY <1>2, <1>5, <1>7 DEF SelectionChecked, Checked, Service, Pool
<1>9. /\ Confirmed(Load(ledger), tx.reply.cores)'
      /\ ListedInNode(Load(ledger), tx.in_node)'
  BY <1>2, <1>5, <1>6, <1>7 DEF Confirmed, ListedInNode, PolicyOn, Service, Pool
<1>10. GrantedNuma(Load(ledger))'
  BY <1>2, <1>5, <1>6, <1>7, <1>8, <1>9
     DEF GrantedNuma, SelectionChecked, SizeExact, PolicyOn, Policy, IsNuma, Service, Pool
<1> HIDE DEF db
<1> QED BY <1>1, <1>5, <1>6, <1>7, <1>10 DEF IInv, TypeOK, Derived, HasSelected

\* A step which ends the transaction, having published its candidate or not.
LEMMA EndKeeps ==
    ASSUME IInv, tx' = Idle,
           \/ ledger' = ledger
           \/ tx.stage = "commit" /\ ledger' = Snapshot(tx.db),
           uncertain' \in BOOLEAN, config' \in PoolConfigs, UNCHANGED online
    PROVE  IInv'
<1>1. ledger' \in Ledgers /\ WellFormed(ledger')
  <2>1. CASE ledger' = ledger
    BY <2>1 DEF IInv, TypeOK
  <2>2. CASE tx.stage = "commit" /\ ledger' = Snapshot(tx.db)
    <3>1. tx # Idle
      BY <2>2 DEF Idle
    <3> QED BY <2>2, <3>1, CandidateSound, SnapshotSound
  <2> QED BY <2>1, <2>2
<1> QED BY <1>1 DEF IInv, TypeOK, HasSelected, Idle

\* A step which changes what is online, and of a transaction at most its record
\* of the CPUs which have been there throughout.
OnlyOnline ==
    /\ UNCHANGED << ledger, uncertain, config >>
    /\ \/ tx' = tx
       \/ tx # Idle /\ \E c \in CPUs : tx' = [tx EXCEPT !.steady = @ \ {c}]

LEMMA OnlyOnlineTyped ==
    ASSUME IInv, OnlyOnline, tx # Idle
    PROVE  /\ tx \in Transactions /\ tx' \in Transactions
           /\ tx'.stage = tx.stage /\ tx'.request = tx.request
           /\ tx'.eligible = tx.eligible /\ tx'.selected = tx.selected
           /\ tx'.shared = tx.shared /\ tx'.in_node = tx.in_node
           /\ tx'.db = tx.db /\ tx'.reply = tx.reply
           /\ tx'.steady \subseteq tx.steady
<1>1. tx \in Transactions
  BY DEF IInv, TypeOK
<1> QED BY <1>1 DEF OnlyOnline, Transactions

LEMMA OnlineKeeps ==
    ASSUME IInv, OnlyOnline, online' \in SUBSET CPUs,
           tx # Idle => tx'.steady \subseteq online'
    PROVE  IInv'
<1>1. CASE tx = Idle
  BY <1>1 DEF OnlyOnline, IInv, TypeOK, HasSelected, Idle
<1>2. CASE tx # Idle
  <2>1. /\ tx \in Transactions /\ tx' \in Transactions
        /\ tx'.stage = tx.stage /\ tx'.request = tx.request
        /\ tx'.eligible = tx.eligible /\ tx'.selected = tx.selected
        /\ tx'.shared = tx.shared /\ tx'.in_node = tx.in_node
        /\ tx'.db = tx.db /\ tx'.reply = tx.reply
        /\ tx'.steady \subseteq tx.steady
    BY <1>2, OnlyOnlineTyped
  <2>2. UNCHANGED << ledger, uncertain, config >>
    BY DEF OnlyOnline
  <2>3. /\ Service' = Service /\ Pool' = Pool /\ IsNuma' = IsNuma
        /\ tx' # Idle
    BY <2>1, TransactionTyped DEF Service, Pool, IsNuma, Transactions, Idle
  <2>4. SelectionChecked => SelectionChecked'
    BY <2>1, <2>2, <2>3 DEF SelectionChecked, Checked, SizeExact, CoresCandidates
  <2>5. Confirmed(tx.db, tx.selected) => Confirmed(tx.db, tx.selected)'
    BY <2>1, <2>3 DEF Confirmed, PolicyOn
  <2>6. ListedInNode(tx.db, tx.in_node) => ListedInNode(tx.db, tx.in_node)'
    BY <2>1, <2>3 DEF ListedInNode
  <2>7. ReleasedAll(Load(ledger)) => ReleasedAll(Load(ledger))'
    BY <2>1, <2>2, <2>3 DEF ReleasedAll
  <2>8. ReleasedNode(Load(ledger)) => ReleasedNode(Load(ledger))'
    <3>1. ASSUME NEW listed \in SUBSET CPUs, ListedInNode(Load(ledger), listed)
          PROVE  ListedInNode(Load(ledger), listed)'
      BY <2>1, <2>2, <2>3, <3>1 DEF ListedInNode
    <3> QED BY <2>1, <2>2, <2>3, <3>1 DEF ReleasedNode
  <2>9. GrantedCores(Load(ledger)) => GrantedCores(Load(ledger))'
    BY <2>1, <2>2, <2>3 DEF GrantedCores, Checked, SizeExact, PolicyOn
  <2>10. GrantedNuma(Load(ledger)) => GrantedNuma(Load(ledger))'
    BY <2>1, <2>2, <2>3
       DEF GrantedNuma, Checked, SizeExact, PolicyOn, Confirmed, ListedInNode
  <2>11. (tx.reply = ReplyFrom(tx.db, tx.reply.cores, tx.reply.shared))
             => (tx.reply = ReplyFrom(tx.db, tx.reply.cores, tx.reply.shared))'
    BY <2>1, <2>3 DEF ReplyFrom
  <2> QED BY <1>2, <2>1, <2>2, <2>3, <2>4, <2>5, <2>6, <2>7, <2>8, <2>9, <2>10, <2>11
             DEF IInv, TypeOK, HasSelected, Derived
<1> QED BY <1>1, <1>2

\* A CPU which goes offline or online has not been there throughout.
LEMMA HotplugKeeps ==
    ASSUME IInv, NEW c \in Hotpluggable, Hotplug(c)
    PROVE  OnlyOnline /\ IInv'
<1>1. c \in CPUs /\ online' \in SUBSET CPUs
  BY TopologyAssumption DEF Hotplug, IInv, TypeOK
<1>2. OnlyOnline
  BY <1>1 DEF Hotplug, OnlyOnline
<1>3. ASSUME tx # Idle PROVE tx'.steady \subseteq online'
  <2>1. tx \in Transactions /\ tx.steady \subseteq online
    BY <1>3, CandidateSound DEF IInv
  <2>2. tx'.steady = tx.steady \ {c}
    BY <1>3, <2>1 DEF Hotplug, Transactions
  <2> QED BY <2>1, <2>2 DEF Hotplug
<1> QED BY <1>1, <1>2, <1>3, OnlineKeeps

\* IInv is inductive.
LEMMA StepKeeps ==
    ASSUME IInv, [Next]_vars
    PROVE  IInv'
<1>1. CASE \E r \in Requests, readable \in BOOLEAN : Begin(r, readable)
  BY <1>1, BeginKeeps
<1>2. CASE ReleaseAll
  BY <1>2, ReleaseAllKeeps
<1>3. CASE \E readable \in BOOLEAN : ReleaseNode(readable) \/ ListNode(readable)
  BY <1>3, ReleaseNodeKeeps, ListNodeKeeps
<1>4. CASE \E siblings \in SiblingMaps : SelectCores(siblings) \/ SelectNuma(siblings)
  BY <1>4, SelectCoresKeeps, SelectNumaKeeps
<1>5. CASE FindNode \/ ConfirmNuma
  BY <1>5, FindNodeKeeps, ConfirmNumaKeeps
<1>6. CASE ApplyCores \/ ApplyNuma
  BY <1>6, ApplyCoresKeeps, ApplyNumaKeeps
<1>7. uncertain \in BOOLEAN /\ config \in PoolConfigs
  BY DEF IInv, TypeOK
<1>8. CASE Reject \/ ReadFails \/ Commit \/ CommitFails \/ CommitUncertain
  BY <1>7, <1>8, EndKeeps DEF Reject, ReadFails, Commit, CommitFails, CommitUncertain
<1>9. CASE \E c \in PoolConfigs : Restart(c)
  BY <1>7, <1>9, EndKeeps DEF Restart
<1>10. CASE Recover
  BY <1>7, <1>10, EndKeeps DEF Recover
<1>11. CASE \E c \in Hotpluggable : Hotplug(c)
  BY <1>11, HotplugKeeps
<1>12. CASE UNCHANGED vars
  BY <1>12, OnlineKeeps DEF vars, OnlyOnline, IInv, TypeOK
<1> QED BY <1>1, <1>2, <1>3, <1>4, <1>5, <1>6, <1>8, <1>9, <1>10, <1>11, <1>12 DEF Next

\* IInv holds in every reachable state.
THEOREM Invariance == Spec => []IInv
<1>1. Init => IInv
  BY InitKeeps
<1>2. IInv /\ [Next]_vars => IInv'
  BY StepKeeps
<1> QED BY <1>1, <1>2, PTL DEF Spec

-----------------------------------------------------------------------------
(* What publishing a candidate does to the ledger, service by service      *)

\* The questions the checks ask of a candidate have the same answers on the
\* ledger it was loaded from.
LEMMA LoadedAnswers ==
    ASSUME IInv, tx.stage = "commit"
    PROVE  /\ tx \in Transactions
           /\ Sound(Load(ledger))
           /\ Service \in Services /\ Pool \in Pools
           /\ Load(ledger).allocations = ledger.allocations
           /\ Load(ledger).explicit = ledger.explicit
           /\ Load(ledger).policies = ledger.policies
           /\ Load(ledger).pools = ledger.pools
           /\ Checked(Load(ledger)) = Checked(ledger)
           /\ PolicyOn(Load(ledger)) = PolicyOn(ledger)
           /\ PolicyOn(ledger) \in Policies
<1>1. tx \in Transactions /\ Sound(Load(ledger))
  BY CandidateSound DEF Idle
<1>2. /\ Service \in Services /\ Pool \in Pools
      /\ PolicyOn(Load(ledger)) \in Policies
  BY <1>1, TransactionTyped, PolicyTyped DEF PolicyOn, Sound
<1>3. PolicyOn(Load(ledger)) = PolicyOn(ledger)
  BY DEF PolicyOn, EffectivePolicy, StoredPolicy, Load
<1>4. Checked(Load(ledger)) = Checked(ledger)
  BY DEF Checked, PoolAccepted, PolicyAccepted, EffectivePolicy, StoredPolicy,
         NoOfflineClaims, ClaimedIn, ServicePool, Owns, Load
<1> QED BY <1>1, <1>2, <1>3, <1>4 DEF Load

\* A release: Service gives up claims (in the node).
LEMMA ReleaseEffect ==
    ASSUME IInv, tx.stage = "commit", IsRelease(tx.request)
    PROVE  /\ PoolAccepted(ledger, Service, Pool)
           /\ OthersKept(ledger, tx.db, Service)
           /\ MetadataFollowsClaims(ledger, tx.db, Service)
           /\ tx.db.allocations[Service] \subseteq ledger.allocations[Service]
           /\ tx.db.explicit[Service] =
                  ledger.explicit[Service] \cap tx.db.allocations[Service]
           /\ IsNuma => /\ tx.reply.cores = {}
                        /\ \E listed \in SUBSET CPUs :
                               /\ ListedInNode(ledger, listed)
                               /\ tx.db.allocations[Service] =
                                      ledger.allocations[Service] \ listed
<1> DEFINE old == Load(ledger)
<1>1. /\ Sound(old) /\ Service \in Services
      /\ old.allocations = ledger.allocations /\ old.explicit = ledger.explicit
      /\ old.policies = ledger.policies /\ old.pools = ledger.pools
  BY LoadedAnswers
<1>2. ReleasedAll(old) \/ ReleasedNode(old)
  BY DEF IInv, Derived, GrantedCores, GrantedNuma, Checked
<1>3. /\ PoolAccepted(old, Service, Pool) = PoolAccepted(ledger, Service, Pool)
      /\ OthersKept(old, tx.db, Service) = OthersKept(ledger, tx.db, Service)
      /\ MetadataFollowsClaims(old, tx.db, Service)
             = MetadataFollowsClaims(ledger, tx.db, Service)
  BY DEF Load, PoolAccepted, Owns, ServicePool, OthersKept, MetadataFollowsClaims
<1>4. old.explicit[Service] \subseteq old.allocations[Service]
  BY <1>1 DEF Sound, WellFormed, ExplicitOwned
<1> HIDE DEF old
<1>5. CASE ReleasedAll(old)
  <2>1. /\ PoolAccepted(old, Service, Pool) /\ ~IsNuma
        /\ RemoveChange(old, tx.db, Service)
    BY <1>1, <1>5, RemoveEffect DEF ReleasedAll
  <2> QED BY <1>1, <1>3, <2>1 DEF RemoveChange
<1>6. CASE ReleasedNode(old)
  <2>1. PICK listed \in SUBSET CPUs :
            /\ ListedInNode(old, listed)
            /\ tx.db = SubtractCpus(old, OnlyFrom(Service, listed))
    BY <1>6 DEF ReleasedNode
  <2> DEFINE lost == OnlyFrom(Service, listed)
  <2>2. /\ lost \in [Services -> SUBSET CPUs]
        /\ lost[Service] = listed
        /\ \A t \in Services \ {Service} : lost[t] = {}
    BY <1>1 DEF OnlyFrom
  <2>3. SubtractChange(old, tx.db, lost)
    <3> HIDE DEF lost
    <3> QED BY <1>1, <2>1, <2>2, SubtractEffect DEF lost
  <2> HIDE DEF lost
  <2>4. ASSUME NEW t \in Services \ {Service}
        PROVE  /\ tx.db.allocations[t] = old.allocations[t]
               /\ tx.db.explicit[t] = old.explicit[t]
               /\ tx.db.policies[t] = old.policies[t]
               /\ tx.db.pools[t] = old.pools[t]
    <3>1. /\ tx.db.allocations[t] = old.allocations[t] \ lost[t]
          /\ tx.db.explicit[t] = old.explicit[t] \ lost[t]
          /\ MetadataFollowsClaims(old, tx.db, t)
      BY <2>3 DEF SubtractChange
    <3>2. lost[t] = {}
      BY <2>2
    <3>3. ~Owns(old, t) => old.policies[t] = Absent /\ old.pools[t] = Absent
      BY <1>1 DEF Sound, WellFormed, MetadataOwned
    <3> QED BY <3>1, <3>2, <3>3 DEF MetadataFollowsClaims, Owns
  <2>5. OthersKept(old, tx.db, Service)
    BY <2>4 DEF OthersKept
  <2>6. ListedInNode(ledger, listed)
    BY <1>1, <2>1 DEF ListedInNode
  <2>7. /\ tx.db.allocations[Service] = ledger.allocations[Service] \ listed
        /\ tx.db.explicit[Service] = ledger.explicit[Service] \ listed
        /\ MetadataFollowsClaims(old, tx.db, Service)
    BY <1>1, <2>2, <2>3 DEF SubtractChange
  <2> QED BY <1>1, <1>3, <1>4, <1>6, <2>5, <2>6, <2>7 DEF ReleasedNode
<1> QED BY <1>2, <1>5, <1>6

\* Any grant passed the checks; its CPUs are eligible and as many as asked for.
LEMMA GrantChecked ==
    ASSUME IInv, tx.stage = "commit", ~IsRelease(tx.request)
    PROVE  /\ Checked(ledger)
           /\ tx.reply.cores \in SUBSET tx.eligible
           /\ tx.reply.cores \in SUBSET CPUs
           /\ tx.reply.cores # {}
           /\ SizeExact(tx.reply.cores)
<1>1. /\ Checked(Load(ledger))
      /\ tx.reply.cores \in SUBSET tx.eligible
      /\ tx.reply.cores # {}
      /\ SizeExact(tx.reply.cores)
  BY DEF IInv, Derived, ReleasedAll, ReleasedNode, GrantedCores, GrantedNuma
<1> QED BY <1>1, LoadedAnswers, TransactionTyped

\* A grant without a node: Service owns exactly the granted CPUs, none of
\* which was owned by another service.
LEMMA CoresEffect ==
    ASSUME IInv, tx.stage = "commit", ~IsRelease(tx.request), ~IsNuma
    PROVE  /\ CoresChange(ledger, tx.db, Service, tx.reply.cores, PolicyOn(ledger), Pool)
           /\ \A t \in Services \ {Service} :
                  ledger.allocations[t] \cap tx.reply.cores = {}
<1> DEFINE old == Load(ledger)
<1>1. /\ Sound(old) /\ Service \in Services /\ Pool \in Pools
      /\ PolicyOn(old) \in Policies
      /\ old.allocations = ledger.allocations
      /\ PolicyOn(old) = PolicyOn(ledger)
  BY LoadedAnswers
<1>2. /\ OverlapFree(old, Service, tx.reply.cores)
      /\ tx.db = AllocateCores(old, Service, tx.reply.cores, PolicyOn(old), Pool)
  BY DEF IInv, Derived, ReleasedAll, ReleasedNode, GrantedNuma, GrantedCores
<1>3. OthersKept(old, tx.db, Service) = OthersKept(ledger, tx.db, Service)
  BY DEF Load, OthersKept
<1> HIDE DEF old
<1>4. CoresChange(old, tx.db, Service, tx.reply.cores, PolicyOn(old), Pool)
  BY <1>1, <1>2, GrantChecked, AllocateCoresEffect
<1>5. ASSUME NEW t \in Services \ {Service}
      PROVE  old.allocations[t] \cap tx.reply.cores = {}
  <2>1. /\ old.allocations[Service] \cap old.allocations[t] = {}
        /\ old.allocations[t] \subseteq old.allocated
    BY <1>1 DEF Sound, CacheExact, Claims, WellFormed, Exclusive
  <2> QED BY <1>2, <2>1 DEF OverlapFree
<1> QED BY <1>1, <1>3, <1>4, <1>5 DEF CoresChange

\* A NUMA grant: Service keeps what the node was not seen to have, and the others
\* lose the granted CPUs, each under the rules of reclamation.
LEMMA NumaEffect ==
    ASSUME IInv, tx.stage = "commit", ~IsRelease(tx.request), IsNuma
    PROVE  /\ tx.reply.cores \subseteq NodeCpus[tx.request.numa_node]
           /\ ListedInNode(ledger, tx.in_node)
           /\ NumaChange(ledger, tx.db, Service, tx.in_node, tx.reply.cores,
                         PolicyOn(ledger), Pool)
           /\ \A t \in Services \ {Service} :
                  ledger.allocations[t] \cap tx.reply.cores # {} =>
                      ReclamationAccepted(ledger, t, ledger.allocations[t] \cap tx.reply.cores,
                                          PolicyOn(ledger), Pool)
<1> DEFINE old == Load(ledger)
<1>1. /\ Sound(old) /\ Service \in Services /\ Pool \in Pools
      /\ PolicyOn(old) \in Policies
      /\ old.allocations = ledger.allocations /\ old.explicit = ledger.explicit
      /\ old.policies = ledger.policies /\ old.pools = ledger.pools
      /\ PolicyOn(old) = PolicyOn(ledger)
  BY LoadedAnswers
<1>2. GrantedNuma(old)
  BY DEF IInv, Derived, ReleasedAll, ReleasedNode, GrantedCores
<1>3. tx.in_node \in SUBSET CPUs
  BY LoadedAnswers, TransactionTyped
<1> HIDE DEF old
<1>4. NumaChange(old, tx.db, Service, tx.in_node, tx.reply.cores, PolicyOn(old), Pool)
  BY <1>1, <1>2, <1>3, GrantChecked, ApplyNumaEffect DEF GrantedNuma
<1>5. NumaChange(ledger, tx.db, Service, tx.in_node, tx.reply.cores, PolicyOn(ledger), Pool)
  BY <1>1, <1>4 DEF NumaChange, MetadataFollowsClaims
<1>6. \A t \in Services \ {Service} :
          ledger.allocations[t] \cap tx.reply.cores # {} =>
              ReclamationAccepted(ledger, t, ledger.allocations[t] \cap tx.reply.cores,
                                  PolicyOn(ledger), Pool)
  BY <1>1, <1>2 DEF GrantedNuma, Confirmed, ReclamationAccepted, ServicePool, StoredPolicy
<1>7. /\ tx.reply.cores \subseteq NodeCpus[tx.request.numa_node]
      /\ ListedInNode(ledger, tx.in_node)
  BY <1>1, <1>2 DEF GrantedNuma, Confirmed, ListedInNode
<1> QED BY <1>5, <1>6, <1>7

\* Only a commit changes the ledger.
LEMMA OnlyCommits ==
    ASSUME [Next]_vars, ledger' # ledger
    PROVE  /\ tx.stage = "commit"
           /\ ledger'.allocations = tx.db.allocations
           /\ ledger'.explicit = tx.db.explicit
           /\ ledger'.policies = tx.db.policies
           /\ ledger'.pools = tx.db.pools
<1>1. \/ tx.stage = "commit" /\ ledger' = Snapshot(tx.db)
      \/ UNCHANGED ledger
  <2>1. CASE \E r \in Requests, readable \in BOOLEAN : Begin(r, readable)
    BY <2>1 DEF Begin
  <2>2. CASE \/ ReleaseAll \/ FindNode
            \/ \E readable \in BOOLEAN : ReleaseNode(readable) \/ ListNode(readable)
    BY <2>2 DEF ReleaseAll, FindNode, ReleaseNode, ListNode
  <2>3. CASE \E siblings \in SiblingMaps : SelectCores(siblings) \/ SelectNuma(siblings)
    BY <2>3 DEF SelectCores, SelectNuma
  <2>4. CASE ConfirmNuma \/ ApplyCores \/ ApplyNuma
    BY <2>4 DEF ConfirmNuma, ApplyCores, ApplyNuma
  <2>5. CASE Reject \/ ReadFails \/ Commit \/ CommitFails \/ CommitUncertain
    BY <2>5 DEF Reject, ReadFails, Commit, CommitFails, CommitUncertain
  <2>6. CASE \E c \in PoolConfigs : Restart(c)
    BY <2>6 DEF Restart
  <2>7. CASE Recover \/ \E c \in Hotpluggable : Hotplug(c)
    BY <2>7 DEF Recover, Hotplug
  <2>8. CASE UNCHANGED vars
    BY <2>8 DEF vars
  <2> QED BY <2>1, <2>2, <2>3, <2>4, <2>5, <2>6, <2>7, <2>8 DEF Next
<1> QED BY <1>1 DEF Snapshot

-----------------------------------------------------------------------------
(* Invariants                                                              *)

\* Every state is well-typed: in particular no omitted policy is ever stored.
THEOREM TypeCorrect == Spec => []TypeOK
<1>1. IInv => TypeOK
  BY DEF IInv
<1> QED BY <1>1, Invariance, PTL

\* No CPU has two owners, whatever is requested, fails, restarts or goes
\* offline, and whatever pools the daemons are given.
THEOREM Exclusivity == Spec => []ExclusiveOwnership
<1>1. IInv => ExclusiveOwnership
  BY CandidateSound DEF IInv, Sound, WellFormed, ExclusiveOwnership
<1> QED BY <1>1, Invariance, PTL

\* Every daemon can load what any daemon wrote.
THEOREM Reloadability == Spec => []ClaimsReloadable
<1>1. IInv => ClaimsReloadable
  BY CandidateSound DEF IInv, Sound, WellFormed, ClaimsReloadable
<1> QED BY <1>1, Invariance, PTL

\* The incremental cache is exact, and so are the CPUs which replies call
\* remaining and shared.
THEOREM Capacity == Spec => []CapacityExact
<1>1. ASSUME IInv, tx # Idle
      PROVE  CacheExact(tx.db)
  BY <1>1, CandidateSound DEF Sound
<1>2. ASSUME IInv, tx.stage = "commit"
      PROVE  /\ tx.reply.remaining = tx.eligible \ Claims(tx.db)
             /\ tx.request.action = "allocate_cores"
                    => tx.reply.shared = tx.reply.remaining
  <2>1. tx # Idle
    BY <1>2 DEF Idle
  <2>2. tx.reply.remaining = tx.eligible \ tx.db.allocated
    BY <1>2 DEF IInv, ReplyFrom
  <2>3. tx.db.allocated = Claims(tx.db)
    BY <1>1, <1>2, <2>1 DEF CacheExact
  <2>4. ASSUME tx.request.action = "allocate_cores"
        PROVE  tx.reply.shared = tx.eligible \ tx.db.allocated
    <3>1. ReleasedAll(Load(ledger)) \/ GrantedCores(Load(ledger))
      BY <1>2, <2>4 DEF IInv, Derived, ReleasedNode, GrantedNuma, IsNuma
    <3>2. CASE ReleasedAll(Load(ledger))
      BY <3>2 DEF ReleasedAll
    <3>3. CASE GrantedCores(Load(ledger))
      <4> DEFINE old == Load(ledger)
      <4>1. Sound(old) /\ Service \in Services
        BY <1>2, <2>1, CandidateSound, TransactionTyped
      <4>2. tx.db.allocated = (old.allocated \ old.allocations[Service]) \cup tx.reply.cores
        BY <3>3 DEF GrantedCores, AllocateCores, RemoveServiceAllocation
      <4>3. old.explicit[Service] \subseteq old.allocations[Service]
        BY <4>1 DEF Sound, WellFormed, ExplicitOwned
      <4>4. tx.reply.shared =
                (tx.eligible \ (old.allocated \ (old.allocations[Service]
                                                     \cup old.explicit[Service])))
                    \ tx.reply.cores
        BY <3>3 DEF GrantedCores, AvailableFor
      <4> HIDE DEF old
      <4> QED BY <4>2, <4>3, <4>4
    <3> QED BY <3>1, <3>2, <3>3
  <2> QED BY <2>2, <2>3, <2>4
<1>3. IInv => CapacityExact
  BY <1>1, <1>2 DEF CapacityExact
<1> QED BY <1>3, Invariance, PTL

\* A grant ready for the commit is what was asked for.
THEOREM GrantIsExact == Spec => []GrantExact
<1>1. ASSUME IInv, tx.stage = "commit", ~IsRelease(tx.request)
      PROVE  /\ tx.reply.cores # {}
             /\ tx.reply.cores \subseteq tx.db.allocations[Service]
             /\ tx.reply.cores \subseteq tx.eligible
             /\ Count(tx.request, tx.eligible) > 0
                    => Cardinality(tx.reply.cores) = Count(tx.request, tx.eligible)
             /\ ~IsNuma => tx.reply.cores = tx.db.allocations[Service]
             /\ IsNuma => tx.reply.cores \subseteq tx.db.explicit[Service]
             /\ ServicePool(tx.db, Service) = Pool
             /\ tx.request.preemption_policy = "non-preemptive"
                    => tx.reply.policy = "non-preemptive"
  <2>1. /\ tx.reply.cores \in SUBSET tx.eligible /\ tx.reply.cores # {}
        /\ SizeExact(tx.reply.cores)
    BY <1>1, GrantChecked
  <2>2. Pool # Absent /\ PolicyOn(ledger) # Absent
    BY <1>1, LoadedAnswers DEF Pools, Policies, Absent
  <2>3. /\ tx.reply.cores \subseteq tx.db.allocations[Service]
        /\ ~IsNuma => tx.reply.cores = tx.db.allocations[Service]
        /\ IsNuma => tx.reply.cores \subseteq tx.db.explicit[Service]
        /\ tx.db.pools[Service] = Pool
        /\ tx.db.policies[Service] = PolicyOn(ledger)
    <3>1. CASE ~IsNuma
      BY <1>1, <3>1, CoresEffect DEF CoresChange
    <3>2. CASE IsNuma
      BY <1>1, <3>2, NumaEffect DEF NumaChange
    <3> QED BY <3>1, <3>2
  <2>4. tx.reply.policy = PolicyOn(ledger)
    <3>1. Owns(tx.db, Service)
      BY <2>1, <2>3 DEF Owns
    <3> QED BY <1>1, <2>2, <2>3, <3>1 DEF IInv, ReplyFrom, StoredPolicy
  <2>5. tx.request.preemption_policy = "non-preemptive"
            => PolicyOn(ledger) = "non-preemptive"
    BY DEF PolicyOn, EffectivePolicy, Omitted
  <2> QED BY <2>1, <2>2, <2>3, <2>4, <2>5 DEF SizeExact, ServicePool
<1>2. IInv => GrantExact
  BY <1>1 DEF GrantExact
<1> QED BY <1>2, Invariance, PTL

-----------------------------------------------------------------------------
(* Action properties                                                       *)

\* A service loses CPUs to another one only by a legal reclamation.
THEOREM ForeignClaims == Spec => ForeignClaimsKept
<1>1. ASSUME IInv, [Next]_vars, NEW s \in Services, Lost(s) # {}, s # Service
      PROVE  /\ IsNuma /\ ~IsRelease(tx.request)
             /\ EffectivePolicy(ledger, Service, tx.request.preemption_policy) = "legacy"
             /\ StoredPolicy(ledger, s) = "legacy"
             /\ ServicePool(ledger, s) = ServicePool(ledger', Service)
             /\ Lost(s) \cap ledger.explicit[s] = {}
             /\ Lost(s) \subseteq ledger'.allocations[Service]
  <2>1. /\ tx.stage = "commit"
        /\ ledger'.allocations = tx.db.allocations
        /\ ledger'.pools = tx.db.pools
    BY <1>1, OnlyCommits DEF Lost
  <2>2. ledger.allocations[s] # tx.db.allocations[s]
    BY <1>1, <2>1 DEF Lost
  <2>3. ~IsRelease(tx.request)
    BY <1>1, <2>1, <2>2, ReleaseEffect DEF OthersKept
  <2>4. IsNuma
    BY <1>1, <2>1, <2>2, <2>3, CoresEffect DEF CoresChange, OthersKept
  <2>5. NumaChange(ledger, tx.db, Service, tx.in_node, tx.reply.cores,
                   PolicyOn(ledger), Pool)
    BY <1>1, <2>1, <2>3, <2>4, NumaEffect
  <2>6. /\ Lost(s) = ledger.allocations[s] \cap tx.reply.cores
        /\ tx.reply.cores \subseteq ledger'.allocations[Service]
        /\ ledger'.pools[Service] = Pool
    BY <1>1, <2>1, <2>5 DEF NumaChange, Lost
  <2>7. ReclamationAccepted(ledger, s, ledger.allocations[s] \cap tx.reply.cores,
                            PolicyOn(ledger), Pool)
    BY <1>1, <2>1, <2>3, <2>4, <2>6, NumaEffect
  <2>8. /\ PolicyOn(ledger) \in Policies /\ Pool \in Pools
        /\ StoredPolicy(ledger, s) \in Policies
    BY <1>1, <2>1, LoadedAnswers DEF IInv, TypeOK, Ledgers, StoredPolicy, Policies, Absent
  <2>9. ServicePool(ledger', Service) = Pool
    BY <2>6, <2>8 DEF ServicePool, Pools, Absent
  <2> QED BY <2>3, <2>4, <2>6, <2>7, <2>8, <2>9
             DEF ReclamationAccepted, PolicyOn, Policies
<1>2. IInv /\ [Next]_vars =>
          [\A s \in Services : Lost(s) # {} /\ s # Service =>
               /\ IsNuma /\ ~IsRelease(tx.request)
               /\ EffectivePolicy(ledger, Service, tx.request.preemption_policy) = "legacy"
               /\ StoredPolicy(ledger, s) = "legacy"
               /\ ServicePool(ledger, s) = ServicePool(ledger', Service)
               /\ Lost(s) \cap ledger.explicit[s] = {}
               /\ Lost(s) \subseteq ledger'.allocations[Service]]_vars
  BY <1>1
<1> QED BY <1>2, Invariance, PTL DEF Spec, ForeignClaimsKept

\* An owner stays in its pool and a protected one stays protected until it
\* owns nothing.
THEOREM MetadataKept == Spec => MetadataKeptUntilRelease
<1>1. ASSUME IInv, [Next]_vars, NEW s \in Services, Owns(ledger, s), Owns(ledger', s)
      PROVE  /\ ServicePool(ledger', s) = ServicePool(ledger, s)
             /\ StoredPolicy(ledger, s) = "non-preemptive"
                    => StoredPolicy(ledger', s) = "non-preemptive"
  <2>1. CASE ledger' = ledger
    BY <2>1
  <2>2. CASE ledger' # ledger
    <3>1. /\ tx.stage = "commit"
          /\ ledger'.allocations = tx.db.allocations
          /\ ledger'.policies = tx.db.policies
          /\ ledger'.pools = tx.db.pools
      BY <1>1, <2>2, OnlyCommits
    <3>2. Owns(tx.db, s)
      BY <1>1, <3>1 DEF Owns
    <3>3. \/ tx.db.policies[s] = ledger.policies[s] /\ tx.db.pools[s] = ledger.pools[s]
          \/ /\ s = Service /\ Checked(ledger)
             /\ tx.db.policies[s] = PolicyOn(ledger) /\ tx.db.pools[s] = Pool
      <4>1. CASE IsRelease(tx.request)
        BY <1>1, <3>1, <3>2, <4>1, ReleaseEffect DEF OthersKept, MetadataFollowsClaims
      <4>2. CASE ~IsRelease(tx.request) /\ ~IsNuma
        BY <1>1, <3>1, <4>2, CoresEffect, GrantChecked DEF CoresChange, OthersKept
      <4>3. CASE ~IsRelease(tx.request) /\ IsNuma
        BY <1>1, <3>1, <3>2, <4>3, NumaEffect, GrantChecked
           DEF NumaChange, MetadataFollowsClaims
      <4> QED BY <4>1, <4>2, <4>3
    <3>4. CASE tx.db.policies[s] = ledger.policies[s] /\ tx.db.pools[s] = ledger.pools[s]
      BY <3>1, <3>4 DEF ServicePool, StoredPolicy
    <3>5. CASE /\ s = Service /\ Checked(ledger)
               /\ tx.db.policies[s] = PolicyOn(ledger) /\ tx.db.pools[s] = Pool
      <4>1. Pool # Absent /\ PolicyOn(ledger) # Absent
        BY <1>1, <3>1, LoadedAnswers DEF Pools, Policies, Absent
      <4>2. ServicePool(ledger', s) = Pool /\ StoredPolicy(ledger', s) = PolicyOn(ledger)
        BY <3>1, <3>5, <4>1 DEF ServicePool, StoredPolicy
      <4> QED BY <1>1, <3>5, <4>2 DEF Checked, PoolAccepted, PolicyAccepted, PolicyOn
    <3> QED BY <3>3, <3>4, <3>5
  <2> QED BY <2>1, <2>2
<1>2. IInv /\ [Next]_vars =>
          [\A s \in Services : Owns(ledger, s) /\ Owns(ledger', s) =>
               /\ ServicePool(ledger', s) = ServicePool(ledger, s)
               /\ StoredPolicy(ledger, s) = "non-preemptive"
                      => StoredPolicy(ledger', s) = "non-preemptive"]_vars
  BY <1>1
<1> QED BY <1>2, Invariance, PTL DEF Spec, MetadataKeptUntilRelease

\* A grant drops no claim on an ineligible CPU, a NUMA request no claim outside
\* its node.
THEOREM OwnClaims == Spec => OwnClaimsKept
<1>1. ASSUME IInv, [Next]_vars, ledger' # ledger
      PROVE  /\ ~IsRelease(tx.request) => Lost(Service) \subseteq tx.eligible
             /\ IsNuma => Lost(Service) \subseteq NodeCpus[tx.request.numa_node]
  <2>1. tx.stage = "commit" /\ ledger'.allocations = tx.db.allocations
    BY <1>1, OnlyCommits
  <2>2. ~IsRelease(tx.request) => ledger.allocations[Service] \subseteq tx.eligible
    BY <1>1, <2>1, GrantChecked DEF Checked, NoOfflineClaims
  <2>3. IsNuma => Lost(Service) \subseteq NodeCpus[tx.request.numa_node]
    <3>1. CASE IsRelease(tx.request)
      BY <1>1, <2>1, <3>1, ReleaseEffect DEF Lost, ListedInNode
    <3>2. CASE ~IsRelease(tx.request)
      BY <1>1, <2>1, <3>2, NumaEffect DEF NumaChange, Lost, ListedInNode
    <3> QED BY <3>1, <3>2
  <2> QED BY <2>2, <2>3 DEF Lost
<1>2. IInv /\ [Next]_vars =>
          [ledger' # ledger =>
               /\ ~IsRelease(tx.request) => Lost(Service) \subseteq tx.eligible
               /\ IsNuma => Lost(Service) \subseteq NodeCpus[tx.request.numa_node]]_vars
  BY <1>1
<1> QED BY <1>2, Invariance, PTL DEF Spec, OwnClaimsKept

\* After a grant the pool covers all claims made in it, and only Service has
\* gained CPUs, from those granted.
LEMMA GrantCovered ==
    ASSUME IInv, tx.stage = "commit", ~IsRelease(tx.request),
           ledger'.allocations = tx.db.allocations, ledger'.pools = tx.db.pools
    PROVE  /\ ServicePool(ledger', Service) = Pool
           /\ ClaimedIn(ledger', Pool) \subseteq config.cpus[Pool]
           /\ \A s \in Services : Gained(s) # {} =>
                  s = Service /\ Gained(s) \subseteq tx.reply.cores
<1>1. /\ Checked(ledger)
      /\ tx.reply.cores \in SUBSET tx.eligible
      /\ Pool # Absent
  BY GrantChecked, LoadedAnswers DEF Pools, Absent
<1>2. /\ tx.db.pools[Service] = Pool
      /\ tx.db.allocations[Service]
             \subseteq ledger.allocations[Service] \cup tx.reply.cores
      /\ \A t \in Services \ {Service} :
             /\ tx.db.allocations[t] \subseteq ledger.allocations[t]
             /\ Owns(tx.db, t) => tx.db.pools[t] = ledger.pools[t]
  <2>1. CASE ~IsNuma
    BY <2>1, CoresEffect DEF CoresChange, OthersKept
  <2>2. CASE IsNuma
    BY <2>2, NumaEffect DEF NumaChange, MetadataFollowsClaims
  <2> QED BY <2>1, <2>2
<1>3. ServicePool(ledger', Service) = Pool
  BY <1>1, <1>2 DEF ServicePool
<1>4. \A s \in Services : Gained(s) # {} =>
          s = Service /\ Gained(s) \subseteq tx.reply.cores
  BY <1>2 DEF Gained
<1>5. ASSUME NEW t \in Services, ServicePool(ledger', t) = Pool,
             NEW c \in ledger'.allocations[t], c \notin tx.reply.cores
      PROVE  c \in ClaimedIn(ledger, Pool)
  <2>1. c \in ledger.allocations[t]
    BY <1>2, <1>5
  <2>2. ServicePool(ledger, t) = Pool
    <3>1. CASE t = Service
      BY <1>1, <2>1, <3>1 DEF Checked, PoolAccepted, Owns
    <3>2. CASE t # Service
      BY <1>2, <1>5, <3>2 DEF Owns, ServicePool
    <3> QED BY <3>1, <3>2
  <2> QED BY <2>1, <2>2 DEF ClaimedIn
<1>6. ClaimedIn(ledger', Pool) \subseteq ClaimedIn(ledger, Pool) \cup tx.reply.cores
  BY <1>5 DEF ClaimedIn
<1> QED BY <1>1, <1>3, <1>4, <1>6 DEF Checked

\* CPUs are granted from a pool which covers all claims made in it.
THEOREM PoolGrants == Spec => GrantsWithinPool
<1>1. ASSUME IInv, [Next]_vars, NEW s \in Services, Gained(s) # {}
      PROVE  /\ Gained(s) \subseteq tx.eligible
             /\ ClaimedIn(ledger', ServicePool(ledger', s))
                    \subseteq config.cpus[ServicePool(ledger', s)]
  <2>1. /\ tx.stage = "commit"
        /\ ledger'.allocations = tx.db.allocations
        /\ ledger'.pools = tx.db.pools
    BY <1>1, OnlyCommits DEF Gained
  <2>2. ~IsRelease(tx.request)
    BY <1>1, <2>1, ReleaseEffect DEF OthersKept, Gained
  <2>3. tx.reply.cores \in SUBSET tx.eligible
    BY <1>1, <2>1, <2>2, GrantChecked
  <2>4. s = Service /\ Gained(s) \subseteq tx.reply.cores
    BY <1>1, <2>1, <2>2, GrantCovered
  <2>5. /\ ServicePool(ledger', s) = Pool
        /\ ClaimedIn(ledger', Pool) \subseteq config.cpus[Pool]
    BY <1>1, <2>1, <2>2, <2>4, GrantCovered
  <2> QED BY <2>3, <2>4, <2>5
<1>2. IInv /\ [Next]_vars =>
          [\A s \in Services : Gained(s) # {} =>
               /\ Gained(s) \subseteq tx.eligible
               /\ ClaimedIn(ledger', ServicePool(ledger', s))
                      \subseteq config.cpus[ServicePool(ledger', s)]]_vars
  BY <1>1
<1> QED BY <1>2, Invariance, PTL DEF Spec, GrantsWithinPool

\* While the latch is set no claim changes.
THEOREM Latch == Spec => LatchBlocksChanges
<1>1. ASSUME IInv, [Next]_vars, uncertain
      PROVE  ledger' = ledger
  BY <1>1, OnlyCommits DEF IInv, Idle
<1>2. IInv /\ [Next]_vars => [uncertain /\ uncertain' => ledger' = ledger]_vars
  BY <1>1
<1> QED BY <1>2, Invariance, PTL DEF Spec, LatchBlocksChanges

-----------------------------------------------------------------------------
(* CPUs which go offline                                                   *)

\* A NUMA grant and a node release replace the claims of the service on all
\* CPUs of the node which are there throughout, whatever else goes offline
\* between the listings of the node, and whether or not they can be read.
THEOREM NodeReplaced == Spec => []SteadyNodeReplaced
<1>1. ASSUME IInv, tx.stage = "commit", IsNuma
      PROVE  tx.db.allocations[Service] \cap NodeCpus[tx.request.numa_node] \cap tx.steady
                 = tx.reply.cores \cap tx.steady
  <2>1. CASE IsRelease(tx.request)
    BY <1>1, <2>1, ReleaseEffect DEF ListedInNode
  <2>2. CASE ~IsRelease(tx.request)
    BY <1>1, <2>2, NumaEffect DEF ListedInNode, NumaChange
  <2> QED BY <2>1, <2>2
<1>2. IInv => SteadyNodeReplaced
  BY <1>1 DEF SteadyNodeReplaced
<1> QED BY <1>2, Invariance, PTL

\* The CPUs which a request may take from the service itself.
InScope(claims) == IF IsNuma THEN claims \cap NodeCpus[tx.request.numa_node] ELSE claims

\* The service gets a part of what it has, or keeps all of it which has been
\* there throughout.
NoSwap(claims, cores) == cores \subseteq claims \/ InScope(claims) \cap tx.steady \subseteq cores

\* A protected owner pays with no steady CPU: the strengthening of
\* SteadyClaimsStable.
KeepsOwn ==
    /\ HasSelected /\ Policy = "non-preemptive" => NoSwap(Own, tx.selected)
    /\ tx.stage = "commit" /\ ~IsRelease(tx.request) /\ PolicyOn(ledger) = "non-preemptive"
           => NoSwap(ledger.allocations[Service], tx.reply.cores)

\* select_stable takes own CPUs only, or all there are among the candidates.
LEMMA StableKeeps ==
    ASSUME NEW own, NEW candidates \in SUBSET Int, IsFiniteSet(candidates),
           NEW count \in Nat, NEW siblings
    PROVE  \/ SelectStable(own, candidates, count, siblings) \subseteq own
           \/ own \cap candidates \subseteq SelectStable(own, candidates, count, siblings)
<1> DEFINE kept     == own \cap candidates
           retained == Lowest(kept, count)
<1>1. kept \in SUBSET Int /\ IsFiniteSet(kept)
  BY FS_Subset
<1>2. retained \subseteq kept
  BY DEF Lowest
<1>3. /\ IsFiniteSet(retained)
      /\ Cardinality(retained) = IF count <= Cardinality(kept) THEN count ELSE Cardinality(kept)
  <2> HIDE DEF kept
  <2> QED BY <1>1, LeastMembers DEF Lowest
<1>4. CASE Cardinality(retained) = count
  BY <1>2, <1>4 DEF SelectStable
<1>5. CASE Cardinality(retained) # count
  <2>1. retained = kept
    <3> HIDE DEF kept, retained
    <3> QED BY <1>1, <1>2, <1>3, <1>5, FS_Subset
  <2>2. retained \subseteq SelectStable(own, candidates, count, siblings)
    BY <1>5 DEF SelectStable
  <2> QED BY <2>1, <2>2
<1> QED BY <1>4, <1>5

\* The candidates for a protected owner contain all it has online within reach
\* of the request: it owns eligible CPUs only, and nobody else owns them too.
LEMMA OwnAreCandidates ==
    ASSUME IInv, tx.stage = "select", GrantAccepted
    PROVE  /\ Own \subseteq CoresCandidates
           /\ IsNuma /\ Listing # {} => InScope(Own) \cap online \subseteq NumaCandidates
<1>1. tx \in Transactions /\ Sound(tx.db) /\ Service \in Services
  BY CandidateSound, TransactionTyped DEF Idle
<1>2. Own \subseteq tx.eligible
  BY DEF GrantAccepted, NoOfflineClaims, Own
<1>3. Own \subseteq CoresCandidates
  BY <1>2 DEF CoresCandidates, AvailableFor, Own
<1>4. ASSUME Listing # {}, IsNuma
      PROVE  InScope(Own) \cap online \subseteq NumaCandidates
  <2>1. InScope(Own) \cap online \subseteq Listing \cap tx.eligible
    BY <1>2, <1>4 DEF InScope, Listing, NodeListing
  <2>2. ASSUME NEW t \in Services \ {Service}
        PROVE  Own \cap Shielded(tx.db, t, Policy, Pool) = {}
    <3>1. Own \cap tx.db.allocations[t] = {}
      BY <1>1, <2>2 DEF Sound, WellFormed, Exclusive, Own
    <3>2. Shielded(tx.db, t, Policy, Pool) \subseteq tx.db.allocations[t]
      BY <1>1, <2>2 DEF Shielded, Sound, WellFormed, ExplicitOwned
    <3> QED BY <3>1, <3>2
  <2>3. InScope(Own) \subseteq Own
    BY DEF InScope
  <2> QED BY <2>1, <2>2, <2>3 DEF NumaCandidates, AllocatableNuma
<1> QED BY <1>3, <1>4

\* The selection for a protected owner keeps what it has online, or is a part
\* of what it has.
LEMMA SelectionKeepsOwn ==
    ASSUME IInv, Policy = "non-preemptive", NEW siblings \in SiblingMaps
    PROVE  /\ SelectCores(siblings) => NoSwap(Own, CoresSelection(siblings))
           /\ SelectNuma(siblings) => NoSwap(Own, NumaSelection(siblings))
<1>1. ASSUME SelectCores(siblings)
      PROVE  NoSwap(Own, CoresSelection(siblings))
  <2>1. /\ tx \in Transactions /\ tx.request \in Requests
        /\ tx.eligible \in SUBSET CPUs
        /\ GrantAccepted /\ tx.stage = "select" /\ ~IsNuma
    BY <1>1, CandidateSound, TransactionTyped DEF SelectCores, CoresAccepted, Idle
  <2>2. CoresCandidates \in SUBSET Int /\ IsFiniteSet(CoresCandidates)
    <3>1. CoresCandidates \subseteq CPUs
      BY <2>1 DEF CoresCandidates, AvailableFor
    <3>2. CPUs \subseteq Int
      BY CpuAssumption
    <3> QED BY <3>1, <3>2, CpuAssumption, FS_Subset, Zenon
  <2>3. CoresTarget \in Nat
    <3>1. Cardinality(CoresPinning.dedicated) \in Nat
      <4>1. CoresPinning.dedicated \subseteq CoresCandidates
        BY DEF CoresPinning, CalculateCpuPinning, Lowest
      <4> QED BY <2>2, <4>1, FS_Subset, FS_CardinalityType
    <3>2. Count(tx.request, tx.eligible) \in Int
      <4>1. Cardinality(tx.eligible) \in Nat
        BY <2>1, CpuAssumption, FS_Subset, FS_CardinalityType
      <4>2. CASE tx.request.action = "allocate_cores_percent"
        <5>1. tx.request.percent \in -1..100
          BY <2>1, <4>2, RequestAssumption DEF CoresRequests, PercentRequests, NumaRequests
        <5> QED BY <4>1, <4>2, <5>1 DEF Count, CeilPercent
      <4>3. CASE tx.request.action # "allocate_cores_percent"
        BY <2>1, <4>3, RequestAssumption
           DEF Count, CoresRequests, PercentRequests, NumaRequests
      <4> QED BY <4>2, <4>3
    <3> QED BY <3>1, <3>2 DEF CoresTarget
  <2>4. Own \subseteq CoresCandidates
    BY <2>1, OwnAreCandidates
  <2>5. CoresSelection(siblings) = SelectStable(Own, CoresCandidates, CoresTarget, siblings)
    BY DEF CoresSelection
  <2>6. \/ CoresSelection(siblings) \subseteq Own
        \/ Own \cap CoresCandidates \subseteq CoresSelection(siblings)
    BY <2>2, <2>3, <2>5, StableKeeps
  <2> QED BY <2>1, <2>4, <2>6 DEF NoSwap, InScope
<1>2. ASSUME SelectNuma(siblings)
      PROVE  NoSwap(Own, NumaSelection(siblings))
  <2>1. /\ tx \in Transactions /\ tx.request \in Requests
        /\ tx.eligible \in SUBSET CPUs
        /\ GrantAccepted /\ tx.stage = "select" /\ IsNuma /\ Listing # {}
    BY <1>2, CandidateSound, TransactionTyped DEF SelectNuma, NumaAccepted, Idle
  <2>2. NumaCandidates \in SUBSET Int /\ IsFiniteSet(NumaCandidates)
    <3>1. NumaCandidates \subseteq CPUs
      BY <2>1 DEF NumaCandidates, AllocatableNuma
    <3>2. CPUs \subseteq Int
      BY CpuAssumption
    <3> QED BY <3>1, <3>2, CpuAssumption, FS_Subset, Zenon
  <2>3. tx.request.num_of_cores \in Nat
    <3>1. tx.request.num_of_cores \in Int
      BY <2>1, RequestAssumption DEF IsNuma, CoresRequests, PercentRequests, NumaRequests
    <3> QED BY <1>2, <3>1 DEF SelectNuma, NumaAccepted
  <2>4. InScope(Own) \cap online \subseteq NumaCandidates
    BY <2>1, OwnAreCandidates
  <2>5. NumaSelection(siblings) =
            SelectStable(Own, NumaCandidates, tx.request.num_of_cores, siblings)
    BY DEF NumaSelection
  <2>6. \/ NumaSelection(siblings) \subseteq Own
        \/ Own \cap NumaCandidates \subseteq NumaSelection(siblings)
    BY <2>2, <2>3, <2>5, StableKeeps
  <2>7. InScope(Own) \subseteq Own
    BY DEF InScope
  <2>8. tx.steady \subseteq online
    BY <2>1 DEF IInv, Idle
  <2> QED BY <2>4, <2>6, <2>7, <2>8 DEF NoSwap
<1> QED BY <1>1, <1>2

\* Whatever a step does, it takes a transaction from one stage to the next,
\* ends it, begins another, or changes at most what is online.
LEMMA StepCases ==
    ASSUME IInv, [Next]_vars
    PROVE  \/ ReleaseAll
           \/ FindNode
           \/ \E readable \in BOOLEAN : ReleaseNode(readable) \/ ListNode(readable)
           \/ \E siblings \in SiblingMaps : SelectCores(siblings) \/ SelectNuma(siblings)
           \/ ConfirmNuma
           \/ ApplyCores
           \/ ApplyNuma
           \/ tx'.stage \in {"idle", "select"}
           \/ OnlyOnline
<1>1. ASSUME NEW r \in Requests, NEW readable \in BOOLEAN, Begin(r, readable)
      PROVE  tx'.stage = "select"
  BY <1>1 DEF Begin
<1>2. ASSUME \/ Reject \/ ReadFails \/ Commit \/ CommitFails \/ CommitUncertain \/ Recover
             \/ \E c \in PoolConfigs : Restart(c)
      PROVE  tx'.stage = "idle"
  BY <1>2 DEF Reject, ReadFails, Commit, CommitFails, CommitUncertain, Recover, Restart, Idle
<1>3. ASSUME UNCHANGED vars
      PROVE  OnlyOnline
  BY <1>3 DEF OnlyOnline, vars
<1>4. ASSUME \E c \in Hotpluggable : Hotplug(c)
      PROVE  OnlyOnline
  BY <1>4, HotplugKeeps
<1> QED BY <1>1, <1>2, <1>3, <1>4 DEF Next

\* KeepsOwn is inductive, given IInv.
LEMMA KeepsOwnKept ==
    ASSUME IInv, KeepsOwn, [Next]_vars
    PROVE  KeepsOwn'
<1>1. ASSUME NEW siblings \in SiblingMaps, SelectCores(siblings) \/ SelectNuma(siblings)
      PROVE  KeepsOwn'
  <2>1. tx \in Transactions
    BY <1>1, CandidateSound DEF SelectCores, SelectNuma, Idle
  <2>2. /\ tx'.stage # "commit" /\ tx'.request = tx.request /\ tx'.db = tx.db
        /\ tx'.steady = tx.steady
        /\ tx'.selected = IF SelectCores(siblings) THEN CoresSelection(siblings)
                                                   ELSE NumaSelection(siblings)
    BY <1>1, <2>1 DEF SelectCores, SelectNuma, Transactions
  <2>3. Policy = "non-preemptive" => NoSwap(Own, tx'.selected)
    BY <1>1, <2>2, SelectionKeepsOwn
  <2> QED BY <2>2, <2>3 DEF KeepsOwn, NoSwap, InScope, Policy, Own, Service, IsNuma
<1>2. ASSUME NEW readable \in BOOLEAN, ConfirmNuma \/ ListNode(readable)
      PROVE  KeepsOwn'
  <2>1. tx \in Transactions /\ HasSelected
    BY <1>2, CandidateSound DEF ConfirmNuma, ListNode, Idle, IInv, HasSelected
  <2>2. /\ tx'.stage # "commit" /\ tx'.request = tx.request /\ tx'.db = tx.db
        /\ tx'.selected = tx.selected
    BY <1>2, <2>1 DEF ConfirmNuma, ListNode, Transactions
  <2>3. tx'.steady \subseteq tx.steady
    <3>1. CASE ConfirmNuma
      BY <2>1, <3>1 DEF ConfirmNuma, Transactions
    <3>2. CASE ListNode(readable)
      BY <2>1, <3>2 DEF ListNode, StillSteady, Transactions
    <3> QED BY <1>2, <3>1, <3>2
  <2> QED BY <2>1, <2>2, <2>3 DEF KeepsOwn, NoSwap, InScope, Policy, Own, Service, IsNuma
<1>3. CASE ApplyCores \/ ApplyNuma
  <2>1. tx \in Transactions /\ HasSelected /\ tx.db = Load(ledger)
    BY <1>3, CandidateSound DEF ApplyCores, ApplyNuma, Idle, IInv, HasSelected
  <2>2. /\ tx'.stage = "commit" /\ tx'.request = tx.request /\ tx'.steady = tx.steady
        /\ tx'.reply.cores = tx.selected /\ ledger' = ledger
    <3>1. CASE ApplyCores
      BY <2>1, <3>1 DEF ApplyCores, Transactions, ReplyFrom
    <3>2. CASE ApplyNuma
      BY <2>1, <3>2 DEF ApplyNuma, Transactions, ReplyFrom
    <3> QED BY <1>3, <3>1, <3>2
  <2>3. Policy = PolicyOn(ledger) /\ Own = ledger.allocations[Service]
    BY <2>1 DEF Policy, PolicyOn, EffectivePolicy, StoredPolicy, Own, Load
  <2> QED BY <2>1, <2>2, <2>3
             DEF KeepsOwn, HasSelected, NoSwap, InScope, PolicyOn, Service, IsNuma
<1>4. ASSUME NEW readable \in BOOLEAN, ReleaseAll \/ FindNode \/ ReleaseNode(readable)
      PROVE  KeepsOwn'
  <2>1. tx \in Transactions /\ IsRelease(tx.request)
    BY <1>4, CandidateSound DEF ReleaseAll, FindNode, ReleaseNode, Idle
  <2>2. tx'.request = tx.request
    BY <1>4, <2>1 DEF ReleaseAll, FindNode, ReleaseNode, Transactions
  <2> QED BY <2>1, <2>2 DEF KeepsOwn, HasSelected
<1>5. CASE tx'.stage \in {"idle", "select"}
  BY <1>5 DEF KeepsOwn, HasSelected
<1>6. CASE OnlyOnline
  <2>1. CASE tx = Idle
    BY <1>6, <2>1 DEF OnlyOnline, KeepsOwn, HasSelected, Idle
  <2>2. CASE tx # Idle
    BY <1>6, <2>2, OnlyOnlineTyped
       DEF OnlyOnline, KeepsOwn, HasSelected, NoSwap, InScope, Policy, PolicyOn, Own,
           Service, IsNuma
  <2> QED BY <2>1, <2>2
<1> QED BY <1>1, <1>2, <1>3, <1>4, <1>5, <1>6, StepCases

\* A commit for a protected owner takes CPUs only which a listing of the node
\* has shown (or any, of a request without a node), and none if it grants
\* others, but those which have been away.
LEMMA NothingSwapped ==
    ASSUME IInv, KeepsOwn, [Next]_vars, ledger' # ledger,
           ~IsRelease(tx.request), StoredPolicy(ledger', Service) = "non-preemptive"
    PROVE  /\ Lost(Service) \cap tx.steady = {} \/ Gained(Service) = {}
           /\ IsNuma => Lost(Service) \subseteq tx.in_node
<1>1. /\ tx.stage = "commit"
      /\ ledger'.allocations = tx.db.allocations /\ ledger'.policies = tx.db.policies
  BY OnlyCommits
<1>2. PolicyOn(ledger) \in Policies
  BY <1>1, LoadedAnswers
<1>3. CASE ~IsNuma
  <2>1. /\ ledger'.allocations[Service] = tx.reply.cores
        /\ ledger'.policies[Service] = PolicyOn(ledger)
    BY <1>1, <1>3, CoresEffect DEF CoresChange
  <2>2. PolicyOn(ledger) = "non-preemptive"
    BY <1>2, <2>1 DEF StoredPolicy, Policies, Absent
  <2>3. NoSwap(ledger.allocations[Service], tx.reply.cores)
    BY <1>1, <2>2 DEF KeepsOwn
  <2> QED BY <1>3, <2>1, <2>3 DEF NoSwap, InScope, Lost, Gained
<1>4. CASE IsNuma
  <2>1. /\ NumaChange(ledger, tx.db, Service, tx.in_node, tx.reply.cores,
                      PolicyOn(ledger), Pool)
        /\ tx.in_node \subseteq NodeCpus[tx.request.numa_node]
    BY <1>1, <1>4, NumaEffect DEF ListedInNode
  <2>2. /\ ledger'.allocations[Service] =
               (ledger.allocations[Service] \ tx.in_node) \cup tx.reply.cores
        /\ ledger'.policies[Service] = PolicyOn(ledger)
    BY <1>1, <2>1 DEF NumaChange
  <2>3. PolicyOn(ledger) = "non-preemptive"
    BY <1>2, <2>2 DEF StoredPolicy, Policies, Absent
  <2>4. NoSwap(ledger.allocations[Service], tx.reply.cores)
    BY <1>1, <2>3 DEF KeepsOwn
  <2> QED BY <1>4, <2>1, <2>2, <2>4 DEF NoSwap, InScope, Lost, Gained
<1> QED BY <1>3, <1>4

\* A protected owner never pays for other CPUs with one which was there
\* throughout: whatever the topology, and whatever goes offline.
THEOREM SteadyStable == Spec => SteadyClaimsStable
<1>1. Init => KeepsOwn
  BY DEF Init, KeepsOwn, HasSelected, Idle
<1>2. IInv /\ KeepsOwn /\ [Next]_vars => KeepsOwn'
  BY KeepsOwnKept
<1>3. IInv /\ KeepsOwn /\ [Next]_vars =>
          [ledger' # ledger /\ ~IsRelease(tx.request)
               /\ StoredPolicy(ledger', Service) = "non-preemptive" =>
               Lost(Service) \cap tx.steady = {} \/ Gained(Service) = {}]_vars
  BY NothingSwapped
<1> QED BY <1>1, <1>2, <1>3, Invariance, PTL DEF Spec, SteadyClaimsStable

-----------------------------------------------------------------------------
(* Without CPUs going offline                                              *)

\* The documentation allows for nothing else: ProtectedClaimsStable does not
\* hold without this premise.
AllOnline == online = CPUs

\* Every CPU is steady, but for those of a node whose listing was not readable;
\* then no claims in the node are replaced.
Steady ==
    tx # Idle => \/ tx.steady = CPUs
                 \/ /\ tx.stage \in {"apply", "commit"} /\ IsNuma
                    /\ IsRelease(tx.request) \/ tx.in_node = {}

\* Steady is inductive as long as no CPU goes offline.
LEMMA SteadyKept ==
    ASSUME IInv, AllOnline, AllOnline', Steady, [Next]_vars
    PROVE  Steady'
<1>1. ASSUME NEW r \in Requests, NEW readable \in BOOLEAN, Begin(r, readable)
      PROVE  Steady'
  BY <1>1 DEF Begin, Steady, AllOnline
<1>2. ASSUME NEW readable \in BOOLEAN, ReleaseNode(readable) \/ ListNode(readable)
      PROVE  Steady'
  <2>1. /\ tx \in Transactions /\ tx.steady = CPUs
        /\ tx.stage = "list" /\ IsNuma
    BY <1>2, CandidateSound DEF ReleaseNode, ListNode, Idle, IInv, Steady
  <2>2. CASE readable
    BY <1>2, <2>1, <2>2 DEF ReleaseNode, ListNode, StillSteady, Transactions, Steady
  <2>3. CASE ~readable
    <3>1. CASE ReleaseNode(readable)
      BY <2>1, <3>1 DEF ReleaseNode, Transactions, Steady, IsNuma
    <3>2. CASE ListNode(readable)
      BY <2>1, <2>3, <3>2 DEF ListNode, OwnListed, Transactions, Steady, IsNuma
    <3> QED BY <1>2, <3>1, <3>2
  <2> QED BY <2>2, <2>3
<1>3. ASSUME \/ ReleaseAll \/ FindNode \/ ConfirmNuma \/ ApplyCores
             \/ \E siblings \in SiblingMaps : SelectCores(siblings) \/ SelectNuma(siblings)
      PROVE  Steady'
  <2>1. tx \in Transactions
    <3>1. \/ tx.stage \in {"select", "confirm"}
          \/ tx.stage = "apply" /\ ~IsNuma
      BY <1>3 DEF ReleaseAll, FindNode, ConfirmNuma, ApplyCores, SelectCores, SelectNuma
    <3> QED BY <3>1, CandidateSound DEF Idle
  <2>2. tx'.steady = tx.steady
    BY <1>3, <2>1 DEF ReleaseAll, FindNode, ConfirmNuma, ApplyCores, SelectCores,
                      SelectNuma, Transactions
  <2>3. tx.steady = CPUs
    BY <1>3, <2>1, TransactionTyped
       DEF ReleaseAll, FindNode, ConfirmNuma, ApplyCores, SelectCores, SelectNuma, Steady
  <2> QED BY <2>2, <2>3 DEF Steady
<1>4. CASE ApplyNuma
  <2>1. tx \in Transactions /\ ~IsRelease(tx.request)
    BY <1>4, CandidateSound DEF ApplyNuma, IInv, Idle
  <2>2. /\ tx'.steady = tx.steady /\ tx'.in_node = tx.in_node
        /\ tx'.stage = "commit" /\ tx'.request = tx.request
    BY <1>4, <2>1 DEF ApplyNuma, Transactions
  <2> QED BY <1>4, <2>1, <2>2, TransactionTyped DEF Steady, IsNuma
<1>5. ASSUME \/ Reject \/ ReadFails \/ Commit \/ CommitFails \/ CommitUncertain \/ Recover
             \/ \E c \in PoolConfigs : Restart(c)
      PROVE  Steady'
  BY <1>5 DEF Reject, ReadFails, Commit, CommitFails, CommitUncertain, Recover, Restart,
              Steady
<1>6. ASSUME NEW c \in Hotpluggable
      PROVE  ~Hotplug(c)
  BY TopologyAssumption DEF Hotplug, AllOnline
<1>7. CASE UNCHANGED vars
  BY <1>7 DEF vars, Steady, IsNuma
<1> QED BY <1>1, <1>2, <1>3, <1>4, <1>5, <1>6, <1>7 DEF Next

\* As long as no CPU goes offline, a protected owner which retries, grows or
\* shrinks swaps no CPU: whatever the topology.
THEOREM ProtectedStable == Spec /\ []AllOnline => ProtectedClaimsStable
<1>1. Init => KeepsOwn /\ Steady
  BY DEF Init, KeepsOwn, HasSelected, Steady, Idle
<1>2. IInv /\ KeepsOwn /\ [Next]_vars => KeepsOwn'
  BY KeepsOwnKept
<1>3. IInv /\ AllOnline /\ AllOnline' /\ Steady /\ [Next]_vars => Steady'
  BY SteadyKept
<1>4. ASSUME IInv, KeepsOwn, Steady, [Next]_vars, ledger' # ledger,
             ~IsRelease(tx.request), StoredPolicy(ledger', Service) = "non-preemptive"
      PROVE  Lost(Service) = {} \/ Gained(Service) = {}
  <2>1. tx # Idle
    BY <1>4, OnlyCommits DEF Idle
  <2>2. Lost(Service) \subseteq CPUs
    BY <1>4, <2>1, CandidateSound, TransactionTyped DEF IInv, TypeOK, Ledgers, Lost
  <2> QED BY <1>4, <2>1, <2>2, NothingSwapped DEF Steady
<1>5. IInv /\ KeepsOwn /\ Steady /\ [Next]_vars =>
          [ledger' # ledger /\ ~IsRelease(tx.request)
               /\ StoredPolicy(ledger', Service) = "non-preemptive" =>
               Lost(Service) = {} \/ Gained(Service) = {}]_vars
  BY <1>4
<1> QED BY <1>1, <1>2, <1>3, <1>5, Invariance, PTL DEF Spec, ProtectedClaimsStable
=============================================================================
