----------------------------- MODULE Allocations -----------------------------
(***************************************************************************)
(* The CPU allocation handlers of daemon_handler.py as transactions on the *)
(* ledger of allocations_db.py.                                            *)
(*                                                                         *)
(* A request runs from Begin to Commit while it holds the exclusive lock   *)
(* of the state file, on a private candidate loaded from the ledger.  The  *)
(* kernel may take CPUs away between what it reads: the eligible CPUs when *)
(* it begins, the node when it selects, again when it confirms the         *)
(* selection, again for the claims to be replaced or released, and the     *)
(* online CPUs at last.  The three looks at the node on the way to a       *)
(* selection are one: each asks for less than the next.                    *)
(*                                                                         *)
(* The commit is abstract here (old claims, new claims, or new claims with *)
(* the uncertainty latch set); its steps belong to state_store.py.         *)
(***************************************************************************)
EXTENDS CpuSelection, Ledger

CONSTANTS
    Nodes,          \* NUMA node ids
    NodeCpus,       \* NodeCpus[n]: the CPUs of node n
    SiblingMaps,    \* what reads of the thread siblings may return
    PoolConfigs,    \* what the daemon may load at startup
    InitialLedgers, \* state files which the first daemon may find
    Requests,       \* the requests which clients send
    Hotpluggable,   \* CPUs the kernel may take offline and online again
    MaxOffline      \* bound: how many are offline at once

CoresRequests ==
    [ action : {"allocate_cores"}, service_name : Services, pool : Pools,
      preemption_policy : Policies \cup {Omitted}, num_of_cores : Int ]

PercentRequests ==
    [ action : {"allocate_cores_percent"}, service_name : Services, pool : Pools,
      preemption_policy : Policies \cup {Omitted}, percent : -1..100 ]

NumaRequests ==
    [ action : {"allocate_numa_cores"}, service_name : Services, pool : Pools,
      preemption_policy : Policies \cup {Omitted}, num_of_cores : Int,
      numa_node : Nat ]

\* Both pools as frozen for the life of a daemon; the general pool may be
\* not configured, and then cannot be selected.
Configs == [ cpus : [Pools -> SUBSET CPUs], selectable : SUBSET Pools ]

ASSUME CpuAssumption == CPUs \subseteq Nat /\ IsFiniteSet(CPUs)
\* Nobody, in the refinement below, is no service.
ASSUME ServiceAssumption == "nobody" \notin Services
ASSUME TopologyAssumption ==
    /\ Nodes \subseteq Nat
    /\ NodeCpus \in [Nodes -> SUBSET CPUs]
    /\ SiblingMaps \subseteq [CPUs -> SUBSET CPUs]
    /\ Hotpluggable \subseteq CPUs
ASSUME RequestAssumption ==
    Requests \subseteq CoresRequests \cup PercentRequests \cup NumaRequests
\* load_startup_pool never offers two pools which overlap.
ASSUME ConfigAssumption ==
    /\ PoolConfigs \subseteq Configs
    /\ \A c \in PoolConfigs : c.cpus["isolated"] \cap c.cpus["general"] = {}
\* A state file which no allocator wrote is not the allocator's to repair.
ASSUME InitialLedgerAssumption ==
    InitialLedgers \subseteq {l \in Ledgers : WellFormed(l)}

VARIABLES
    ledger,     \* the claims in the state file
    uncertain,  \* the latch in the lock file: no writes until recovery
    config,     \* the pools of the running daemon
    online,     \* the online CPUs, as sysfs shows them
    tx          \* the transaction which holds the lock, or Idle

vars == << ledger, uncertain, config, online, tx >>

Idle == [stage |-> "idle"]

\* What the client is told if the transaction commits.  Sets stand for the
\* counts and range strings of the response models.
Replies == [ cores     : SUBSET CPUs,    \* allocated_cores, cores_allocated
             shared    : SUBSET CPUs,    \* shared_cpus (allocate_cores only)
             remaining : SUBSET CPUs,    \* remaining_available_cpus
             policy    : Policies \cup {Absent} ]   \* preemption_policy

NoReply == [cores |-> {}, shared |-> {}, remaining |-> {}, policy |-> Absent]

Transactions == [ stage    : {"select", "confirm", "list", "apply", "commit"},
                  request  : Requests,
                  eligible : SUBSET CPUs,  \* the CpuPoolSnapshot
                  selected : SUBSET CPUs,
                  shared   : SUBSET CPUs,
                  in_node  : SUBSET CPUs,  \* the claims to be replaced
                  db       : Databases,    \* the candidate
                  reply    : Replies,
                  steady   : SUBSET CPUs ] \* history: online since it began, and
                                           \* listed whenever that counted

Init ==
    /\ ledger \in InitialLedgers
    /\ uncertain = FALSE
    /\ config \in PoolConfigs
    /\ online = CPUs
    /\ tx = Idle

-----------------------------------------------------------------------------
(* The request being served                                                *)

\* -1 releases; for a percentage 0 does too.
IsRelease(r) == IF r.action = "allocate_cores_percent"
                THEN r.percent \in {-1, 0}
                ELSE r.num_of_cores = -1

\* The number of CPUs a request for a grant stands for.
Count(r, eligible) == IF r.action = "allocate_cores_percent"
                      THEN CeilPercent(Cardinality(eligible), r.percent)
                      ELSE r.num_of_cores

Service == tx.request.service_name
Pool    == tx.request.pool
IsNuma  == tx.request.action = "allocate_numa_cores"
Own     == tx.db.allocations[Service]
\* Faulty variant: an omitted policy always means legacy.
PolicyOfRequest ==
    IF tx.request.preemption_policy = Omitted THEN "legacy" ELSE tx.request.preemption_policy

Policy  == EffectivePolicy(tx.db, Service, tx.request.preemption_policy)

\* get_numa_node_cpus: Linux lists the online CPUs of a node.  A node without
\* listed CPUs does not exist.
NodeListing(n) == IF n \in Nodes THEN NodeCpus[n] \cap online ELSE {}

Listing == NodeListing(tx.request.numa_node)

\* A cpulist which cannot be read is empty, but some node has to have CPUs.
Listable(readable) ==
    readable \/ \E n \in Nodes \ {tx.request.numa_node} : NodeListing(n) # {}

\* The claims of the service which are listed in the node.
OwnListed(readable) == IF readable THEN Own \cap Listing ELSE {}

StillSteady(readable) ==
    IF readable THEN tx.steady ELSE tx.steady \ NodeCpus[tx.request.numa_node]

\* The reply built from the candidate just before it is committed.
ReplyFrom(db, cores, shared) ==
    [ cores     |-> cores,
      shared    |-> shared,
      remaining |-> tx.eligible \ db.allocated,
      policy    |-> IF Owns(db, Service) THEN StoredPolicy(db, Service) ELSE Absent ]

-----------------------------------------------------------------------------
(* Taking the lock                                                         *)

\* Faulty variant: the latch is not looked at.
BeginUnlatched(r, readable) ==
    /\ tx = Idle
    /\ r.pool \in config.selectable
    /\ readable \/ IsRelease(r)
    /\ tx' = [ stage    |-> "select",
               request  |-> r,
               eligible |-> IF readable THEN config.cpus[r.pool] \cap online ELSE {},
               selected |-> {},
               shared   |-> {},
               in_node  |-> {},
               db       |-> Load(ledger),
               reply    |-> NoReply,
               steady   |-> online ]
    /\ UNCHANGED << ledger, uncertain, config, online >>

\* An unreadable list of online CPUs fails a grant; a release goes on with
\* no eligible CPUs.
Begin(r, readable) ==
    /\ tx = Idle
    /\ ~uncertain
    /\ r.pool \in config.selectable
    /\ readable \/ IsRelease(r)
    /\ tx' = [ stage    |-> "select",
               request  |-> r,
               eligible |-> IF readable THEN config.cpus[r.pool] \cap online ELSE {},
               selected |-> {},
               shared   |-> {},
               in_node  |-> {},
               db       |-> Load(ledger),
               reply    |-> NoReply,
               steady   |-> online ]
    /\ UNCHANGED << ledger, uncertain, config, online >>

-----------------------------------------------------------------------------
(* Releases                                                                *)

ReleaseAccepted ==
    /\ PoolAccepted(tx.db, Service, Pool)
    /\ IsNuma => Listing # {}

\* All the claims of the service, whatever the state of its CPUs.
ReleaseAll ==
    /\ tx.stage = "select"
    /\ IsRelease(tx.request) /\ ~IsNuma
    /\ ReleaseAccepted
    /\ LET db == RemoveServiceAllocation(tx.db, Service)
       IN  tx' = [tx EXCEPT !.stage = "commit",
                            !.db = db,
                            !.reply = ReplyFrom(db, {}, tx.eligible \ db.allocated)]
    /\ UNCHANGED << ledger, uncertain, config, online >>

FindNode ==
    /\ tx.stage = "select"
    /\ IsRelease(tx.request) /\ IsNuma
    /\ ReleaseAccepted
    /\ tx' = [tx EXCEPT !.stage = "list"]
    /\ UNCHANGED << ledger, uncertain, config, online >>

\* The claims which the node is now seen to have, if any.
ReleaseNode(readable) ==
    /\ tx.stage = "list"
    /\ IsRelease(tx.request)
    /\ Listable(readable)
    /\ LET db == SubtractCpus(tx.db, OnlyFrom(Service, OwnListed(readable)))
       IN  tx' = [tx EXCEPT !.stage = "commit",
                            !.db = db,
                            !.reply = ReplyFrom(db, {}, {}),
                            !.steady = StillSteady(readable)]
    /\ UNCHANGED << ledger, uncertain, config, online >>

-----------------------------------------------------------------------------
(* Selecting the CPUs of a grant                                           *)

\* CpuPoolProvider.validate_claims does not raise: the configured pool
\* still covers every claim made in it.
ClaimsConfigured(db, pool) == ClaimedIn(db, pool) \subseteq config.cpus[pool]

GrantAccepted ==
    /\ PoolAccepted(tx.db, Service, Pool)
    /\ ClaimsConfigured(tx.db, Pool)
    /\ tx.eligible # {}
    /\ PolicyAccepted(tx.db, Service, tx.request.preemption_policy)
    /\ NoOfflineClaims(tx.db, Service, tx.eligible)

\* _validate_selection does not raise.
ValidSelection(selected, candidates, count) ==
    Cardinality(selected) = count /\ selected \subseteq candidates

CoresCandidates == AvailableFor(tx.db, Service, tx.eligible)
CoresPinning    == CalculateCpuPinning(CoresCandidates, Count(tx.request, tx.eligible))
CoresTarget     == IF Count(tx.request, tx.eligible) > 0
                   THEN Count(tx.request, tx.eligible)
                   ELSE Cardinality(CoresPinning.dedicated)

CoresAccepted ==
    /\ GrantAccepted
    /\ Count(tx.request, tx.eligible) <= Cardinality(CoresCandidates)
    /\ CoresPinning.dedicated # {}

\* Faulty variant: everybody gets the lowest CPUs.
CoresSelectionLowest(siblings) == Lowest(CoresCandidates, CoresTarget)

\* A protected owner keeps what it has; others get the lowest CPUs.
CoresSelection(siblings) ==
    IF Policy = "non-preemptive"
    THEN SelectStable(Own, CoresCandidates, CoresTarget, siblings)
    ELSE CoresPinning.dedicated

NumaCandidates == AllocatableNuma(tx.db, Service, Listing \cap tx.eligible, Policy, Pool)

NumaAccepted ==
    /\ GrantAccepted
    /\ tx.request.num_of_cores > 0
    /\ Listing \cap tx.eligible # {}
    /\ tx.request.num_of_cores <= Cardinality(NumaCandidates)

NumaSelection(siblings) ==
    IF Policy = "non-preemptive"
    THEN SelectStable(Own, NumaCandidates, tx.request.num_of_cores, siblings)
    ELSE SelectSmtAware(NumaCandidates, tx.request.num_of_cores, siblings)

SelectCores(siblings) ==
    /\ tx.stage = "select"
    /\ ~IsRelease(tx.request) /\ ~IsNuma
    /\ CoresAccepted
    /\ LET selected == CoresSelection(siblings)
       IN  /\ ValidSelection(selected, CoresCandidates, CoresTarget)
           /\ tx' = [tx EXCEPT !.stage = "apply",
                               !.selected = selected,
                               !.shared = CoresCandidates \ selected]
    /\ UNCHANGED << ledger, uncertain, config, online >>

SelectNuma(siblings) ==
    /\ tx.stage = "select"
    /\ ~IsRelease(tx.request) /\ IsNuma
    /\ NumaAccepted
    /\ LET selected == NumaSelection(siblings)
       IN  /\ ValidSelection(selected, NumaCandidates, tx.request.num_of_cores)
           /\ tx' = [tx EXCEPT !.stage = "confirm", !.selected = selected]
    /\ UNCHANGED << ledger, uncertain, config, online >>

-----------------------------------------------------------------------------
(* Applying the selection to the candidate                                 *)

\* CpuPoolProvider.check_online does not raise.
CheckOnline(selected) == selected \subseteq online

ApplyCoresAccepted ==
    /\ CheckOnline(tx.selected)
    /\ OverlapFree(tx.db, Service, tx.selected)

ApplyCores ==
    /\ tx.stage = "apply"
    /\ ~IsNuma
    /\ ApplyCoresAccepted
    /\ LET db == AllocateCores(tx.db, Service, tx.selected, Policy, Pool)
       IN  tx' = [tx EXCEPT !.stage = "commit",
                            !.db = db,
                            !.reply = ReplyFrom(db, tx.selected, tx.shared)]
    /\ UNCHANGED << ledger, uncertain, config, online >>

ConfirmAccepted ==
    /\ tx.selected \subseteq Listing \cap tx.eligible
    /\ \A owner \in Services \ {Service} :
           LET overlap == tx.db.allocations[owner] \cap tx.selected
           IN  overlap # {} => ReclamationAccepted(tx.db, owner, overlap, Policy, Pool)

\* The selection is checked against another listing of the node.
ConfirmNuma ==
    /\ tx.stage = "confirm"
    /\ ConfirmAccepted
    /\ tx' = [tx EXCEPT !.stage = "list"]
    /\ UNCHANGED << ledger, uncertain, config, online >>

\* A further listing says which claims of the service are in the node.
ListNode(readable) ==
    /\ tx.stage = "list"
    /\ ~IsRelease(tx.request)
    /\ Listable(readable)
    /\ tx' = [tx EXCEPT !.stage = "apply",
                        !.in_node = OwnListed(readable),
                        !.steady = StillSteady(readable)]
    /\ UNCHANGED << ledger, uncertain, config, online >>

ApplyNuma ==
    /\ tx.stage = "apply"
    /\ IsNuma
    /\ CheckOnline(tx.selected)
    /\ LET db == ApplyNumaExplicit(tx.db, Service, tx.in_node, tx.selected, Policy, Pool)
       IN  tx' = [tx EXCEPT !.stage = "commit",
                            !.db = db,
                            !.reply = ReplyFrom(db, tx.selected, {})]
    /\ UNCHANGED << ledger, uncertain, config, online >>

-----------------------------------------------------------------------------
(* Failures before the commit                                              *)

Accepted == CASE tx.stage = "select" /\ IsRelease(tx.request) -> ReleaseAccepted
              [] tx.stage = "select" /\ ~IsRelease(tx.request) /\ ~IsNuma -> CoresAccepted
              [] tx.stage = "select" /\ ~IsRelease(tx.request) /\ IsNuma -> NumaAccepted
              [] tx.stage = "apply" /\ ~IsNuma -> ApplyCoresAccepted
              [] tx.stage = "confirm" -> ConfirmAccepted
              [] tx.stage = "list" -> TRUE
              [] tx.stage = "apply" /\ IsNuma -> CheckOnline(tx.selected)

\* A check raised: the candidate is dropped.
Reject ==
    /\ tx.stage \in {"select", "confirm", "list", "apply"}
    /\ ~Accepted
    /\ tx' = Idle
    /\ UNCHANGED << ledger, uncertain, config, online >>

\* No node, or not the list of online CPUs at last, can be read.  That of the
\* node only is the same where a listing without CPUs is refused.
ReadFails ==
    /\ \/ tx.stage = "select" /\ IsNuma
       \/ tx.stage \in {"confirm", "list", "apply"}
    /\ tx' = Idle
    /\ UNCHANGED << ledger, uncertain, config, online >>

-----------------------------------------------------------------------------
(* The commit, seen from outside                                           *)

Commit ==
    /\ tx.stage = "commit"
    /\ ledger' = Snapshot(tx.db)
    /\ tx' = Idle
    /\ UNCHANGED << uncertain, config, online >>

\* The write failed before the rename; clearing the marker may fail too.
CommitFails ==
    /\ tx.stage = "commit"
    /\ uncertain' \in BOOLEAN
    /\ tx' = Idle
    /\ UNCHANGED << ledger, config, online >>

\* The write failed after the rename: the client gets an error, but the new
\* claims are there and the latch is set.
CommitUncertain ==
    /\ tx.stage = "commit"
    /\ ledger' = Snapshot(tx.db)
    /\ uncertain' = TRUE
    /\ tx' = Idle
    /\ UNCHANGED << config, online >>

-----------------------------------------------------------------------------
(* The environment                                                         *)

\* The daemon stops anywhere and starts again with the pools it then finds.
\* A commit it was in the middle of has happened, latched or not, or it has
\* not.
Restart(c) ==
    /\ config' = c
    /\ tx' = Idle
    /\ \/ UNCHANGED << ledger, uncertain >>
       \/ /\ tx.stage = "commit"
          /\ ledger' \in {ledger, Snapshot(tx.db)}
          /\ uncertain' \in BOOLEAN
    /\ UNCHANGED online

\* The operator runs StateStore.recover().
Recover ==
    /\ tx = Idle
    /\ uncertain
    /\ uncertain' = FALSE
    /\ UNCHANGED << ledger, config, online, tx >>

Hotplug(c) ==
    /\ IF c \in online
       THEN Cardinality(CPUs \ online) < MaxOffline /\ online' = online \ {c}
       ELSE online' = online \cup {c}
    /\ tx' = IF tx = Idle THEN Idle ELSE [tx EXCEPT !.steady = @ \ {c}]
    /\ UNCHANGED << ledger, uncertain, config >>

-----------------------------------------------------------------------------

Next ==
    \/ \E r \in Requests, readable \in BOOLEAN : Begin(r, readable)
    \/ ReleaseAll
    \/ FindNode
    \/ \E readable \in BOOLEAN : ReleaseNode(readable) \/ ListNode(readable)
    \/ \E siblings \in SiblingMaps : SelectCores(siblings) \/ SelectNuma(siblings)
    \/ ConfirmNuma
    \/ ApplyCores
    \/ ApplyNuma
    \/ Reject
    \/ ReadFails
    \/ Commit
    \/ CommitFails
    \/ CommitUncertain
    \/ \E c \in PoolConfigs : Restart(c)
    \/ Recover
    \/ \E c \in Hotpluggable : Hotplug(c)

Spec == Init /\ [][Next]_vars

-----------------------------------------------------------------------------
(* Invariants                                                              *)

TypeOK ==
    /\ ledger \in Ledgers
    /\ uncertain \in BOOLEAN
    /\ config \in PoolConfigs
    /\ online \in SUBSET CPUs
    /\ tx \in {Idle} \cup Transactions

\* No CPU ever has two owners, in the state file or in a candidate: not after
\* a reclamation, a crash, a CPU going offline under a request, or a restart
\* with pools which now claim each other's CPUs.
ExclusiveOwnership == Exclusive(ledger) /\ (tx # Idle => Exclusive(tx.db))

\* The state file can always be loaded: a policy or pool left behind without
\* claims would raise StateCorruptionError and crash every later daemon; and
\* the NUMA marks which shield CPUs from reclamation are on owned CPUs.
ClaimsReloadable ==
    /\ MetadataOwned(ledger) /\ ExplicitOwned(ledger)
    /\ tx # Idle => MetadataOwned(tx.db) /\ ExplicitOwned(tx.db)

\* The cache of claimed CPUs, updated by difference through removals,
\* subtractions and grants, equals what a reload would compute; so what a
\* reply says is left is exactly the eligible CPUs nobody claims, and what it
\* calls shared is the same set although it is computed before the grant.
CapacityExact ==
    tx # Idle =>
        /\ CacheExact(tx.db)
        /\ tx.stage = "commit" =>
               /\ tx.reply.remaining = tx.eligible \ Claims(tx.db)
               /\ tx.request.action = "allocate_cores"
                      => tx.reply.shared = tx.reply.remaining

\* A grant about to be committed is what was asked for: the exact number of
\* CPUs, all of them owned, in the selected pool, and under a policy no
\* weaker than the requested one.
GrantExact ==
    tx # Idle /\ tx.stage = "commit" /\ ~IsRelease(tx.request) =>
        /\ tx.reply.cores # {}
        /\ tx.reply.cores \subseteq tx.db.allocations[Service]
        /\ tx.reply.cores \subseteq tx.eligible
        /\ Count(tx.request, tx.eligible) > 0
               => Cardinality(tx.reply.cores) = Count(tx.request, tx.eligible)
        /\ ~IsNuma => tx.reply.cores = tx.db.allocations[Service]
        /\ IsNuma => tx.reply.cores \subseteq tx.db.explicit[Service]
        /\ ServicePool(tx.db, Service) = Pool
        /\ tx.request.preemption_policy = "non-preemptive"
               => tx.reply.policy = "non-preemptive"

\* A NUMA grant overrides the earlier claims of the service in that node, and
\* a node release drops them (README: "it overrides previous cores from that
\* node", "deallocates any existing cores for that service in that node"): of
\* the CPUs which were there throughout, however often the node is listed
\* while others go offline and come back, exactly those in the reply are left.
SteadyNodeReplaced ==
    tx # Idle /\ tx.stage = "commit" /\ IsNuma =>
        tx.db.allocations[Service] \cap NodeCpus[tx.request.numa_node] \cap tx.steady
            = tx.reply.cores \cap tx.steady

\* A node release leaves no claim of the service in that node (README:
\* "deallocates any existing cores for that service in that node").
NodeReleaseIsComplete ==
    tx # Idle /\ tx.stage = "commit" /\ IsNuma /\ IsRelease(tx.request) =>
        tx.db.allocations[Service] \cap NodeCpus[tx.request.numa_node] = {}

-----------------------------------------------------------------------------
(* What a step may never do                                                *)

Lost(s)   == ledger.allocations[s] \ ledger'.allocations[s]
Gained(s) == ledger'.allocations[s] \ ledger.allocations[s]

\* A service loses CPUs to another one only through a grant of a legacy NUMA
\* request in the same pool, only ordinary legacy CPUs, and only those which
\* the requester then owns.
ForeignClaimsKept ==
    [][\A s \in Services : Lost(s) # {} /\ s # Service =>
           /\ IsNuma /\ ~IsRelease(tx.request)
           /\ EffectivePolicy(ledger, Service, tx.request.preemption_policy) = "legacy"
           /\ StoredPolicy(ledger, s) = "legacy"
           /\ ServicePool(ledger, s) = ServicePool(ledger', Service)
           /\ Lost(s) \cap ledger.explicit[s] = {}
           /\ Lost(s) \subseteq ledger'.allocations[Service]
      ]_vars

\* While a service owns CPUs it stays in its pool and a protected one stays
\* protected, whatever it requests and however the daemon is restarted: both
\* change only through a full release.
MetadataKeptUntilRelease ==
    [][\A s \in Services : Owns(ledger, s) /\ Owns(ledger', s) =>
           /\ ServicePool(ledger', s) = ServicePool(ledger, s)
           /\ StoredPolicy(ledger, s) = "non-preemptive"
                  => StoredPolicy(ledger', s) = "non-preemptive"
      ]_vars

\* A grant never drops a claim on a CPU which was not eligible when the
\* request began, and a NUMA request never touches the claims of its service
\* in other nodes.
OwnClaimsKept ==
    [][ledger' # ledger =>
           /\ ~IsRelease(tx.request) => Lost(Service) \subseteq tx.eligible
           /\ IsNuma => Lost(Service) \subseteq NodeCpus[tx.request.numa_node]
      ]_vars

\* CPUs are granted from the eligible CPUs of the pool only, and only while
\* the pool still covers every claim made in it.
GrantsWithinPool ==
    [][\A s \in Services : Gained(s) # {} =>
           /\ Gained(s) \subseteq tx.eligible
           /\ ClaimedIn(ledger', ServicePool(ledger', s))
                  \subseteq config.cpus[ServicePool(ledger', s)]
      ]_vars

\* A protected owner which retries, grows or shrinks keeps what it may keep:
\* it never swaps a CPU for another, in the whole or in the requested node.
\* In particular a retry after a lost reply changes nothing.
ProtectedClaimsStable ==
    [][ledger' # ledger /\ ~IsRelease(tx.request)
           /\ StoredPolicy(ledger', Service) = "non-preemptive" =>
           Lost(Service) = {} \/ Gained(Service) = {}
      ]_vars

\* With CPUs going offline it may get others for those which were away, but
\* it never pays for them with a CPU which was there throughout.
SteadyClaimsStable ==
    [][ledger' # ledger /\ ~IsRelease(tx.request)
           /\ StoredPolicy(ledger', Service) = "non-preemptive" =>
           Lost(Service) \cap tx.steady = {} \/ Gained(Service) = {}
      ]_vars

\* While the latch is set no claim changes, releases included.
LatchBlocksChanges == [][uncertain /\ uncertain' => ledger' = ledger]_vars

-----------------------------------------------------------------------------
(* The promise to clients                                                  *)

Nobody == "nobody"

\* A state file as the promise sees it.
OwnerIn(l)     == [c \in CPUs |-> IF c \in Claims(l)
                                  THEN CHOOSE s \in Services : c \in l.allocations[s]
                                  ELSE Nobody]
PinnedIn(l)    == UNION {l.explicit[s] : s \in Services}
ProtectedIn(l) == {s \in Services : l.policies[s] = "non-preemptive"}
HomeIn(l)      == [s \in Services |-> IF Owns(l, s) THEN ServicePool(l, s) ELSE Absent]

Promise == INSTANCE Ownership WITH
    NoPool    <- Absent,
    owner     <- OwnerIn(ledger),
    pinned    <- PinnedIn(ledger),
    protected <- ProtectedIn(ledger),
    home      <- HomeIn(ledger)

\* The allocator keeps its promise: what happens to the state file is a grant
\* or a release as module Ownership allows them, whatever fails, restarts or
\* goes offline.
ImplementsOwnership == Promise!Spec

-----------------------------------------------------------------------------
(* What the state store has to provide                                     *)

Commitment == INSTANCE AtomicCommit WITH
    Values   <- Ledgers,
    NoValue  <- Idle,
    value    <- ledger,
    proposed <- IF tx.stage = "commit" THEN Snapshot(tx.db) ELSE Idle,
    blocked  <- uncertain

\* The handlers use the state file as an atomic commit, which is what module
\* StateStore implements: they propose nothing while the latch is set, and
\* the state file never holds anything but a ledger they have proposed.
CommitsAtomically == Commitment!Spec

-----------------------------------------------------------------------------
(* What the configuration of the pools may rely on                         *)

PoolView == INSTANCE PoolClaims WITH
    claims <- [p \in Pools |-> ClaimedIn(ledger, p)]

\* Each daemon keeps to the pools it has loaded: claims change only in a pool
\* it can select, grants stay in the pool, which covers all its claims, and
\* off what is claimed in the other; a restart changes no claim.  Module
\* CpuPools, which says what pools daemons load, relies on nothing else.
ImplementsPoolClaims == PoolView!Spec
=============================================================================
