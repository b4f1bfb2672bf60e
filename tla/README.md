# Verification of the EPA orchestrator

TLA+ models of `epa_orchestrator/`, the TLC runs which check them on small
hosts, and theorems about them checked with TLAPS. Paths are relative to the
repository root.

Contents: [1 the system](#1-the-system) ·
[2 the modules](#2-the-modules) ·
[3 what each run checks](#3-what-each-run-checks) ·
[4 assumptions and fairness](#4-assumptions-and-fairness) ·
[5 what is proved](#5-what-is-proved) ·
[6 what is only model-checked](#6-what-is-only-model-checked) ·
[7 disagreements found](#7-disagreements-between-code-and-documentation) ·
[8 not modelled](#8-not-modelled) ·
[9 plan](#9-plan) · [10 running it](#10-running-it)

## 1. The system

A daemon (`bin/daemon`) serves one client request at a time over a Unix socket.
Requests grant and release logical CPUs (`allocate_cores`,
`allocate_cores_percent`, `allocate_numa_cores`), list them, and track
hugepages. Who owns what is kept in one JSON file which survives restarts.

| Component | State | Operations |
|---|---|---|
| Ownership ledger, `allocations_db.py` | claims per service, NUMA marks, policy, pool, a cache of all claims | grant, NUMA grant with reclamation, full and per-node release, load, snapshot |
| Handlers, `daemon_handler.py` | none (one transaction at a time) | checks, selection, reply |
| Selection, `cpu_pinning.py`, selectors of `allocations_db.py` | none | default count, SMT-aware and stable selection |
| Pools, `cpu_pool.py` | configured CPUs, frozen per daemon | snapshot, select, validate_claims, check_online |
| State store, `state_store.py` | state file, latch in the lock file, latch per process | transaction, recover |
| Hugepages, `hugepages_db.py`, `memory_manager.py` | recorded counts per service, node and size | upsert, remove, overlay on the kernel's counters |
| Configure hook, `snap/hooks/configure` | the option and the last accepted pool, kept by snapd | validation of a proposed pool |
| Range lists, `utils.py`, `cpu_pool.py` | none | two parsers and one writer |
| Daemon, `bin/daemon`, `handle_daemon_request` | the socket, its queue, the pools it has loaded | start, accept, receive, dispatch, reply |

**How they interact.** The daemon loads its pools once and hands every request
to a handler. A CPU handler opens one transaction of the state store, which
holds the `flock` of the state file. Inside it the handler takes a snapshot of
the eligible CPUs (the pool's, less the offline ones), loads a private
candidate of the ledger, lists the NUMA node as often as it needs it, checks and
selects, checks once more that what it selected is online, changes the candidate
and returns it. The store replaces
its section of the file, and the candidate is published in memory. The
hugepage handler reads sysfs and the records first and opens its transaction
only to record. Operators and tests use the store from other processes;
`recover()` is run from a shell. The kernel changes what sysfs shows at any time.

snapd starts the daemon and starts it again when it dies. `snap set` runs the
configure hook, which reads topology and claims and records what it accepts;
snapd commits the option and the record together, or neither. The daemon goes on
with the pools it has loaded until it is restarted. Clients queue at the socket
and are served in their order, one request per connection.

**What makes it hard, and what makes it correct.** The same list, with
the lines where it bites, is under `hazards` in `PROJECT.json`.

* *Ledger.* No CPU has two owners. Policy and pool of a service live exactly as
  long as its claims: metadata left behind makes the next load raise
  `StateCorruptionError`, so that every later daemon crashes. The cache of
  claimed CPUs is updated by difference in five places. A legacy NUMA request
  takes CPUs from others, but never protected, pinned or foreign-pool ones.
* *Handlers.* One request reads the eligible CPUs, the node (up to five times)
  and the online CPUs at different moments, and CPUs go offline in between; a
  cpulist which cannot be read is an empty one. A restart brings other pools than those the claims were made in.
  Commits fail before or after the rename. Clients retry after lost replies.
* *Selection.* Exactly the requested number, whole cores first, own CPUs first
  for protected owners, even if sibling lists are missing or contradictory.
* *State store.* A write is nine system calls, each of which fails, or is
  the last one before a crash or a power loss. A change which may still be lost
  must be latched on the disk; results must be true; sections independent.
* *Hugepages.* Capacity is checked on four reads and recorded later; pages in
  use may or may not belong to a reservation.
* *Pools and hook.* What was accepted meets other claims, other isolation and
  other CPUs later. The running daemon grants from the pool before, between the
  acceptance and its restart. Discovery fails at startup, and the claims must
  stay in reach. A listing reads CPUs and claims at different moments.
* *Daemon.* A client which never writes holds up all others; one which does not
  take its reply ends the daemon after the commit; an error may answer a change
  that took effect, when the load after an uncertain commit fails; a request which its client
  has given up on is still served; each crash leaves a socket file; a corrupt
  state file must end the daemon, and never be replaced.

## 2. The modules

| Module | Models | Built on |
|---|---|---|
| `CpuSelection` | the pure algorithms: counts, percentages, SMT-aware and stable selectors | |
| `CpuRanges` | the range lists: `parse_cpu_ranges`, `parse_cpu_list`, `to_ranges` | |
| `Ledger` | ledgers, candidates, and every change and question of `allocations_db.py` as operators | |
| `Allocations` | the CPU handlers as transactions, with hotplug, failed reads, failed commits, restarts, recovery | `CpuSelection`, `Ledger` |
| `CpuPools` | the configure hook, `load_startup_pool`, listings, reboots and restarts | |
| `StateStore` | `state_store.py`, system call by system call, several processes, crashes, power loss | |
| `Hugepages` | the hugepage handler, records and overlay, with the kernel in between | |
| `Daemon` | `bin/daemon`, dispatch and errors, clients, snapd | |
| `Ownership` | abstract: what clients are promised about owners | |
| `AtomicCommit` | abstract: what the store promises the databases | |
| `PoolClaims` | abstract: what daemons, each with its pools, may do to claims | |
| `MCSelection` | the algorithms and the range lists as one question and one answer | `CpuSelection`, `CpuRanges` |
| `MCAllocations`, `MCCpuPools`, `MCStateStore`, `MCHugepages`, `MCDaemon` | small instances | their module |
| `SetLemmas` | lemmas on finite sets: induction, recursion, order, sums | |
| `AllocationsProofs`, `PromiseProofs` | theorems about `Ledger` and `Allocations` | `SetLemmas` |
| `SelectionProofs` | theorems about `CpuSelection` and `CpuRanges` | `MCSelection`, `SetLemmas` |
| `HugepagesProofs` | theorems about `Hugepages` | `SetLemmas` |
| `StateStoreProofs`, `CpuPoolsProofs`, `DaemonProofs` | theorems about their module | |

```
             CpuPools  --implements-->  PoolClaims
                                            ^
                                       implements
                                            |
 Ownership  <--implements--  Allocations  --uses-->  AtomicCommit  <--implements--  StateStore
                              |        |
                       CpuSelection  Ledger
```

The modules meet in the abstract ones. `Allocations!CommitsAtomically` says
that the handlers do nothing to the state file but what `AtomicCommit` allows, and
`StateStore!ImplementsAtomicCommit` that the file does nothing but that,
whatever fails. So `Allocations` can take the commit as one step with a
few outcomes. Likewise `Allocations` takes the pools of a daemon as given, any
disjoint ones, and `CpuPools` takes grants and releases as given, any within the
pools: both implement `PoolClaims`, so that neither assumes of the other more
than that one shows. `Daemon` is apart: there a request only takes effect or
does not, and the order and the outcome of requests matter.

**`Ledger`.** A ledger is the section of the state file: for each service the
claimed CPUs, those granted through NUMA requests (`explicit`), policy and
pool, where a missing entry is `Absent`. A database is a candidate: a ledger
and the cache `allocated`. Each operator is a method of `AllocationsDB`. Range
strings are sets of CPUs.

**`Allocations`.** `ledger` is the section on the disk, `uncertain` the latch,
`config` the pools of the running daemon, `online` what sysfs shows, `tx` the
transaction. `Begin` takes the lock, checks the latch and takes the snapshot of
the eligible CPUs. Each further stage is one read of what the kernel shows, and
what the code decides on it before the next:

| Stage | Actions | What is read |
|---|---|---|
| `select` | `SelectCores`, `SelectNuma`, `ReleaseAll`, `FindNode` | the node (a grant looks three times, each time asking for more: one step) and thread siblings |
| `confirm` | `ConfirmNuma` | the node again, which the selection must be in |
| `list` | `ListNode`, `ReleaseNode` | the node again, for the own claims in it |
| `apply` | `ApplyCores`, `ApplyNuma` | the online CPUs, which the selection must be among |
| `commit` | `Commit`, `CommitFails`, `CommitUncertain` | nothing |

`Reject` is any check which raises, `ReadFails` any read which does. `Hotplug`,
`Restart` (with any of the given pools) and `Recover` may come between any two
steps. A listing shows online CPUs only, as in Linux. A node whose cpulist cannot
be read has no CPUs, as long as another node has some: a grant is refused if that
happens before the stage `list`, but a listing of the own claims is then empty,
and the request goes on. `tx.steady` is history: the CPUs which have been online
since `Begin` and were not hidden in this way.

**`StateStore`.** `file` is what readers see, `fileOnDisk` the contents a power
loss may leave, and likewise `marker` and `markerOnDisk` for the latch.
`suspects` are the processes which have the path in their own
`_uncertain_paths`. `work[p].at` is the place of process `p` between the system
calls of `_atomic_write_unlocked`, `_set_uncertain_unlocked` and `recover`, one
action per call, with a failing twin. `Kill` ends a process anywhere;
`PowerLoss` picks one of the contents of each file. Reads and the callback
happen in `Begin`, since nobody else can write.

**`Hugepages`.** `records` are the entries of each service as a list, since an
old state file may hold two for one key (node and size); `total` and `used` are
the kernel's. A request reads total, free, all reservations and the own one in
that order (`ReadTotal` ... `ReadExisting`), then `Record` replaces the entry in a
transaction. Counts which cannot be read are 0, as in the code. `Use` and
`Resize` are programs mapping pages, and an administrator.

**`CpuPools`.** `isolated`, `present` and `online` are the kernel's; `option` and
`accepted` are what snapd has committed. `hook.at` is the place of
`validate_snap_configuration` between its reads, one action each, from
`HookBegin` (an operator sets a value, or a refresh the same again) to
`HookCommit`; `HookFails` is any exception, a killed hook or an undone change.
`HookRecord` is the `snapctl set`, which takes effect with the commit only.
`Start` is `load_startup_pool`, in which either discovery may fail: the outcome
is a pool that cannot be selected, or one without CPUs. `Grant` and `Release`
are the claims of module `PoolClaims`, one set per pool. What is `Grantable` in a
pool includes what is claimed in it already, by the requester or by an owner it
is reclaimed from, but nothing claimed in the other pool; which owners may be
reclaimed from is the subject of `Ledger`. `List` takes the
snapshot, `ListReply` reads the claims. `late` is history: general claims
outside the accepted pool, made since the hook read the claims by a daemon which
was started with another setting.

**`Daemon`.** `at` is the place in `main`, from the imports (which read the
state file) over the socket file to the loop; `queue` the connections which
wait for `accept`, `open` those which neither side has closed, `sent` what was
written on one, `answer` what came back. A connection is a client and the number
of its try. A request is a class: CPUs, listing, memory, hugepages, or junk,
which is all that is refused before a handler. `Transact` lets it take effect
(`applied`). If the commit is uncertain, the databases load the file again: the
client gets that error or the one of the load which failed, or, if the file cannot
be understood, the exception ends the daemon. `Refuse` is any error without
effect, the one of the latch among them. On the wire an error is an error, so
the model has one kind: only its wording would tell what became of the request.
`Report` is a listing or the memory: which of the client's requests show in it.
`FindCorrupt` is the exception of an unreadable state file, which ends
the daemon or, in two handlers, does not. A client may give up at any time,
before or after it has written; `Reply` to it ends the daemon. `Kill` ends it
anywhere, also between the effect and the reply. What dies with a daemon is its
queue; what stays is its socket file.

**`CpuRanges`.** A list is the sequence of its components between commas; a
component is blank, junk, a CPU or a span. The characters are left out.

Definitions marked "Faulty variant" are plausible bugs. No behaviour of a
specification uses them; each shows that some property would notice.

## 3. What each run checks

| Run | Question | Instance | Distinct states |
|---|---|---|---|
| `selection` | do selectors, counts, percentages and range lists do what they say? | every candidate set, owner, count and sibling map of 4 CPUs; 1 to 130 CPUs with the real constants; sets of 6 CPUs and lists of up to 2 components | 182,704 |
| `one_pool` | are ownership, metadata, cache and replies right under every kind of request? | 3 services, 4 CPUs in 2 nodes | 663,497 |
| `pools` | do ownership, pool and protection hold through restarts with changing pools and CPUs going offline between two reads? do the handlers implement `Ownership` and `PoolClaims`, and use the store as `AtomicCommit` allows? | 2 services, 3 CPUs, 4 configurations | 242,485 |
| `store` | is the write protocol an atomic commit with true results, which releases its lock? | 2 processes, 2 sections, 3 values each | 5,391 |
| `cpu_pools` | which claims does the accepted pool cover, which can a daemon reach, are listings true? | 3 CPUs, 2 command lines, 4 settings | 561,588 |
| `daemon` | does a report settle what became of earlier requests? are effects in order, is everybody served, does the service come back? | 2 clients with 2 tries each, 2 faults | 505,137 |
| `hugepages` | do reservations fit into the pages there are? what remains true when the pool is resized under a request? | 2 services, 2 page sizes, 3 pages | 222,560 |
| `hotplug_release`, `hotplug_stable`, `hugepages_negative`, `claims_reachable`, `daemon_corruption` | a statement of the documentation which the code does not keep (section 7) | | |

**`one_pool`** checks that no CPU has two owners (`ExclusiveOwnership`), that
what is written can be loaded again (`ClaimsReloadable`), that the cache and
the capacities told to clients are exact (`CapacityExact`), that a grant has
the size, pool and protection asked for (`GrantExact`) and that a protected owner
which retries, grows or shrinks never swaps CPUs (`ProtectedClaimsStable`).
Three services, because a reclamation can hit two owners at once. Two nodes of
one two-thread core each, so that selection and nodes matter; counts of -2, -1,
0, 1 and 2, and 0 and 30 percent.

**`pools`** restarts the daemon with four configurations in which CPU 1 moves
between the pools, the general pool disappears, or neither has any CPU, and
starts from an empty file or from one of an older version, without metadata. CPU
1 goes offline and online between any two reads, and neither node nor sibling
lists can always be read. `ImplementsOwnership`, `CommitsAtomically` and
`ImplementsPoolClaims` are the three abstract modules: who may take whose CPUs,
how long pool and protection last, what a failed commit may leave, and that
grants stay in the pool. `OwnClaimsKept`: a grant never drops a claim on an
ineligible CPU, and a NUMA request never one in another node. With CPUs which
come and go under a request the documentation asks for too much (section 7).
What holds is said of the CPUs which were there throughout.
`SteadyNodeReplaced`: of those in the node, a NUMA grant or a node release
leaves the service exactly what the reply names. `SteadyClaimsStable`: a
protected owner never pays with one of them for a CPU that it gains.

**`cpu_pools`** has one CPU which only one command line isolates, settings which
name it, which leave it out and which switch the general pool off, one CPU
which goes offline and one which disappears; both discoveries fail at any start.
`GeneralNeverIsolated`: nothing isolated is granted as general, with whatever
pool was accepted before. `RecordMatchesOption`: no hook which fails leaves a
record ahead of the option, with which a later one would skip the validation.
`AcceptedPoolCoversClaims`: all general claims but the late ones, so these are
the only ones which `StrandedOnlyIfLate` excepts: a daemon started with the
accepted setting can otherwise select the pool of every claim.
`ListingsTruthful`: when no claim of the pool is unavailable, what a listing
calls free may be granted; and what may be granted, by legacy reclamation too, it
calls free or shows with an owner in the pool.
Three CPUs are enough for one of each kind; the theorems have no bound.

**`daemon`** has two clients, so that one can hold up the other, and two tries,
so that one can be overtaken by the next; a backlog of one, as in the code; two
faults (kills or corruptions), so that the daemon dies of one while it recovers
from the other. Deaths by lost replies are not bounded but by the tries.
`ReportsSettle`: after a success the request has taken effect. An error is no
evidence of anything, as `docs/nonpreemptive-allocations.md:33-35` says of
failed requests and lost replies, so that a client has to list and reconcile. It
may rely on what it then sees: a report shows those of its earlier requests
which have taken effect, and none of the others ever will (that a later release takes a granted CPU
out of a listing again is left out). `NoLateEffect`: a
request given up on takes no effect after a later one of its client was
answered. `Served` and `ComesBack` are liveness: whoever has sent a request gets
an answer or finds the connection closed, unless some client stays connected and
silent for good; and unless the file stays corrupt, a daemon always listens
again.

**`selection`** also reads and writes range lists: `RangesRoundTrip`, what is
written is read back as the same set by both parsers; `PresentListsExact`, the
checks which come before a range is expanded refuse no list of present CPUs and
admit no other.

**`store`** has two processes, the two sections of the real file and three
values per section, enough for two successive changes and the original to
differ. `DoubtIsLatched`: what a power loss may take back is latched
on the disk. `NeverTorn`, `OutcomesTrue`, `SectionsIndependent` are what they
say. The lock leaves one process working at a time, so a third would only wait.
`LockReleased` is checked under fairness in the same run.

**`hugepages`** has two services, three small pages, and huge pages whose pool
is resized between one and three, or none. Programs map and unmap any number of
pages. Old state files have two entries for one key. `ReservationsFit`: the
reservations of small pages never exceed the pages. `RequestRecorded`: what is
recorded becomes the whole reservation of its key. For a pool which is resized
under a request the code cannot promise the first; what remains is
`GrowthWithinRead`: a reservation grows only as far as a count read for it
allows.

Bounds are constants of the instances: hosts of three or four CPUs,
`MaxOffline`, `MaxPages`, `MaxTries`, `MaxFaults`, the sets of requests. All the
operations work on sets of CPUs by membership and order, so that a second owner,
a second node, a second core and one spare CPU show every case of the
conditions; the theorems of section 5 have no bounds.
Services are symmetric; the runs with symmetry check no liveness.

## 4. Assumptions and fairness

*Constants* (named `ASSUME`s, evaluated by the runs and used by the proofs):
CPUs are a finite set of numbers; `nobody` is no service; nodes and sibling maps
range over the CPUs; requests have passed the schema; the two pools of one
configuration are disjoint (`CpuPools.validate_disjoint`); the first state file
was written by an allocator, so that it is well-formed (`WellFormed` in
`Ledger`). The constants of the default count make sense: it is neither negative
nor more than there is (`HeuristicAssumption`). In the store: the values standing for no process, no replacement and
a torn file are none of the ordinary ones.

*Environment.* `flock` excludes and is dropped when its holder dies. A rename is
atomic. A successful `fsync` leaves exactly what is visible on the disk; after a
failed one anything written since the last successful one may be there. Linux
lists only online CPUs in a node. The real file system may reorder less than
that. snapd commits the option and the record of a hook in one transaction. A
connection beyond the backlog waits outside, and is no step of the model; replies
are short, so that `sendall` either hands them to the kernel or finds the
connection closed.

*Fairness.* `FairSpec` of `StateStore` assumes weak fairness of `Step(p)` for each
process: a system call returns, with success or failure, and the process
goes on. The code between the calls is straight-line. `FairSpec` of `Daemon`
assumes weak fairness of `Step`, that is, the daemon goes on wherever it does not
wait in `accept` or `recv` (a handler ends, since the store's lock is released),
and of `Start`: snapd starts the daemon again. That systemd gives up after too
many failures in a short time is not modelled; an operator would start it then.
Nothing is assumed of who gets the lock, of operators, clients or crashes: that
clients do not stay silent is a premise of `Served`, that the file is repaired one
of `ComesBack`. All other properties are safety properties of `Spec`.

## 5. What is proved

For all values of the constants under the assumptions above, without any bound;
a theorem which needs more of the constants names it in its `ASSUME`.

**Allocations.** None of the invariants is inductive by itself: they speak
of what a commit writes, which depends on checks made steps before, since when
CPUs may have gone offline. `AllocationsProofs!IInv` therefore records where a
candidate comes from: before the application it is the loaded ledger; a
selection still satisfies the checks it was made under; a candidate ready for the
commit is the ledger changed by exactly one of `RemoveServiceAllocation`,
`SubtractCpus`, `AllocateCores` and `ApplyNumaExplicit`, under that
operation's checks. The steps:

1. Each of these four keeps `WellFormed` and exact caches (`Sound`), and what
   it does to every service is a lemma.
2. `Init => IInv`, each action keeps `IInv`: `Invariance`.
3. `TypeCorrect`, `Exclusivity`, `Reloadability`, `Capacity`, `GrantIsExact`;
   and from `IInv` and the effects the action
   properties `ForeignClaims`, `MetadataKept`, `OwnClaims`, `PoolGrants`,
   `Latch`. Four of these, `ForeignClaims`, `MetadataKept`,
   `PoolGrants` and `Latch`, say directly what the refinements below say in
   abstract terms; the runs check the refinements only.
4. `NodeReplaced` holds whatever goes offline: `IInv` says that the steady CPUs
   are online and that those which the service owns in the node are in the
   listing which it was found with (`ListedInNode`); the effects of
   `SubtractCpus` and `ApplyNumaExplicit` do the rest.
5. So does `SteadyStable`. `KeepsOwn` is the invariant to add to `IInv`: what is
   selected for a protected owner is part of what it has, or contains all of it
   which is steady and within reach of the request. That follows from the
   stable selector (`StableKeeps`) and from the owner being a candidate for all
   of its steady CPUs (`OwnAreCandidates`). `ProtectedStable`, which says it of all
   CPUs, holds of every behaviour in which no CPU goes offline
   (`Spec /\ []AllOnline`), as in the run `one_pool`, and of no others (section 7):
   then every CPU is steady, or no claims in the node are replaced (`Steady`).
6. `PromiseProofs`: `Refinement`, that `Spec` implements `Ownership` (a commit
   is a grant or a release by its effect, every other step a stutter),
   `CommitRefinement`, that it uses the file as `AtomicCommit` allows, and
   `PoolRefinement`, that it implements `PoolClaims`: by the same effects, with
   one more invariant, that a request is served in a pool which can be selected.

**Selection.** `SelectionProofs` is about the specification of the run
`selection`, with any host, bounds and constants. Its invariant says that an
answer is that of the algorithm to the question; the rest are lemmas on the
operators. The groups of siblings are defined by recursion over the candidates
left: `GroupsPartition`, they are disjoint and cover the candidates, whatever
the sibling map says. Pairs, singles and leftovers are then initial segments of
pieces of that partition (`LowestSize`), which gives the exact sizes:
`SelectionsExact` and `SelectionsStable`. For `SelectionsWhole` the groups are
the cores cut down to the candidates (`GroupsAreCores`), the pairs are whole cores
before anything else is taken, and no other choice has room for more
(`MostCores`). `RangesReadBack`: the writer walks the CPUs upwards, and at each
point what it has written and the range it is in make up the CPUs visited
(`WalkVisited`). `PresentListsTaken`, `PercentagesLeast` and `DefaultsMonotonic`
are arithmetic. The last needs `SoundHeuristic`: something is reserved on
a large system, less than 100% elsewhere, and the default just above the threshold
is no lower than at it. With 100, 16 and 80 that is 80 at the threshold and 85 above.

**Hugepages.** Reservations are sums over services of sums over the entries in
a list; `SetLemmas` says how such a sum changes with one summand (`SumUpdate`),
and the lemmas on `EntriesFor` what replacing and removing do to a list with any
number of entries for a key. `TypeCorrect` needs nothing more. The others need
what the documentation says of a request, a positive count or -1
(`DocumentedCounts`; the code admits others, section 7): `WholeRequestRecorded`
by the effect of `Replacement`; `GrowthWithinCounts` and `PositiveCounts` if the
first file has positive counts as well (`PositiveFiles`), by `Known`: what a request
has read of the records is still so when it is recorded, since nobody else
records, and it fits. `ReservationsWithinPages` needs that the first reservations
fit (`FittingFiles`), and `CountsRead`: what was read of a pool
which nobody resizes is at most what it has.

**StateStore.** Nor are its properties inductive: whether a file is in doubt
depends on how far the holder of the lock has got. `StateStoreProofs!IInv` says,
for each place in the protocol, what is on the disk and how far it is latched
(`Progress`), that only the holder is at work, and that a doubt concerns one
section (`DoubtIsSmall`). From `Invariance` follow
`TypeCorrect`, `LatchCoversDoubt`, `FilesAreWhole`, `NoLostUpdate`,
`ResultsAreTrue`, and `CommitsAtomically`, the implementation of `AtomicCommit`:
while a transaction runs, callers see what it has read; a power loss which
takes a change back is the abstract `Revert`, which needs the latch.

**CpuPools.** The properties are nearly inductive, but for the time between two
reads: `CpuPoolsProofs!IInv` adds what the hook knows (`HookKnows`: the claims it
has read lie in the pool it records, and without a record it proposes what was
accepted before), what a daemon has loaded from which option, that the snapshot
of a listing is of the loaded pool, and that claims of the two pools are
disjoint. The theorems are
`TypeCorrect`, `NeverIsolated`, `RecordTheorem`, `Coverage`, `Stranding`,
`Truthfulness` and `PoolRefinement`, the implementation of `PoolClaims`.

**Daemon.** `ReportsSettle` is about what was told; that it stays true needs that
no request is served twice or out of order. `DaemonProofs!IInv`: the tries of a
client stand in the queue in their order, behind the one being served
(`QueueInOrder`, `ServedInOrder`), none of them has been answered or has taken
effect, a try not made has left nothing (`Untried`), and the answers given, as
well as the reply which is about to be, agree with what has taken effect
(`AnswersSettled`, `ReplySettled`). From it follow
`ReportsSettled` and `NothingLate`, and `TypeCorrect` besides.

**Induction over data.** The induction theorems of the library take an
operator as parameter, which the provers cannot instantiate. `SetLemmas` argues by
the least counterexample instead: the subsets of a finite set for which a
statement fails have a minimal one (`LeastSet`), from the well-foundedness of
the strict subset order. `SubsetRecursion` derives from it that a recursion
which uses a set up member by member defines a function, which is what the
recursive functions of `CpuSelection` and the folds of the library come down to.

Together: whatever processes die, calls fail and CPUs vanish, no CPU gets two
owners and no owner loses CPUs, pool or protection except by the rules, as long
as the file is changed through the handlers; and what a handler selects has the
size that it asks for.

## 6. What is only model-checked

* `LockReleased`, `Served`, `ComesBack`: liveness under fairness, which the
  provers do not reach.
* The violations of section 7.

Every other property of a run is a theorem: with `[]AllOnline` as a premise for
`ProtectedClaimsStable`, and with the hypotheses on
constants named above for `DefaultReservesMonotonically` and three of
`Hugepages`. The instances of the runs satisfy all of these, except
those which are to show a violation. The other way round, the type invariants of
`StateStore` and `CpuPools` are proved and no run checks them.

## 7. Disagreements between code and documentation

1. *A node release releases the node* (`hotplug_release`; `README.md:56`). A
   claim on an offline CPU of the node is not listed: it survives, and the reply
   reports success. A NUMA grant overrides a node (`README.md:55`) only as far,
   for the same reason. A node whose cpulist cannot be read just then is released and
   overridden with nothing removed, likewise with success. No other claim
   survives: `SteadyNodeReplaced`.
2. *Protected retries keep their CPUs* (`hotplug_stable`;
   `docs/nonpreemptive-allocations.md:93`). If an own CPU is offline just while
   the candidates are listed, and back when the grant is applied, the retry
   swaps it for another. That is the only way: `SteadyClaimsStable`.
3. *Hugepage counts* (`hugepages_negative`; `schemas.py:129`, `README.md:483`).
   A count below -1 is neither refused nor a removal: it is recorded, and
   lowers the sum of the reservations against which the others are checked.
4. *Releases stay available* (`claims_reachable`; `daemon_handler.py:100`). A
   general claim made after the hook has accepted that the pool is switched off,
   and before the restart, is out of reach afterwards: the pool cannot be
   selected, neither to list nor to release. The claim is kept, and in reach
   again once the operator configures a pool; `StrandedOnlyIfLate` says that
   this is the only case.
5. *Corruption ends the daemon* (`daemon_corruption`; `daemon_handler.py:494`,
   `state_store.py:103`). The hugepage and memory handlers make an error reply of
   the exception, and the daemon serves on until the next CPU request or listing
   ends it. No handler writes to a file it could not read.

Seen in passing, without a run: two examples in the docstring of
`calculate_cpu_pinning`. `cpu_pinning.py:81-82` promises `('24-39', '0-23')` for 40
CPUs; 40 is no large system, and the code returns 32 dedicated CPUs.
`cpu_pinning.py:91-92` promises `('0-3', '')` for a negative count; the code takes
it for 0, and returns `('3', '0-2')`.

## 8. Not modelled

* The characters of range lists and requests, JSON, wording, logging and response
  models beyond the sets, counts and policies they carry. Requests are modelled
  after validation; those which fail it are one class of `Daemon`.
* The in-memory copies of the databases: every handler loads before it reads.
  The cache of explicit CPUs is left out, because nothing reads it.
* `clear_all_allocations` of both databases and calls of `allocate_cores` with a
  range string: no handler makes them.
* In `Allocations`, a power loss which takes back a latched commit, and the
  latch failing twice; `StateStore` has both. In `Hugepages` the same.
* Temporary files left by a crash: nothing reads them.
* Two daemons at once; nested transactions (`flock` would wait for itself).
* In `Daemon`, a transaction is atomic, and the file becomes corrupt at rest only,
  not between the read and the rename of a transaction: `StateStore` shows what
  happens there. Power loss is left to `StateStore` too. A request is one
  write: one which arrives in parts, or exceeds the 1024 bytes of `recv`, is cut
  off by the code, and junk.
* Logging and packaging. The daily `logrotate` only
  copies the state file, from one open file, which a rename does not change.
* `select` of a lazily built provider (`get_cpu_pool_provider`): only callers in a
  source checkout use it.

## 9. Plan

All components with behaviour of their own are modelled, and every safety property
of a run is proved. What could be added:

1. **Daemon and store together**: the class of a request refined to the steps of
   a transaction, so that a corruption or a power loss in its middle is seen by
   the clients.
2. **Hugepages as a user of `AtomicCommit`**, with the recording in two steps,
   as in `Allocations`.

## 10. Running it

```
tlc -workers 2 -config MCStateStore.cfg MCStateStore
tlapm StateStoreProofs.tla
```

`PROJECT.json` lists every run with its module and configuration, the lines of
the repository that each definition stands for, and for each property a
faulty variant that violates it. The longest runs take a minute or two; the
proofs take a few minutes from nothing.
