--------------------------- MODULE MCAllocations ---------------------------
(***************************************************************************)
(* Small hosts, requests and configurations for module Allocations.        *)
(***************************************************************************)
EXTENDS Allocations, TLC

CONSTANTS a, b, c   \* services

ServiceSymmetry == Permutations(Services)

\* Four CPUs: two nodes of one two-thread core each.
TwoNodes    == {0, 1}
TwoNodeCpus == 0 :> {0, 1} @@ 1 :> {2, 3}
TwoCores    == {0 :> {0, 1} @@ 1 :> {0, 1} @@ 2 :> {2, 3} @@ 3 :> {2, 3}}

Cores(services, pools, policies, counts) ==
    [ action : {"allocate_cores"}, service_name : services, pool : pools,
      preemption_policy : policies, num_of_cores : counts ]

Percent(services, pools, policies, percents) ==
    [ action : {"allocate_cores_percent"}, service_name : services, pool : pools,
      preemption_policy : policies, percent : percents ]

Numa(services, pools, policies, counts, nodes) ==
    [ action : {"allocate_numa_cores"}, service_name : services, pool : pools,
      preemption_policy : policies, num_of_cores : counts, numa_node : nodes ]

AnyPolicy == Policies \cup {Omitted}

Config(isolated, general, selectable) ==
    [ cpus       |-> [p \in Pools |-> IF p = "isolated" THEN isolated ELSE general],
      selectable |-> selectable ]

-----------------------------------------------------------------------------
(* One pool, every kind of request                                         *)

IsolatedOnly == {Config({0, 1, 2, 3}, {}, {"isolated"})}

OnePoolRequests ==
    Cores(Services, {"isolated"}, {Omitted, "non-preemptive"}, {-2, -1, 1, 2})
        \cup Percent(Services, {"isolated"}, {Omitted}, {0, 30})
        \cup Numa(Services, {"isolated"}, AnyPolicy, {-1, 1, 2}, {0, 1})
        \cup Numa(Services, {"isolated"}, {Omitted}, {-2, 0}, {0})

NewState == {EmptyLedger}

-----------------------------------------------------------------------------
(* CPUs going offline under requests                                       *)

\* One core per CPU, or sysfs reads which fail for some.
UnreliableCores == TwoCores \cup
    {0 :> {0} @@ 1 :> {0, 1} @@ 2 :> {2} @@ 3 :> {3}}

HotplugRequests ==
    Cores(Services, {"isolated"}, {Omitted, "non-preemptive"}, {-1, 0, 2})
        \cup Percent(Services, {"isolated"}, {"non-preemptive"}, {50})
        \cup Numa(Services, {"isolated"}, {Omitted, "non-preemptive"}, {-1, 1, 2}, {0})

-----------------------------------------------------------------------------
(* Both pools, restarts with other pools, claims of an older version, and  *)
(* CPUs going offline under requests                                       *)

ThreeCpuNodes == 0 :> {0, 1} @@ 1 :> {2}
ThreeCpuCores ==
    {0 :> {0, 1} @@ 1 :> {0, 1} @@ 2 :> {2}, 0 :> {0} @@ 1 :> {0, 1} @@ 2 :> {2}}

\* CPU 1 moves between the pools; the general pool is dropped; isolation
\* cannot be discovered, so that neither pool has any CPU.
ChangingPools ==
    { Config({0, 1}, {2}, Pools),
      Config({0}, {1, 2}, Pools),
      Config({0, 1, 2}, {}, {"isolated"}),
      Config({}, {}, Pools) }

PoolRequests ==
    Cores(Services, Pools, {Omitted, "non-preemptive"}, {-1, 2})
        \cup Percent(Services, {"general"}, {Omitted}, {100})
        \cup Numa(Services, Pools, {Omitted}, {-1, 1}, {0})
        \cup Numa(Services, {"isolated"}, {Omitted}, {1}, {1})
        \cup Numa(Services, Pools, {"non-preemptive"}, {1}, {0})

\* Claims without metadata, as an older version wrote them.
OldState(s) == [ EmptyLedger EXCEPT !.allocations[s] = {0, 2}, !.explicit[s] = {2} ]

NewOrOldState == {EmptyLedger} \cup {OldState(s) : s \in Services}
=============================================================================
