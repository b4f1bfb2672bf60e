----------------------------- MODULE PoolClaims -----------------------------
(***************************************************************************)
(* What a life of daemons, each with the pools it has frozen at its start, *)
(* may do to the claims made in the two pools (README.md, "CPU pools"): a  *)
(* daemon touches the claims of a pool only while it can select that pool, *)
(* grants only what lies in the pool and is claimed in no other, and only  *)
(* while the pool covers every claim made in it.  Restarts bring any two   *)
(* disjoint pools, and change no claim.                                    *)
(*                                                                         *)
(* The allocation handlers (module Allocations) take the pools as given,   *)
(* and the pool configuration (module CpuPools) takes the claims as given: *)
(* both implement this module.                                             *)
(***************************************************************************)

CONSTANTS
    CPUs,
    Pools

VARIABLES
    claims,   \* the CPUs claimed in each pool
    config    \* the pools of the running daemon

vars == << claims, config >>

\* The CPUs a daemon grants in each pool, and the pools it can select.
Configs == { c \in [cpus : [Pools -> SUBSET CPUs], selectable : SUBSET Pools] :
                 \A p, q \in Pools : p # q => c.cpus[p] \cap c.cpus[q] = {} }

Disjoint(c) == \A p, q \in Pools : p # q => c[p] \cap c[q] = {}

Init ==
    /\ claims \in [Pools -> SUBSET CPUs] /\ Disjoint(claims)
    /\ config \in Configs

Grant(p) ==
    /\ p \in config.selectable
    /\ claims' \in [Pools -> SUBSET CPUs] /\ Disjoint(claims')
    /\ claims'[p] # {} /\ claims'[p] \subseteq config.cpus[p]
    /\ \A q \in Pools \ {p} : claims'[q] = claims[q]

Release(p) ==
    /\ p \in config.selectable
    /\ claims' \in [Pools -> SUBSET CPUs]
    /\ claims'[p] \subseteq claims[p]
    /\ \A q \in Pools \ {p} : claims'[q] = claims[q]

Change == \E p \in Pools : Grant(p) \/ Release(p)

\* A change which the earlier daemon was making may just have happened.
Restart ==
    /\ config' \in Configs
    /\ Change \/ UNCHANGED claims

Next ==
    \/ Change /\ UNCHANGED config
    \/ Restart

Spec == Init /\ [][Next]_vars
=============================================================================
