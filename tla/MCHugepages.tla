---------------------------- MODULE MCHugepages ----------------------------
(***************************************************************************)
(* Small hosts, requests and state files for module Hugepages.             *)
(***************************************************************************)
EXTENDS Hugepages, TLC

CONSTANTS a, b   \* services

ServiceSymmetry == Permutations(Services)

\* Pages of two sizes on a node.
Small == << 0, 2048 >>
Huge  == << 0, 1048576 >>

RequestsFor(keys, counts) ==
    [service_name : Services, key : keys, hugepages_requested : counts]

NoRecords == [s \in Services |-> << >>]

\* An older version may have left two entries for one key.
Duplicates(s) == [NoRecords EXCEPT ![s] = << [key |-> Small, count |-> 1],
                                             [key |-> Small, count |-> 2] >>]

-----------------------------------------------------------------------------
(* Three small pages and a pool of huge ones which is resized              *)

BothSizes     == {Small, Huge}
OnlyHuge      == {Huge}
ThreeAndOne   == Small :> 3 @@ Huge :> 1
SomeRequests  == RequestsFor({Small}, {-1, 1, 3}) \cup RequestsFor({Huge}, {-1, 2})
NewOrDuplicates == {NoRecords} \cup {Duplicates(s) : s \in Services}

-----------------------------------------------------------------------------
(* Counts below -1, which the schema admits                                *)

OnlySmall      == {Small}
ThreePages     == Small :> 3
NegativeCounts == RequestsFor(OnlySmall, {-2, -1, 3})
=============================================================================
