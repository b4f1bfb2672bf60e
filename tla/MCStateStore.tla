---------------------------- MODULE MCStateStore ----------------------------
(***************************************************************************)
(* The state store with the two sections of the state file.                *)
(***************************************************************************)
EXTENDS StateStore

CONSTANTS daemon, tool   \* processes; tool may be the recovery of an operator

TwoSections == {"allocations_db", "hugepages_db"}
=============================================================================
