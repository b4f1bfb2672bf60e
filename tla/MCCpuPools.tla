----------------------------- MODULE MCCpuPools -----------------------------
(***************************************************************************)
(* Small hosts and settings for module CpuPools.                           *)
(***************************************************************************)
EXTENDS CpuPools

\* CPU 1 is isolated by one command line only; settings which name it, which
\* exclude a CPU granted before, and which switch the general pool off.
TwoCommandLines == {{0}, {0, 1}}
SomeSettings == {Unset, Malformed} \cup [kind : {"list"}, cpus : {{1, 2}, {2}}]
=============================================================================
