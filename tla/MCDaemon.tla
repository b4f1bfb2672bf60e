------------------------------ MODULE MCDaemon ------------------------------
(***************************************************************************)
(* Two clients of a daemon, each with two tries, for module Daemon.        *)
(***************************************************************************)
EXTENDS Daemon

CONSTANTS a, b   \* clients

\* Between them they use every class of requests.  Each can change something
\* and ask for the report of it.
SomeRequests(c) ==
    IF c = a THEN {"cpus", "listing"} ELSE {"junk", "memory", "hugepages"}

ClassesOf == [c \in Clients |-> SomeRequests(c)]
=============================================================================
