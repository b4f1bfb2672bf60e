------------------------------ MODULE Ownership ------------------------------
(***************************************************************************)
(* What the allocator promises its clients about who owns which CPU, with  *)
(* no handlers, transactions, eligibility or selection: README.md and      *)
(* docs/nonpreemptive-allocations.md ("Policy and compatibility rules") as *)
(* a state machine of two steps, a grant and a release.                    *)
(***************************************************************************)

CONSTANTS
    CPUs,
    Services,
    Pools,
    Nobody,   \* owns the free CPUs
    NoPool    \* the home of a service which owns nothing

VARIABLES
    owner,      \* the one owner of each CPU
    pinned,     \* CPUs granted through a NUMA request
    protected,  \* services with a non-preemptive policy
    home        \* the pool of each owner

vars == << owner, pinned, protected, home >>

Held(s) == {c \in CPUs : owner[c] = s}

TypeOK ==
    /\ owner \in [CPUs -> Services \cup {Nobody}]
    /\ pinned \subseteq {c \in CPUs : owner[c] # Nobody}
    /\ protected \subseteq {s \in Services : Held(s) # {}}
    /\ home \in [Services -> Pools \cup {NoPool}]
    /\ \A s \in Services : home[s] = NoPool <=> Held(s) = {}

\* Any claims may have been recorded before.
Init == TypeOK

-----------------------------------------------------------------------------

\* A CPU which s may be granted in pool p: its own, a free one, or, unless it
\* asks for protection, an ordinary unprotected one of its pool.
MayTake(s, p, protect, c) ==
    \/ owner[c] \in {s, Nobody}
    \/ /\ ~protect
       /\ c \notin pinned
       /\ owner[c] \notin protected
       /\ home[owner[c]] = p

\* Metadata follows ownership: a service which owns nothing any more is
\* neither protected nor at home in a pool.
Settle(s, p, protect) ==
    LET Owners == {owner'[c] : c \in CPUs}
    IN  /\ protected' = (protected \cup IF protect THEN {s} ELSE {}) \cap Owners
        /\ home' = [t \in Services |-> IF t \notin Owners THEN NoPool
                                       ELSE IF t = s THEN p ELSE home[t]]

\* Service s replaces its claims by others.
Grant(s, p, protect) ==
    LET cpus == Held(s)'
    IN  /\ cpus # {}
        /\ Held(s) # {} => home[s] = p
        /\ s \in protected => protect
        /\ \A c \in cpus : MayTake(s, p, protect, c)
        /\ owner' = [c \in CPUs |-> IF c \in cpus THEN s
                                    ELSE IF owner[c] = s THEN Nobody ELSE owner[c]]
        /\ pinned' \in SUBSET CPUs
        /\ pinned' \ cpus = pinned \ (cpus \cup Held(s))
        /\ Settle(s, p, protect)

\* Service s gives up some of its claims.
Release(s) ==
    LET cpus == Held(s) \ Held(s)'
    IN  /\ cpus # {}
        /\ owner' = [c \in CPUs |-> IF c \in cpus THEN Nobody ELSE owner[c]]
        /\ pinned' = pinned \ cpus
        /\ Settle(s, home[s], FALSE)

Next ==
    \E s \in Services :
        \/ \E p \in Pools, protect \in BOOLEAN : Grant(s, p, protect)
        \/ Release(s)

Spec == Init /\ [][Next]_vars
=============================================================================
