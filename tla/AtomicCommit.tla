---------------------------- MODULE AtomicCommit ----------------------------
(***************************************************************************)
(* What the state store promises its callers, as nobody can see the file   *)
(* while a transaction holds its lock (docs/nonpreemptive-allocations.md,  *)
(* "Persistence, uncertainty, and explicit recovery"): a proposed value    *)
(* replaces the visible one at once or not at all, an error which leaves   *)
(* that open blocks all further changes until an operator recovers, and a  *)
(* value which nothing blocks survives a power loss.                       *)
(***************************************************************************)

CONSTANTS
    Values,
    NoValue   \* nothing is proposed

VARIABLES
    value,     \* what readers see
    proposed,  \* the replacement which the transaction is writing
    blocked    \* the latch

vars == << value, proposed, blocked >>

Init ==
    /\ value \in Values
    /\ proposed = NoValue
    /\ blocked \in BOOLEAN

Propose ==
    /\ proposed = NoValue /\ ~blocked
    /\ proposed' \in Values
    /\ UNCHANGED << value, blocked >>

\* The transaction ends, in success, in an error, or in the death of its
\* process: the value is the old one or the new one, latched or not.
Settle ==
    /\ proposed # NoValue
    /\ value' \in {value, proposed}
    /\ blocked' \in BOOLEAN
    /\ proposed' = NoValue

\* An operator recovers, or fails to.  A power loss may do the same to the
\* latch: it never does both, change a value and unlatch it.
Relatch ==
    /\ proposed = NoValue
    /\ blocked' \in BOOLEAN
    /\ UNCHANGED << value, proposed >>

\* While the latch is set the storage may still lose the last change.
Revert ==
    /\ proposed = NoValue
    /\ blocked /\ blocked'
    /\ value' \in Values
    /\ UNCHANGED proposed

Next == Propose \/ Settle \/ Relatch \/ Revert

Spec == Init /\ [][Next]_vars
=============================================================================
