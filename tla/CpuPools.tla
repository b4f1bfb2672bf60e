------------------------------ MODULE CpuPools ------------------------------
(***************************************************************************)
(* cpu_pool.py: how the pools come about which a daemon freezes at its     *)
(* start, and what a change of them does to claims made before.            *)
(*                                                                         *)
(* The general pool is a snap option.  Setting it runs the configure hook, *)
(* which validates it against the topology and the claims and records it   *)
(* as accepted; snapd commits the option and the record together, or       *)
(* neither.  The daemon goes on with the pools it has loaded until it is   *)
(* restarted.  Isolation is the kernel's and changes with a reboot; CPUs   *)
(* go offline and disappear at any time.                                   *)
(*                                                                         *)
(* Grants and releases are what module PoolClaims says of them; their      *)
(* handlers are the subject of module Allocations.  A listing takes its    *)
(* snapshot of the online CPUs before it reads the claims.                 *)
(***************************************************************************)

CONSTANTS
    CPUs,          \* the CPU ids which appear in topology or settings
    Isolations,    \* what the kernel may isolate, by its command line
    Settings,      \* what operators set the option cpu-pool to
    Hotpluggable,  \* CPUs which go offline and online
    Removable      \* CPUs which disappear from the present topology

Pools == {"isolated", "general"}

\* What the option cpu-pool may hold.  An empty string is malformed.
Unset     == [kind |-> "unset", cpus |-> {}]
Isolated  == [kind |-> "isolated", cpus |-> {}]
Malformed == [kind |-> "malformed", cpus |-> {}]
Lists     == [kind : {"list"}, cpus : SUBSET CPUs \ {{}}]
Options   == {Unset, Isolated, Malformed} \cup Lists

\* The record before the hook has ever accepted anything.
Never == [kind |-> "never", cpus |-> {}]

ASSUME IsolationAssumption == Isolations \subseteq SUBSET CPUs
ASSUME SettingsAssumption == Settings \subseteq Options
ASSUME PluggingAssumption == Hotpluggable \subseteq CPUs /\ Removable \subseteq CPUs

VARIABLES
    isolated,  \* the CPUs which the kernel isolates
    present,   \* the present topology
    online,    \* the online CPUs
    option,    \* cpu-pool, as committed by snapd
    accepted,  \* internal.validated-cpu-pool, likewise
    hook,      \* the configure hook, or NoHook
    daemon,    \* what the daemon has loaded, or Stopped
    claims,    \* the CPUs claimed in each pool, in the state file
    listing,   \* the last listing, while it has not been overtaken
    late       \* history: general claims made outside the accepted pool, by
               \* a daemon which had loaded another setting, since the hook
               \* read the claims

vars == << isolated, present, online, option, accepted, hook, daemon, claims,
           listing, late >>

kernel == << isolated, present, online >>
snapd  == << option, accepted >>

NoHook == [at |-> "none"]

Hooks == [ at       : {"parse", "present", "isolated", "claims", "record", "finish"},
           proposed : Settings,
           claimed  : SUBSET CPUs,   \* the general claims, as read
           recorded : BOOLEAN ]      \* has the hook set the record?

Stopped == [cpus |-> [p \in Pools |-> {}], selectable |-> {}, from |-> Never]

Daemons == [ cpus       : [Pools -> SUBSET CPUs],
             selectable : SUBSET Pools,
             from       : Options ]   \* the option at its start

NoListing == [at |-> "none"]

Listings == [ at          : {"snapshot", "told"},
              pool        : Pools,
              eligible    : SUBSET CPUs,
              remaining   : SUBSET CPUs,
              unavailable : SUBSET CPUs ]

Init ==
    /\ isolated \in Isolations
    /\ present = CPUs
    /\ online = CPUs
    /\ option = Unset
    /\ accepted = Never
    /\ hook = NoHook
    /\ daemon = Stopped
    /\ claims = [p \in Pools |-> {}]
    /\ listing = NoListing
    /\ late = {}

-----------------------------------------------------------------------------
(* The configure hook: validate_snap_configuration                         *)

\* The settings which mean the same have one record.
Normalized(o) == IF o = Unset THEN Isolated ELSE o

\* The operator sets the option; a refresh, or a change of another option,
\* sets it to what it is.
HookBegin(o) ==
    /\ hook = NoHook
    /\ hook' = [at |-> "parse", proposed |-> o, claimed |-> {}, recorded |-> FALSE]
    /\ UNCHANGED << kernel, snapd, daemon, claims, listing, late >>

Proceed(place) ==
    /\ hook' = [hook EXCEPT !.at = place]
    /\ UNCHANGED << kernel, snapd, daemon, claims, listing, late >>

\* What has been accepted before is accepted again, unseen.
HookParse ==
    /\ hook.at = "parse"
    /\ hook.proposed # Malformed
    /\ Proceed(IF Normalized(hook.proposed) = accepted THEN "finish"
               ELSE IF hook.proposed \in Lists THEN "present" ELSE "isolated")

HookPresent ==
    /\ hook.at = "present"
    /\ hook.proposed.cpus \subseteq present
    /\ Proceed("isolated")

HookIsolated ==
    /\ hook.at = "isolated"
    /\ hook.proposed.cpus \cap isolated = {}
    /\ Proceed("claims")

\* Faulty variant: switching the general pool off is not validated.
CoversIfConfigured(o, claimed) == o \in Lists => claimed \subseteq o.cpus

\* Without a general pool nothing may be claimed in it.
Covers(o, claimed) == claimed # {} => o \in Lists /\ claimed \subseteq o.cpus

HookClaims ==
    /\ hook.at = "claims"
    /\ Covers(hook.proposed, claims["general"])
    /\ hook' = [hook EXCEPT !.at = "record", !.claimed = claims["general"]]
    /\ UNCHANGED << kernel, snapd, daemon, claims, listing, late >>

\* Faulty variant: the record is not part of snapd's transaction.
HookRecordAtOnce ==
    /\ hook.at = "record"
    /\ accepted' = Normalized(hook.proposed)
    /\ hook' = [hook EXCEPT !.at = "finish", !.recorded = TRUE]
    /\ UNCHANGED << kernel, option, daemon, claims, listing, late >>

\* snapctl set, within the transaction.
HookRecord ==
    /\ hook.at = "record"
    /\ hook' = [hook EXCEPT !.at = "finish", !.recorded = TRUE]
    /\ UNCHANGED << kernel, snapd, daemon, claims, listing, late >>

\* The hook has succeeded, and snapd commits what was set.
HookCommit ==
    /\ hook.at = "finish"
    /\ option' = hook.proposed
    /\ IF hook.recorded
       THEN /\ accepted' = Normalized(hook.proposed)
            /\ late' = claims["general"] \ (hook.claimed \cup hook.proposed.cpus)
       ELSE UNCHANGED << accepted, late >>
    /\ hook' = NoHook
    /\ UNCHANGED << kernel, daemon, claims, listing >>

\* A check or a read has failed, the hook is killed, or snapd undoes the
\* change: nothing is committed.
HookFails ==
    /\ hook # NoHook
    /\ hook' = NoHook
    /\ UNCHANGED << kernel, snapd, daemon, claims, listing, late >>

-----------------------------------------------------------------------------
(* The start of the daemon: load_startup_pool                              *)

\* Faulty variant: the general pool is kept although it overlaps.
GeneralOverlapping(o, isolationKnown, optionKnown) ==
    IF optionKnown /\ isolationKnown /\ o \in Lists THEN o.cpus ELSE {}

\* Faulty variant: isolation which cannot be read is taken for none.
GeneralUnseparated(o, isolationKnown, optionKnown) ==
    IF /\ optionKnown
       /\ o \in Lists
       /\ isolationKnown => o.cpus \cap isolated = {}
    THEN o.cpus ELSE {}

\* The CPUs of the general pool: none unless everything could be read and the
\* pools are apart.
GeneralCpus(o, isolationKnown, optionKnown) ==
    IF /\ optionKnown /\ isolationKnown
       /\ o \in Lists
       /\ o.cpus \cap isolated = {}
    THEN o.cpus ELSE {}

\* Faulty variant: after a failed discovery there is no general pool.
SelectableWithCpus(o, optionKnown) ==
    {"isolated"} \cup IF o \in Lists /\ optionKnown THEN {"general"} ELSE {}

\* After a failed discovery the general pool can still be selected.
Selectable(o, optionKnown) ==
    {"isolated"} \cup IF optionKnown /\ o \in {Unset, Isolated} THEN {} ELSE {"general"}

Start(isolationKnown, optionKnown) ==
    /\ daemon = Stopped
    /\ daemon' = [ cpus       |-> [p \in Pools |->
                                      IF p = "general"
                                      THEN GeneralCpus(option, isolationKnown, optionKnown)
                                      ELSE IF isolationKnown THEN isolated ELSE {}],
                   selectable |-> Selectable(option, optionKnown),
                   from       |-> option ]
    /\ UNCHANGED << kernel, snapd, hook, claims, listing, late >>

\* snap restart, a refresh, or a crash.
Stop ==
    /\ daemon # Stopped
    /\ daemon' = Stopped
    /\ listing' = NoListing
    /\ UNCHANGED << kernel, snapd, hook, claims, late >>

-----------------------------------------------------------------------------
(* Grants and releases in a pool                                           *)

AllClaims == claims["isolated"] \cup claims["general"]

\* Nobody is served while a listing is.
Serving(p) == p \in daemon.selectable /\ listing.at # "snapshot"

\* What may be granted in a pool.  What is claimed in it may be granted again,
\* to its owner or by reclamation; what is claimed in another pool may not.
Grantable(p, cpus) ==
    /\ claims[p] \subseteq daemon.cpus[p]
    /\ cpus \subseteq daemon.cpus[p] \cap online
    /\ \A q \in Pools \ {p} : cpus \cap claims[q] = {}

Grant(p, cpus) ==
    /\ Serving(p)
    /\ cpus # {} /\ Grantable(p, cpus)
    /\ claims' = [claims EXCEPT ![p] = @ \cup cpus]
    /\ late' = IF p = "general" /\ Normalized(daemon.from) # accepted
               THEN late \cup (cpus \ (claims[p] \cup accepted.cpus))
               ELSE late
    /\ listing' = NoListing
    /\ UNCHANGED << kernel, snapd, hook, daemon >>

Release(p, cpus) ==
    /\ Serving(p)
    /\ cpus # {} /\ cpus \subseteq claims[p]
    /\ claims' = [claims EXCEPT ![p] = @ \ cpus]
    /\ listing' = NoListing
    /\ UNCHANGED << kernel, snapd, hook, daemon, late >>

-----------------------------------------------------------------------------
(* Listings: handle_list_allocations                                       *)

\* Online CPUs which cannot be read are none.
List(p, readable) ==
    /\ Serving(p)
    /\ listing' = [ at          |-> "snapshot",
                    pool        |-> p,
                    eligible    |-> IF readable THEN daemon.cpus[p] \cap online ELSE {},
                    remaining   |-> {},
                    unavailable |-> {} ]
    /\ UNCHANGED << kernel, snapd, hook, daemon, claims, late >>

\* Faulty variant: only the owners in the selected pool are subtracted.
RemainingInPool == listing.eligible \ claims[listing.pool]

Remaining == listing.eligible \ AllClaims

ListReply ==
    /\ listing.at = "snapshot"
    /\ listing' = [listing EXCEPT !.at = "told",
                                  !.remaining = Remaining,
                                  !.unavailable = claims[listing.pool] \ listing.eligible]
    /\ UNCHANGED << kernel, snapd, hook, daemon, claims, late >>

-----------------------------------------------------------------------------
(* The environment                                                         *)

Hotplug(c) ==
    /\ c \in present
    /\ online' = IF c \in online THEN online \ {c} ELSE online \cup {c}
    /\ UNCHANGED << isolated, present, snapd, hook, daemon, claims, listing, late >>

\* A CPU disappears, or comes back.
Replug(c) ==
    /\ present' = IF c \in present THEN present \ {c} ELSE present \cup {c}
    /\ online' = online \ {c}
    /\ UNCHANGED << isolated, snapd, hook, daemon, claims, listing, late >>

\* The host reboots, perhaps with another command line.
Reboot(cpus) ==
    /\ isolated' = cpus
    /\ online' = present
    /\ hook' = NoHook
    /\ daemon' = Stopped
    /\ listing' = NoListing
    /\ UNCHANGED << present, snapd, claims, late >>

-----------------------------------------------------------------------------

Next ==
    \/ \E o \in Settings : HookBegin(o)
    \/ HookParse
    \/ HookPresent
    \/ HookIsolated
    \/ HookClaims
    \/ HookRecord
    \/ HookCommit
    \/ HookFails
    \/ \E isolationKnown, optionKnown \in BOOLEAN : Start(isolationKnown, optionKnown)
    \/ Stop
    \/ \E p \in Pools, cpus \in SUBSET CPUs : Grant(p, cpus) \/ Release(p, cpus)
    \/ \E p \in Pools, readable \in BOOLEAN : List(p, readable)
    \/ ListReply
    \/ \E c \in Hotpluggable : Hotplug(c)
    \/ \E c \in Removable : Replug(c)
    \/ \E cpus \in Isolations : Reboot(cpus)

Spec == Init /\ [][Next]_vars

-----------------------------------------------------------------------------
(* Properties                                                              *)

TypeOK ==
    /\ isolated \in Isolations
    /\ present \subseteq CPUs /\ online \subseteq present
    /\ option \in Options
    /\ accepted \in {Never, Isolated} \cup Lists
    /\ hook \in {NoHook} \cup Hooks
    /\ daemon \in {Stopped} \cup Daemons
    /\ claims \in [Pools -> SUBSET CPUs]
    /\ listing \in {NoListing} \cup Listings
    /\ late \subseteq CPUs

\* No daemon ever grants as general what the kernel isolates: not after a
\* reboot with another command line, with a pool accepted before it, and not
\* if isolation could not be read at its start (README: "Failure to discover
\* isolated CPUs also blocks general grants").
GeneralNeverIsolated == daemon.cpus["general"] \cap isolated = {}

\* The record is that of the committed option, whatever hook fails or is
\* undone after it has recorded (the comment in validate_snap_configuration:
\* "failed changes cannot replace the last accepted pool").  A record ahead of
\* the option would let the hook accept the pool later without validation.
RecordMatchesOption ==
    \/ accepted = Never /\ option = Unset
    \/ accepted = Normalized(option)

\* The accepted pool covers every general claim, but for those which a daemon
\* started before has made outside of it since the hook read the claims
\* (README: "rejects settings that exclude existing general owners, even
\* offline ones", "Disabling a pool is rejected while it has claims", "A claim
\* made between hook validation and daemon restart can still conflict").
AcceptedPoolCoversClaims == claims["general"] \subseteq accepted.cpus \cup late

\* A daemon started with the accepted setting can select the general pool, and
\* so list and release the claims in it, unless all of them are such late
\* ones: no failed discovery, overlap or vanished CPU strands a claim.
StrandedOnlyIfLate ==
    /\ daemon # Stopped
    /\ Normalized(daemon.from) = accepted
    /\ "general" \notin daemon.selectable
    => claims["general"] \subseteq late

\* If a listing names no unavailable claims, every CPU it says is free can be
\* granted while it is online, whatever is set, accepted or unplugged
\* meanwhile; and what can be granted of the CPUs it has seen it says is free,
\* or shows with an owner in that pool.  A CPU which changed pools over a
\* reboot while it was claimed is neither.
ListingsTruthful ==
    listing.at = "told" =>
        /\ listing.unavailable = {} =>
              \A c \in listing.remaining \cap online : Grantable(listing.pool, {c})
        /\ \A c \in listing.eligible :
              Grantable(listing.pool, {c}) => c \in listing.remaining \cup claims[listing.pool]

\* validate_startup_pool: "Log pool/claim conflicts but keep introspection and
\* releases available."
ClaimsReachable ==
    daemon # Stopped => \A p \in Pools : claims[p] # {} => p \in daemon.selectable

-----------------------------------------------------------------------------

Loaded == [cpus |-> daemon.cpus, selectable |-> daemon.selectable]

PoolView == INSTANCE PoolClaims WITH config <- Loaded

\* The pools which daemons load are always disjoint, and nothing but grants
\* and releases in them touches a claim: not a hook, a start or a reboot.
ImplementsPoolClaims == PoolView!Spec
=============================================================================
