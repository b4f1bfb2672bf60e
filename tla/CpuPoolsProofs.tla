--------------------------- MODULE CpuPoolsProofs ---------------------------
(***************************************************************************)
(* Theorems about module CpuPools, for all hosts, command lines and        *)
(* settings.                                                               *)
(***************************************************************************)
EXTENDS CpuPools, TLAPS

\* What the hook has found out when it gets to a place.
HookKnows ==
    hook # NoHook =>
        /\ hook.at # "parse" => hook.proposed # Malformed
        /\ hook.at = "record" \/ hook.recorded => hook.claimed \subseteq hook.proposed.cpus
        /\ hook.at = "finish" /\ ~hook.recorded => Normalized(hook.proposed) = accepted

\* What a daemon has loaded comes from one command line and one option.
DaemonLoaded ==
    /\ daemon.cpus["isolated"] \in {{}, isolated}
    /\ daemon.cpus["general"] \subseteq daemon.from.cpus
    /\ daemon # Stopped /\ "general" \notin daemon.selectable
           => daemon.from \in {Unset, Isolated}

\* A listing is overtaken by every change of the claims and by a stop.
ListingCurrent ==
    /\ daemon = Stopped => listing = NoListing
    /\ listing # NoListing => listing.eligible \subseteq daemon.cpus[listing.pool]
    /\ listing.at = "told" =>
          /\ listing.remaining = listing.eligible \ AllClaims
          /\ listing.unavailable = claims[listing.pool] \ listing.eligible

ClaimsDisjoint == claims["isolated"] \cap claims["general"] = {}

IInv ==
    /\ TypeOK
    /\ HookKnows
    /\ DaemonLoaded
    /\ ListingCurrent
    /\ ClaimsDisjoint
    /\ GeneralNeverIsolated
    /\ RecordMatchesOption
    /\ AcceptedPoolCoversClaims

-----------------------------------------------------------------------------
(* The kinds of option and record are apart, and a record keeps the CPUs.  *)

LEMMA Kinds ==
    /\ Unset # Isolated /\ Unset # Malformed /\ Isolated # Malformed
    /\ \A o \in Lists : o \notin {Unset, Isolated, Malformed, Never} /\ o.cpus \subseteq CPUs
    /\ Never \notin Options
    /\ Unset.cpus = {} /\ Isolated.cpus = {} /\ Malformed.cpus = {} /\ Never.cpus = {}
    /\ \A o \in Options : o.cpus \subseteq CPUs
BY DEF Unset, Isolated, Malformed, Never, Lists, Options

\* Normalisation keeps the CPUs, and leaves the settings which are accepted.
LEMMA NormalizedKeeps ==
    ASSUME NEW o \in Options
    PROVE  /\ Normalized(o).cpus = o.cpus
           /\ o # Malformed => Normalized(o) \in {Isolated} \cup Lists
BY Kinds DEF Normalized, Options

\* A place in the hook is a place of a hook which runs.
LEMMA HookRuns ==
    ASSUME TypeOK, hook # NoHook
    PROVE  hook \in Hooks
BY DEF TypeOK

-----------------------------------------------------------------------------
(* The invariant is inductive                                              *)

LEMMA Initially == Init => IInv
BY SettingsAssumption, IsolationAssumption, Kinds
   DEF Init, IInv, TypeOK, HookKnows, DaemonLoaded, ListingCurrent, ClaimsDisjoint,
       GeneralNeverIsolated, RecordMatchesOption, AcceptedPoolCoversClaims,
       NoHook, Stopped, NoListing, Pools, Options


\* Steps of the hook before the commit.
LEMMA HookKeeps ==
    ASSUME IInv, UNCHANGED << kernel, snapd, daemon, claims, listing, late >>,
           hook' \in {NoHook} \cup Hooks, HookKnows'
    PROVE  IInv'
BY DEF IInv, TypeOK, DaemonLoaded, ListingCurrent, ClaimsDisjoint, AllClaims,
       GeneralNeverIsolated, RecordMatchesOption, AcceptedPoolCoversClaims,
       kernel, snapd

LEMMA HookBeginKeeps ==
    ASSUME IInv, NEW o \in Settings, HookBegin(o)
    PROVE  IInv'
<1>1. hook' \in Hooks
  BY DEF HookBegin, Hooks
<1>2. HookKnows'
  BY DEF HookBegin, HookKnows
<1> QED BY <1>1, <1>2, HookKeeps DEF HookBegin

LEMMA HookParseKeeps ==
    ASSUME IInv, HookParse
    PROVE  IInv'
<1>1. hook \in Hooks
  BY HookRuns DEF HookParse, IInv, NoHook
<1>2. hook' \in Hooks
  BY <1>1 DEF HookParse, Proceed, Hooks
<1>3. HookKnows'
  BY <1>1 DEF HookParse, Proceed, HookKnows, Hooks, IInv, snapd, NoHook
<1> QED BY <1>2, <1>3, HookKeeps DEF HookParse, Proceed

LEMMA HookPresentKeeps ==
    ASSUME IInv, HookPresent
    PROVE  IInv'
<1>1. hook \in Hooks
  BY HookRuns DEF HookPresent, IInv, NoHook
<1>2. hook' \in Hooks /\ HookKnows'
  BY <1>1 DEF HookPresent, Proceed, HookKnows, Hooks, IInv, NoHook
<1> QED BY <1>2, HookKeeps DEF HookPresent, Proceed

LEMMA HookIsolatedKeeps ==
    ASSUME IInv, HookIsolated
    PROVE  IInv'
<1>1. hook \in Hooks
  BY HookRuns DEF HookIsolated, IInv, NoHook
<1>2. hook' \in Hooks /\ HookKnows'
  BY <1>1 DEF HookIsolated, Proceed, HookKnows, Hooks, IInv, NoHook
<1> QED BY <1>2, HookKeeps DEF HookIsolated, Proceed

LEMMA HookClaimsKeeps ==
    ASSUME IInv, HookClaims
    PROVE  IInv'
<1>1. hook \in Hooks
  BY HookRuns DEF HookClaims, IInv, NoHook
<1>2. claims["general"] \subseteq CPUs
  BY DEF IInv, TypeOK, Pools
<1>3. hook' \in Hooks
  BY <1>1, <1>2 DEF HookClaims, Hooks
<1>4. /\ hook # NoHook
      /\ hook'.at = "record" /\ hook'.proposed = hook.proposed
      /\ hook'.claimed \subseteq hook'.proposed.cpus
  BY <1>1 DEF HookClaims, Covers, Hooks, NoHook
<1>5. hook.proposed # Malformed
  BY <1>4 DEF HookClaims, HookKnows, IInv
<1>6. HookKnows'
  BY <1>4, <1>5 DEF HookKnows
<1> QED BY <1>3, <1>6, HookKeeps DEF HookClaims

LEMMA HookRecordKeeps ==
    ASSUME IInv, HookRecord
    PROVE  IInv'
<1>1. hook \in Hooks
  BY HookRuns DEF HookRecord, IInv, NoHook
<1>2. hook' \in Hooks
  BY <1>1 DEF HookRecord, Hooks
<1>3. /\ hook # NoHook
      /\ hook'.proposed = hook.proposed /\ hook'.claimed = hook.claimed
      /\ hook'.recorded /\ hook'.at = "finish"
  BY <1>1 DEF HookRecord, Hooks, NoHook
<1>4. hook.proposed # Malformed /\ hook.claimed \subseteq hook.proposed.cpus
  BY <1>3 DEF HookRecord, HookKnows, IInv
<1>5. HookKnows'
  BY <1>3, <1>4 DEF HookKnows
<1> QED BY <1>2, <1>5, HookKeeps DEF HookRecord

LEMMA HookFailsKeeps ==
    ASSUME IInv, HookFails
    PROVE  IInv'
BY HookKeeps DEF HookFails, HookKnows

\* The record which is committed covers the claims the hook has read.
LEMMA HookCommitKeeps ==
    ASSUME IInv, HookCommit
    PROVE  IInv'
<1>1. hook \in Hooks /\ hook.proposed \in Options \ {Malformed}
  BY HookRuns, SettingsAssumption DEF HookCommit, IInv, HookKnows, NoHook, Hooks
<1>2. /\ Normalized(hook.proposed).cpus = hook.proposed.cpus
      /\ Normalized(hook.proposed) \in {Isolated} \cup Lists
  BY <1>1, NormalizedKeeps
<1>3. accepted' = Normalized(hook.proposed) /\ option' = hook.proposed
  BY <1>1 DEF HookCommit, IInv, HookKnows, NoHook
<1>4. claims["general"] \subseteq CPUs
  BY DEF IInv, TypeOK, Pools
<1>5. TypeOK'
  BY <1>1, <1>2, <1>3, <1>4 DEF HookCommit, IInv, TypeOK, kernel
<1>6. HookKnows' /\ RecordMatchesOption'
  BY <1>3 DEF HookCommit, HookKnows, RecordMatchesOption
<1>7. AcceptedPoolCoversClaims'
  <2>1. CASE hook.recorded
    <3>1. hook # NoHook
      BY DEF HookCommit, NoHook
    <3>2. hook.claimed \subseteq hook.proposed.cpus
      BY <2>1, <3>1 DEF IInv, HookKnows
    <3> QED BY <2>1, <3>2, <1>2, <1>3 DEF HookCommit, AcceptedPoolCoversClaims
  <2>2. CASE ~hook.recorded
    BY <2>2 DEF HookCommit, AcceptedPoolCoversClaims, IInv
  <2> QED BY <2>1, <2>2
<1> QED BY <1>5, <1>6, <1>7 DEF IInv, HookCommit, DaemonLoaded, ListingCurrent,
          ClaimsDisjoint, AllClaims, GeneralNeverIsolated, kernel

\* A daemon loads a general pool only where the kernel isolates nothing.
LEMMA StartKeeps ==
    ASSUME IInv, NEW isolationKnown \in BOOLEAN, NEW optionKnown \in BOOLEAN,
           Start(isolationKnown, optionKnown)
    PROVE  IInv'
<1> DEFINE general == GeneralCpus(option, isolationKnown, optionKnown)
           own     == IF isolationKnown THEN isolated ELSE {}
<1>1. general \subseteq CPUs /\ general \cap isolated = {}
  BY Kinds DEF GeneralCpus
<1>2. own \subseteq CPUs /\ own \in {{}, isolated}
  BY IsolationAssumption DEF IInv, TypeOK
<1>3. /\ daemon'.cpus["general"] = general
      /\ daemon'.cpus["isolated"] = own
      /\ daemon'.selectable = Selectable(option, optionKnown)
      /\ daemon'.from = option
  BY DEF Start, Pools
<1>4. daemon' \in Daemons
  BY <1>1, <1>2 DEF Start, Daemons, Pools, Selectable, IInv, TypeOK
<1>5. daemon' # Stopped
  BY <1>3, Kinds DEF Stopped, IInv, TypeOK
<1>6. DaemonLoaded'
  <2>1. general \subseteq option.cpus
    BY DEF GeneralCpus
  <2> QED BY <1>2, <1>3, <2>1 DEF DaemonLoaded, Selectable, Start, kernel
<1>7. listing' = NoListing
  BY DEF Start, IInv, ListingCurrent
<1>8. ListingCurrent'
  BY <1>5, <1>7 DEF ListingCurrent, NoListing
<1>9. GeneralNeverIsolated'
  BY <1>1, <1>3 DEF GeneralNeverIsolated, Start, kernel
<1> QED BY <1>4, <1>6, <1>8, <1>9
        DEF IInv, Start, TypeOK, HookKnows, ClaimsDisjoint, RecordMatchesOption,
            AcceptedPoolCoversClaims, kernel, snapd

LEMMA StoppedIsLoaded ==
    /\ \A p \in Pools : Stopped.cpus[p] = {}
    /\ Stopped.selectable = {}
    /\ Stopped.from.cpus = {}
BY DEF Stopped, Never

LEMMA StopKeeps ==
    ASSUME IInv, Stop
    PROVE  IInv'
<1>1. DaemonLoaded' /\ ListingCurrent' /\ GeneralNeverIsolated'
  BY StoppedIsLoaded
     DEF Stop, DaemonLoaded, ListingCurrent, GeneralNeverIsolated, NoListing, Pools
<1> QED BY <1>1
        DEF IInv, Stop, TypeOK, HookKnows, ClaimsDisjoint, RecordMatchesOption,
            AcceptedPoolCoversClaims, kernel, snapd

LEMMA RebootKeeps ==
    ASSUME IInv, NEW cpus \in Isolations, Reboot(cpus)
    PROVE  IInv'
<1>1. DaemonLoaded' /\ ListingCurrent' /\ GeneralNeverIsolated'
  BY StoppedIsLoaded
     DEF Reboot, DaemonLoaded, ListingCurrent, GeneralNeverIsolated, NoListing, Pools
<1>2. TypeOK'
  BY DEF Reboot, IInv, TypeOK, snapd
<1> QED BY <1>1, <1>2
        DEF IInv, Reboot, HookKnows, ClaimsDisjoint, RecordMatchesOption,
            AcceptedPoolCoversClaims, snapd

LEMMA GrantKeeps ==
    ASSUME IInv, NEW p \in Pools, NEW cpus \in SUBSET CPUs, Grant(p, cpus)
    PROVE  IInv'
<1>1. claims \in [Pools -> SUBSET CPUs] /\ claims' \in [Pools -> SUBSET CPUs]
  BY DEF Grant, IInv, TypeOK
<1>2. ClaimsDisjoint'
  BY <1>1 DEF Grant, Grantable, ClaimsDisjoint, IInv, Pools
<1>3. late' \subseteq CPUs
  BY DEF Grant, IInv, TypeOK
<1>4. AcceptedPoolCoversClaims'
  <2>1. CASE p = "isolated"
    BY <1>1, <2>1 DEF Grant, AcceptedPoolCoversClaims, IInv, Pools, snapd
  <2>2. CASE p = "general" /\ Normalized(daemon.from) # accepted
    BY <1>1, <2>2 DEF Grant, AcceptedPoolCoversClaims, IInv, Pools, snapd
  <2>3. CASE p = "general" /\ Normalized(daemon.from) = accepted
    <3>1. cpus \subseteq daemon.from.cpus
      BY <2>3 DEF Grant, Grantable, IInv, DaemonLoaded
    <3>2. Normalized(daemon.from).cpus = daemon.from.cpus
      BY Kinds DEF Normalized
    <3>3. cpus \subseteq accepted.cpus
      BY <2>3, <3>1, <3>2
    <3> QED BY <1>1, <2>3, <3>3 DEF Grant, AcceptedPoolCoversClaims, IInv, Pools, snapd
  <2> QED BY <2>1, <2>2, <2>3 DEF Pools
<1>5. ListingCurrent'
  BY DEF Grant, ListingCurrent, NoListing
<1> QED BY <1>1, <1>2, <1>3, <1>4, <1>5
        DEF IInv, Grant, TypeOK, HookKnows, DaemonLoaded, GeneralNeverIsolated,
            RecordMatchesOption, kernel, snapd

LEMMA ReleaseKeeps ==
    ASSUME IInv, NEW p \in Pools, NEW cpus \in SUBSET CPUs, Release(p, cpus)
    PROVE  IInv'
<1>1. claims \in [Pools -> SUBSET CPUs] /\ claims' \in [Pools -> SUBSET CPUs]
  BY DEF Release, IInv, TypeOK
<1>2. ClaimsDisjoint'
  BY <1>1 DEF Release, ClaimsDisjoint, IInv, Pools
<1>3. AcceptedPoolCoversClaims'
  BY <1>1 DEF Release, AcceptedPoolCoversClaims, IInv, Pools, snapd
<1>4. ListingCurrent'
  BY DEF Release, ListingCurrent, NoListing
<1> QED BY <1>1, <1>2, <1>3, <1>4
        DEF IInv, Release, TypeOK, HookKnows, DaemonLoaded, GeneralNeverIsolated,
            RecordMatchesOption, kernel, snapd

\* Steps which change the listing only.
LEMMA ListingKeeps ==
    ASSUME IInv, UNCHANGED << kernel, snapd, hook, daemon, claims, late >>,
           listing' \in Listings, ListingCurrent'
    PROVE  IInv'
BY DEF IInv, TypeOK, HookKnows, DaemonLoaded, ClaimsDisjoint, GeneralNeverIsolated,
       RecordMatchesOption, AcceptedPoolCoversClaims, kernel, snapd

LEMMA ListKeeps ==
    ASSUME IInv, NEW p \in Pools, NEW readable \in BOOLEAN, List(p, readable)
    PROVE  IInv'
<1>1. daemon # Stopped
  BY StoppedIsLoaded DEF List, Serving
<1>2. daemon.cpus[p] \subseteq CPUs
  BY <1>1 DEF IInv, TypeOK, Daemons
<1>3. listing' \in Listings
  BY <1>2 DEF List, Listings
<1>4. ListingCurrent'
  BY <1>1 DEF List, ListingCurrent
<1> QED BY <1>3, <1>4, ListingKeeps DEF List

LEMMA ListReplyKeeps ==
    ASSUME IInv, ListReply
    PROVE  IInv'
<1>1. listing \in Listings
  BY DEF ListReply, IInv, TypeOK, NoListing
<1>2. claims[listing.pool] \subseteq CPUs
  BY <1>1 DEF IInv, TypeOK, Listings
<1>3. listing' \in Listings
  BY <1>1, <1>2 DEF ListReply, Listings, Remaining
<1>4. ListingCurrent'
  BY <1>1 DEF ListReply, ListingCurrent, Listings, Remaining, AllClaims, IInv, NoListing
<1> QED BY <1>3, <1>4, ListingKeeps DEF ListReply

LEMMA HotplugKeeps ==
    ASSUME IInv, NEW c \in Hotpluggable, Hotplug(c)
    PROVE  IInv'
<1>1. TypeOK'
  BY PluggingAssumption DEF Hotplug, Replug, IInv, TypeOK, snapd
<1> QED BY <1>1
        DEF IInv, Hotplug, Replug, HookKnows, DaemonLoaded, ListingCurrent, AllClaims,
            ClaimsDisjoint, GeneralNeverIsolated, RecordMatchesOption,
            AcceptedPoolCoversClaims, snapd

LEMMA ReplugKeeps ==
    ASSUME IInv, NEW c \in Removable, Replug(c)
    PROVE  IInv'
<1>1. TypeOK'
  BY PluggingAssumption DEF Replug, IInv, TypeOK, snapd
<1> QED BY <1>1
        DEF IInv, Replug, HookKnows, DaemonLoaded, ListingCurrent, AllClaims,
            ClaimsDisjoint, GeneralNeverIsolated, RecordMatchesOption,
            AcceptedPoolCoversClaims, snapd

LEMMA StutterKeeps ==
    ASSUME IInv, UNCHANGED vars
    PROVE  IInv'
BY DEF IInv, vars, TypeOK, HookKnows, DaemonLoaded, ListingCurrent, AllClaims,
       ClaimsDisjoint, GeneralNeverIsolated, RecordMatchesOption,
       AcceptedPoolCoversClaims, kernel, snapd

\* The inductive invariant holds of every reachable state.
THEOREM Invariance == Spec => []IInv
<1>1. IInv /\ [Next]_vars => IInv'
  BY HookBeginKeeps, HookParseKeeps, HookPresentKeeps, HookIsolatedKeeps, HookClaimsKeeps,
     HookRecordKeeps, HookCommitKeeps, HookFailsKeeps, StartKeeps, StopKeeps, GrantKeeps,
     ReleaseKeeps, ListKeeps, ListReplyKeeps, HotplugKeeps, ReplugKeeps, RebootKeeps,
     StutterKeeps
     DEF Next
<1> QED BY Initially, <1>1, PTL DEF Spec

-----------------------------------------------------------------------------
(* What follows from the invariant                                         *)

\* The state keeps its type.
THEOREM TypeCorrect == Spec => []TypeOK
BY Invariance, PTL DEF IInv

\* No daemon loads as general what the kernel isolates, whatever was accepted
\* under an earlier command line and whatever could not be read.
THEOREM NeverIsolated == Spec => []GeneralNeverIsolated
BY Invariance, PTL DEF IInv

\* The hook's record is the record of the committed option.
THEOREM RecordTheorem == Spec => []RecordMatchesOption
BY Invariance, PTL DEF IInv

\* The accepted pool covers every general claim but the late ones.
THEOREM Coverage == Spec => []AcceptedPoolCoversClaims
BY Invariance, PTL DEF IInv

\* A daemon which runs with the accepted setting can select the general pool
\* unless nothing but late claims is in it: if it cannot, there is no general
\* pool, and the accepted one, which covers the other claims, is empty.
THEOREM Stranding == Spec => []StrandedOnlyIfLate
<1>1. ASSUME IInv
      PROVE  StrandedOnlyIfLate
  <2> SUFFICES ASSUME daemon # Stopped, Normalized(daemon.from) = accepted,
                      "general" \notin daemon.selectable
               PROVE  claims["general"] \subseteq late
    BY DEF StrandedOnlyIfLate
  <2>1. daemon.from \in {Unset, Isolated}
    BY <1>1 DEF IInv, DaemonLoaded
  <2>2. accepted = Isolated
    BY <2>1 DEF Normalized
  <2>3. accepted.cpus = {}
    BY <2>2, Kinds
  <2> QED BY <1>1, <2>3 DEF IInv, AcceptedPoolCoversClaims
<1> QED BY <1>1, Invariance, PTL

\* A listing keeps its promise while nothing is claimed or released: nothing
\* unavailable means that no claim blocks the pool, and free means free in both
\* pools.
THEOREM Truthfulness == Spec => []ListingsTruthful
<1>1. ASSUME IInv
      PROVE  ListingsTruthful
  <2> DEFINE p == listing.pool
  <2> SUFFICES ASSUME listing.at = "told"
               PROVE  /\ listing.unavailable = {} =>
                            \A c \in listing.remaining \cap online : Grantable(p, {c})
                      /\ \A c \in listing.eligible :
                            Grantable(p, {c}) => c \in listing.remaining \cup claims[p]
    BY DEF ListingsTruthful
  <2>1. listing # NoListing /\ p \in Pools
    BY <1>1 DEF NoListing, IInv, TypeOK, Listings
  <2>2. /\ listing.eligible \subseteq daemon.cpus[p]
        /\ listing.remaining = listing.eligible \ AllClaims
        /\ listing.unavailable = claims[p] \ listing.eligible
    BY <1>1, <2>1 DEF IInv, ListingCurrent
  <2>3. AllClaims = UNION {claims[q] : q \in Pools}
    BY DEF AllClaims, Pools
  <2>4. ASSUME listing.unavailable = {}, NEW c \in listing.remaining \cap online
        PROVE  Grantable(p, {c})
    BY <2>2, <2>3, <2>4 DEF Grantable
  <2>5. ASSUME NEW c \in listing.eligible, Grantable(p, {c})
        PROVE  c \in listing.remaining \cup claims[p]
    BY <2>1, <2>2, <2>5 DEF Grantable, AllClaims, Pools
  <2> QED BY <2>4, <2>5
<1> QED BY <1>1, Invariance, PTL

-----------------------------------------------------------------------------
(* The pools implement PoolClaims                                          *)

\* What a daemon has loaded, or has not, is a configuration of PoolClaims.
LEMMA LoadedIsConfig ==
    ASSUME IInv
    PROVE  Loaded \in PoolView!Configs
<1>1. daemon \in {Stopped} \cup Daemons
  BY DEF IInv, TypeOK
<1>2. daemon.cpus["isolated"] \cap daemon.cpus["general"] = {}
  BY DEF IInv, DaemonLoaded, GeneralNeverIsolated
<1>3. /\ daemon.cpus \in [Pools -> SUBSET CPUs]
      /\ daemon.selectable \in SUBSET Pools
  BY <1>1 DEF Stopped, Daemons
<1> QED BY <1>2, <1>3 DEF Loaded, PoolView!Configs, Pools

LEMMA InitialView == Init => PoolView!Init
<1> SUFFICES ASSUME Init
             PROVE  PoolView!Init
  OBVIOUS
<1>1. Loaded \in PoolView!Configs
  BY Initially, LoadedIsConfig
<1> QED BY <1>1 DEF PoolView!Init, PoolView!Disjoint, Init, Pools

\* A grant or a release stays in its pool.
LEMMA ClaimsView ==
    ASSUME IInv, IInv', NEW p \in Pools, NEW cpus \in SUBSET CPUs,
           Grant(p, cpus) \/ Release(p, cpus)
    PROVE  PoolView!Next
<1>1. claims \in [Pools -> SUBSET CPUs] /\ claims' \in [Pools -> SUBSET CPUs]
  BY DEF IInv, TypeOK
<1>2. PoolView!Disjoint(claims')
  BY DEF IInv, ClaimsDisjoint, PoolView!Disjoint, Pools
<1>3. p \in daemon.selectable /\ UNCHANGED daemon
  BY DEF Grant, Release, Serving
<1>4. CASE Grant(p, cpus)
  <2>1. claims' = [claims EXCEPT ![p] = @ \cup cpus]
    BY <1>4 DEF Grant
  <2>2. cpus # {} /\ claims[p] \cup cpus \subseteq daemon.cpus[p]
    BY <1>4 DEF Grant, Grantable
  <2>3. PoolView!Grant(p)
    BY <1>1, <1>2, <1>3, <2>1, <2>2 DEF Loaded, PoolView!Grant
  <2> QED BY <1>3, <2>3 DEF Loaded, PoolView!Next, PoolView!Change
<1>5. CASE Release(p, cpus)
  <2>1. claims' = [claims EXCEPT ![p] = @ \ cpus]
    BY <1>5 DEF Release
  <2>2. PoolView!Release(p)
    BY <1>1, <1>3, <2>1 DEF Loaded, PoolView!Release
  <2> QED BY <1>3, <2>2 DEF Loaded, PoolView!Next, PoolView!Change
<1> QED BY <1>4, <1>5

LEMMA ViewStep ==
    ASSUME IInv, IInv', [Next]_vars
    PROVE  [PoolView!Next]_(PoolView!vars)
<1>1. Loaded' \in PoolView!Configs
  <2>1. daemon' \in {Stopped} \cup Daemons
    BY DEF IInv, TypeOK
  <2>2. daemon'.cpus["isolated"] \cap daemon'.cpus["general"] = {}
    BY DEF IInv, DaemonLoaded, GeneralNeverIsolated
  <2>3. /\ daemon'.cpus \in [Pools -> SUBSET CPUs]
        /\ daemon'.selectable \in SUBSET Pools
    BY <2>1 DEF Stopped, Daemons
  <2> QED BY <2>2, <2>3 DEF Loaded, PoolView!Configs, Pools
<1>2. CASE \E p \in Pools, cpus \in SUBSET CPUs : Grant(p, cpus) \/ Release(p, cpus)
  BY <1>2, ClaimsView
<1>3. CASE UNCHANGED claims
  BY <1>1, <1>3 DEF PoolView!Next, PoolView!Restart
<1> QED BY <1>2, <1>3
   DEF Next, vars, HookBegin, HookParse, HookPresent, HookIsolated, Proceed, HookClaims,
       HookRecord, HookCommit, HookFails, Start, Stop, List, ListReply, Hotplug, Replug,
       Reboot, snapd, kernel

\* The pools which daemons load are disjoint at all times, and nothing but
\* grants and releases in a selectable pool changes a claim.
THEOREM PoolRefinement == Spec => ImplementsPoolClaims
<1>1. IInv /\ IInv' /\ [Next]_vars => [PoolView!Next]_(PoolView!vars)
  BY ViewStep
<1> QED BY InitialView, <1>1, Invariance, PTL DEF Spec, ImplementsPoolClaims, PoolView!Spec
=============================================================================
