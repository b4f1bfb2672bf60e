---------------------------- MODULE PromiseProofs ----------------------------
(***************************************************************************)
(* The handlers implement the promise of module Ownership: every step maps *)
(* to a grant, a release or a stutter.                                     *)
(*                                                                         *)
(* A well-formed ledger and the abstract state tell the same story: the    *)
(* CPUs which the promise says a service holds are its claims.  A commit   *)
(* is then a grant or a release by the effect of its change on every       *)
(* service (AllocationsProofs).                                            *)
(*                                                                         *)
(* The handlers also use the state file as module AtomicCommit allows, and *)
(* treat the claims of a pool as module PoolClaims does.                   *)
(***************************************************************************)
EXTENDS AllocationsProofs

\* The owner of a CPU is the service which claims it.
LEMMA OwnerClaims ==
    ASSUME NEW l \in Ledgers, Exclusive(l)
    PROVE  /\ OwnerIn(l) \in [CPUs -> Services \cup {Nobody}]
           /\ \A c \in CPUs, s \in Services :
                  OwnerIn(l)[c] = s <=> c \in l.allocations[s]
           /\ \A c \in CPUs : OwnerIn(l)[c] = Nobody <=> c \notin Claims(l)
<1>1. ASSUME NEW c \in CPUs, c \in Claims(l)
      PROVE  /\ OwnerIn(l)[c] \in Services
             /\ c \in l.allocations[OwnerIn(l)[c]]
  <2>1. \E s \in Services : c \in l.allocations[s]
    BY <1>1 DEF Claims
  <2>2. OwnerIn(l)[c] = CHOOSE s \in Services : c \in l.allocations[s]
    BY <1>1 DEF OwnerIn
  <2> QED BY <2>1, <2>2
<1>2. ASSUME NEW c \in CPUs, c \notin Claims(l)
      PROVE  OwnerIn(l)[c] = Nobody
  BY <1>2 DEF OwnerIn
<1>3. OwnerIn(l) = [c \in CPUs |-> OwnerIn(l)[c]]
  BY DEF OwnerIn
<1>4. OwnerIn(l) \in [CPUs -> Services \cup {Nobody}]
  BY <1>1, <1>2, <1>3
<1>5. \A c \in CPUs : OwnerIn(l)[c] = Nobody <=> c \notin Claims(l)
  BY <1>1, <1>2, ServiceAssumption DEF Nobody
<1>6. ASSUME NEW c \in CPUs, NEW s \in Services
      PROVE  OwnerIn(l)[c] = s <=> c \in l.allocations[s]
  <2>1. ASSUME OwnerIn(l)[c] = s
        PROVE  c \in l.allocations[s]
    BY <1>1, <1>2, <2>1, ServiceAssumption DEF Nobody
  <2>2. ASSUME c \in l.allocations[s]
        PROVE  OwnerIn(l)[c] = s
    <3>1. c \in Claims(l)
      BY <2>2 DEF Claims
    <3>2. OwnerIn(l)[c] \in Services /\ c \in l.allocations[OwnerIn(l)[c]]
      BY <1>1, <3>1
    <3> QED BY <2>2, <3>2 DEF Exclusive
  <2> QED BY <2>1, <2>2
<1> QED BY <1>4, <1>5, <1>6

\* What the promise says a service holds are its claims.
LEMMA HeldClaims ==
    ASSUME NEW l \in Ledgers, Exclusive(l), NEW s \in Services
    PROVE  {c \in CPUs : OwnerIn(l)[c] = s} = l.allocations[s]
BY OwnerClaims DEF Ledgers

\* Every state file a daemon may find is an initial state of the promise.
LEMMA PromiseInit ==
    ASSUME Init
    PROVE  Promise!Init
<1>1. ledger \in Ledgers /\ WellFormed(ledger)
  BY InitialLedgerAssumption DEF Init
<1>2. \A s \in Services : Promise!Held(s) = ledger.allocations[s]
  BY <1>1, HeldClaims DEF Promise!Held, WellFormed
<1>3. OwnerIn(ledger) \in [CPUs -> Services \cup {Nobody}]
  BY <1>1, OwnerClaims DEF WellFormed
<1>4. PinnedIn(ledger) \subseteq {c \in CPUs : OwnerIn(ledger)[c] # Nobody}
  <2>1. ASSUME NEW s \in Services, NEW c \in ledger.explicit[s]
        PROVE  c \in CPUs /\ OwnerIn(ledger)[c] # Nobody
    <3>1. c \in CPUs /\ c \in Claims(ledger)
      BY <1>1, <2>1 DEF WellFormed, ExplicitOwned, Ledgers, Claims
    <3> QED BY <1>1, <3>1, OwnerClaims DEF WellFormed
  <2> QED BY <2>1 DEF PinnedIn
<1>5. ProtectedIn(ledger) \subseteq {s \in Services : Promise!Held(s) # {}}
  <2>1. \A s \in Services : ledger.policies[s] # Absent => ledger.allocations[s] # {}
    BY <1>1 DEF WellFormed, MetadataOwned, Owns
  <2> QED BY <1>2, <2>1 DEF ProtectedIn, Absent
<1>6. \A s \in Services : ServicePool(ledger, s) \in Pools
  BY <1>1 DEF ServicePool, Ledgers, Pools
<1>7. HomeIn(ledger) \in [Services -> Pools \cup {Absent}]
  BY <1>6 DEF HomeIn
<1>8. \A s \in Services : HomeIn(ledger)[s] = Absent <=> Promise!Held(s) = {}
  <2>1. Absent \notin Pools
    BY DEF Absent, Pools
  <2> QED BY <1>2, <1>6, <2>1 DEF HomeIn, Owns
<1> QED BY <1>3, <1>4, <1>5, <1>7, <1>8 DEF Promise!Init, Promise!TypeOK

-----------------------------------------------------------------------------
(* Grants and releases as relations between ledgers                        *)

\* From l to m, service s replaces its claims.
LedgerGrant(l, m, s, p, protect) ==
    /\ Owns(m, s)
    /\ Owns(l, s) => ServicePool(l, s) = p
    /\ l.policies[s] = "non-preemptive" => protect
    /\ ServicePool(m, s) = p
    /\ m.policies[s] = "non-preemptive" <=> protect
    /\ \A t \in Services \ {s} :
           /\ m.allocations[t] = l.allocations[t] \ m.allocations[s]
           /\ m.explicit[t] = l.explicit[t] \ m.allocations[s]
           /\ MetadataFollowsClaims(l, m, t)
           /\ l.allocations[t] \cap m.allocations[s] # {} =>
                  /\ ~protect
                  /\ ServicePool(l, t) = p
                  /\ l.policies[t] # "non-preemptive"
                  /\ l.explicit[t] \cap m.allocations[s] = {}

\* From l to m, service s gives up claims, perhaps none.
LedgerRelease(l, m, s) ==
    /\ OthersKept(l, m, s)
    /\ MetadataFollowsClaims(l, m, s)
    /\ m.allocations[s] \subseteq l.allocations[s]
    /\ m.explicit[s] = l.explicit[s] \cap m.allocations[s]

\* From l to m, the abstract metadata settles as the promise wants it.
LedgerSettle(l, m, s, p, protect) ==
    LET Owners == {OwnerIn(m)[c] : c \in CPUs}
    IN  /\ ProtectedIn(m) = (ProtectedIn(l) \cup IF protect THEN {s} ELSE {}) \cap Owners
        /\ HomeIn(m) = [t \in Services |-> IF t \notin Owners THEN Absent
                                           ELSE IF t = s THEN p ELSE HomeIn(l)[t]]

\* From l to m, s holds some CPUs all taken from the others.
LedgerTake(l, m, s) ==
    OwnerIn(m) = [c \in CPUs |-> IF c \in m.allocations[s] THEN s
                                 ELSE IF OwnerIn(l)[c] = s THEN Nobody
                                 ELSE OwnerIn(l)[c]]

\* If the metadata of the others follows their shrinking claims, so do the
\* protected services and their homes.
LEMMA Settled ==
    ASSUME NEW l \in Ledgers, WellFormed(l), NEW m \in Ledgers, WellFormed(m),
           NEW s \in Services, NEW p, NEW protect \in BOOLEAN,
           Owns(m, s) =>
               /\ ServicePool(m, s) = p
               /\ m.policies[s] = "non-preemptive"
                      <=> (l.policies[s] = "non-preemptive" \/ protect),
           \A t \in Services \ {s} : /\ m.allocations[t] \subseteq l.allocations[t]
                                     /\ MetadataFollowsClaims(l, m, t)
    PROVE  LedgerSettle(l, m, s, p, protect)
<1> DEFINE Owners == {OwnerIn(m)[c] : c \in CPUs}
<1>1. ASSUME NEW t \in Services
      PROVE  t \in Owners <=> Owns(m, t)
  <2>1. t \in Owners <=> \E c \in CPUs : c \in m.allocations[t]
    BY OwnerClaims DEF WellFormed
  <2> QED BY <2>1 DEF Owns, Ledgers
<1> HIDE DEF Owners
<1>2. ASSUME NEW t \in Services, ~Owns(m, t)
      PROVE  m.policies[t] = Absent
  BY <1>2 DEF WellFormed, MetadataOwned
<1>3. ASSUME NEW t \in Services
      PROVE  m.policies[t] = "non-preemptive" <=>
                 /\ l.policies[t] = "non-preemptive" \/ (t = s /\ protect)
                 /\ Owns(m, t)
  <2>1. CASE ~Owns(m, t)
    BY <1>2, <2>1 DEF Absent
  <2>2. CASE Owns(m, t) /\ t = s
    BY <2>2
  <2>3. CASE Owns(m, t) /\ t # s
    BY <2>3 DEF MetadataFollowsClaims
  <2> QED BY <2>1, <2>2, <2>3
<1>4. ProtectedIn(m) = (ProtectedIn(l) \cup IF protect THEN {s} ELSE {}) \cap Owners
  BY <1>1, <1>3 DEF ProtectedIn
<1>5. ASSUME NEW t \in Services
      PROVE  HomeIn(m)[t] = IF ~Owns(m, t) THEN Absent
                            ELSE IF t = s THEN p ELSE HomeIn(l)[t]
  <2>1. CASE Owns(m, t) /\ t # s
    <3>1. Owns(l, t) /\ m.pools[t] = l.pools[t]
      BY <2>1 DEF Owns, MetadataFollowsClaims
    <3> QED BY <2>1, <3>1 DEF HomeIn, ServicePool
  <2> QED BY <2>1 DEF HomeIn
<1>6. HomeIn(m) = [t \in Services |-> HomeIn(m)[t]]
  BY DEF HomeIn
<1>7. HomeIn(m) = [t \in Services |-> IF t \notin Owners THEN Absent
                                      ELSE IF t = s THEN p ELSE HomeIn(l)[t]]
  BY <1>1, <1>5, <1>6
<1> QED BY <1>4, <1>7 DEF Owners, LedgerSettle

\* The owners when s holds some CPUs, all taken from the others.
LEMMA OwnersReplaced ==
    ASSUME NEW l \in Ledgers, WellFormed(l), NEW m \in Ledgers, WellFormed(m),
           NEW s \in Services,
           \A t \in Services \ {s} : m.allocations[t] = l.allocations[t] \ m.allocations[s]
    PROVE  LedgerTake(l, m, s)
<1>1. ASSUME NEW c \in CPUs
      PROVE  OwnerIn(m)[c] = IF c \in m.allocations[s] THEN s
                             ELSE IF OwnerIn(l)[c] = s THEN Nobody ELSE OwnerIn(l)[c]
  <2>1. /\ OwnerIn(l)[c] \in Services \cup {Nobody}
        /\ \A t \in Services : OwnerIn(l)[c] = t <=> c \in l.allocations[t]
        /\ \A t \in Services : OwnerIn(m)[c] = t <=> c \in m.allocations[t]
        /\ OwnerIn(m)[c] \in Services \cup {Nobody}
    BY OwnerClaims DEF WellFormed
  <2>2. CASE c \in m.allocations[s]
    BY <2>1, <2>2
  <2>3. CASE c \notin m.allocations[s] /\ OwnerIn(l)[c] = s
    <3>1. \A t \in Services : c \notin m.allocations[t]
      BY <2>1, <2>3 DEF WellFormed, Exclusive
    <3> QED BY <2>1, <2>3, <3>1
  <2>4. CASE c \notin m.allocations[s] /\ OwnerIn(l)[c] # s
    BY <2>1, <2>4
  <2> QED BY <2>2, <2>3, <2>4
<1>2. OwnerIn(m) = [c \in CPUs |-> OwnerIn(m)[c]]
  BY DEF OwnerIn
<1> QED BY <1>1, <1>2 DEF LedgerTake

\* Such a replacement is a grant of the promise.
LEMMA GrantMaps ==
    ASSUME ledger \in Ledgers, WellFormed(ledger), ledger' \in Ledgers, WellFormed(ledger'),
           NEW s \in Services, NEW p \in Pools, NEW protect \in BOOLEAN,
           LedgerGrant(ledger, ledger', s, p, protect)
    PROVE  Promise!Grant(s, p, protect)
<1> DEFINE cpus == ledger'.allocations[s]
<1>1. Promise!Held(s) = ledger.allocations[s] /\ Promise!Held(s)' = cpus
  BY HeldClaims DEF Promise!Held, WellFormed
<1>2. cpus # {} /\ cpus \subseteq CPUs
  BY DEF LedgerGrant, Owns, Ledgers
<1>3. Promise!Held(s) # {} => HomeIn(ledger)[s] = p
  BY <1>1 DEF LedgerGrant, HomeIn, Owns
<1>4. s \in ProtectedIn(ledger) => protect
  BY DEF LedgerGrant, ProtectedIn
<1>5. ASSUME NEW c \in cpus
      PROVE  Promise!MayTake(s, p, protect, c)
  <2>1. c \in CPUs
    BY <1>2
  <2>2. /\ OwnerIn(ledger)[c] \in Services \cup {Nobody}
        /\ \A t \in Services : OwnerIn(ledger)[c] = t <=> c \in ledger.allocations[t]
    BY <2>1, OwnerClaims DEF WellFormed
  <2>3. CASE OwnerIn(ledger)[c] \in {s, Nobody}
    BY <2>3 DEF Promise!MayTake
  <2>4. CASE OwnerIn(ledger)[c] \notin {s, Nobody}
    <3>1. PICK t \in Services \ {s} :
              OwnerIn(ledger)[c] = t /\ c \in ledger.allocations[t]
      BY <2>2, <2>4
    <3>2. /\ ~protect
          /\ ServicePool(ledger, t) = p
          /\ ledger.policies[t] # "non-preemptive"
          /\ c \notin ledger.explicit[t]
      BY <3>1 DEF LedgerGrant
    <3>3. c \notin PinnedIn(ledger)
      <4>1. ASSUME NEW u \in Services, c \in ledger.explicit[u]
            PROVE  FALSE
        <5>1. c \in ledger.allocations[u]
          BY <4>1 DEF WellFormed, ExplicitOwned
        <5> QED BY <3>1, <3>2, <4>1, <5>1 DEF WellFormed, Exclusive
      <4> QED BY <4>1 DEF PinnedIn
    <3>4. HomeIn(ledger)[t] = p
      BY <3>1, <3>2 DEF HomeIn, Owns
    <3>5. t \notin ProtectedIn(ledger)
      BY <3>2 DEF ProtectedIn
    <3> QED BY <3>1, <3>2, <3>3, <3>4, <3>5 DEF Promise!MayTake
  <2> QED BY <2>3, <2>4
<1>6. OwnerIn(ledger') = [c \in CPUs |-> IF c \in cpus THEN s
                                         ELSE IF OwnerIn(ledger)[c] = s THEN Nobody
                                         ELSE OwnerIn(ledger)[c]]
  <2>1. \A t \in Services \ {s} :
            ledger'.allocations[t] = ledger.allocations[t] \ ledger'.allocations[s]
    BY DEF LedgerGrant
  <2>2. LedgerTake(ledger, ledger', s)
    BY <2>1, OwnersReplaced
  <2> QED BY <2>2 DEF LedgerTake
<1>7. PinnedIn(ledger') \in SUBSET CPUs
  <2>1. \A t \in Services : ledger'.explicit[t] \subseteq CPUs
    BY DEF Ledgers
  <2> QED BY <2>1 DEF PinnedIn
<1>8. PinnedIn(ledger') \ cpus = PinnedIn(ledger) \ (cpus \cup ledger.allocations[s])
  <2>1. /\ ledger'.explicit[s] \subseteq cpus
        /\ ledger.explicit[s] \subseteq ledger.allocations[s]
    BY DEF WellFormed, ExplicitOwned
  <2>2. ASSUME NEW t \in Services \ {s}
        PROVE  /\ ledger'.explicit[t] = ledger.explicit[t] \ cpus
               /\ ledger.explicit[t] \cap ledger.allocations[s] = {}
    BY DEF LedgerGrant, WellFormed, ExplicitOwned, Exclusive
  <2>3. ASSUME NEW c, c \notin cpus, c \notin ledger.allocations[s], NEW t \in Services
        PROVE  c \in ledger.explicit[t] <=> c \in ledger'.explicit[t]
    BY <2>1, <2>2, <2>3
  <2>4. ASSUME NEW c \in ledger.allocations[s], c \notin cpus, NEW t \in Services
        PROVE  c \notin ledger'.explicit[t]
    BY <2>1, <2>2, <2>4
  <2> HIDE DEF cpus
  <2> QED BY <2>3, <2>4 DEF PinnedIn
<1>9. Promise!Settle(s, p, protect)
  <2>1. /\ Owns(ledger', s) =>
               /\ ServicePool(ledger', s) = p
               /\ ledger'.policies[s] = "non-preemptive"
                      <=> (ledger.policies[s] = "non-preemptive" \/ protect)
        /\ \A t \in Services \ {s} :
               /\ ledger'.allocations[t] \subseteq ledger.allocations[t]
               /\ MetadataFollowsClaims(ledger, ledger', t)
    BY DEF LedgerGrant
  <2>2. LedgerSettle(ledger, ledger', s, p, protect)
    BY <2>1, Settled
  <2> QED BY <2>2 DEF LedgerSettle, Promise!Settle
<1> QED BY <1>1, <1>2, <1>3, <1>4, <1>5, <1>6, <1>7, <1>8, <1>9 DEF Promise!Grant

\* Giving up claims is a release of the promise, or nothing at all.
LEMMA ReleaseMaps ==
    ASSUME ledger \in Ledgers, WellFormed(ledger), ledger' \in Ledgers, WellFormed(ledger'),
           NEW s \in Services, LedgerRelease(ledger, ledger', s)
    PROVE  Promise!Release(s) \/ UNCHANGED Promise!vars
<1> DEFINE kept == ledger'.allocations[s]
           cpus == ledger.allocations[s] \ kept
<1>1. Promise!Held(s) = ledger.allocations[s] /\ Promise!Held(s)' = kept
  BY HeldClaims DEF Promise!Held, WellFormed
<1>2. CASE cpus = {}
  <2>1. ledger'.allocations[s] = ledger.allocations[s]
        /\ ledger'.explicit[s] = ledger.explicit[s]
    BY <1>2 DEF LedgerRelease, WellFormed, ExplicitOwned
  <2>2. ledger'.policies[s] = ledger.policies[s] /\ ledger'.pools[s] = ledger.pools[s]
    BY <2>1 DEF LedgerRelease, MetadataFollowsClaims, WellFormed, MetadataOwned, Owns
  <2>3. \A t \in Services : /\ ledger'.allocations[t] = ledger.allocations[t]
                            /\ ledger'.explicit[t] = ledger.explicit[t]
                            /\ ledger'.policies[t] = ledger.policies[t]
                            /\ ledger'.pools[t] = ledger.pools[t]
    BY <2>1, <2>2 DEF LedgerRelease, OthersKept
  <2>4. /\ ledger'.allocations = ledger.allocations
        /\ ledger'.explicit = ledger.explicit
        /\ ledger'.policies = ledger.policies
        /\ ledger'.pools = ledger.pools
    BY <2>3 DEF Ledgers
  <2>5. ledger' = ledger
    BY <2>4 DEF Ledgers
  <2> QED BY <2>5 DEF Promise!vars
<1>3. CASE cpus # {}
  <2>1. /\ kept \subseteq ledger.allocations[s]
        /\ \A t \in Services \ {s} : ledger'.allocations[t] = ledger.allocations[t] \ kept
    BY DEF LedgerRelease, OthersKept, WellFormed, Exclusive
  <2>2. OwnerIn(ledger') = [c \in CPUs |-> IF c \in cpus THEN Nobody
                                           ELSE OwnerIn(ledger)[c]]
    <3>1. \A c \in CPUs : OwnerIn(ledger)[c] = s <=> c \in ledger.allocations[s]
      BY OwnerClaims DEF WellFormed
    <3>2. OwnerIn(ledger') = [c \in CPUs |-> IF c \in kept THEN s
                                             ELSE IF OwnerIn(ledger)[c] = s THEN Nobody
                                             ELSE OwnerIn(ledger)[c]]
      <4>1. LedgerTake(ledger, ledger', s)
        BY <2>1, OwnersReplaced
      <4> QED BY <4>1 DEF LedgerTake
    <3>3. \A c \in CPUs : (IF c \in kept THEN s
                           ELSE IF OwnerIn(ledger)[c] = s THEN Nobody
                           ELSE OwnerIn(ledger)[c])
                          = IF c \in cpus THEN Nobody ELSE OwnerIn(ledger)[c]
      BY <2>1, <3>1
    <3> HIDE DEF kept, cpus
    <3> QED BY <3>2, <3>3
  <2>3. PinnedIn(ledger') = PinnedIn(ledger) \ cpus
    <3>1. ASSUME NEW t \in Services
          PROVE  ledger'.explicit[t] = ledger.explicit[t] \ cpus
      BY DEF LedgerRelease, OthersKept, WellFormed, ExplicitOwned, Exclusive
    <3> HIDE DEF cpus
    <3> QED BY <3>1 DEF PinnedIn
  <2>4. Promise!Settle(s, HomeIn(ledger)[s], FALSE)
    <3>1. Owns(ledger', s) =>
              /\ ServicePool(ledger', s) = HomeIn(ledger)[s]
              /\ ledger'.policies[s] = "non-preemptive"
                     <=> (ledger.policies[s] = "non-preemptive" \/ FALSE)
      BY DEF LedgerRelease, MetadataFollowsClaims, HomeIn, ServicePool, Owns
    <3>2. ASSUME NEW t \in Services \ {s}
          PROVE  /\ ledger'.allocations[t] \subseteq ledger.allocations[t]
                 /\ MetadataFollowsClaims(ledger, ledger', t)
      BY DEF LedgerRelease, OthersKept, MetadataFollowsClaims, WellFormed, MetadataOwned, Owns
    <3>3. LedgerSettle(ledger, ledger', s, HomeIn(ledger)[s], FALSE)
      BY <3>1, <3>2, Settled
    <3> QED BY <3>3 DEF LedgerSettle, Promise!Settle
  <2> QED BY <1>1, <1>3, <2>2, <2>3, <2>4 DEF Promise!Release
<1> QED BY <1>2, <1>3

-----------------------------------------------------------------------------
(* Commits                                                                 *)

\* A committed grant is a LedgerGrant by the effective policy.
LEMMA CommittedGrant ==
    ASSUME IInv, tx.stage = "commit", ~IsRelease(tx.request),
           ledger'.allocations = tx.db.allocations, ledger'.explicit = tx.db.explicit,
           ledger'.policies = tx.db.policies, ledger'.pools = tx.db.pools
    PROVE  LedgerGrant(ledger, ledger', Service, Pool, PolicyOn(ledger) = "non-preemptive")
<1> DEFINE protect == PolicyOn(ledger) = "non-preemptive"
<1>1. /\ Service \in Services /\ Pool # Absent /\ PolicyOn(ledger) # Absent
      /\ Checked(ledger) /\ tx.reply.cores # {}
  BY LoadedAnswers, GrantChecked DEF Pools, Policies, Absent
<1>2. /\ Owns(ledger, Service) => ServicePool(ledger, Service) = Pool
      /\ ledger.policies[Service] = "non-preemptive" => protect
  BY <1>1 DEF Checked, PoolAccepted, PolicyAccepted, PolicyOn, StoredPolicy, Absent
<1>3. /\ \A t, u \in Services : t # u => ledger.allocations[t] \cap ledger.allocations[u] = {}
      /\ \A t \in Services : ledger.explicit[t] \subseteq ledger.allocations[t]
  BY DEF IInv, WellFormed, Exclusive, ExplicitOwned
<1>4. /\ ledger'.policies[Service] = PolicyOn(ledger)
      /\ ledger'.pools[Service] = Pool
      /\ tx.reply.cores \subseteq ledger'.allocations[Service]
      /\ ledger'.allocations[Service]
             \subseteq ledger.allocations[Service] \cup tx.reply.cores
      /\ \A t \in Services \ {Service} :
             /\ ledger'.allocations[t] = ledger.allocations[t] \ tx.reply.cores
             /\ ledger'.explicit[t] = ledger.explicit[t] \ tx.reply.cores
             /\ MetadataFollowsClaims(ledger, ledger', t)
             /\ ledger.allocations[t] \cap tx.reply.cores # {} =>
                    ReclamationAccepted(ledger, t,
                        ledger.allocations[t] \cap tx.reply.cores, PolicyOn(ledger), Pool)
  <2>1. CASE ~IsNuma
    <3>1. /\ CoresChange(ledger, tx.db, Service, tx.reply.cores, PolicyOn(ledger), Pool)
          /\ \A t \in Services \ {Service} :
                 ledger.allocations[t] \cap tx.reply.cores = {}
      BY <2>1, CoresEffect
    <3>2. \A t \in Services : ~Owns(ledger, t) =>
              ledger.policies[t] = Absent /\ ledger.pools[t] = Absent
      BY DEF IInv, WellFormed, MetadataOwned
    <3> QED BY <1>3, <3>1, <3>2 DEF CoresChange, OthersKept, MetadataFollowsClaims, Owns
  <2>2. CASE IsNuma
    BY <2>2, NumaEffect DEF NumaChange, MetadataFollowsClaims, Owns
  <2> QED BY <2>1, <2>2
<1>5. /\ Owns(ledger', Service)
      /\ ServicePool(ledger', Service) = Pool
      /\ ledger'.policies[Service] = "non-preemptive" <=> protect
  BY <1>1, <1>4 DEF Owns, ServicePool
<1>6. ASSUME NEW t \in Services \ {Service}
      PROVE  /\ ledger'.allocations[t] = ledger.allocations[t] \ ledger'.allocations[Service]
             /\ ledger'.explicit[t] = ledger.explicit[t] \ ledger'.allocations[Service]
             /\ MetadataFollowsClaims(ledger, ledger', t)
             /\ ledger.allocations[t] \cap ledger'.allocations[Service] # {} =>
                    /\ ~protect
                    /\ ServicePool(ledger, t) = Pool
                    /\ ledger.policies[t] # "non-preemptive"
                    /\ ledger.explicit[t] \cap ledger'.allocations[Service] = {}
  <2>1. /\ ledger.allocations[t] \cap ledger'.allocations[Service]
               = ledger.allocations[t] \cap tx.reply.cores
        /\ ledger.explicit[t] \cap ledger'.allocations[Service]
               = ledger.explicit[t] \cap tx.reply.cores
    BY <1>1, <1>3, <1>4
  <2>2. ReclamationAccepted(ledger, t, ledger.allocations[t] \cap tx.reply.cores,
                            PolicyOn(ledger), Pool) =>
            /\ ~protect
            /\ ServicePool(ledger, t) = Pool
            /\ ledger.policies[t] # "non-preemptive"
            /\ ledger.explicit[t] \cap tx.reply.cores = {}
    BY <1>3 DEF ReclamationAccepted, StoredPolicy, Absent
  <2> QED BY <1>4, <2>1, <2>2
<1> QED BY <1>2, <1>5, <1>6 DEF LedgerGrant

\* Every step of the handlers is a step of the promise, or none.
LEMMA PromiseStep ==
    ASSUME IInv, IInv', [Next]_vars
    PROVE  [Promise!Next]_(Promise!vars)
<1>1. CASE ledger' = ledger
  BY <1>1 DEF Promise!vars
<1>2. CASE ledger' # ledger
  <2>1. /\ tx.stage = "commit"
        /\ ledger'.allocations = tx.db.allocations
        /\ ledger'.explicit = tx.db.explicit
        /\ ledger'.policies = tx.db.policies
        /\ ledger'.pools = tx.db.pools
    BY <1>2, OnlyCommits
  <2>2. /\ ledger \in Ledgers /\ WellFormed(ledger)
        /\ ledger' \in Ledgers /\ WellFormed(ledger')
    BY DEF IInv, TypeOK
  <2>3. Service \in Services /\ Pool \in Pools
    BY <2>1, LoadedAnswers
  <2>4. CASE IsRelease(tx.request)
    <3>1. LedgerRelease(ledger, ledger', Service)
      BY <2>1, <2>4, ReleaseEffect DEF LedgerRelease, OthersKept, MetadataFollowsClaims, Owns
    <3> QED BY <2>2, <2>3, <3>1, ReleaseMaps DEF Promise!Next
  <2>5. CASE ~IsRelease(tx.request)
    <3> DEFINE protect == PolicyOn(ledger) = "non-preemptive"
    <3>1. LedgerGrant(ledger, ledger', Service, Pool, protect)
      BY <2>1, <2>5, CommittedGrant
    <3>2. protect \in BOOLEAN
      OBVIOUS
    <3> HIDE DEF protect
    <3> QED BY <2>2, <2>3, <3>1, <3>2, GrantMaps DEF Promise!Next
  <2> QED BY <2>4, <2>5
<1> QED BY <1>1, <1>2

\* The handlers implement the promise, whatever fails, restarts or goes
\* offline.
THEOREM Refinement == Spec => ImplementsOwnership
<1>1. Init => Promise!Init
  BY PromiseInit
<1>2. IInv /\ IInv' /\ [Next]_vars => [Promise!Next]_(Promise!vars)
  BY PromiseStep
<1> QED BY <1>1, <1>2, Invariance, PTL DEF Spec, ImplementsOwnership, Promise!Spec

-----------------------------------------------------------------------------
(* The handlers use the state file as an atomic commit                     *)

\* A step outside the commit leaves the ledger alone, and the latch too when
\* it proposes a candidate.
LEMMA UncommittedStep ==
    ASSUME IInv, [Next]_vars, tx.stage # "commit"
    PROVE  /\ ledger' = ledger
           /\ tx'.stage = "commit" => uncertain' = uncertain /\ tx # Idle
<1>1. CASE \E r \in Requests, readable \in BOOLEAN : Begin(r, readable)
  BY <1>1 DEF Begin
<1>2. CASE \E siblings \in SiblingMaps : SelectCores(siblings) \/ SelectNuma(siblings)
  BY <1>2 DEF SelectCores, SelectNuma, Idle
<1>3. CASE \/ ReleaseAll \/ FindNode \/ ConfirmNuma \/ ApplyCores \/ ApplyNuma
           \/ \E readable \in BOOLEAN : ReleaseNode(readable) \/ ListNode(readable)
  <2>1. tx.stage \in {"select", "confirm", "list", "apply"} /\ UNCHANGED << ledger, uncertain >>
    BY <1>3 DEF ReleaseAll, FindNode, ConfirmNuma, ApplyCores, ApplyNuma, ReleaseNode, ListNode
  <2> QED BY <2>1 DEF Idle
<1>4. CASE Reject \/ ReadFails
  BY <1>4 DEF Reject, ReadFails, Idle
<1>5. CASE Commit \/ CommitFails \/ CommitUncertain
  BY <1>5 DEF Commit, CommitFails, CommitUncertain
<1>6. CASE Recover \/ \E c \in PoolConfigs : Restart(c)
  BY <1>6 DEF Recover, Restart, Idle
<1>7. CASE \E c \in Hotpluggable : Hotplug(c)
  <2>1. OnlyOnline
    BY <1>7, HotplugKeeps
  <2> QED BY <2>1, OnlyOnlineTyped DEF OnlyOnline, Idle
<1>8. CASE UNCHANGED vars
  BY <1>8 DEF vars
<1> QED BY <1>1, <1>2, <1>3, <1>4, <1>5, <1>6, <1>7, <1>8 DEF Next

\* A commit ends with the old ledger or with the candidate, or waits.
LEMMA CommittingStep ==
    ASSUME IInv, [Next]_vars, tx.stage = "commit"
    PROVE  \/ tx' = Idle /\ ledger' \in {ledger, Snapshot(tx.db)}
           \/ /\ UNCHANGED << ledger, uncertain >>
              /\ tx'.stage = "commit" /\ tx'.db = tx.db
<1>1. CASE Commit \/ CommitFails \/ CommitUncertain
  BY <1>1 DEF Commit, CommitFails, CommitUncertain
<1>2. CASE \E c \in PoolConfigs : Restart(c)
  BY <1>2 DEF Restart
<1>3. CASE \E c \in Hotpluggable : Hotplug(c)
  <2>1. OnlyOnline
    BY <1>3, HotplugKeeps
  <2>2. tx # Idle
    BY DEF Idle
  <2> QED BY <2>1, <2>2, OnlyOnlineTyped DEF OnlyOnline
<1>4. CASE UNCHANGED vars
  BY <1>4 DEF vars
<1> QED BY <1>1, <1>2, <1>3, <1>4
   DEF Next, Begin, ReleaseAll, FindNode, ReleaseNode, SelectCores, SelectNuma, ConfirmNuma,
       ListNode, ApplyCores, ApplyNuma, Reject, ReadFails, Recover, Idle

\* A candidate is a ledger to publish, and not the absence of one.
LEMMA CandidateIsLedger ==
    ASSUME IInv, tx.stage = "commit"
    PROVE  Snapshot(tx.db) \in Ledgers
<1>1. tx # Idle
  BY DEF Idle
<1> QED BY <1>1 DEF IInv, TypeOK, Transactions, Databases, Snapshot, Ledgers

\* Idle is no ledger.
LEMMA IdleIsNoLedger == Idle \notin Ledgers
BY DEF Idle, Ledgers

\* Every step is one the state store allows for.
LEMMA CommitmentStep ==
    ASSUME IInv, IInv', [Next]_vars
    PROVE  [Commitment!Next]_(Commitment!vars)
<1>1. uncertain' \in BOOLEAN
  BY DEF IInv, TypeOK
<1>2. CASE tx.stage # "commit" /\ tx'.stage # "commit"
  BY <1>1, <1>2, UncommittedStep DEF Commitment!Next, Commitment!Relatch
<1>3. CASE tx.stage # "commit" /\ tx'.stage = "commit"
  <2>1. ledger' = ledger /\ uncertain' = uncertain /\ ~uncertain
    BY <1>3, UncommittedStep DEF IInv
  <2>2. Snapshot(tx'.db) \in Ledgers
    <3>1. tx' # Idle
      BY <1>3 DEF Idle
    <3> QED BY <3>1 DEF IInv, TypeOK, Transactions, Databases, Snapshot, Ledgers
  <2>3. Snapshot(tx.db)' = Snapshot(tx'.db)
    BY DEF Snapshot
  <2> QED BY <1>3, <2>1, <2>2, <2>3 DEF Commitment!Next, Commitment!Propose
<1>4. CASE tx.stage = "commit"
  <2>1. Snapshot(tx.db) # Idle
    BY <1>4, CandidateIsLedger, IdleIsNoLedger
  <2>2. CASE tx' = Idle /\ ledger' \in {ledger, Snapshot(tx.db)}
    <3>1. tx'.stage # "commit"
      BY <2>2 DEF Idle
    <3> QED BY <1>1, <1>4, <2>1, <2>2, <3>1 DEF Commitment!Next, Commitment!Settle
  <2>3. CASE /\ UNCHANGED << ledger, uncertain >>
             /\ tx'.stage = "commit" /\ tx'.db = tx.db
    BY <1>4, <2>3 DEF Commitment!vars, Snapshot
  <2> QED BY <1>4, <2>2, <2>3, CommittingStep
<1> QED BY <1>2, <1>3, <1>4

\* The handlers propose nothing while the latch is set, and nothing but what
\* they have proposed gets into the state file.
THEOREM CommitRefinement == Spec => CommitsAtomically
<1>1. Init => Commitment!Init
  <2>1. Idle.stage # "commit"
    BY DEF Idle
  <2> QED BY <2>1, InitialLedgerAssumption DEF Init, Commitment!Init
<1>2. IInv /\ IInv' /\ [Next]_vars => [Commitment!Next]_(Commitment!vars)
  BY CommitmentStep
<1> QED BY <1>1, <1>2, Invariance, PTL DEF Spec, CommitsAtomically, Commitment!Spec

-----------------------------------------------------------------------------
(* The handlers keep to the pools of their daemon                          *)

\* A request is served in a pool which the daemon can select.
PoolServed == tx # Idle => Pool \in config.selectable

\* No step goes on in a pool which cannot be selected.
LEMMA PoolServedKept ==
    ASSUME IInv, PoolServed, [Next]_vars
    PROVE  PoolServed'
<1>1. CASE \E r \in Requests, readable \in BOOLEAN : Begin(r, readable)
  BY <1>1 DEF Begin, PoolServed, Pool
<1>2. CASE tx' = Idle
  BY <1>2 DEF PoolServed
<1>3. ASSUME tx # Idle, tx'.request = tx.request, config' = config
      PROVE  PoolServed'
  BY <1>3 DEF PoolServed, Pool
<1>4. ASSUME \/ ReleaseAll \/ FindNode \/ ConfirmNuma \/ ApplyCores \/ ApplyNuma
             \/ \E readable \in BOOLEAN : ReleaseNode(readable) \/ ListNode(readable)
      PROVE  PoolServed'
  <2>1. tx # Idle
    <3>1. tx.stage \in {"select", "confirm", "list", "apply"}
      BY <1>4 DEF ReleaseAll, FindNode, ConfirmNuma, ApplyCores, ApplyNuma, ReleaseNode,
                  ListNode
    <3> QED BY <3>1 DEF Idle
  <2>2. tx \in Transactions
    BY <2>1 DEF IInv, TypeOK
  <2>3. tx'.request = tx.request /\ config' = config
    BY <1>4, <2>2 DEF ReleaseAll, FindNode, ConfirmNuma, ApplyCores, ApplyNuma, ReleaseNode,
                      ListNode, Transactions
  <2> QED BY <1>3, <2>1, <2>3
<1>5. CASE \E siblings \in SiblingMaps : SelectCores(siblings) \/ SelectNuma(siblings)
  <2>1. tx # Idle /\ tx \in Transactions
    BY <1>5 DEF SelectCores, SelectNuma, Idle, IInv, TypeOK
  <2>2. tx'.request = tx.request /\ config' = config
    BY <1>5, <2>1 DEF SelectCores, SelectNuma, Transactions
  <2> QED BY <1>3, <2>1, <2>2
<1>6. CASE Reject \/ ReadFails \/ Commit \/ CommitFails \/ CommitUncertain
  BY <1>2, <1>6 DEF Reject, ReadFails, Commit, CommitFails, CommitUncertain
<1>7. CASE \E c \in PoolConfigs : Restart(c)
  BY <1>2, <1>7 DEF Restart
<1>8. CASE Recover \/ UNCHANGED vars
  BY <1>8 DEF Recover, vars, PoolServed, Pool
<1>9. CASE \E c \in Hotpluggable : Hotplug(c)
  <2>1. OnlyOnline
    BY <1>9, HotplugKeeps
  <2> QED BY <1>2, <1>3, <2>1, OnlyOnlineTyped DEF OnlyOnline
<1> QED BY <1>1, <1>4, <1>5, <1>6, <1>7, <1>8, <1>9 DEF Next

\* What is claimed in the pools, as a function.
InPools(l) == [p \in Pools |-> ClaimedIn(l, p)]

\* A CPU has one owner, and an owner one pool.
LEMMA PoolsApart ==
    ASSUME NEW l \in Ledgers, Exclusive(l)
    PROVE  /\ InPools(l) \in [Pools -> SUBSET CPUs]
           /\ PoolView!Disjoint(InPools(l))
<1>1. \A p \in Pools : ClaimedIn(l, p) \subseteq CPUs
  BY DEF ClaimedIn, Ledgers
<1>2. ASSUME NEW p \in Pools, NEW q \in Pools, p # q,
             NEW c, c \in ClaimedIn(l, p), c \in ClaimedIn(l, q)
      PROVE  FALSE
  <2>1. PICK s \in Services : ServicePool(l, s) = p /\ c \in l.allocations[s]
    BY <1>2 DEF ClaimedIn
  <2>2. PICK t \in Services : ServicePool(l, t) = q /\ c \in l.allocations[t]
    BY <1>2 DEF ClaimedIn
  <2> QED BY <1>2, <2>1, <2>2 DEF Exclusive
<1>3. \A p, q \in Pools : p # q => ClaimedIn(l, p) \cap ClaimedIn(l, q) = {}
  BY <1>2
<1> QED BY <1>1, <1>3 DEF InPools, PoolView!Disjoint

\* Whatever keeps its CPUs keeps its pool, so that a grant touches no other.
LEMMA GrantTouchesPool ==
    ASSUME NEW l, NEW m, NEW s \in Services, NEW p, NEW protect,
           LedgerGrant(l, m, s, p, protect), NEW q \in Pools, q # p
    PROVE  ClaimedIn(m, q) = ClaimedIn(l, q)
<1>1. ASSUME NEW t \in Services, t # s, ServicePool(l, t) = q \/ ServicePool(m, t) = q
      PROVE  /\ m.allocations[t] # {} => /\ m.allocations[t] = l.allocations[t]
                                         /\ ServicePool(m, t) = q /\ ServicePool(l, t) = q
             /\ m.allocations[t] = {} /\ ServicePool(l, t) = q => l.allocations[t] = {}
  <2>1. /\ m.allocations[t] = l.allocations[t] \ m.allocations[s]
        /\ l.allocations[t] \cap m.allocations[s] # {} => ServicePool(l, t) = p
        /\ MetadataFollowsClaims(l, m, t)
    BY <1>1 DEF LedgerGrant
  <2>2. CASE m.allocations[t] = {}
    BY <2>1, <2>2
  <2>3. CASE m.allocations[t] # {}
    <3>1. m.pools[t] = l.pools[t]
      BY <2>1, <2>3 DEF MetadataFollowsClaims, Owns
    <3>2. ServicePool(m, t) = q /\ ServicePool(l, t) = q
      BY <1>1, <3>1 DEF ServicePool
    <3> QED BY <2>1, <2>3, <3>2
  <2> QED BY <2>2, <2>3
<1>2. /\ ServicePool(m, s) = p
      /\ l.allocations[s] # {} => ServicePool(l, s) = p
  BY DEF LedgerGrant, Owns
<1>3. ASSUME NEW c, NEW t \in Services
      PROVE  ServicePool(m, t) = q /\ c \in m.allocations[t]
                 <=> ServicePool(l, t) = q /\ c \in l.allocations[t]
  <2>1. CASE t = s
    BY <1>2, <2>1
  <2>2. CASE t # s
    BY <1>1, <2>2
  <2> QED BY <2>1, <2>2
<1> QED BY <1>3 DEF ClaimedIn

\* Nor does a release in the pool of its service.
LEMMA ReleaseTouchesPool ==
    ASSUME NEW l, NEW m, NEW s \in Services, NEW p, PoolAccepted(l, s, p),
           LedgerRelease(l, m, s), NEW q \in Pools
    PROVE  IF q = p THEN ClaimedIn(m, q) \subseteq ClaimedIn(l, q)
                    ELSE ClaimedIn(m, q) = ClaimedIn(l, q)
<1>1. \A t \in Services \ {s} : /\ m.allocations[t] = l.allocations[t]
                                /\ ServicePool(m, t) = ServicePool(l, t)
  BY DEF LedgerRelease, OthersKept, ServicePool
<1>2. /\ m.allocations[s] \subseteq l.allocations[s]
      /\ l.allocations[s] # {} => ServicePool(l, s) = p
      /\ m.allocations[s] # {} => ServicePool(m, s) = ServicePool(l, s)
  BY DEF LedgerRelease, PoolAccepted, MetadataFollowsClaims, Owns, ServicePool
<1>3. ASSUME NEW c, NEW t \in Services, ServicePool(m, t) = q, c \in m.allocations[t]
      PROVE  ServicePool(l, t) = q /\ c \in l.allocations[t]
  BY <1>1, <1>2, <1>3
<1>4. ASSUME q # p, NEW c, NEW t \in Services, ServicePool(l, t) = q, c \in l.allocations[t]
      PROVE  ServicePool(m, t) = q /\ c \in m.allocations[t]
  <2>1. t # s
    BY <1>2, <1>4
  <2> QED BY <1>1, <1>4, <2>1
<1> QED BY <1>3, <1>4 DEF ClaimedIn

\* What a commit changes is a grant or a release in the pool of the request.
LEMMA CommittedChange ==
    ASSUME IInv, IInv', PoolServed, [Next]_vars, ledger' # ledger
    PROVE  PoolView!Change
<1>1. /\ tx.stage = "commit"
      /\ ledger'.allocations = tx.db.allocations
      /\ ledger'.explicit = tx.db.explicit
      /\ ledger'.policies = tx.db.policies
      /\ ledger'.pools = tx.db.pools
  BY OnlyCommits
<1>2. Service \in Services /\ Pool \in Pools /\ Pool \in config.selectable
  BY <1>1, LoadedAnswers DEF PoolServed, Idle
<1>3. /\ InPools(ledger') \in [Pools -> SUBSET CPUs]
      /\ PoolView!Disjoint(InPools(ledger'))
  <2>1. ledger' \in Ledgers /\ Exclusive(ledger')
    BY DEF IInv, TypeOK, WellFormed
  <2> QED BY <2>1, PoolsApart
<1>4. CASE IsRelease(tx.request)
  <2>1. LedgerRelease(ledger, ledger', Service) /\ PoolAccepted(ledger, Service, Pool)
    BY <1>1, <1>4, ReleaseEffect DEF LedgerRelease, OthersKept, MetadataFollowsClaims, Owns
  <2>2. \A q \in Pools : IF q = Pool THEN ClaimedIn(ledger', q) \subseteq ClaimedIn(ledger, q)
                                     ELSE ClaimedIn(ledger', q) = ClaimedIn(ledger, q)
    BY <1>2, <2>1, ReleaseTouchesPool
  <2>3. PoolView!Release(Pool)
    BY <1>2, <1>3, <2>2 DEF PoolView!Release, InPools
  <2> QED BY <1>2, <2>3 DEF PoolView!Change
<1>5. CASE ~IsRelease(tx.request)
  <2> DEFINE protect == PolicyOn(ledger) = "non-preemptive"
  <2>1. LedgerGrant(ledger, ledger', Service, Pool, protect)
    BY <1>1, <1>5, CommittedGrant
  <2> HIDE DEF protect
  <2>2. \A q \in Pools \ {Pool} : ClaimedIn(ledger', q) = ClaimedIn(ledger, q)
    BY <1>2, <2>1, GrantTouchesPool
  <2>3. ClaimedIn(ledger', Pool) # {}
    <3>1. Owns(ledger', Service) /\ ServicePool(ledger', Service) = Pool
      BY <2>1 DEF LedgerGrant
    <3> QED BY <1>2, <3>1 DEF ClaimedIn, Owns
  <2>4. ClaimedIn(ledger', Pool) \subseteq config.cpus[Pool]
    BY <1>1, <1>5, GrantCovered
  <2>5. PoolView!Grant(Pool)
    BY <1>2, <1>3, <2>2, <2>3, <2>4 DEF PoolView!Grant, InPools
  <2> QED BY <1>2, <2>5 DEF PoolView!Change
<1> QED BY <1>4, <1>5

\* The pools which daemons may load are disjoint.
LEMMA ConfigsDisjoint ==
    ASSUME NEW c \in PoolConfigs
    PROVE  c \in PoolView!Configs
BY ConfigAssumption DEF Configs, PoolView!Configs, Pools

\* Only a restart changes the pools.
LEMMA OnlyRestarts ==
    ASSUME [Next]_vars, config' # config
    PROVE  config' \in PoolConfigs
<1>1. CASE \E c \in PoolConfigs : Restart(c)
  BY <1>1 DEF Restart
<1>2. CASE UNCHANGED vars \/ \E c \in Hotpluggable : Hotplug(c)
  BY <1>2 DEF vars, Hotplug
<1> QED BY <1>1, <1>2
   DEF Next, Begin, ReleaseAll, FindNode, ReleaseNode, SelectCores, SelectNuma, ConfirmNuma,
       ListNode, ApplyCores, ApplyNuma, Reject, ReadFails, Commit, CommitFails,
       CommitUncertain, Recover

\* Every step is one the configuration of the pools may rely on.
LEMMA PoolStep ==
    ASSUME IInv, IInv', PoolServed, [Next]_vars
    PROVE  [PoolView!Next]_(PoolView!vars)
<1>1. PoolView!Change \/ UNCHANGED InPools(ledger)
  BY CommittedChange DEF InPools
<1>2. config' # config => config' \in PoolView!Configs
  BY OnlyRestarts, ConfigsDisjoint
<1> QED BY <1>1, <1>2 DEF PoolView!Next, PoolView!Restart, PoolView!vars, InPools

\* Claims change only by grants and releases in a pool the daemon can select,
\* and stay within disjoint pools, as module CpuPools relies on.
THEOREM PoolRefinement == Spec => ImplementsPoolClaims
<1>1. Init => PoolView!Init /\ PoolServed
  <2> SUFFICES ASSUME Init
               PROVE  PoolView!Init /\ PoolServed
    OBVIOUS
  <2>1. ledger \in Ledgers /\ Exclusive(ledger)
    BY InitialLedgerAssumption DEF Init, WellFormed
  <2>2. config \in PoolView!Configs
    BY ConfigsDisjoint DEF Init
  <2> QED BY <2>1, <2>2, PoolsApart DEF PoolView!Init, InPools, PoolServed, Init
<1>2. IInv /\ PoolServed /\ [Next]_vars => PoolServed'
  BY PoolServedKept
<1>3. IInv /\ IInv' /\ PoolServed /\ [Next]_vars => [PoolView!Next]_(PoolView!vars)
  BY PoolStep
<1> QED BY <1>1, <1>2, <1>3, Invariance, PTL DEF Spec, ImplementsPoolClaims, PoolView!Spec
=============================================================================
