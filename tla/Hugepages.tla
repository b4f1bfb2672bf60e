----------------------------- MODULE Hugepages -----------------------------
(***************************************************************************)
(* The hugepage reservations: handle_allocate_hugepages of                 *)
(* daemon_handler.py, the records of hugepages_db.py and the overlay of    *)
(* memory_manager.py.                                                      *)
(*                                                                         *)
(* Reservations are book-keeping only.  A request for more pages is        *)
(* checked against sysfs and the records in several reads, and recorded    *)
(* later in a transaction of its own.  The kernel goes on in between.      *)
(* There is one daemon, which serves one request at a time.                *)
(***************************************************************************)
EXTENDS Integers, FiniteSets, FiniteSetsExt, SequencesExt

CONSTANTS
    Services,
    Keys,            \* the pairs of a node and a page size
    Pages,           \* Pages[k]: nr_hugepages at first
    MaxPages,        \* bound: how many pages the kernel may have of a key
    Resizable,       \* keys whose pool an administrator resizes
    InitialRecords,  \* state files which the first daemon may find
    Requests         \* the requests which clients send

\* A count of 0 is never recorded.
Entries == [key : Keys, count : Int \ {0}]

HugepageRequests == [ service_name : Services, key : Keys, hugepages_requested : Int \ {0} ]

ASSUME ServicesAssumption == IsFiniteSet(Services)
ASSUME PagesAssumption ==
    MaxPages \in Nat /\ Pages \in [Keys -> 0..MaxPages] /\ Resizable \subseteq Keys
ASSUME HugepageRequestAssumption == Requests \subseteq HugepageRequests
ASSUME RecordsAssumption == \A r \in InitialRecords : r \in [Services -> Seq(Entries)]

VARIABLES
    records,    \* the entries of each service in the state file
    uncertain,  \* the latch of the state store
    total,      \* total[k]: nr_hugepages
    used,       \* used[k]: nr_hugepages less free_hugepages
    work        \* the request being served and what has been read for it

vars == << records, uncertain, total, used, work >>

kernel == << total, used >>

Ready == [at |-> "ready"]

Checks == [ at       : {"total", "free", "tracked", "existing", "record"},
            request  : Requests,
            total    : 0..MaxPages,              \* as read
            free     : 0..MaxPages,
            tracked  : Int,                      \* reserved by all
            existing : Int ]                     \* reserved by the service

Init ==
    /\ records \in InitialRecords
    /\ uncertain = FALSE
    /\ total = Pages
    /\ used \in [Keys -> 0..MaxPages] /\ \A k \in Keys : used[k] <= total[k]
    /\ work = Ready

-----------------------------------------------------------------------------
(* The records                                                             *)

\* The entries of a list for some of the keys, in their order.
EntriesFor(list, keys) ==
    FoldLeft(LAMBDA kept, e : IF e.key \in keys THEN Append(kept, e) ELSE kept, << >>, list)

EntriesOf(all, s, k) == EntriesFor(all[s], {k})

\* A state file of an older version may hold several entries for one key.
Reserved(all, s, k) ==
    LET entries == EntriesOf(all, s, k)
    IN  SumFunction([i \in DOMAIN entries |-> entries[i].count])

\* get_numa_hugepages_info: tracked_per_size.
Tracked(all, k) == SumFunction([s \in Services |-> Reserved(all, s, k)])

\* _get_hugepages_context: the first entry counts.
Existing(all, s, k) ==
    IF EntriesOf(all, s, k) = << >> THEN 0 ELSE EntriesOf(all, s, k)[1].count

Without(all, s, k) == [all EXCEPT ![s] = EntriesFor(@, Keys \ {k})]

\* Faulty variant: the entry is added to those of its key.
UpsertAppending(all, s, k, n) == [all EXCEPT ![s] = Append(@, [key |-> k, count |-> n])]

Upsert(all, s, k, n) ==
    [Without(all, s, k) EXCEPT ![s] = Append(@, [key |-> k, count |-> n])]

\* Faulty variant: reservations are not taken off the free pages.
OverlayNothing(t, free, tracked) == free

\* The free pages less the reserved ones which nobody uses yet.
Overlay(t, free, tracked) ==
    LET usedRaw   == Max({t - free, 0})
        toOverlay == Max({tracked - usedRaw, 0})
    IN  IF tracked <= 0 THEN free ELSE Max({free - toOverlay, 0})

-----------------------------------------------------------------------------
(* Checking a request                                                      *)

Service == work.request.service_name
Key     == work.request.key

Step(w) ==
    /\ work' = w
    /\ UNCHANGED << records, uncertain, kernel >>

\* Only a request for pages looks at the capacity.
Begin(r) ==
    /\ work = Ready
    /\ Step([ at       |-> IF r.hugepages_requested > 0 THEN "total" ELSE "record",
              request  |-> r,
              total    |-> 0,
              free     |-> 0,
              tracked  |-> 0,
              existing |-> 0 ])

\* A count which cannot be read is 0.
ReadTotal ==
    /\ work.at = "total"
    /\ \E n \in {0, total[Key]} : Step([work EXCEPT !.at = "free", !.total = n])

ReadFree ==
    /\ work.at = "free"
    /\ \E n \in {0, total[Key] - used[Key]} :
           Step([work EXCEPT !.at = "tracked", !.free = n])

ReadTracked ==
    /\ work.at = "tracked"
    /\ Step([work EXCEPT !.at = "existing", !.tracked = Tracked(records, Key)])

\* Faulty variant: only the reservation of the service itself is looked at.
FitsTotal(w) == w.request.hugepages_requested <= Max({w.total, w.free})

\* More pages than before need free ones.
Fits(w) ==
    LET delta == w.request.hugepages_requested - w.existing
    IN  delta > 0 => delta <= Overlay(w.total, w.free, w.tracked)

ReadExisting ==
    /\ work.at = "existing"
    /\ LET w == [work EXCEPT !.existing = Existing(records, Service, Key)]
       IN  Step(IF Fits(w) THEN [w EXCEPT !.at = "record"] ELSE Ready)

\* The node or the page size is not there, or the state file cannot be read.
CheckFails ==
    /\ work.at \in {"total", "free", "tracked", "existing"}
    /\ Step(Ready)

-----------------------------------------------------------------------------
(* Recording it                                                            *)

\* Faulty variant: -1 leaves an entry of no pages.
ReplacementZeroing(all, r) ==
    Upsert(all, r.service_name, r.key,
           IF r.hugepages_requested = -1 THEN 0 ELSE r.hugepages_requested)

\* -1 removes the entries of the key.
Replacement(all, r) ==
    IF r.hugepages_requested = -1
    THEN Without(all, r.service_name, r.key)
    ELSE Upsert(all, r.service_name, r.key, r.hugepages_requested)

\* The transaction of the state store: success, or an error after the rename.
Record ==
    /\ work.at = "record"
    /\ ~uncertain
    /\ records' = Replacement(records, work.request)
    /\ uncertain' \in BOOLEAN
    /\ work' = Ready
    /\ UNCHANGED kernel

\* An error before the rename, or the latch is set.
RecordFails ==
    /\ work.at = "record"
    /\ uncertain' \in {TRUE, uncertain}
    /\ work' = Ready
    /\ UNCHANGED << records, kernel >>

-----------------------------------------------------------------------------
(* The environment                                                         *)

\* The daemon dies anywhere and starts again; in the middle of a transaction
\* that is a Record or a RecordFails which nobody is told of.
Restart == work # Ready /\ Step(Ready)

\* The operator runs StateStore.recover().
Recover ==
    /\ uncertain
    /\ uncertain' = FALSE
    /\ UNCHANGED << records, kernel, work >>

\* Programs map and unmap pages, with or without a reservation.
Use(k, n) ==
    /\ n <= total[k] /\ n # used[k]
    /\ used' = [used EXCEPT ![k] = n]
    /\ UNCHANGED << records, uncertain, total, work >>

\* The administrator resizes the pool; pages in use stay.
Resize(k, n) ==
    /\ used[k] <= n /\ n # total[k]
    /\ total' = [total EXCEPT ![k] = n]
    /\ UNCHANGED << records, uncertain, used, work >>

Next ==
    \/ \E r \in Requests : Begin(r)
    \/ ReadTotal
    \/ ReadFree
    \/ ReadTracked
    \/ ReadExisting
    \/ CheckFails
    \/ Record
    \/ RecordFails
    \/ Restart
    \/ Recover
    \/ \E k \in Keys, n \in 0..MaxPages : Use(k, n)
    \/ \E k \in Resizable, n \in 0..MaxPages : Resize(k, n)

Spec == Init /\ [][Next]_vars

-----------------------------------------------------------------------------
(* Properties                                                              *)

TypeOK ==
    /\ records \in [Services -> Seq(Entries)]
    /\ uncertain \in BOOLEAN
    /\ total \in [Keys -> 0..MaxPages]
    /\ used \in [Keys -> 0..MaxPages]
    /\ work \in Checks \cup {Ready}

\* The reservations never exceed the pages there are, whatever programs map
\* in the meantime, if nobody resizes the pool: what is used of a reservation
\* is not counted twice, and what nobody uses yet is not given to a second
\* service.
ReservationsFit == \A k \in Keys \ Resizable : Tracked(records, k) <= total[k]

\* Even if the pool is resized between the reads, more is reserved only as
\* far as one of the counts read from sysfs allows.
GrowthWithinRead ==
    [][\A k \in Keys : Tracked(records', k) > Tracked(records, k) =>
           k = Key /\ Tracked(records', k) <= Max({work.total, work.free})
      ]_vars

\* A request which is recorded becomes the whole reservation of its service
\* and key, whatever an older version left there, and no other changes.
RequestRecorded ==
    [][records' # records =>
           /\ Reserved(records', Service, Key) = Max({work.request.hugepages_requested, 0})
           /\ \A s \in Services, k \in Keys :
                  << s, k >> # << Service, Key >>
                      => EntriesOf(records', s, k) = EntriesOf(records, s, k)
      ]_vars

\* README: "Number of hugepages to record (>0), use -1 to deallocate".
RecordsPositive ==
    \A s \in Services : \A i \in DOMAIN records[s] : records[s][i].count > 0
=============================================================================
