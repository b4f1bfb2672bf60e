----------------------------- MODULE StateStore -----------------------------
(***************************************************************************)
(* state_store.py: the state file, its replacement by temporary file and   *)
(* rename under an exclusive lock, and the uncertainty latch, for several  *)
(* processes, with failing system calls, processes killed anywhere, and    *)
(* power loss.                                                             *)
(*                                                                         *)
(* A file has a visible content, which every process reads, and contents   *)
(* which a power loss may leave on the disk: the one last synced and all   *)
(* those written since.                                                    *)
(***************************************************************************)
EXTENDS FiniteSets

CONSTANTS
    Procs,     \* the daemon, and others which use the store
    Sections,  \* the independent parts of the state
    Contents,  \* what a section may hold
    NoProc,    \* nobody holds the lock
    NoState,   \* no replacement is being written
    Torn       \* a file cut off in the middle

States == [Sections -> Contents]

ASSUME StoreAssumption ==
    NoProc \notin Procs /\ NoState \notin States /\ Torn \notin States

VARIABLES
    file,         \* the state file as it is read
    fileOnDisk,   \* what a power loss may leave of it
    marker,       \* does the lock file hold the marker?
    markerOnDisk, \* what a power loss may leave of that
    suspects,     \* processes with the path in their _uncertain_paths
    lock,         \* who holds the flock, or NoProc
    work,         \* work[p]: the local variables of p
    outcome       \* what the last transaction told its caller

vars == << file, fileOnDisk, marker, markerOnDisk, suspects, lock, work, outcome >>

disk == << file, fileOnDisk, marker, markerOnDisk >>

Places == { "write", "sync_temp", "mark", "sync_mark", "replace",
            "sync_directory", "clear", "sync_clear", "recover" }

Free == [at |-> "free"]

\* In a recovery nothing is replaced and data is NoState.
Works == [ at       : Places,
           read     : States,   \* the state as read under the lock
           section  : Sections,
           data     : States \cup {NoState},
           synced   : BOOLEAN,  \* the temporary file
           replaced : BOOLEAN ]

Outcomes == {"none", "done", "failed", "uncertain"}

Init ==
    /\ file \in States
    /\ fileOnDisk = {file}
    /\ marker = FALSE
    /\ markerOnDisk = {FALSE}
    /\ suspects = {}
    /\ lock = NoProc
    /\ work = [p \in Procs |-> Free]
    /\ outcome = "none"

At(p, place) == work[p].at = place

Goto(p, place) == work' = [work EXCEPT ![p].at = place]

\* The locked region is left.
Leave(p, result) ==
    /\ lock' = NoProc
    /\ work' = [work EXCEPT ![p] = Free]
    /\ outcome' = result

\* An exception leaves it: StateUncertainError if the file was replaced.
Raise(p) ==
    Leave(p, IF work[p].data = NoState THEN "none"
             ELSE IF work[p].replaced THEN "uncertain" ELSE "failed")

-----------------------------------------------------------------------------
(* transaction_section                                                     *)

\* _check_health_unlocked does not raise.
Healthy(p) == p \notin suspects /\ ~marker

\* Faulty variant: the lock is not exclusive.
BeginShared(p, section, content) ==
    /\ At(p, "free")
    /\ Healthy(p)
    /\ lock' = p
    /\ work' = [work EXCEPT ![p] = [ at       |-> "write",
                                     read     |-> file,
                                     section  |-> section,
                                     data     |-> [file EXCEPT ![section] = content],
                                     synced   |-> FALSE,
                                     replaced |-> FALSE ]]
    /\ outcome' = "none"
    /\ UNCHANGED << disk, suspects >>

\* Under the lock the state is read and a section of it replaced.  That ends
\* without a change if the store is not healthy or the callback raises.
Begin(p, section, content) ==
    /\ At(p, "free") /\ lock = NoProc
    /\ Healthy(p)
    /\ lock' = p
    /\ work' = [work EXCEPT ![p] = [ at       |-> "write",
                                     read     |-> file,
                                     section  |-> section,
                                     data     |-> [file EXCEPT ![section] = content],
                                     synced   |-> FALSE,
                                     replaced |-> FALSE ]]
    /\ outcome' = "none"
    /\ UNCHANGED << disk, suspects >>

\* Faulty variant: the temporary file is not synced.
WriteTempOnly(p) ==
    /\ At(p, "write")
    /\ Goto(p, "mark")
    /\ UNCHANGED << disk, suspects, lock, outcome >>

WriteTemp(p) ==
    /\ At(p, "write")
    /\ Goto(p, "sync_temp")
    /\ UNCHANGED << disk, suspects, lock, outcome >>

SyncTemp(p) ==
    /\ At(p, "sync_temp")
    /\ work' = [work EXCEPT ![p].at = "mark", ![p].synced = TRUE]
    /\ UNCHANGED << disk, suspects, lock, outcome >>

TempFails(p) ==
    /\ At(p, "write") \/ At(p, "sync_temp")
    /\ Raise(p)
    /\ UNCHANGED << disk, suspects >>

-----------------------------------------------------------------------------
(* _set_uncertain_unlocked(True)                                           *)

SetMarker(value) ==
    /\ marker' = value
    /\ markerOnDisk' = markerOnDisk \cup {value}

Mark(p) ==
    /\ At(p, "mark")
    /\ suspects' = suspects \cup {p}
    /\ SetMarker(TRUE)
    /\ Goto(p, "sync_mark")
    /\ UNCHANGED << file, fileOnDisk, lock, outcome >>

\* Faulty variant: the marker is not synced.
MarkUnsynced(p) ==
    /\ At(p, "sync_mark")
    /\ Goto(p, "replace")
    /\ UNCHANGED << disk, suspects, lock, outcome >>

SyncMark(p) ==
    /\ At(p, "sync_mark")
    /\ markerOnDisk' = {marker}
    /\ Goto(p, "replace")
    /\ UNCHANGED << file, fileOnDisk, marker, suspects, lock, outcome >>

\* The handler writes the marker once more, or cannot open the lock file.
Remark == SetMarker(TRUE) \/ UNCHANGED << marker, markerOnDisk >>

MarkFails(p) ==
    /\ At(p, "mark") \/ At(p, "sync_mark")
    /\ suspects' = suspects \cup {p}
    /\ Remark
    /\ Raise(p)
    /\ UNCHANGED << file, fileOnDisk >>

-----------------------------------------------------------------------------
(* os.replace and _sync_directory                                          *)

Replace(p) ==
    /\ At(p, "replace")
    /\ file' = work[p].data
    /\ fileOnDisk' = fileOnDisk \cup {work[p].data}
                        \cup IF work[p].synced THEN {} ELSE {Torn}
    /\ work' = [work EXCEPT ![p].at = "sync_directory", ![p].replaced = TRUE]
    /\ UNCHANGED << marker, markerOnDisk, suspects, lock, outcome >>

\* Faulty variant: a failed rename is tried again from the start.
ReplaceRetried(p) ==
    /\ At(p, "replace")
    /\ Goto(p, "mark")
    /\ UNCHANGED << disk, suspects, lock, outcome >>

\* Nothing has been replaced: the marker is removed again.
ReplaceFails(p) ==
    /\ At(p, "replace")
    /\ Goto(p, "clear")
    /\ UNCHANGED << disk, suspects, lock, outcome >>

SyncDirectory(p) ==
    /\ At(p, "sync_directory")
    /\ fileOnDisk' = {file}
    /\ Goto(p, "clear")
    /\ UNCHANGED << file, marker, markerOnDisk, suspects, lock, outcome >>

\* Faulty variant: the marker is removed after any error.
SyncDirectoryFailsClearing(p) ==
    /\ At(p, "sync_directory")
    /\ Goto(p, "clear")
    /\ UNCHANGED << disk, suspects, lock, outcome >>

\* The marker stays.
SyncDirectoryFails(p) ==
    /\ At(p, "sync_directory")
    /\ Raise(p)
    /\ UNCHANGED << disk, suspects >>

-----------------------------------------------------------------------------
(* _set_uncertain_unlocked(False), and the end of the operation            *)

Clear(p) ==
    /\ At(p, "clear")
    /\ suspects' = suspects \cup {p}
    /\ SetMarker(FALSE)
    /\ Goto(p, "sync_clear")
    /\ UNCHANGED << file, fileOnDisk, lock, outcome >>

\* Faulty variant: a cleared marker counts as success.
SyncClearAlwaysDone(p) ==
    /\ At(p, "sync_clear")
    /\ markerOnDisk' = {marker}
    /\ suspects' = suspects \ {p}
    /\ Leave(p, "done")
    /\ UNCHANGED << file, fileOnDisk, marker >>

\* The operation has succeeded, or the error of a failed rename is raised.
SyncClear(p) ==
    /\ At(p, "sync_clear")
    /\ markerOnDisk' = {marker}
    /\ suspects' = suspects \ {p}
    /\ IF work[p].replaced THEN Leave(p, "done") ELSE Raise(p)
    /\ UNCHANGED << file, fileOnDisk, marker >>

ClearFails(p) ==
    /\ At(p, "clear") \/ At(p, "sync_clear")
    /\ suspects' = suspects \cup {p}
    /\ Remark
    /\ Raise(p)
    /\ UNCHANGED << file, fileOnDisk >>

-----------------------------------------------------------------------------
(* recover(), which an operator runs, whatever the latch says              *)

BeginRecover(p) ==
    /\ At(p, "free") /\ lock = NoProc
    /\ lock' = p
    /\ \E section \in Sections :
           work' = [work EXCEPT ![p] = [ at       |-> "recover",
                                         read     |-> file,
                                         section  |-> section,
                                         data     |-> NoState,
                                         synced   |-> FALSE,
                                         replaced |-> FALSE ]]
    /\ outcome' = "none"
    /\ UNCHANGED << disk, suspects >>

\* Faulty variant: the latch is cleared without a sync.
SyncStateSkipped(p) ==
    /\ At(p, "recover")
    /\ Goto(p, "clear")
    /\ UNCHANGED << disk, suspects, lock, outcome >>

\* The visible state file and its directory are synced.
SyncState(p) ==
    /\ At(p, "recover")
    /\ fileOnDisk' = {file}
    /\ Goto(p, "clear")
    /\ UNCHANGED << file, marker, markerOnDisk, suspects, lock, outcome >>

SyncStateFails(p) ==
    /\ At(p, "recover")
    /\ Raise(p)
    /\ UNCHANGED << disk, suspects >>

-----------------------------------------------------------------------------
(* The environment                                                         *)

\* A process dies, and the kernel drops its lock.  What it has written stays
\* visible.
Kill(p) ==
    /\ lock' = IF lock = p THEN NoProc ELSE lock
    /\ work' = [work EXCEPT ![p] = Free]
    /\ outcome' = IF lock = p THEN "none" ELSE outcome
    /\ suspects' = suspects \ {p}
    /\ UNCHANGED disk

\* The host goes down, with what it happens to have on its disk.
PowerLoss ==
    /\ file' \in fileOnDisk /\ fileOnDisk' = {file'}
    /\ marker' \in markerOnDisk /\ markerOnDisk' = {marker'}
    /\ suspects' = {}
    /\ lock' = NoProc
    /\ work' = [p \in Procs |-> Free]
    /\ outcome' = "none"

-----------------------------------------------------------------------------

\* The holder of the lock goes on.
Step(p) ==
    \/ WriteTemp(p)
    \/ SyncTemp(p)
    \/ TempFails(p)
    \/ Mark(p)
    \/ SyncMark(p)
    \/ MarkFails(p)
    \/ Replace(p)
    \/ ReplaceFails(p)
    \/ SyncDirectory(p)
    \/ SyncDirectoryFails(p)
    \/ Clear(p)
    \/ SyncClear(p)
    \/ ClearFails(p)
    \/ SyncState(p)
    \/ SyncStateFails(p)

Next ==
    \/ \E p \in Procs :
           \/ \E section \in Sections, content \in Contents : Begin(p, section, content)
           \/ BeginRecover(p)
           \/ Step(p)
           \/ Kill(p)
    \/ PowerLoss

Spec == Init /\ [][Next]_vars

\* System calls return: who holds the lock goes on, unless it is killed.
FairSpec == Spec /\ \A p \in Procs : WF_vars(Step(p))

-----------------------------------------------------------------------------
(* Properties                                                              *)

\* The transaction which holds the lock, if one does.
Writing == {p \in Procs : lock = p /\ work[p] # Free /\ work[p].data # NoState}

TypeOK ==
    /\ file \in States
    /\ fileOnDisk \subseteq States /\ file \in fileOnDisk
    /\ marker \in BOOLEAN
    /\ markerOnDisk \subseteq BOOLEAN /\ marker \in markerOnDisk
    /\ suspects \subseteq Procs
    /\ lock \in Procs \cup {NoProc}
    /\ work \in [Procs -> Works \cup {Free}]
    /\ outcome \in Outcomes

\* Whenever a power loss may change what readers have seen, it cannot lose
\* the latch (docs/nonpreemptive-allocations.md: "Before replacement its
\* marker and directory entry are synced").
DoubtIsLatched == fileOnDisk # {file} => markerOnDisk = {TRUE}

\* No power loss ever leaves a file cut off in the middle, which would crash
\* every later daemon with StateCorruptionError.
NeverTorn == Torn \notin fileOnDisk

\* What a transaction tells its caller is so, and will be so after a power
\* loss: after success the new state, unlatched; after an ordinary error the
\* state it read; after StateUncertainError the new state is at least visible.
OutcomesTrue ==
    [][\A p \in Procs : lock = p /\ outcome' # outcome =>
           /\ outcome' = "done" =>
                  file' = work[p].data /\ fileOnDisk' = {file'} /\ markerOnDisk' = {FALSE}
           /\ outcome' = "failed" => file' = work[p].read /\ fileOnDisk' = {file'}
           /\ outcome' = "uncertain" => file' = work[p].data
      ]_vars

\* A transaction replaces its section in the state as it then is, and no
\* other section; neither does a power loss take back more than the one
\* section of the last transaction.  So an update of the CPU claims never
\* undoes one of the hugepages by another process.
SectionsIndependent ==
    [][file' # file =>
           \E section \in Sections :
               /\ \A s \in Sections \ {section} : file'[s] = file[s]
               /\ \A p \in Writing : section = work[p].section
      ]_vars

\* Nobody waits for the lock forever because its holder does not get on.
LockReleased == \A p \in Procs : lock = p ~> lock # p

-----------------------------------------------------------------------------
(* The promise to the databases                                            *)

\* While a transaction runs, callers see what it has read.
Observed == IF Writing = {} THEN file ELSE work[CHOOSE p \in Writing : TRUE].read

Proposed == IF Writing = {} THEN NoState ELSE work[CHOOSE p \in Writing : TRUE].data

Blocked == Writing = {} /\ marker

Store == INSTANCE AtomicCommit WITH
    Values   <- States,
    NoValue  <- NoState,
    value    <- Observed,
    proposed <- Proposed,
    blocked  <- Blocked

\* What callers see is an atomic replacement, whatever fails or crashes.
ImplementsAtomicCommit == Store!Spec
=============================================================================
