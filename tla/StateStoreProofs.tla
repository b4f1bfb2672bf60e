-------------------------- MODULE StateStoreProofs --------------------------
(***************************************************************************)
(* The inductive invariant of module StateStore, and the theorems it       *)
(* gives: a power loss never leaves a doubtful state file without its      *)
(* latch, errors tell the truth, and the store is an atomic commit.        *)
(***************************************************************************)
EXTENDS StateStore, TLAPS

\* f and g differ in one section at most.
DifferIn(section, f, g) == \A s \in Sections \ {section} : f[s] = g[s]

\* What is true of the files when the holder p of the lock is at a place.
Progress(p) ==
    LET w == work[p] IN
    /\ w.data = NoState => w.at \in {"recover", "clear", "sync_clear"}
    /\ w.data # NoState => DifferIn(w.section, w.data, w.read)
    /\ w.at \in {"write", "sync_temp", "mark", "sync_mark", "replace"} =>
           fileOnDisk = {file} /\ file = w.read /\ ~w.replaced /\ w.data # NoState
    /\ w.at \in {"mark", "sync_mark", "replace", "sync_directory"} => w.synced
    /\ w.at = "sync_mark" => marker
    /\ w.at \in {"replace", "sync_directory"} => marker /\ markerOnDisk = {TRUE}
    /\ w.at = "sync_directory" =>
           w.replaced /\ file = w.data /\ fileOnDisk \subseteq {w.read, w.data}
    /\ w.at \in {"clear", "sync_clear"} =>
           /\ fileOnDisk = {file}
           /\ w.data # NoState => file = IF w.replaced THEN w.data ELSE w.read
    /\ w.data = NoState => ~w.replaced
    /\ w.at = "recover" => w.data = NoState
    /\ w.at = "sync_clear" => ~marker

\* The files are in doubt by one transaction at most.
DoubtIsSmall ==
    fileOnDisk # {file} =>
        \E section \in Sections : \A f \in fileOnDisk, s \in Sections :
            s = section \/ file[s] = f[s]

IInv ==
    /\ TypeOK
    /\ \A p \in Procs : work[p] # Free <=> lock = p
    /\ \A p \in Procs : lock = p => Progress(p)
    /\ DoubtIsLatched
    /\ DoubtIsSmall

-----------------------------------------------------------------------------
(* How the local variables of the holder change                            *)

\* A free process is not at work.
LEMMA FreeIsNoWork == Free \notin Works
  BY DEF Free, Works

\* The holder of the lock is at one of the places.
LEMMA HolderWorks ==
    ASSUME IInv, NEW p \in Procs, work[p] # Free
    PROVE  lock = p /\ work[p] \in Works /\ Progress(p)
  BY DEF IInv, TypeOK

\* Nobody writes a file.
LEMMA DoubtUnchanged ==
    ASSUME DoubtIsLatched, DoubtIsSmall, UNCHANGED << file, fileOnDisk, markerOnDisk >>
    PROVE  DoubtIsLatched' /\ DoubtIsSmall'
  BY DEF DoubtIsLatched, DoubtIsSmall

\* Nothing but the place of p changes.
Moved(p, place) ==
    /\ work' \in [Procs -> Works \cup {Free}]
    /\ \A q \in Procs \ {p} : work'[q] = work[q]
    /\ work'[p] \in Works
    /\ work'[p].at = place
    /\ work'[p].read = work[p].read
    /\ work'[p].section = work[p].section
    /\ work'[p].data = work[p].data
    /\ work'[p].synced = work[p].synced
    /\ work'[p].replaced = work[p].replaced

\* Going on moves the place only.
LEMMA GotoMoves ==
    ASSUME work \in [Procs -> Works \cup {Free}], NEW p \in Procs, work[p] \in Works,
           NEW place \in Places, Goto(p, place)
    PROVE  Moved(p, place)
  <1>1. work' = [work EXCEPT ![p] = [work[p] EXCEPT !.at = place]]
    BY DEF Goto
  <1>2. [work[p] EXCEPT !.at = place] \in Works
    BY DEF Works
  <1>3. work'[p] = [work[p] EXCEPT !.at = place]
    BY <1>1
  <1>4. work' \in [Procs -> Works \cup {Free}] /\ \A q \in Procs \ {p} : work'[q] = work[q]
    BY <1>1, <1>2
  <1> QED
    BY <1>2, <1>3, <1>4 DEF Moved, Works

\* What leaving the locked region does.
Left(p) ==
    /\ lock' = NoProc
    /\ work' \in [Procs -> Works \cup {Free}]
    /\ work'[p] = Free
    /\ \A q \in Procs \ {p} : work'[q] = work[q]
    /\ outcome' \in Outcomes

\* A result leaves the region.
LEMMA LeaveLeaves ==
    ASSUME work \in [Procs -> Works \cup {Free}], NEW p \in Procs,
           NEW result \in Outcomes, Leave(p, result)
    PROVE  Left(p)
  BY DEF Leave, Left

\* So does an exception, whatever it tells the caller.
LEMMA RaiseLeaves ==
    ASSUME work \in [Procs -> Works \cup {Free}], NEW p \in Procs, Raise(p)
    PROVE  Left(p)
  BY LeaveLeaves DEF Raise, Outcomes

\* When the region is left, the files are not in doubt, or latched.
LEMMA LeftKeeps ==
    ASSUME IInv, NEW p \in Procs, lock = p, Left(p),
           file' \in States, fileOnDisk' \subseteq States, file' \in fileOnDisk',
           marker' \in BOOLEAN, markerOnDisk' \subseteq BOOLEAN, marker' \in markerOnDisk',
           suspects' \subseteq Procs,
           DoubtIsLatched', DoubtIsSmall'
    PROVE  IInv'
  <1>1. TypeOK'
    BY DEF Left, TypeOK
  <1>2. \A q \in Procs : work'[q] = Free
    BY DEF Left, IInv
  <1> QED
    BY <1>1, <1>2, StoreAssumption DEF IInv, Left

\* While p holds the lock it is enough to look at its own progress.
LEMMA MovedKeeps ==
    ASSUME IInv, NEW p \in Procs, lock = p, lock' = lock, outcome' = outcome,
           NEW place \in Places, Moved(p, place),
           file' \in States, fileOnDisk' \subseteq States, file' \in fileOnDisk',
           marker' \in BOOLEAN, markerOnDisk' \subseteq BOOLEAN, marker' \in markerOnDisk',
           suspects' \subseteq Procs,
           DoubtIsLatched', DoubtIsSmall',
           Progress(p)'
    PROVE  IInv'
  <1>1. TypeOK'
    BY DEF Moved, TypeOK, IInv
  <1>2. \A q \in Procs : work'[q] # Free <=> lock' = q
    BY FreeIsNoWork DEF Moved, IInv
  <1> QED
    BY <1>1, <1>2 DEF IInv

-----------------------------------------------------------------------------
(* IInv is inductive                                                       *)

\* The initial states.
LEMMA InitKeeps == ASSUME Init PROVE IInv
  <1>1. fileOnDisk = {file} /\ DoubtIsLatched
    BY DEF Init, DoubtIsLatched
  <1>2. TypeOK
    BY DEF Init, TypeOK, Outcomes
  <1>3. \A p \in Procs : work[p] = Free /\ lock # p
    BY StoreAssumption DEF Init
  <1> QED
    BY <1>1, <1>2, <1>3 DEF IInv, DoubtIsSmall

\* Taking the lock for a transaction.
LEMMA BeginKeeps ==
    ASSUME IInv, NEW p \in Procs, NEW section \in Sections, NEW content \in Contents,
           Begin(p, section, content)
    PROVE  IInv'
  <1> DEFINE w == [ at       |-> "write",
                    read     |-> file,
                    section  |-> section,
                    data     |-> [file EXCEPT ![section] = content],
                    synced   |-> FALSE,
                    replaced |-> FALSE ]
  <1>1. work' = [work EXCEPT ![p] = w] /\ lock' = p /\ lock = NoProc /\ ~marker
    BY DEF Begin, Healthy
  <1>2. w.data \in States /\ DifferIn(section, w.data, file)
    BY DEF IInv, TypeOK, States, DifferIn
  <1>3. w \in Works
    BY <1>2 DEF Works, Places, IInv, TypeOK
  <1>4. /\ work' \in [Procs -> Works \cup {Free}] /\ work'[p] = w
        /\ \A q \in Procs \ {p} : work'[q] = Free
    BY <1>1, <1>3, StoreAssumption DEF IInv, TypeOK
  <1>5. UNCHANGED << file, fileOnDisk, marker, markerOnDisk, suspects >> /\ outcome' = "none"
    BY DEF Begin, disk
  <1>6. fileOnDisk = {file}
    <2>1. marker \in markerOnDisk /\ marker # TRUE
      BY <1>1 DEF IInv, TypeOK
    <2> QED
      BY <2>1 DEF IInv, DoubtIsLatched
  <1>7. TypeOK'
    BY <1>1, <1>4, <1>5 DEF IInv, TypeOK, Outcomes
  <1>8. Progress(p)'
    <2>1. w.data # NoState
      BY <1>2, StoreAssumption
    <2> HIDE DEF w
    <2>2. /\ w.at = "write" /\ w.read = file /\ ~w.replaced /\ w.section = section
      BY DEF w
    <2> QED
      BY <2>1, <2>2, <1>2, <1>4, <1>5, <1>6 DEF Progress
  <1>9. \A q \in Procs : work'[q] # Free <=> lock' = q
    BY <1>1, <1>3, <1>4, FreeIsNoWork
  <1> QED
    BY <1>1, <1>5, <1>6, <1>7, <1>8, <1>9 DEF IInv, DoubtIsLatched, DoubtIsSmall

\* Taking the lock for a recovery.
LEMMA BeginRecoverKeeps ==
    ASSUME IInv, NEW p \in Procs, BeginRecover(p)
    PROVE  IInv'
  <1>1. PICK section \in Sections :
            work' = [work EXCEPT ![p] = [ at       |-> "recover",
                                          read     |-> file,
                                          section  |-> section,
                                          data     |-> NoState,
                                          synced   |-> FALSE,
                                          replaced |-> FALSE ]]
    BY DEF BeginRecover
  <1> DEFINE w == [ at       |-> "recover",
                    read     |-> file,
                    section  |-> section,
                    data     |-> NoState,
                    synced   |-> FALSE,
                    replaced |-> FALSE ]
  <1>2. lock' = p /\ lock = NoProc /\ outcome' = "none"
        /\ UNCHANGED << file, fileOnDisk, marker, markerOnDisk, suspects >>
    BY DEF BeginRecover, disk
  <1>3. w \in Works
    BY DEF Works, Places, IInv, TypeOK
  <1>4. /\ work' \in [Procs -> Works \cup {Free}] /\ work'[p] = w
        /\ \A q \in Procs \ {p} : work'[q] = Free
    BY <1>1, <1>2, <1>3, StoreAssumption DEF IInv, TypeOK
  <1>5. TypeOK'
    BY <1>2, <1>4 DEF IInv, TypeOK, Outcomes
  <1>6. Progress(p)'
    <2> HIDE DEF w
    <2>1. w.at = "recover" /\ w.data = NoState /\ ~w.replaced
      BY DEF w
    <2> QED
      BY <2>1, <1>4 DEF Progress
  <1>7. \A q \in Procs : work'[q] # Free <=> lock' = q
    BY <1>2, <1>3, <1>4, FreeIsNoWork
  <1> QED
    BY <1>2, <1>5, <1>6, <1>7, DoubtUnchanged DEF IInv

\* The steps which touch no file.
LEMMA QuietKeeps ==
    ASSUME IInv, NEW p \in Procs,
           \/ WriteTemp(p)
           \/ SyncTemp(p)
           \/ TempFails(p)
           \/ ReplaceFails(p)
           \/ SyncDirectoryFails(p)
           \/ SyncStateFails(p)
    PROVE  IInv'
  <1>1. work[p] # Free
    BY DEF WriteTemp, SyncTemp, TempFails, ReplaceFails, SyncDirectoryFails, SyncStateFails,
           At, Free
  <1>2. lock = p /\ work[p] \in Works /\ Progress(p)
    BY <1>1, HolderWorks
  <1>3. UNCHANGED << file, fileOnDisk, marker, markerOnDisk, suspects >>
    BY DEF WriteTemp, SyncTemp, TempFails, ReplaceFails, SyncDirectoryFails, SyncStateFails,
           disk
  <1>4. DoubtIsLatched' /\ DoubtIsSmall'
    BY <1>3, DoubtUnchanged DEF IInv
  <1>5. /\ work \in [Procs -> Works \cup {Free}]
        /\ file' \in States /\ fileOnDisk' \subseteq States /\ file' \in fileOnDisk'
        /\ marker' \in BOOLEAN /\ markerOnDisk' \subseteq BOOLEAN /\ marker' \in markerOnDisk'
        /\ suspects' \subseteq Procs
    BY <1>3 DEF IInv, TypeOK
  <1>6. CASE WriteTemp(p)
    <2>1. Moved(p, "sync_temp") /\ lock' = lock /\ outcome' = outcome /\ work[p].at = "write"
      BY <1>2, <1>5, <1>6, GotoMoves DEF WriteTemp, At, Places
    <2>2. Progress(p)'
      BY <1>2, <1>3, <2>1 DEF Progress, Moved, DifferIn
    <2> QED
      BY <1>2, <1>4, <1>5, <2>1, <2>2, MovedKeeps DEF Places
  <1>7. CASE SyncTemp(p)
    <2>1. /\ work' \in [Procs -> Works \cup {Free}] /\ work'[p] \in Works
          /\ \A q \in Procs \ {p} : work'[q] = work[q]
          /\ work'[p] = [work[p] EXCEPT !.at = "mark", !.synced = TRUE]
          /\ lock' = lock /\ outcome' = outcome /\ work[p].at = "sync_temp"
      BY <1>2, <1>5, <1>7 DEF SyncTemp, At, Works, Places
    <2>2. /\ work'[p].at = "mark" /\ work'[p].synced
          /\ work'[p].read = work[p].read /\ work'[p].data = work[p].data
          /\ work'[p].section = work[p].section /\ work'[p].replaced = work[p].replaced
      BY <1>2, <2>1 DEF Works
    <2>3. Progress(p)'
      BY <1>2, <1>3, <2>1, <2>2 DEF Progress, DifferIn
    <2>4. TypeOK'
      BY <1>5, <2>1 DEF IInv, TypeOK
    <2>5. \A q \in Procs : work'[q] # Free <=> lock' = q
      BY <1>2, <2>1, FreeIsNoWork DEF IInv
    <2> QED
      BY <1>2, <1>4, <2>1, <2>3, <2>4, <2>5 DEF IInv
  <1>8. CASE ReplaceFails(p)
    <2>1. Moved(p, "clear") /\ lock' = lock /\ outcome' = outcome /\ work[p].at = "replace"
      BY <1>2, <1>5, <1>8, GotoMoves DEF ReplaceFails, At, Places
    <2>2. Progress(p)'
      BY <1>2, <1>3, <2>1 DEF Progress, Moved, DifferIn
    <2> QED
      BY <1>2, <1>4, <1>5, <2>1, <2>2, MovedKeeps DEF Places
  <1>9. CASE TempFails(p) \/ SyncDirectoryFails(p) \/ SyncStateFails(p)
    <2>1. Left(p)
      BY <1>5, <1>9, RaiseLeaves DEF TempFails, SyncDirectoryFails, SyncStateFails
    <2> QED
      BY <1>2, <1>4, <1>5, <2>1, LeftKeeps
  <1> QED
    BY <1>6, <1>7, <1>8, <1>9

\* A file which is not in doubt needs no latch.
LEMMA NoDoubt == ASSUME fileOnDisk = {file} PROVE DoubtIsLatched /\ DoubtIsSmall
  BY DEF DoubtIsLatched, DoubtIsSmall

\* Writing the marker before the rename, while the file is not in doubt.
LEMMA MarkKeeps ==
    ASSUME IInv, NEW p \in Procs, Mark(p) \/ SyncMark(p) \/ MarkFails(p)
    PROVE  IInv'
  <1>1. work[p] # Free /\ work[p].at \in {"mark", "sync_mark"}
    <2>1. work[p].at \in {"mark", "sync_mark"}
      BY DEF Mark, SyncMark, MarkFails, At
    <2> QED
      BY <2>1 DEF Free
  <1>2. lock = p /\ work[p] \in Works /\ Progress(p)
    BY <1>1, HolderWorks
  <1>3. fileOnDisk = {file} /\ UNCHANGED << file, fileOnDisk >>
    BY <1>1, <1>2 DEF Progress, Mark, SyncMark, MarkFails
  <1>4. DoubtIsLatched' /\ DoubtIsSmall'
    BY <1>3 DEF DoubtIsLatched, DoubtIsSmall
  <1>5. /\ work \in [Procs -> Works \cup {Free}]
        /\ file' \in States /\ fileOnDisk' \subseteq States /\ file' \in fileOnDisk'
    BY <1>3 DEF IInv, TypeOK
  <1>6. /\ marker' \in BOOLEAN /\ markerOnDisk' \subseteq BOOLEAN
        /\ marker' \in markerOnDisk' /\ suspects' \subseteq Procs
    BY DEF Mark, SyncMark, MarkFails, Remark, SetMarker, IInv, TypeOK
  <1>7. CASE Mark(p)
    <2>1. Moved(p, "sync_mark") /\ lock' = lock /\ outcome' = outcome /\ work[p].at = "mark"
      BY <1>2, <1>5, <1>7, GotoMoves DEF Mark, At, Places
    <2>2. marker'
      BY <1>7 DEF Mark, SetMarker
    <2>3. Progress(p)'
      BY <1>2, <1>3, <2>1, <2>2 DEF Progress, Moved, DifferIn
    <2> QED
      BY <1>2, <1>4, <1>5, <1>6, <2>1, <2>3, MovedKeeps DEF Places
  <1>8. CASE SyncMark(p)
    <2>1. Moved(p, "replace") /\ lock' = lock /\ outcome' = outcome /\ work[p].at = "sync_mark"
      BY <1>2, <1>5, <1>8, GotoMoves DEF SyncMark, At, Places
    <2>2. marker' /\ markerOnDisk' = {TRUE}
      <3>1. marker /\ marker' = marker /\ markerOnDisk' = {marker}
        BY <1>2, <1>8, <2>1 DEF SyncMark, Progress
      <3>2. marker = TRUE
        BY <3>1 DEF IInv, TypeOK
      <3> QED
        BY <3>1, <3>2
    <2>3. Progress(p)'
      BY <1>2, <1>3, <2>1, <2>2 DEF Progress, Moved, DifferIn
    <2> QED
      BY <1>2, <1>4, <1>5, <1>6, <2>1, <2>3, MovedKeeps DEF Places
  <1>9. CASE MarkFails(p)
    <2>1. Left(p)
      BY <1>5, <1>9, RaiseLeaves DEF MarkFails
    <2> QED
      BY <1>2, <1>4, <1>5, <1>6, <2>1, LeftKeeps
  <1> QED
    BY <1>7, <1>8, <1>9

\* The rename puts the file in doubt between what the transaction read and
\* what it wrote, which differ in its section only, under a synced latch.
LEMMA ReplaceKeeps ==
    ASSUME IInv, NEW p \in Procs, Replace(p)
    PROVE  IInv'
  <1> DEFINE w == work[p]
  <1>1. w.at = "replace" /\ w # Free
    BY DEF Replace, At, Free
  <1>2. lock = p /\ w \in Works /\ Progress(p)
    BY <1>1, HolderWorks
  <1>3. /\ fileOnDisk = {file} /\ file = w.read /\ w.data # NoState /\ w.synced
        /\ marker /\ markerOnDisk = {TRUE} /\ DifferIn(w.section, w.data, w.read)
    BY <1>1, <1>2 DEF Progress
  <1>4. file' = w.data /\ fileOnDisk' = {w.read, w.data}
    BY <1>3 DEF Replace
  <1>5. UNCHANGED << marker, markerOnDisk, suspects, lock, outcome >>
    BY DEF Replace
  <1>6. w.data \in States /\ w.read \in States /\ w.section \in Sections
    BY <1>2, <1>3 DEF Works
  <1>7. /\ work' \in [Procs -> Works \cup {Free}] /\ work'[p] \in Works
        /\ \A q \in Procs \ {p} : work'[q] = work[q]
        /\ work'[p] = [w EXCEPT !.at = "sync_directory", !.replaced = TRUE]
    BY <1>2 DEF Replace, Works, Places, IInv, TypeOK
  <1>8. /\ work'[p].at = "sync_directory" /\ work'[p].replaced
        /\ work'[p].read = w.read /\ work'[p].data = w.data
        /\ work'[p].section = w.section /\ work'[p].synced = w.synced
    BY <1>2, <1>7 DEF Works
  <1>9. Progress(p)'
    BY <1>3, <1>4, <1>5, <1>8 DEF Progress, DifferIn
  <1>10. TypeOK'
    BY <1>4, <1>5, <1>6, <1>7 DEF IInv, TypeOK
  <1>11. DoubtIsLatched'
    BY <1>3, <1>5 DEF DoubtIsLatched
  <1>12. DoubtIsSmall'
    BY <1>3, <1>4, <1>6 DEF DoubtIsSmall, DifferIn
  <1>13. \A q \in Procs : work'[q] # Free <=> lock' = q
    BY <1>1, <1>2, <1>5, <1>7, FreeIsNoWork DEF IInv
  <1> QED
    BY <1>2, <1>5, <1>9, <1>10, <1>11, <1>12, <1>13 DEF IInv

\* Syncing what is visible ends the doubt.
LEMMA SyncKeeps ==
    ASSUME IInv, NEW p \in Procs, SyncDirectory(p) \/ SyncState(p)
    PROVE  IInv'
  <1>1. work[p] # Free /\ work[p].at \in {"sync_directory", "recover"}
    BY DEF SyncDirectory, SyncState, At, Free
  <1>2. lock = p /\ work[p] \in Works /\ Progress(p)
    BY <1>1, HolderWorks
  <1>3. /\ fileOnDisk' = {file}
        /\ UNCHANGED << file, marker, markerOnDisk, suspects, lock, outcome >>
        /\ Goto(p, "clear")
    BY DEF SyncDirectory, SyncState
  <1>4. Moved(p, "clear")
    BY <1>2, <1>3, GotoMoves DEF IInv, TypeOK, Places
  <1>5. Progress(p)'
    BY <1>1, <1>2, <1>3, <1>4 DEF Progress, Moved, DifferIn
  <1>6. DoubtIsLatched' /\ DoubtIsSmall'
    BY <1>3 DEF DoubtIsLatched, DoubtIsSmall
  <1> QED
    BY <1>2, <1>3, <1>4, <1>5, <1>6, MovedKeeps DEF IInv, TypeOK, Places

\* Removing the marker, when the file is not in doubt any more.
LEMMA ClearKeeps ==
    ASSUME IInv, NEW p \in Procs, Clear(p) \/ SyncClear(p) \/ ClearFails(p)
    PROVE  IInv'
  <1>1. work[p] # Free /\ work[p].at \in {"clear", "sync_clear"}
    <2>1. work[p].at \in {"clear", "sync_clear"}
      BY DEF Clear, SyncClear, ClearFails, At
    <2> QED
      BY <2>1 DEF Free
  <1>2. lock = p /\ work[p] \in Works /\ Progress(p)
    BY <1>1, HolderWorks
  <1>3. fileOnDisk = {file} /\ UNCHANGED << file, fileOnDisk >>
    BY <1>1, <1>2 DEF Progress, Clear, SyncClear, ClearFails
  <1>4. DoubtIsLatched' /\ DoubtIsSmall'
    BY <1>3 DEF DoubtIsLatched, DoubtIsSmall
  <1>5. /\ work \in [Procs -> Works \cup {Free}]
        /\ file' \in States /\ fileOnDisk' \subseteq States /\ file' \in fileOnDisk'
    BY <1>3 DEF IInv, TypeOK
  <1>6. /\ marker' \in BOOLEAN /\ markerOnDisk' \subseteq BOOLEAN
        /\ marker' \in markerOnDisk' /\ suspects' \subseteq Procs
    BY DEF Clear, SyncClear, ClearFails, Remark, SetMarker, IInv, TypeOK
  <1>7. CASE Clear(p)
    <2>1. Moved(p, "sync_clear") /\ lock' = lock /\ outcome' = outcome /\ work[p].at = "clear"
      BY <1>2, <1>5, <1>7, GotoMoves DEF Clear, At, Places
    <2>2. ~marker'
      BY <1>7 DEF Clear, SetMarker
    <2>3. Progress(p)'
      BY <1>2, <1>3, <2>1, <2>2 DEF Progress, Moved, DifferIn
    <2> QED
      BY <1>2, <1>4, <1>5, <1>6, <2>1, <2>3, MovedKeeps DEF Places
  <1>8. CASE SyncClear(p) \/ ClearFails(p)
    <2>1. Left(p)
      BY <1>5, <1>8, RaiseLeaves, LeaveLeaves DEF SyncClear, ClearFails, Outcomes
    <2> QED
      BY <1>2, <1>4, <1>5, <1>6, <2>1, LeftKeeps
  <1> QED
    BY <1>7, <1>8

\* A process dies: the files stay as they are.
LEMMA KillKeeps ==
    ASSUME IInv, NEW p \in Procs, Kill(p)
    PROVE  IInv'
  <1>1. UNCHANGED << file, fileOnDisk, marker, markerOnDisk >>
    BY DEF Kill, disk
  <1>2. DoubtIsLatched' /\ DoubtIsSmall'
    BY <1>1, DoubtUnchanged DEF IInv
  <1>3. /\ work' \in [Procs -> Works \cup {Free}] /\ work'[p] = Free
        /\ \A q \in Procs \ {p} : work'[q] = work[q]
    BY DEF Kill, IInv, TypeOK
  <1>4. /\ lock' = IF lock = p THEN NoProc ELSE lock
        /\ outcome' \in Outcomes /\ suspects' \subseteq Procs
    BY DEF Kill, IInv, TypeOK, Outcomes
  <1>5. TypeOK'
    BY <1>1, <1>3, <1>4 DEF IInv, TypeOK
  <1>6. \A q \in Procs : work'[q] # Free <=> lock' = q
    BY <1>3, <1>4, StoreAssumption DEF IInv
  <1>7. ASSUME NEW q \in Procs, lock' = q PROVE Progress(q)'
    <2>1. q # p /\ lock = q
      BY <1>4, <1>7, StoreAssumption
    <2>2. Progress(q) /\ work'[q] = work[q]
      BY <1>3, <2>1 DEF IInv
    <2> QED
      BY <1>1, <2>2 DEF Progress
  <1> QED
    BY <1>2, <1>5, <1>6, <1>7 DEF IInv

\* The host comes up again with one of the contents, and no doubt about it.
LEMMA PowerLossKeeps == ASSUME IInv, PowerLoss PROVE IInv'
  <1>1. fileOnDisk' = {file'}
    BY DEF PowerLoss
  <1>2. DoubtIsLatched' /\ DoubtIsSmall'
    BY <1>1 DEF DoubtIsLatched, DoubtIsSmall
  <1>3. TypeOK'
    BY DEF PowerLoss, IInv, TypeOK, Outcomes
  <1>4. \A q \in Procs : work'[q] = Free /\ lock' # q
    BY StoreAssumption DEF PowerLoss
  <1> QED
    BY <1>2, <1>3, <1>4 DEF IInv

\* Nothing changes.
LEMMA StutterKeeps == ASSUME IInv, UNCHANGED vars PROVE IInv'
  <1>1. UNCHANGED << file, fileOnDisk, marker, markerOnDisk, suspects, lock, work, outcome >>
    BY DEF vars
  <1>2. DoubtIsLatched' /\ DoubtIsSmall'
    BY <1>1, DoubtUnchanged DEF IInv
  <1>3. TypeOK'
    BY <1>1 DEF IInv, TypeOK
  <1>4. ASSUME NEW q \in Procs, lock' = q PROVE Progress(q)'
    BY <1>1, <1>4 DEF Progress, IInv
  <1>5. \A q \in Procs : work'[q] # Free <=> lock' = q
    BY <1>1 DEF IInv
  <1> QED
    BY <1>2, <1>3, <1>4, <1>5 DEF IInv

\* Every step keeps the invariant.
LEMMA NextKeeps == ASSUME IInv, [Next]_vars PROVE IInv'
  <1>1. CASE PowerLoss
    BY <1>1, PowerLossKeeps
  <1>2. CASE UNCHANGED vars
    BY <1>2, StutterKeeps
  <1>3. ASSUME NEW p \in Procs, NEW section \in Sections, NEW content \in Contents,
               Begin(p, section, content)
        PROVE  IInv'
    BY <1>3, BeginKeeps
  <1>4. ASSUME NEW p \in Procs, BeginRecover(p) \/ Kill(p) PROVE IInv'
    BY <1>4, BeginRecoverKeeps, KillKeeps
  <1>5. ASSUME NEW p \in Procs, Step(p) PROVE IInv'
    BY <1>5, QuietKeeps, MarkKeeps, ReplaceKeeps, SyncKeeps, ClearKeeps DEF Step
  <1> QED
    BY <1>1, <1>2, <1>3, <1>4, <1>5 DEF Next

\* The inductive invariant holds in every run of the store.
THEOREM Invariance == Spec => []IInv
  BY InitKeeps, NextKeeps, PTL DEF Spec

-----------------------------------------------------------------------------
(* What the inductive invariant gives: the invariants and action           *)
(* properties, and the implementation of AtomicCommit                      *)

\* Every variable of the store keeps its type.
THEOREM TypeCorrect == Spec => []TypeOK
  BY Invariance, PTL DEF IInv

\* A power loss which may change what readers have seen finds the latch set.
THEOREM LatchCoversDoubt == Spec => []DoubtIsLatched
  BY Invariance, PTL DEF IInv

\* No power loss leaves a file cut off in the middle.
THEOREM FilesAreWhole == Spec => []NeverTorn
  <1>1. IInv => NeverTorn
    BY StoreAssumption DEF IInv, TypeOK, NeverTorn
  <1> QED
    BY <1>1, Invariance, PTL

-----------------------------------------------------------------------------
(* One section at a time                                                   *)

\* What the holder of a transaction knows of the files.
LEMMA WriterKnows ==
    ASSUME IInv, NEW p \in Writing
    PROVE  /\ p \in Procs /\ lock = p /\ work[p] \in Works /\ Progress(p)
           /\ work[p].data \in States /\ work[p].data # NoState
           /\ DifferIn(work[p].section, work[p].data, work[p].read)
           /\ fileOnDisk \subseteq {work[p].read, work[p].data} /\ file \in fileOnDisk
           /\ Writing = {p}
  <1>1. p \in Procs /\ lock = p /\ work[p] # Free /\ work[p].data # NoState
    BY DEF Writing
  <1>2. work[p] \in Works /\ Progress(p)
    BY <1>1, HolderWorks
  <1>3. work[p].at \in Places /\ work[p].data \in States
    BY <1>1, <1>2 DEF Works
  <1>4. file \in fileOnDisk
    BY DEF IInv, TypeOK
  <1>5. fileOnDisk \subseteq {work[p].read, work[p].data}
    BY <1>1, <1>2, <1>3 DEF Progress, Places
  <1>6. DifferIn(work[p].section, work[p].data, work[p].read)
    BY <1>1, <1>2 DEF Progress
  <1>7. Writing = {p}
    BY <1>1 DEF Writing
  <1> QED
    BY <1>1, <1>2, <1>3, <1>4, <1>5, <1>6, <1>7

\* Only a rename and a power loss change the state file.
LEMMA FileChanges ==
    ASSUME [Next]_vars
    PROVE  file' = file \/ PowerLoss \/ \E p \in Procs : Replace(p)
  BY DEF Next, vars, Begin, BeginRecover, Kill, Step, disk, WriteTemp, SyncTemp, TempFails,
         Mark, SyncMark, MarkFails, ReplaceFails, SyncDirectory, SyncDirectoryFails, Clear,
         SyncClear, ClearFails, SyncState, SyncStateFails

\* The renaming process holds the lock for a transaction, whose data becomes
\* the file.
LEMMA ReplaceWrites ==
    ASSUME IInv, NEW p \in Procs, Replace(p)
    PROVE  p \in Writing /\ file = work[p].read /\ file' = work[p].data
  <1>1. work[p].at = "replace"
    BY DEF Replace, At
  <1>2. work[p] # Free
    BY <1>1 DEF Free
  <1>3. lock = p /\ Progress(p)
    BY <1>2, HolderWorks
  <1> QED
    BY <1>1, <1>2, <1>3 DEF Progress, Replace, Writing

\* A step changes one section, that of the transaction if there is one.
LEMMA OneSection ==
    ASSUME IInv, [Next]_vars, file' # file
    PROVE  \E section \in Sections :
               /\ \A s \in Sections \ {section} : file'[s] = file[s]
               /\ \A p \in Writing : section = work[p].section
  <1>1. CASE \E p \in Procs : Replace(p)
    <2>1. PICK p \in Procs : Replace(p)
      BY <1>1
    <2>2. p \in Writing /\ file = work[p].read /\ file' = work[p].data
      BY <2>1, ReplaceWrites
    <2>3. /\ work[p].section \in Sections /\ Writing = {p}
          /\ DifferIn(work[p].section, work[p].data, work[p].read)
      BY <2>2, WriterKnows DEF Works
    <2> QED
      BY <2>2, <2>3 DEF DifferIn
  <1>2. CASE PowerLoss /\ Writing # {}
    <2>1. PICK p \in Procs : p \in Writing
      BY <1>2 DEF Writing
    <2>2. /\ work[p].section \in Sections /\ Writing = {p}
          /\ DifferIn(work[p].section, work[p].data, work[p].read)
          /\ fileOnDisk \subseteq {work[p].read, work[p].data} /\ file \in fileOnDisk
      BY <2>1, WriterKnows DEF Works
    <2>3. file' \in fileOnDisk
      BY <1>2 DEF PowerLoss
    <2> QED
      BY <2>2, <2>3 DEF DifferIn
  <1>3. CASE PowerLoss /\ Writing = {}
    <2>1. file' \in fileOnDisk
      BY <1>3 DEF PowerLoss
    <2>2. PICK section \in Sections : \A f \in fileOnDisk, s \in Sections :
              s = section \/ file[s] = f[s]
      BY <2>1 DEF IInv, DoubtIsSmall
    <2> QED
      BY <1>3, <2>1, <2>2
  <1> QED
    BY <1>1, <1>2, <1>3, FileChanges

\* No update of one section ever undoes an update of another.
THEOREM NoLostUpdate == Spec => SectionsIndependent
  <1>1. IInv /\ [Next]_vars =>
            [file' # file =>
                 \E section \in Sections :
                     /\ \A s \in Sections \ {section} : file'[s] = file[s]
                     /\ \A p \in Writing : section = work[p].section]_vars
    BY OneSection
  <1> QED
    BY <1>1, Invariance, PTL DEF Spec, SectionsIndependent

-----------------------------------------------------------------------------
(* Results are true                                                        *)

\* What p may tell its caller in this step.
TrueOutcome(p) ==
    /\ outcome' = "done" =>
           file' = work[p].data /\ fileOnDisk' = {file'} /\ markerOnDisk' = {FALSE}
    /\ outcome' = "failed" => file' = work[p].read /\ fileOnDisk' = {file'}
    /\ outcome' = "uncertain" => file' = work[p].data

\* An exception before the rename is an ordinary error, and one after it
\* leaves the new state visible.
LEMMA RaiseIsTrue ==
    ASSUME IInv, NEW p \in Procs, Raise(p), work[p] # Free,
           UNCHANGED << file, fileOnDisk >>
    PROVE  TrueOutcome(p)
  <1>1. Progress(p) /\ work[p] \in Works
    BY HolderWorks
  <1>2. outcome' = IF work[p].data = NoState THEN "none"
                   ELSE IF work[p].replaced THEN "uncertain" ELSE "failed"
    BY DEF Raise, Leave
  <1>3. work[p].data # NoState =>
            IF work[p].replaced THEN file = work[p].data
            ELSE file = work[p].read /\ fileOnDisk = {file}
    BY <1>1 DEF Progress, Works, Places
  <1> QED
    BY <1>2, <1>3 DEF TrueOutcome

\* What the holder tells its caller is so.
LEMMA HolderTellsTruth ==
    ASSUME IInv, [Next]_vars, NEW p \in Procs, lock = p, outcome' # outcome
    PROVE  TrueOutcome(p)
  <1>1. lock # NoProc
    BY StoreAssumption
  <1>2. work[p] # Free
    BY DEF IInv
  <1>3. \A q \in Procs : work[q] # Free => q = p
    BY DEF IInv
  <1>4. CASE PowerLoss \/ \E q \in Procs : Kill(q)
    BY <1>4 DEF PowerLoss, Kill, TrueOutcome
  <1>5. ASSUME NEW q \in Procs, Step(q) PROVE TrueOutcome(p)
    <2>1. work[q].at # "free"
      BY <1>5 DEF Step, At, WriteTemp, SyncTemp, TempFails, Mark, SyncMark, MarkFails, Replace,
             ReplaceFails, SyncDirectory, SyncDirectoryFails, Clear, SyncClear, ClearFails,
             SyncState, SyncStateFails
    <2>2. q = p
      BY <1>3, <2>1 DEF Free
    <2>3. CASE \/ TempFails(p)
               \/ MarkFails(p)
               \/ SyncDirectoryFails(p)
               \/ ClearFails(p)
               \/ SyncStateFails(p)
      BY <1>2, <2>3, RaiseIsTrue
         DEF TempFails, MarkFails, SyncDirectoryFails, ClearFails, SyncStateFails, disk
    <2>4. CASE SyncClear(p)
      <3>1. work[p].at = "sync_clear" /\ Progress(p)
        BY <1>2, <2>4, HolderWorks DEF SyncClear, At
      <3>2. UNCHANGED << file, fileOnDisk >> /\ markerOnDisk' = {marker}
        BY <2>4 DEF SyncClear
      <3>3. CASE ~work[p].replaced
        BY <1>2, <2>4, <3>2, <3>3, RaiseIsTrue DEF SyncClear
      <3>4. CASE work[p].replaced
        <4>1. outcome' = "done" /\ fileOnDisk = {file} /\ file = work[p].data
          BY <2>4, <3>1, <3>4 DEF SyncClear, Leave, Progress
        <4>2. ~marker
          BY <3>1 DEF Progress
        <4>3. marker = FALSE
          BY <4>2 DEF IInv, TypeOK
        <4> QED
          BY <3>2, <4>1, <4>3 DEF TrueOutcome
      <3> QED
        BY <3>3, <3>4
    <2> QED
      BY <1>5, <2>2, <2>3, <2>4
         DEF Step, WriteTemp, SyncTemp, Mark, SyncMark, Replace, ReplaceFails, SyncDirectory,
             Clear, SyncState
  <1> QED
    BY <1>1, <1>4, <1>5 DEF Next, vars, Begin, BeginRecover

\* Success, error and uncertainty are what the caller is told they are.
THEOREM ResultsAreTrue == Spec => OutcomesTrue
  <1>1. IInv /\ [Next]_vars =>
            [\A p \in Procs : lock = p /\ outcome' # outcome =>
                 /\ outcome' = "done" =>
                        file' = work[p].data /\ fileOnDisk' = {file'} /\ markerOnDisk' = {FALSE}
                 /\ outcome' = "failed" => file' = work[p].read /\ fileOnDisk' = {file'}
                 /\ outcome' = "uncertain" => file' = work[p].data
            ]_vars
    BY HolderTellsTruth DEF TrueOutcome
  <1> QED
    BY <1>1, Invariance, PTL DEF Spec, OutcomesTrue

-----------------------------------------------------------------------------
(* The store is an atomic commit                                           *)

\* What callers see while no transaction runs.
LEMMA Idle ==
    ASSUME IInv, Writing = {}
    PROVE  Observed = file /\ Proposed = NoState /\ Blocked = marker
  <1>1. Observed = file /\ Proposed = NoState
    BY DEF Observed, Proposed
  <1>2. marker = TRUE \/ marker = FALSE
    BY DEF IInv, TypeOK
  <1> QED
    BY <1>1, <1>2 DEF Blocked

\* The same in the next state.
LEMMA IdleNext ==
    ASSUME IInv', Writing' = {}
    PROVE  Observed' = file' /\ Proposed' = NoState /\ Blocked' = marker'
  <1>1. Observed' = file' /\ Proposed' = NoState
    BY DEF Observed, Proposed
  <1>2. marker' = TRUE \/ marker' = FALSE
    BY DEF IInv, TypeOK
  <1> QED
    BY <1>1, <1>2 DEF Blocked

\* What callers see while p runs a transaction.
LEMMA Busy ==
    ASSUME IInv, NEW p \in Writing
    PROVE  Observed = work[p].read /\ Proposed = work[p].data /\ Blocked = FALSE
  <1>1. Writing = {p}
    BY WriterKnows
  <1>2. (CHOOSE q \in Writing : TRUE) = p
    BY <1>1
  <1> QED
    BY <1>1, <1>2 DEF Observed, Proposed, Blocked

\* The same in the next state.
LEMMA BusyNext ==
    ASSUME IInv', NEW p \in Writing'
    PROVE  Observed' = work'[p].read /\ Proposed' = work'[p].data /\ Blocked' = FALSE
  <1>1. Writing' = {p}
    BY DEF Writing
  <1>2. (CHOOSE q \in Writing' : TRUE) = p
    BY <1>1
  <1>3. Writing' # {}
    BY <1>1
  <1> QED
    BY <1>2, <1>3 DEF Observed, Proposed, Blocked

\* A transaction goes on unchanged, or it has just begun.
LEMMA WriterContinues ==
    ASSUME IInv, [Next]_vars, NEW p \in Procs, p \in Writing'
    PROVE  \/ /\ p \in Writing
              /\ work'[p].read = work[p].read /\ work'[p].data = work[p].data
           \/ /\ Writing = {}
              /\ \E section \in Sections, content \in Contents : Begin(p, section, content)
  <1>1. lock' = p /\ work'[p] # Free /\ work'[p].data # NoState
    BY DEF Writing
  <1>2. CASE UNCHANGED vars
    BY <1>1, <1>2 DEF vars, Writing
  <1>3. CASE PowerLoss
    BY <1>1, <1>3 DEF PowerLoss
  <1>4. ASSUME NEW q \in Procs, NEW section \in Sections, NEW content \in Contents,
               Begin(q, section, content)
        PROVE  Writing = {} /\ q = p
    BY <1>1, <1>4, StoreAssumption DEF Begin, Writing
  <1>5. ASSUME NEW q \in Procs, BeginRecover(q) PROVE FALSE
    <2>1. PICK section \in Sections :
              work' = [work EXCEPT ![q] = [ at       |-> "recover",
                                            read     |-> file,
                                            section  |-> section,
                                            data     |-> NoState,
                                            synced   |-> FALSE,
                                            replaced |-> FALSE ]]
      BY <1>5 DEF BeginRecover
    <2>2. q = p
      BY <1>1, <1>5 DEF BeginRecover
    <2>3. work'[p].data = NoState
      BY <2>1, <2>2 DEF IInv, TypeOK
    <2> QED
      BY <1>1, <2>3
  <1>6. ASSUME NEW q \in Procs, Kill(q)
        PROVE  p \in Writing /\ work'[p] = work[p]
    <2>1. q # p /\ lock = p /\ work'[p] = work[p]
      BY <1>1, <1>6, StoreAssumption DEF Kill, IInv, TypeOK
    <2> QED
      BY <1>1, <2>1 DEF Writing
  <1>7. ASSUME NEW q \in Procs, Step(q)
        PROVE  /\ p \in Writing
               /\ work'[p].read = work[p].read /\ work'[p].data = work[p].data
    <2>1. work[q].at # "free"
      BY <1>7 DEF Step, At, WriteTemp, SyncTemp, TempFails, Mark, SyncMark, MarkFails, Replace,
             ReplaceFails, SyncDirectory, SyncDirectoryFails, Clear, SyncClear, ClearFails,
             SyncState, SyncStateFails
    <2>2. work[q] # Free
      BY <2>1 DEF Free
    <2>3. lock = q /\ work[q] \in Works
      BY <2>2, HolderWorks
    <2>4. ~ \E result \in Outcomes : Leave(q, result)
      BY <1>1, StoreAssumption DEF Leave
    <2>5. ~ Raise(q)
      BY <2>4 DEF Raise, Outcomes
    <2>6. /\ lock' = lock
          /\ \/ \E place \in Places : Goto(q, place)
             \/ work' = [work EXCEPT ![q].at = "mark", ![q].synced = TRUE]
             \/ work' = [work EXCEPT ![q].at = "sync_directory", ![q].replaced = TRUE]
      BY <1>7, <2>4, <2>5
         DEF Step, WriteTemp, SyncTemp, TempFails, Mark, SyncMark, MarkFails, Replace,
             ReplaceFails, SyncDirectory, SyncDirectoryFails, Clear, SyncClear, ClearFails,
             SyncState, SyncStateFails, Places, Outcomes
    <2>7. work \in [Procs -> Works \cup {Free}] /\ q = p
      BY <1>1, <2>3, <2>6 DEF IInv, TypeOK
    <2>8. work'[p].read = work[p].read /\ work'[p].data = work[p].data
      BY <2>3, <2>6, <2>7 DEF Goto, Works
    <2> QED
      BY <1>1, <2>2, <2>3, <2>7, <2>8 DEF Writing
  <1> QED
    BY <1>2, <1>3, <1>4, <1>5, <1>6, <1>7 DEF Next

\* The initial states are initial states of the promise.
LEMMA InitCommits == ASSUME Init PROVE Store!Init
  <1>1. IInv
    BY InitKeeps
  <1>2. Writing = {} /\ file \in States /\ marker = FALSE
    BY DEF Init, Writing
  <1> QED
    BY <1>1, <1>2, Idle DEF Store!Init

\* Every step is a step of the promise, or callers do not see it.
LEMMA NextCommits == ASSUME IInv, [Next]_vars PROVE [Store!Next]_Store!vars
  <1>1. IInv'
    BY NextKeeps
  <1>2. file' \in States /\ marker' \in BOOLEAN /\ file \in States
    BY <1>1 DEF IInv, TypeOK
  <1>3. CASE Writing = {} /\ Writing' = {}
    <2>1. file' = file \/ PowerLoss
      BY <1>3, FileChanges, ReplaceWrites
    <2>2. /\ Observed = file /\ Proposed = NoState /\ Blocked = marker
          /\ Observed' = file' /\ Proposed' = NoState /\ Blocked' = marker'
      BY <1>1, <1>3, Idle, IdleNext
    <2>3. CASE file' = file
      BY <1>2, <2>2, <2>3 DEF Store!Next, Store!Relatch
    <2>4. CASE PowerLoss /\ file' # file
      <3>1. markerOnDisk = {TRUE}
        BY <2>4 DEF PowerLoss, IInv, DoubtIsLatched
      <3>2. marker = TRUE /\ marker' = TRUE
        BY <2>4, <3>1 DEF PowerLoss, IInv, TypeOK
      <3> QED
        BY <1>2, <2>2, <3>2 DEF Store!Next, Store!Revert
    <2> QED
      BY <2>1, <2>3, <2>4
  <1>4. CASE Writing = {} /\ Writing' # {}
    <2>1. PICK p \in Procs : p \in Writing'
      BY <1>4 DEF Writing
    <2>2. PICK section \in Sections, content \in Contents : Begin(p, section, content)
      BY <1>4, <2>1, WriterContinues
    <2>3. file' = file /\ ~marker
      BY <2>2 DEF Begin, Healthy, disk
    <2>4. work'[p].read = file /\ work'[p].data = [file EXCEPT ![section] = content]
      BY <2>2 DEF Begin, IInv, TypeOK
    <2>5. work'[p].data \in States
      BY <1>2, <2>4 DEF States
    <2>6. Observed' = file /\ Proposed' \in States /\ Blocked' = FALSE
      BY <1>1, <2>1, <2>4, <2>5, BusyNext
    <2>7. Observed = file /\ Proposed = NoState /\ Blocked = FALSE
      <3>1. marker = FALSE
        BY <2>3 DEF IInv, TypeOK
      <3> QED
        BY <1>4, <3>1, Idle
    <2> QED
      BY <2>6, <2>7 DEF Store!Next, Store!Propose
  <1>5. CASE Writing # {} /\ Writing' # {}
    <2>1. PICK p \in Procs : p \in Writing'
      BY <1>5 DEF Writing
    <2>2. /\ p \in Writing
          /\ work'[p].read = work[p].read /\ work'[p].data = work[p].data
      BY <1>5, <2>1, WriterContinues
    <2>3. Observed = work[p].read /\ Proposed = work[p].data /\ Blocked = FALSE
      BY <2>2, Busy
    <2>4. Observed' = work'[p].read /\ Proposed' = work'[p].data /\ Blocked' = FALSE
      BY <1>1, <2>1, BusyNext
    <2> QED
      BY <2>2, <2>3, <2>4 DEF Store!vars
  <1>6. CASE Writing # {} /\ Writing' = {}
    <2>1. PICK p \in Procs : p \in Writing
      BY <1>6 DEF Writing
    <2>2. Observed = work[p].read /\ Proposed = work[p].data /\ Proposed # NoState
      BY <2>1, Busy, WriterKnows
    <2>3. file' \in {work[p].read, work[p].data}
      <3>1. file \in fileOnDisk /\ fileOnDisk \subseteq {work[p].read, work[p].data}
            /\ Writing = {p}
        BY <2>1, WriterKnows
      <3>2. CASE file' = file
        BY <3>1, <3>2
      <3>3. CASE PowerLoss
        BY <3>1, <3>3 DEF PowerLoss
      <3>4. ASSUME NEW q \in Procs, Replace(q) PROVE file' = work[p].data
        BY <3>1, <3>4, ReplaceWrites
      <3> QED
        BY <3>2, <3>3, <3>4, FileChanges
    <2>4. Observed' = file' /\ Proposed' = NoState /\ Blocked' = marker'
      BY <1>1, <1>6, IdleNext
    <2> QED
      BY <1>2, <2>2, <2>3, <2>4 DEF Store!Next, Store!Settle
  <1> QED
    BY <1>3, <1>4, <1>5, <1>6

\* Whatever fails or crashes, callers of the state store see an atomic commit.
THEOREM CommitsAtomically == Spec => ImplementsAtomicCommit
  BY InitCommits, NextCommits, Invariance, PTL DEF Spec, ImplementsAtomicCommit, Store!Spec
=============================================================================
