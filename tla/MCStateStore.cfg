SPECIFICATION FairSpec
CONSTANTS
    daemon = daemon
    tool = tool
    Procs = {daemon, tool}
    Sections <- TwoSections
    Contents = {0, 1, 2}
    NoProc = NoProc
    NoState = NoState
    Torn = Torn
INVARIANTS
    DoubtIsLatched
    NeverTorn
PROPERTIES
    OutcomesTrue
    SectionsIndependent
    ImplementsAtomicCommit
    LockReleased
