SPECIFICATION Spec
CONSTANTS
    LARGE_SYSTEM_THRESHOLD = 100
    RESERVED_CORES_LARGE_SYSTEM = 16
    MAX_ALLOCATION_PERCENTAGE = 80
    Host = {0, 1, 2, 3}
    MaxTotal = 130
    Requested <- RequestedCounts
    MaxCpu = 5
    MaxParts = 2
    MAX_CPU_ID = 65535
INVARIANTS
    ExactSelection
    WholeCoresFirst
    StableRetention
    DefaultReservesMonotonically
    PercentIsLeastShare
    RangesRoundTrip
    PresentListsExact
CHECK_DEADLOCK FALSE
