SPECIFICATION Spec
CONSTANTS
    LARGE_SYSTEM_THRESHOLD = 100
    RESERVED_CORES_LARGE_SYSTEM = 16
    MAX_ALLOCATION_PERCENTAGE = 80
    a = a
    b = b
    c = c
    CPUs = {0, 1, 2}
    Services = {a, b}
    Nodes <- TwoNodes
    NodeCpus <- ThreeCpuNodes
    SiblingMaps <- ThreeCpuCores
    PoolConfigs <- ChangingPools
    InitialLedgers <- NewOrOldState
    Requests <- PoolRequests
    Hotpluggable = {1}
    MaxOffline = 1
SYMMETRY ServiceSymmetry
INVARIANT
    SteadyNodeReplaced
PROPERTIES
    CommitsAtomically
    OwnClaimsKept
    SteadyClaimsStable
    ImplementsOwnership
    ImplementsPoolClaims
