SPECIFICATION Spec
CONSTANTS
    LARGE_SYSTEM_THRESHOLD = 100
    RESERVED_CORES_LARGE_SYSTEM = 16
    MAX_ALLOCATION_PERCENTAGE = 80
    a = a
    b = b
    c = c
    CPUs = {0, 1, 2, 3}
    Services = {a, b, c}
    Nodes <- TwoNodes
    NodeCpus <- TwoNodeCpus
    SiblingMaps <- TwoCores
    PoolConfigs <- IsolatedOnly
    InitialLedgers <- NewState
    Requests <- OnePoolRequests
    Hotpluggable = {}
    MaxOffline = 0
SYMMETRY ServiceSymmetry
INVARIANTS
    TypeOK
    ExclusiveOwnership
    ClaimsReloadable
    CapacityExact
    GrantExact
PROPERTIES
    ProtectedClaimsStable
