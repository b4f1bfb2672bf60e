SPECIFICATION Spec
CONSTANTS
    LARGE_SYSTEM_THRESHOLD = 100
    RESERVED_CORES_LARGE_SYSTEM = 16
    MAX_ALLOCATION_PERCENTAGE = 80
    a = a
    b = b
    c = c
    CPUs = {0, 1, 2, 3}
    Services = {a, b}
    Nodes <- TwoNodes
    NodeCpus <- TwoNodeCpus
    SiblingMaps <- UnreliableCores
    PoolConfigs <- IsolatedOnly
    InitialLedgers <- NewState
    Requests <- HotplugRequests
    Hotpluggable = {0, 1, 2}
    MaxOffline = 2
SYMMETRY ServiceSymmetry
INVARIANT
    NodeReleaseIsComplete
