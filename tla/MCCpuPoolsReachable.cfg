SPECIFICATION Spec
CONSTANTS
    CPUs = {0, 1, 2}
    Isolations <- TwoCommandLines
    Settings <- SomeSettings
    Hotpluggable = {1}
    Removable = {2}
INVARIANT
    ClaimsReachable
