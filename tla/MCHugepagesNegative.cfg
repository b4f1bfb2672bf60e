SPECIFICATION Spec
CONSTANTS
    a = a
    b = b
    Services = {a, b}
    Keys <- OnlySmall
    Pages <- ThreePages
    MaxPages = 3
    Resizable = {}
    InitialRecords <- NewOrDuplicates
    Requests <- NegativeCounts
SYMMETRY ServiceSymmetry
INVARIANTS
    RecordsPositive
