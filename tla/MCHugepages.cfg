SPECIFICATION Spec
CONSTANTS
    a = a
    b = b
    Services = {a, b}
    Keys <- BothSizes
    Pages <- ThreeAndOne
    MaxPages = 3
    Resizable <- OnlyHuge
    InitialRecords <- NewOrDuplicates
    Requests <- SomeRequests
SYMMETRY ServiceSymmetry
INVARIANTS
    TypeOK
    ReservationsFit
PROPERTIES
    GrowthWithinRead
    RequestRecorded
