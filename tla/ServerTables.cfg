SPECIFICATION Spec
CONSTANTS
    i1 = i1  i2 = i2  i3 = i3  i4 = i4  inet = inet  inet6 = inet6  None = None
    Family <- InetOnly
    EnabledFamilies <- InetOnly
    Id <- FourIds
    NumTables = 3
    TableOffset = 10
    WordBits = 2
    TableTimeout = 2
    DeadLeaseTimeout = 2
    Faults <- WriteFaults
    MaxNow = 4
    LastEvent = 4
    MaxCrashes = 0
    MaxReboots = 0
SYMMETRY IdSymmetry
INVARIANTS RefusedOnlyWhenFull NoLeak
