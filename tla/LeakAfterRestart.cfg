SPECIFICATION Spec
CONSTANTS
    i1 = i1  i2 = i2  i3 = i3  i4 = i4  inet = inet  inet6 = inet6  None = None
    Family <- InetOnly
    EnabledFamilies <- InetOnly
    Id <- TwoIds
    NumTables = 2
    TableOffset = 10
    WordBits = 2
    TableTimeout = 2
    DeadLeaseTimeout = 2
    Faults <- NoFaults
    MaxNow = 4
    LastEvent = 4
    MaxCrashes = 1
    MaxReboots = 0
SYMMETRY IdSymmetry
INVARIANT RefusedOnlyWhenFull
