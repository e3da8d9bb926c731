SPECIFICATION Spec
CONSTANTS
    i1 = i1  i2 = i2  i3 = i3  i4 = i4  inet = inet  inet6 = inet6  None = None
    Family <- InetOnly
    EnabledFamilies <- InetOnly
    Id <- TwoIds
    NumTables = 3
    TableOffset = 10
    WordBits = 2
    TableTimeout = 2
    DeadLeaseTimeout = 2
    Faults <- AllButBuild
    MaxNow = 3
    LastEvent = 3
    MaxCrashes = 1
    MaxReboots = 1
SYMMETRY IdSymmetry
INVARIANTS TypeOK NoDoubleLease GrantBacked LiveRowBusy
