SPECIFICATION Spec
CONSTANTS
    p1 = p1  p2 = p2  a1 = a1  a2 = a2  None = None  Inet = Inet
    Proc <- TwoProcs
    Id <- TwoIds
    IdOf <- TwoAddresses
    NumTables = 2
    TableOffset = 10
    WordBits = 2
    MainTable = 254
    TableTimeout = 2
    DeadLeaseTimeout = 4
    Retransmit = 1
    FailLimit = 5
    UintMod = 65536
    MaxOutage = 3
    Unlucky <- Nothing
    MaxNow = 6
    LastStart = 4
    LastEvent = 4
    MaxCrashes = 1
    MaxLaunches = 1
    MaxInFlight = 3
SYMMETRY Swap
CHECK_DEADLOCK FALSE
INVARIANT TablesUnique
