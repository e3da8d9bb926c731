SPECIFICATION Spec
CONSTANTS
    p1 = p1  p2 = p2  a1 = a1  a2 = a2  None = None
    Proc <- TwoProcs
    Id <- TwoIds
    IdOf <- TwoAddresses
    V4 <- TwoIds
    Offered <- TwoTables
    TableTimeout = 4
    Retransmit = 1
    FailLimit = 5
    UintMod = 65536
    ClientFaults <- NoFaults
    Prompt = FALSE
    MaxNow = 3
    LastEvent = 3
    MaxLaunches = 1
    MaxInFlight = 2
CHECK_DEADLOCK FALSE
INVARIANT RulesFollowLease
