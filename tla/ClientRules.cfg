SPECIFICATION Spec
CONSTANTS
    p1 = p1  p2 = p2  a1 = a1  a2 = a2  None = None
    Proc <- TwoProcs
    Id <- TwoIds
    IdOf <- TwoAddresses
    V4 <- FirstId
    Offered <- TwoTables
    TableTimeout = 4
    Retransmit = 1
    FailLimit = 2
    UintMod = 65536
    ClientFaults <- NetlinkFaults
    Prompt = FALSE
    MaxNow = 4
    LastEvent = 4
    MaxLaunches = 2
    MaxInFlight = 1
CHECK_DEADLOCK FALSE
INVARIANTS TypeOK RulesFollowLease
