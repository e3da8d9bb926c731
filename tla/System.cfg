SPECIFICATION Spec
CONSTANTS
    p1 = p1  p2 = p2  a1 = a1  a2 = a2  None = None  Inet = Inet
    Proc <- TwoProcs
    Id <- TwoIds
    IdOf <- TwoAddresses
    NumTables = 2
    TableOffset = 10
    WordBits = 2
    MainTable = 254
    TableTimeout = 5
    DeadLeaseTimeout = 4
    Retransmit = 1
    FailLimit = 5
    UintMod = 65536
    MaxOutage = 1
    Unlucky <- Nothing
    MaxNow = 6
    LastStart = 1
    LastEvent = 2
    MaxCrashes = 1
    MaxLaunches = 2
    MaxInFlight = 3
SYMMETRY Swap
CHECK_DEADLOCK FALSE
INVARIANTS TypeOK BeliefBacked LeaseKept TablesUnique RulesFindRoutes NoFalseFailure RulesHaveAddress
PROPERTIES ClientSpec HostServiceSpec
