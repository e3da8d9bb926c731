SPECIFICATION FairSpec
CONSTANTS
    p1 = p1  p2 = p2  a1 = a1  a2 = a2  None = None
    Proc <- TwoProcs
    Id <- OneId
    IdOf <- SameAddress
    V4 <- OneId
    Offered <- OneTable
    TableTimeout = 4
    Retransmit = 1
    FailLimit = 5
    UintMod = 65536
    ClientFaults <- NoFaults
    Prompt = TRUE
    MaxNow = 12
    LastEvent = 1
    MaxLaunches = 1
    MaxInFlight = 1
CHECK_DEADLOCK FALSE
PROPERTY ScriptGetsAnswer
