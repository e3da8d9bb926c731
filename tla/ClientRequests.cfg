SPECIFICATION FairSpec
CONSTANTS
    p1 = p1  p2 = p2  a1 = a1  a2 = a2  None = None
    Proc <- OneProc
    Id <- OneId
    IdOf <- OneAddress
    V4 <- OneId
    Offered <- OneTable
    TableTimeout = 4
    Retransmit = 1
    FailLimit = 5
    UintMod = 65536
    ClientFaults <- SocketFaults
    Prompt = TRUE
    MaxNow = 9
    LastEvent = 3
    MaxLaunches = 2
    MaxInFlight = 2
CHECK_DEADLOCK FALSE
INVARIANTS TriesFiveTimes NeverDormant CleanExit
PROPERTY ScriptGetsAnswer
