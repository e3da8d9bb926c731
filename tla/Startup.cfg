SPECIFICATION Spec
CONSTANTS
    UintMod = 64
    TimeoutMod = 8
    IfnamSiz = 16
    AddrStrLen = 46
    MaxTag = 128
    ReqBuffer = 512
    AddrBits = 4
    MaxAddr = 106
    SunPath = 108
    MaxDbPath = 256
    BufSize = 1024
    WordBits = 4
    Clock = {28}
    MaxStarts = 2
    MaxRows = 1
    MaxFaults = 2
    Files <- SomeFiles
    Args <- SomeArgs
CHECK_DEADLOCK FALSE
INVARIANTS TypeOK AccessInBounds EveryTable ToldTable LeaseInFuture RequestUnderstood NameFits RemovalRecognised
PROPERTY Listens
