SPECIFICATION FairSpec
CONSTANTS
    i1 = i1  i2 = i2  i3 = i3  i4 = i4  inet = inet  inet6 = inet6  None = None
    Family <- Families
    EnabledFamilies <- InetOnly
    Id <- TwoIds
    NumTables = 3
    TableOffset = 10
    WordBits = 2
    TableTimeout = 2
    DeadLeaseTimeout = 2
    Faults <- WriteFaults
    MaxNow = 6
    LastEvent = 2
    MaxCrashes = 1
    MaxReboots = 1
INVARIANT OneRowPerIdentity
PROPERTIES ServiceSpec LeasesExpire
