SPECIFICATION Spec
CONSTANTS
    NumTables = 9
    TableOffset = 5
    WordBits = 4
    UintMod = 65536
INVARIANTS AllocateAgrees BitOpsAgree
