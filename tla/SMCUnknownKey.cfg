SPECIFICATION Spec
CONSTANTS
    ByteMod = 8
    KeyLen = 2
    DataSize = 7
    ZeroLen = 4
    Table <- MCTable
    NumKey <- MCNumKey
    GuestBytes = {1, 5}
INVARIANTS
    UnknownKeyReadsZero
