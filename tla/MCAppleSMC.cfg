SPECIFICATION Spec
CONSTANTS
    ByteMod = 5
    KeyLen = 2
    DataSize = 4
    ZeroLen = 2
    Table <- MCTable
    NumKey <- MCNumKey
    GuestBytes = {0, 2, 3, 4}
INVARIANTS
    TypeOK
    AnswerIsTheKeys
    TransferCanAdvance
    EnumerationMatchesCount
PROPERTIES
    DoneUntilNextCommand
