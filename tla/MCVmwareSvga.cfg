SPECIFICATION Spec
CONSTANTS
    MaxWidth = 2
    MaxHeight = 1
    VgaSize <- MCVgaSize
    RedrawLen = 2
    MaxLoop = 3
    FifoLen = 3
INVARIANTS
    TypeOK
    NoLostUpdate
PROPERTIES
    RefreshShowsAll
