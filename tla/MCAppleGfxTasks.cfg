SPECIFICATION Spec
CONSTANTS
    Thread = {t1, t2}
    Handle = {h1, h2}
    Region = {r1, r2}
    NoRegion = NoRegion
    VaSize = 2
    RangeLists <- MCRangeLists
SYMMETRY Symmetry
INVARIANTS
    TypeOK
    RefBalance
    MappedPagesPinned
    ListedHandlesLive
PROPERTIES
    FailedMapLeavesNothing
