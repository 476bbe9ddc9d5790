SPECIFICATION MCSpec
CONSTANTS
    Thread = {t1, t2}
    Mode = {m1}
    DefaultMode = m1
    Cursor = {c1, c2}
    NoCursor = NoCursor
    MaxFrame = 2
    MaxMove = 1
    MaxQueued = 2
INVARIANTS
    LifeTypeOK
    PointerSettles
    QuietWhenGone
    CursorOwned
PROPERTIES
    TeardownEnds
CHECK_DEADLOCK FALSE
