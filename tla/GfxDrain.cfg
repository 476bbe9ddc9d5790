SPECIFICATION MCSpec
CONSTANTS
    Thread = {t1}
    Mode = {m1}
    DefaultMode = m1
    Cursor = {c1}
    NoCursor = NoCursor
    MaxFrame = 1
    MaxMove = 1
    MaxQueued = 2
PROPERTIES
    NoNullDisplay
CHECK_DEADLOCK FALSE
