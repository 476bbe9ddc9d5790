SPECIFICATION MCSpec
CONSTANTS
    Thread = {t1, t2, t3}
    Mode = {m1, m2}
    DefaultMode = m1
    MaxFrame = 5
INVARIANTS
    TypeOK
    NoLostWakeup
    NoLostFrame
    FrameLandsInCurrentSurface
PROPERTIES
    ImplementsLatestFrame
