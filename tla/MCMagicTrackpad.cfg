SPECIFICATION Spec
CONSTANTS
    Depth = 3
    Clamp = 1
    Divisor = 2
    AbsMax = 3
    OutMin <- MCOutMin
    OutMax = 3
    SeqMod = 4
INVARIANTS
    TypeOK
    FramesInOrder
    HostSettles
    HostIsWoken
