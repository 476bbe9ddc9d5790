SPECIFICATION Spec
CONSTANTS
    Depth = 3
    MaxLoops = 3
    Clamp = 1
    Position = {0, 2}
    Rel <- MCRel
    Far = 4
INVARIANTS
    TypeOK
    HostFollowsUser
    ButtonSettles
    HostIsWoken
