SPECIFICATION Spec
CONSTANTS
    a = a
    b = b
    c = c
    star = star
    kp_star = kp_star
    shift = shift
    None = None
    Key <- MCKey
    Usage <- MCUsage
    Modifier = {shift}
    NumSlots = 3
INVARIANTS
    TypeOK
    HostUpToDate
    OnlyHeldKeysPressed
    EveryHeldKeyPressed
PROPERTIES
    ChangeIsRead
