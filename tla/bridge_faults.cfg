\* Outages and lost answers, two alerts, a spool that never overflows.
SPECIFICATION Spec
CONSTANTS
    k1 = k1  k2 = k2  s1 = s1  s2 = s2
    Keys <- TwoKeys
    Sevs <- OneSev
    Interval = 1
    Window = 1
    Threshold = 9
    SpoolMax = 9
    Denylist <- NoDenied
    Preexisting <- NoTickets
    Modes = {"up", "down", "lossy"}
    HumanMoves = {}
    CanCrash = FALSE
    MaxMsgs = 3
    MaxTickets = 5
    MaxTime = 2
SYMMETRY Symmetric
CHECK_DEADLOCK FALSE
INVARIANTS
    TypeOK
    TicketReflectsAlert
    NoMessageLost
