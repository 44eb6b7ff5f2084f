\* Zammad always answers and nobody else moves tickets: what repeats do.
SPECIFICATION Spec
CONSTANTS
    k1 = k1  k2 = k2  s1 = s1  s2 = s2
    Keys <- OneKey
    Sevs <- TwoSevs
    Interval = 2
    Window = 1
    Threshold = 9
    SpoolMax = 9
    Denylist <- NoDenied
    Preexisting <- NoTickets
    Modes = {"up"}
    HumanMoves = {"take", "untag"}
    CanCrash = FALSE
    MaxMsgs = 4
    MaxTickets = 5
    MaxTime = 4
SYMMETRY Symmetric
CHECK_DEADLOCK FALSE
INVARIANTS
    SuppressedAreReported
