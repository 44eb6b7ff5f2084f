\* Crashes, lost answers and rejections while operators close tickets, and a
\* spool that overflows.
SPECIFICATION Spec
CONSTANTS
    k1 = k1  k2 = k2  s1 = s1  s2 = s2
    Keys <- OneKey
    Sevs <- OneSev
    Interval = 1
    Window = 1
    Threshold = 9
    SpoolMax = 1
    Denylist <- NoDenied
    Preexisting <- NoTickets
    Modes = {"up", "lossy", "reject"}
    HumanMoves = {"close"}
    CanCrash = TRUE
    MaxMsgs = 3
    MaxTickets = 5
    MaxTime = 1
SYMMETRY Symmetric
CHECK_DEADLOCK FALSE
INVARIANTS
    AtMostOneActive
    ArticlesInOrder
PROPERTIES
    HandledInOrder
