\* Lost, garbled and refused answers, and operators who close, reopen and park
\* tickets, on a ticket that was there before, tagged or not, denied or not.
SPECIFICATION Spec
CONSTANTS
    k1 = k1  k2 = k2  s1 = s1  s2 = s2
    Keys <- OneKey
    Sevs <- OneSev
    Interval = 1
    Window = 1
    Threshold = 9
    SpoolMax = 9
    Denylist <- FirstDenied
    Preexisting <- ForeignTickets
    Modes = {"up", "lossy", "reject", "garbled"}
    HumanMoves = {"take", "close", "pend", "release", "reopen"}
    CanCrash = FALSE
    MaxMsgs = 2
    MaxTickets = 5
    MaxTime = 0
SYMMETRY Symmetric
CHECK_DEADLOCK FALSE
PROPERTIES
    OnlyOwnedChangeState
