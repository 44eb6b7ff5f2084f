\* Expected to be violated: a file left unwritten by a crash ends every later run.
SPECIFICATION Spec
CONSTANTS
    k1 = k1  k2 = k2  s1 = s1  s2 = s2
    Keys <- OneKey
    Sevs <- OneSev
    Interval = 1
    Window = 1
    Threshold = 9
    SpoolMax = 9
    Denylist <- NoDenied
    Preexisting <- NoTickets
    Modes = {"up", "down"}
    HumanMoves = {}
    CanCrash = TRUE
    MaxMsgs = 3
    MaxTickets = 5
    MaxTime = 0
SYMMETRY Symmetric
CHECK_DEADLOCK FALSE
INVARIANTS
    BadPayloadNeverBlocks
