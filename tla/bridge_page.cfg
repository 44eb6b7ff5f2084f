\* Outages that reach the failure threshold, a spool that overflows, and the
\* self-alert coming back as a message; runs end and empty the spool.
SPECIFICATION Spec
CONSTANTS
    k1 = k1  k2 = k2  s1 = s1  s2 = s2
    Keys <- OneKey
    Sevs <- OneSev
    Interval = 1
    Window = 1
    Threshold = 2
    SpoolMax = 1
    Denylist <- NoDenied
    Preexisting <- NoTickets
    Modes = {"up", "down"}
    HumanMoves = {}
    CanCrash = FALSE
    MaxMsgs = 6
    MaxTickets = 7
    MaxTime = 0
CHECK_DEADLOCK FALSE
INVARIANTS
    OneAlertPerOutage
PROPERTIES
    DrainsWhenUp
