\* Two converges; the controller may have the drives, with their nodes or without.
SPECIFICATION Spec
CONSTANTS
    Supplies <- PartialThenFull
    RunExport = TRUE
    ByHand = {"drives"}
    MaxConverges = 2
    MaxBusy = 1
    MaxUpsets = 1
INVARIANTS
    TypeOK
    ZeroMeansSeeded
    ConvergePublishes
PROPERTIES
    Retained
    GuardSound
    RunnerEnds
CHECK_DEADLOCK FALSE
