\* The instance of pipeline_seed.
SPECIFICATION Spec
CONSTANTS
    Supplies <- PartialThenFull
    RunExport = TRUE
    ByHand = {"drives"}
    MaxConverges = 2
    MaxBusy = 1
    MaxUpsets = 1
PROPERTIES
    NothingNewWhenRefused
CHECK_DEADLOCK FALSE
