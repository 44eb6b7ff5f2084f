\* Two services, one integration and one board, on an instance that is empty or
\* was set up by hand.
SPECIFICATION Spec
CONSTANTS
    Names = {"n1", "n2"}
    Urls = {"u1", "u2"}
    Titles = {"t1", "t2"}
    Catalogs <- SomeCatalogs
    Wanted <- SomeWanted
    Layouts <- SomeLayouts
    MaxKeys = 3
    MaxEdits = 2
    MaxFaults = 1
INVARIANTS
    TypeOK
    AppsPerUrl
    SpecIsApplied
    RerunChangesNothing
    KeysAreFew
    OnlyFaultsFail
    BoxesFit
CHECK_DEADLOCK FALSE
