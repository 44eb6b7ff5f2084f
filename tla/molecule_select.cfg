SPECIFICATION Spec
CONSTANTS
    Roles <- MCRoles
    Scenarios <- MCScenarios
    Default = "default"
    Trees <- MCTrees
    MaxEdits = 2
INVARIANTS
    TypeOK
    ClosureIsExact
    NothingMissed
