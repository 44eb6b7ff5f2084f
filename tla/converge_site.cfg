\* Every form of play, every answer, dry runs, interrupts and kills.
SPECIFICATION Spec
CONSTANTS
    h1 = h1  h2 = h2  ctl = ctl
    Hosts <- TwoHosts
    Control = ctl
    Site <- SmallSite
    Outcomes = {"ok", "changed", "ignored", "failed", "unreachable"}
    Checks = {FALSE, TRUE}
    Stops = {"interrupt", "kill"}
CHECK_DEADLOCK FALSE
INVARIANTS
    TypeOK
    SuccessIsClean
    ReportedOnce
    TaskRecordsFaithful
    UnreachableExplained
    IsolatedFailuresSurface
    IsolationHolds
