\* A row of drives, two chassis, of which one reports a drive, in one of two ways or not at all.
SPECIFICATION Spec
CONSTANTS
    r1 = r1  c1 = c1  c2 = c2  s1 = s1  w1 = w1
    f1 = f1  v1 = v1  v2 = v2
    Rows = {r1}
    DriveRows = {r1}
    Chassis = {c1, c2}
    Nodes = {c1}
    Ids = {s1, w1}
    NoId = NoId
    Reports <- BothReports
    MaxQty = 2
    Fields = {f1}
    Serials = {}
    Values = {v1, v2}
    Blank = Blank
    MaxEdits = 2
INVARIANTS
    TypeOK
    UnitsMatchTables
    OneHome
    AuditSurvives
    DriveSuccessIsComplete
PROPERTIES
    HandMadeKept
    RerunChangesNothing
