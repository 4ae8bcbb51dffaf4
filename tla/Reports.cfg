\* One of three parts at a time; requests and reports are used up in the end.
CONSTANTS
    r1 = r1
    r2 = r2
    p1 = p1
    c1 = c1
    c2 = c2
    n1 = n1
    n2 = n2
    n3 = n3
    i1 = i1
    Requests = {r1, r2}
    Administrators = {r1}
    Kinds = {"edit", "rotate", "create", "delete", "seed"}
    Reports = {p1}
    DefaultCodes = {c1, c2}
    MaxVersions = 2
    MaxReads = 3
    MaxDeployments = 3
    Names = {n1, n2, n3}
    Retentions = {1, 2}
    Limit = 2
    MaxTime = 4
    Items = {i1}
    Jobs = {"telemetry", "listing", "control"}
    MaxExtra = 1
SPECIFICATION PartSpec
SYMMETRY Symmetry
INVARIANTS
    DriftShown
    RowStands
    RecordingsKept
    OutcomeIsWhole
CHECK_DEADLOCK FALSE
