\* One of four parts at a time; exports, uploads and backups are used up, calls end.
CONSTANTS
    x1 = x1
    x2 = x2
    i1 = i1
    i2 = i2
    u1 = u1
    u2 = u2
    w1 = w1
    b1 = b1
    NoRow = NoRow
    l1 = l1
    l2 = l2
    p1 = p1
    t3 = t3
    t4 = t4
    o1 = o1
    y1 = y1
    NoTrunk = NoTrunk
    Exports = {x1, x2}
    Ivrs = {i1, i2}
    Uploads = {u1, u2}
    Versions = {w1}
    Backups = {b1}
    Locations = {l1, l2}
    Providers = {p1}
    Trunks = {t3, t4}
    Routes = {o1}
    Pages = {y1}
    MaxEdits = 3
    None = None
    e1 = e1
    e2 = e2
    e3 = e3
    d1 = d1
    d2 = d2
    d3 = d3
    g1 = g1
    q1 = q1
    v1 = v1
    v2 = v2
    t1 = t1
    t2 = t2
    pstn = pstn
    page1 = page1
    pickup1 = pickup1
SPECIFICATION PartSpec
SYMMETRY Symmetry
INVARIANTS
    ExportInv
    NumbersInOrder
    UneditedIsValid
    AuditMatchesVersions
    ArchiveConsistent
    CallsGoAsConfigured
    EmergencyCalls
    TrunkRules
PROPERTIES
    CallerIdInForce
CHECK_DEADLOCK FALSE
