\* One of five small portals; imports and edits are used up in some.
CONSTANTS
    None = None
    x1 = x1
    x2 = x2
    n1 = n1
    n2 = n2
    n3 = n3
    l1 = l1
    l2 = l2
    d1 = d1
    d2 = d2
    g1 = g1
    r1 = r1
    r2 = r2
    m1 = m1
    m2 = m2
    q1 = q1
    q2 = q2
    Rows = {x1, x2}
    Numbers = {n1, n2}
    Locations = {l1, l2}
    Dids = {d1, d2}
    DidHome <- TwoHomes
    Groups = {g1}
    GroupHome <- GroupsAtHome
    Requests = {r1}
    Files <- SerialFiles
    First <- FirstRow
    Lines <- NoPhones
SPECIFICATION PartSpec
INVARIANTS
    RowsWhole
    DisabledByAdmin
PROPERTIES
    ImportedAsWritten
    RequestsExact
CHECK_DEADLOCK FALSE
