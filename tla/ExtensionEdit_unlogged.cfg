SPECIFICATION Spec
CONSTANTS
    None = None
    x1 = x1
    x2 = x2
    n1 = n1
    n2 = n2
    l1 = l1
    l2 = l2
    d1 = d1
    d2 = d2
    g1 = g1
    r1 = r1
    r2 = r2
    Rows = {x1, x2}
    Numbers = {n1, n2}
    Locations = {l1}
    Dids = {}
    DidHome <- NoGroup
    Groups = {}
    GroupHome <- NoGroup
    Requests = {r1, r2}
    Files <- NoFiles
    First <- FirstRow
    Lines <- NoPhones
PROPERTIES
    ForceDisableLogged
