\* The keys or the users; requests are used up in the end.
CONSTANTS
    a = a
    m = m
    n = n
    i1 = i1
    k1 = k1
    k2 = k2
    r1 = r1
    r2 = r2
    r3 = r3
    NoOne = NoOne
    Users = {a, m, n}
    Identities = {i1}
    Keys = {k1, k2}
    Requests = {r1, r2, r3}
    Killed = {r1, r2, r3}
    Ops = {"use", "issue", "rotate", "revoke", "deleteUser", "createUser", "addUser", "setRole", "patchMe", "patchUser", "adminPatchUser", "addIdentity", "patchIdentity"}
    Grants = {"viewer", "admin"}
    Admin = a
    Member = m
SPECIFICATION PartSpec
SYMMETRY Symmetry
INVARIANTS
    KeysAgree
PROPERTIES
    SecretsStayDead
    Authority
    DeactivationHolds
CHECK_DEADLOCK FALSE
