\* The six mutations, three at a time, in a database that works.
CONSTANTS
    u1 = u1
    u2 = u2
    r1 = r1
    r2 = r2
    r3 = r3
    p1 = p1
    p2 = p2
    p3 = p3
    n1 = n1
    n2 = n2
    User = {u1}
    Role = {r1, r2, r3}
    Perm = {p1, p2}
    ActivePerm = {p1, p2}
    Name = {n1, n2, n3}
    NoName = NoName
    Request = {i1, i2, i3}
    RoleLists <- MCRoleLists
    PermLists <- RespelledPermList
    Urls = {"db"}
    Kinds = {"assign", "revoke", "create", "update", "remove", "setPerms"}
    Faults = {}
    TTL = 1
    SweepEvery = 1
SPECIFICATION MCSpec
SYMMETRY RequestSymmetry
PROPERTIES
    MutationsAsPromised
    ReplaceIsExact
    NoSelfInflictedError
