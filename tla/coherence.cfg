\* Loads and revoking mutations, three at a time, with the faults that break off
\* a handler.
CONSTANTS
    u1 = u1
    u2 = u2
    r1 = r1
    r2 = r2
    r3 = r3
    p1 = p1
    p2 = p2
    p3 = p3
    n1 = n1
    n2 = n2
    User = {u1, u2}
    Role = {r1, r2}
    Perm = {p1, p2}
    ActivePerm = {p1, p2}
    Name = {n1, n2}
    NoName = NoName
    Request = {i1, i2, i3}
    RoleLists <- OneRoleList
    PermLists <- OnePermList
    Urls = {"db", "other"}
    Kinds = {"load", "assign", "revoke", "remove", "setPerms"}
    Faults = {"ack", "crash"}
    TTL = 1
    SweepEvery = 1
SPECIFICATION MCSpec
SYMMETRY RequestSymmetry
INVARIANTS
    HTypeOK
    Coherent
    SweepKeepsUp
PROPERTIES
    StrayOnlyIfOvertaken
