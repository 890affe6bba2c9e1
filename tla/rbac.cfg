\* Every endpoint and every fault, two requests at a time.
CONSTANTS
    u1 = u1
    u2 = u2
    r1 = r1
    r2 = r2
    r3 = r3
    p1 = p1
    p2 = p2
    p3 = p3
    n1 = n1
    n2 = n2
    n3 = n3
    User = {u1}
    Role = {r1, r2, r3, r4}
    Perm = {p1, p2, p3}
    ActivePerm = {p1, p2}
    Name = {n1, n2, n3}
    NoName = NoName
    Request = {i1, i2}
    RoleLists <- MCRoleLists
    PermLists <- FewPermLists
    Urls = {"db", "other"}
    Kinds = {"load", "assign", "revoke", "create", "update", "remove", "setPerms"}
    Faults = {"db", "ack", "audit", "crash"}
    TTL = 1
    SweepEvery = 1
SPECIFICATION GrantsFairSpec
INVARIANTS
    TypeOK
    AuditOnlyIfCommitted
    RepliesTellTheTruth
    LiveNamesUnique
PROPERTIES
    SystemRolesIntact
    Answered
