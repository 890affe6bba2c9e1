\* Loads and revocations one at a time, by clients who spell ids in upper case.
CONSTANTS
    u1 = u1
    u2 = u2
    r1 = r1
    r2 = r2
    r3 = r3
    p1 = p1
    p2 = p2
    p3 = p3
    n1 = n1
    n2 = n2
    n3 = n3
    User = {u1, u2}
    Role = {r1, r2}
    Perm = {p1, p2, p3}
    ActivePerm = {p1, p2}
    Name = {n1, n2}
    NoName = NoName
    Request = {i1, i2}
    RoleLists <- MCRoleLists
    PermLists <- FewPermLists
    Urls = {"other"}
    Kinds = {"load", "revoke"}
    Faults = {}
    TTL = 1
    SweepEvery = 1
SPECIFICATION SerialSpec
INVARIANTS
    RevocationEffective
