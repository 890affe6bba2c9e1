\* Loads and (de)activations of a role, three at a time, with the operator's
\* program beside them and every way to miss an invalidation.
CONSTANTS
    u1 = u1
    u2 = u2
    r1 = r1
    r2 = r2
    r3 = r3
    p1 = p1
    p2 = p2
    p3 = p3
    n1 = n1
    n2 = n2
    n3 = n3
    User = {u1}
    Role = {r1, r2}
    Perm = {p1, p2}
    ActivePerm = {p1, p2}
    Name = {n1, n2}
    NoName = NoName
    SuperAdmin = n1
    Request = {i1, i2, i3}
    RoleLists = {}
    PermLists = {}
    Urls = {"db", "other"}
    Kinds = {"load", "update"}
    Faults = {"ack", "crash"}
    TTL = 1
    SweepEvery = 2
    Lag = 1
SPECIFICATION MCAccessSpec
SYMMETRY RequestSymmetry
INVARIANTS
    OpTypeOK
PROPERTIES
    BoundedStaleness
