\* Every request under fairness, for liveness: no symmetry.  All queries may fail
\* except the destroy nobody awaits, which the code does not retry.
CONSTANTS
    u1 = u1
    u2 = u2
    u3 = u3
    a1 = a1
    a2 = a2
    s1 = s1
    s2 = s2
    s3 = s3
    s4 = s4
    User = {u1, u2}
    NoUser = NoUser
    Account = {a1}
    NoAccount = NoAccount
    Sid = {s1, s2, s3}
    NoSid = NoSid
    Request = {i1, i2}
    Kinds = {"call", "patch", "signIn", "signOut"}
    Faults = {"db", "audit"}
    TTL = 1
SPECIFICATION OneFairSpec
PROPERTIES
    AllAnswered
    BurnsEventually
    LoginAsPromised
