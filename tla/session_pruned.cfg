\* One call whose session has expired, in a database that works.
CONSTANTS
    u1 = u1
    u2 = u2
    u3 = u3
    a1 = a1
    a2 = a2
    s1 = s1
    s2 = s2
    s3 = s3
    s4 = s4
    User = {u1}
    NoUser = NoUser
    Account = {a1}
    NoAccount = NoAccount
    Sid = {s1, s2}
    NoSid = NoSid
    Request = {i1}
    Kinds = {"call"}
    Faults = {}
    TTL = 1
SPECIFICATION OneFairSpec
PROPERTIES
    PrunedOnRead
