\* Sign-ins, calls and sign-outs, three at a time, from an empty database, with the
\* faults that do not keep a handler from writing.
CONSTANTS
    u1 = u1
    u2 = u2
    u3 = u3
    a1 = a1
    a2 = a2
    s1 = s1
    s2 = s2
    s3 = s3
    s4 = s4
    User = {u1, u2, u3}
    NoUser = NoUser
    Account = {a1, a2}
    NoAccount = NoAccount
    Sid = {s1, s2, s3}
    NoSid = NoSid
    Request = {i1, i2, i3}
    Kinds = {"call", "signIn", "signOut"}
    Faults = {"burn", "crash", "audit"}
    TTL = 1
SPECIFICATION EmptySpec
SYMMETRY MCSymmetry
INVARIANTS
    TypeOK
    DestroyedStaysDestroyed
    OneLiveUserPerAccount
PROPERTIES
    SignedInHasSession
    OnlySignInSetsUser
    LoginAsPromised
