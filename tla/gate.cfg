\* One who may change grants and users, one who may change labs, and any two of
\* their requests on three kinds of route: a handler that changes grants, one that
\* changes who is active, and a call of DIMS.
CONSTANTS
    u1 = u1
    u2 = u2
    User = {u1, u2}
    Request = {i1, i2}
    Routes = {"assignRoles", "updateLab", "patchUser"}
    Window = 1
    TokenTTL = 1
SPECIFICATION MCGateSpec
SYMMETRY MCSymmetry
INVARIANTS
    TypeOK
    OnlyActiveUsersEnter
    ClaimsWereGranted
PROPERTIES
    RevocationReachesDims
    SealedStaysSealed
