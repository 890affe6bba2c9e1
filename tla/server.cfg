\* Calls of two routes during boot, service and shutdown, with every
\* fault but a failing insert; the limit on calls is shorter than the one on the
\* shutdown, as 10 s and 15 s are.
CONSTANTS
    Request = {i1, i2}
    Kinds <- MCKinds
    Faults = {"keys", "net", "kill"}
    Timeout = 1
    Grace = 2
SPECIFICATION FairSpec
INVARIANTS
    TypeOK
    CleanExitLosesNothing
    LabsTellTheTruth
PROPERTIES
    AnsweredChangesAreLogged
    GraceCoversCalls
    ExitsEventually
    CallsEnd
