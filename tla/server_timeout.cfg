\* One call of DIMS, and no fault at all.
CONSTANTS
    Request = {i1}
    Kinds <- MCKinds
    Faults = {}
    Timeout = 1
    Grace = 2
SPECIFICATION Spec
INVARIANTS
    HardTimeout
