SPECIFICATION SessionSpec
CONSTANTS
    Requests = {r1, r2, r3}
    Tenants = {default, acme}
    DEFAULT = default
    ENV = ENV
    OPEN = OPEN
    NONE = NONE
SYMMETRY RequestSymmetry
CHECK_DEADLOCK FALSE
INVARIANTS
    TenantsAreIsolated
    UndisturbedAnswerHolds
