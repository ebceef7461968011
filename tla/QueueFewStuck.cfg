CONSTANTS
    Tx = {a, b, c}
    Stuck = {a}
    Requested = {c}
    Limit = 2
    MaxAborts = 2
SPECIFICATION FairSpec
INVARIANTS
    TypeOK
PROPERTIES
    DecidedIsResolved
CHECK_DEADLOCK FALSE
