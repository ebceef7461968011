CONSTANTS
    Token = {k1, k2}
    Bundle = {b1, b2}
    Run = {r1, r2}
    Request = {q1, q2}
    ReceiptKey = {i1}
    NoToken = NoToken
    NoBundle = NoBundle
    NoKey = NoKey
    ATTEMPTS = 2
    MaxClock = 3
SYMMETRY Symmetry
SPECIFICATION Spec
INVARIANTS
    SuccessIsStored
    HandedIsStored
    NewestIsAttested
PROPERTIES
    RevocationIsFinal
CHECK_DEADLOCK FALSE
