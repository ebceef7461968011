CONSTANTS
    Project = {p1}
    UpdateKey = {u1}
    PolicyKey = {k1, k2}
    ActivateKey = {a1}
    TaskKey = {t1, t2}
    IntentKey = {i1, i2}
    OutcomeKey = {o1, o2}
    Repository = {r1, r2}
    PolicyHash = {h1, h2}
    Content = {x1}
    Patch <- OneField
    Call = {c1, c2}
    Keep = Keep
    NoProject = NoProject
    NoPolicy = NoPolicy
    NoTask = NoTask
    NoRequest = NoRequest
    NoTransaction = NoTransaction
SYMMETRY Symmetry
SPECIFICATION IntentSpec
INVARIANTS
    IntentTypeOK
    RetriesActOnce
    TaskKeepsRepository
PROPERTIES
    DraftsAreCurrent
CHECK_DEADLOCK FALSE
