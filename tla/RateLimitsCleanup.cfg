CONSTANTS
    Subject = {s1}
    Global = Global
    Call = {c1, c2}
    NoWindow = NoWindow
    GLOBAL_MAX = 2
    SUBJECT_MAX = 1
    WINDOW = 3
    CLEANUP_PERIOD = 2
    CLEANUP_LIMIT = 1
    MaxLate = 1
    MaxTime = 5
SYMMETRY Symmetry
SPECIFICATION Spec
INVARIANTS
    CleanupComesRound
CHECK_DEADLOCK FALSE
