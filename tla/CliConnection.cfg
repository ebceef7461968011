CONSTANTS
    Project = {p1, p2}
    Token = {k1}
    None = None
SPECIFICATION Spec
INVARIANTS
    ActiveTokenNotRefused
