CONSTANTS
    CHECKS = 1
    tracked = tracked
    added = added
    File = {tracked, added}
    absent <- MCabsent
    MaxVersion = 1
    MaxReturns = 1
    NoBundle = NoBundle
    NoCheck = NoCheck
SPECIFICATION Spec
INVARIANTS
    TypeOK
    VerifiedRanOnCommit
    SubmittedRanOnCommit
PROPERTIES
    CheckEnds
