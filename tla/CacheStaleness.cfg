SPECIFICATION Spec
CONSTANTS
    Aliases = {a1, a2}
    Calls = {c1, c2, c3}
    NoResult = NoResult
    TTL = 2
    MaxRun = 2
    MaxTime = 7
SYMMETRY Symmetry
CHECK_DEADLOCK FALSE
INVARIANT
    TypeOK
PROPERTY
    StalenessIsBounded
