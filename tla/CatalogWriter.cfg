SPECIFICATION Spec
CONSTANTS
    Path = {p1, p2}
    NoPath = NoPath
    Content = {c1, c2}
    MaxAt = 3
    MaxLog = 3
SYMMETRY Symmetry
INVARIANTS
    FlagCachesClocks
    PurgedHasNoRow
PROPERTIES
    LatestNeverGoesBack
    ImplementsRegister
