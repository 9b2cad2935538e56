SPECIFICATION FairSpec
CONSTANTS
    docs = docs  store = store  a1 = a1  b1 = b1  c1 = c1  c2 = c2  c3 = c3
    Nowhere = Nowhere
    Dirs <- TwoDirs
    Kind <- KindTwo
    TempMount = {docs}
    Begins <- ABeginsB
    Content = {c1, c2, c3}
    Setting <- All
    Orderly = TRUE
INVARIANTS
    OnlyUserChanges  QuietPlaced ScanRepairs
PROPERTIES
    OneFilePerName DeletesOnlyGone OwnBytesOnly ComesToRest
CHECK_DEADLOCK FALSE
