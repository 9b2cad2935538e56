SPECIFICATION FairSpec
CONSTANTS
    a = a
    b = b
    c = c
    d = d
    r1 = r1
    r2 = r2
    Node = {a, b, c, d}
    Request = {r1, r2}
    Tree <- Row
    Home <- InMiddle
    Toward <- Flooded
    Holders <- NobodyOrOneEnd
    MaxBreaks = 1
    Timeouts = TRUE
    Eager = TRUE
CHECK_DEADLOCK FALSE
INVARIANTS
    NoWaiterLost
    HolderIsFound
    NoOrphan
PROPERTIES
    EveryRequestEnds
