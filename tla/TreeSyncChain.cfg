SPECIFICATION FairSpec
CONSTANTS
    a = a
    b = b
    c = c
    p1 = p1
    c1 = c1
    c2 = c2
    Path = {p1}
    NoPath = NoPath
    Content = {c1}
    Device = {a, b, c}
    Acting = {a}
    Tree <- Chain
    Setting <- OneLoss
    Everywhere = FALSE
CHECK_DEADLOCK FALSE
PROPERTIES
    PurgeReachesAll
    Settles
