SPECIFICATION Spec
CONSTANTS
    a = a
    b = b
    c = c
    p1 = p1
    c1 = c1
    c2 = c2
    Path = {p1, p2}
    NoPath = NoPath
    Content = {c1, c2, c3}
    Device = {a, b}
    Acting = {a, b}
    Tree <- Pair
    Setting <- Pairs
    Everywhere = TRUE
SYMMETRY Symmetry
CHECK_DEADLOCK FALSE
INVARIANTS
    RowsCompare
    FixpointAgrees
    QuietPresence
