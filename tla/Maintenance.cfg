SPECIFICATION Spec
CONSTANTS
    a = a  b = b  p1 = p1  p2 = p2  c1 = c1  c2 = c2  t1 = t1  t2 = t2
    Device = {a, b}
    Tree <- Pair
    FileId = {1, 2, 3}
    Hash <- Hashes
    Path = {p1, p2}
    NoPath = NoPath
    Content = {c1, c2}
    Tag = {t1, t2}
    Rules <- Ruled
    Setting <- Settings
SYMMETRY Symmetry
INVARIANTS
    CopyKept
    TagsKept
CHECK_DEADLOCK FALSE
