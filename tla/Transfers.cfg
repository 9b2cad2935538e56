SPECIFICATION Spec
CONSTANTS
    laptop = laptop  phone = phone
    Device = {laptop, phone}
    Tree <- Pair
    Acting = {laptop}
    Holder = {phone}
    Content = {a, b}
    None = None
    Chunks = 1
    Permits = 1
    MaxActs = 3
    MaxDrops = 1
    TimeOuts = TRUE
    Reuse = FALSE
INVARIANTS
    LatestSurvives QuietDelivered
CHECK_DEADLOCK FALSE
