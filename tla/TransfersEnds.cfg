SPECIFICATION FairSpec
CONSTANTS
    laptop = laptop  phone = phone
    Device = {laptop, phone}
    Tree <- Pair
    Acting = {laptop}
    Holder = {phone}
    Content = {a}
    None = None
    Chunks = 2
    Permits = 1
    MaxActs = 2
    MaxDrops = 1
    TimeOuts = TRUE
    Reuse = TRUE
PROPERTIES
    EveryPullEnds OutboxDrains
CHECK_DEADLOCK FALSE
