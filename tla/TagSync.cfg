SPECIFICATION Spec
CONSTANTS
    laptop = laptop  hub = hub  phone = phone
    holiday = holiday  beach = beach  photo = photo
    Device = {laptop, phone}
    Tree <- Pair
    Acting = {laptop, phone}
    Tag = {holiday, beach}
    Relation <- PhotoOfHoliday
    Name = {n1, n2}
    Style = {s1, s2}
    Stamp = {2, 3}
    MaxDrops = 1
    Everywhere = {holiday}
INVARIANTS
    QuietDefinitions QuietRelations
PROPERTY
    RowsAreFacts
CHECK_DEADLOCK FALSE
