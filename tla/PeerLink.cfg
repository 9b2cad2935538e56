SPECIFICATION FairSpec
CONSTANTS
    Session = {s1, s2}
    NoSession = NoSession
INVARIANTS
    OwnerHoldsSlot
PROPERTIES
    DeadSlotFreed
    TeardownEnds
    SilenceNoticed
