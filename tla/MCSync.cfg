SPECIFICATION FairSpec
CONSTANTS
    p1 = p1
    p2 = p2
    p3 = p3
    Peer = {p1, p2, p3}
    Networks <- SmallNetworks
    MaxBlocks = 3
    MaxRequest = 2
    NoPeer = NoPeer
INVARIANTS
    TypeOK
    HeardIsHeld
    ImportedWithinGrowth
PROPERTIES
    SentWhenNew
    HeardIsReached
CHECK_DEADLOCK FALSE
