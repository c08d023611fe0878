SPECIFICATION FairSpec
CONSTANTS
    w1 = w1
    w2 = w2
    Windows = {w1, w2}
    Offers <- MCOffers
    Loopback <- MCLoopback
    Reaches <- MCReaches
    Miners = {w1}
    Url = {"near", "low", "high", "higher"}
    Heights = {1, 2}
    Listed <- MCListed
    MaxEndpoints = 2
    StaleAfter = 0
    MaxNow = 1
    NoUrl = NoUrl
    NoWindow = NoWindow
INVARIANTS
    TypeOK
    ServerIsItsThread
    StayedIsShown
PROPERTIES
    LostOnlyInARace
    ServedIsListedAgain
