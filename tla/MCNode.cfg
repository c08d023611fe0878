SPECIFICATION NodeSpec
CONSTANTS
    Payments <- AwayConflicts
    AwayBlocks <- AwayPaying
    MaxHeight = 3
    MaxAway = 2
    Strays <- None
    MineEmptyBlocks = TRUE
    MaxSubmissions = 1
    MaxNow = 1
    MaxResets = 1
    Submitters = {s1, s2}
    Bootstrap <- NoBootstrap
    Schedule <- MCSchedule
    MaxSize = 2
    Tx <- MCTx
    NoAddress = NoAddress
    U64 = 65536
    Block <- MCBlock
    Genesis = 0
    BlockOf <- MCBlockOf
    ancestry <- MCAncestry
    Incoming <- MCIncoming
    MinFeeRate = 1
    CongestionStep = 20
    StandardDelay = 1
    MaxPerBlock = 2
    MaxBlockSize = 10
    Size <- MCSize
    Rank <- MCRank
    MinerAddress = "home"
    NoTx = NoTx
    NoBlock = NoBlock
INVARIANTS
    NodeTypeOK
    MempoolDisjoint
    TemplateConnects
PROPERTIES
    LeavesOnlyWhenDisplaced
    ExtensionKeepsSpendable
SYMMETRY Symmetry
CHECK_DEADLOCK FALSE
