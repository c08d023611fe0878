SPECIFICATION FairNodeSpec
CONSTANTS
    Payments <- TwoLanes
    AwayBlocks <- AwayAnn
    MaxHeight = 3
    MaxAway = 1
    Strays <- None
    MineEmptyBlocks = FALSE
    MaxSubmissions = 1
    MaxNow = 2
    MaxResets = 0
    Submitters = {s1, s2}
    Bootstrap <- MCBootstrap
    Schedule <- MCSchedule
    MaxSize = 5
    Tx <- MCTx
    NoAddress = NoAddress
    U64 = 65536
    Block <- MCBlock
    Genesis = 0
    BlockOf <- MCBlockOf
    ancestry <- MCAncestry
    Incoming <- MCIncoming
    MinFeeRate = 1
    CongestionStep = 20
    StandardDelay = 1
    MaxPerBlock = 2
    MaxBlockSize = 10
    Size <- MCSize
    Rank <- MCRank
    MinerAddress = "home"
    NoTx = NoTx
    NoBlock = NoBlock
PROPERTY AdmittedIsConfirmed
CHECK_DEADLOCK FALSE
