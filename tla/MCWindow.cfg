SPECIFICATION WindowSpec
CONSTANTS
    Payments <- MinedPayments
    AwayBlocks <- EmptyAway
    MaxHeight = 2
    MaxAway = 2
    Strays <- OneStray
    MineEmptyBlocks = TRUE
    MaxSubmissions = 1
    MaxNow = 0
    MaxResets = 1
    Submitters = {s1}
    Bootstrap <- NoBootstrap
    Schedule <- MCSchedule
    MaxSize = 1
    Tx <- MCTx
    NoAddress = NoAddress
    U64 = 65536
    Block <- MCBlock
    Genesis = 0
    BlockOf <- MCBlockOf
    ancestry <- MCAncestry
    Incoming <- MCIncoming
    MinFeeRate = 1
    CongestionStep = 20
    StandardDelay = 1
    MaxPerBlock = 2
    MaxBlockSize = 10
    Size <- MCSize
    Rank <- MCRank
    MinerAddress = "home"
    Owner = "home"
    NoTx = NoTx
    NoBlock = NoBlock
INVARIANTS
    PolledIsCurrent
CHECK_DEADLOCK FALSE
