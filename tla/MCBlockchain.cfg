SPECIFICATION Spec
CONSTANTS
    Tx <- MCTx
    NoAddress = NoAddress
    Schedule <- MCSchedule
    Bootstrap <- MCBootstrap
    U64 = 65536
    Block <- ForkBlocks
    Genesis = "G"
    BlockOf <- MCBlocks
    ancestry <- MCAncestry
INVARIANTS
    BestChainLinked
    LongestValidChain
    UtxoIsUnspent
    SupplyWithinSubsidies
    HistoryAddsUp
PROPERTIES
    ImplementsLongestChain
\* Every block has been offered.
CHECK_DEADLOCK FALSE
