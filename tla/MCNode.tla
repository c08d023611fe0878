-------------------------------- MODULE MCNode --------------------------------
(***************************************************************************)
(* Small nodes.  A block stands for the payloads from the genesis block to *)
(* it, so that every block the miner can build exists: a payload is who    *)
(* mined it and what it confirms besides the coinbase.                     *)
(***************************************************************************)
EXTENDS Node

CONSTANTS Payments,   \* the transactions users submit
          AwayBlocks, \* the payloads of blocks of other nodes, as confirmed
          MaxHeight,  \* bound: the height of the highest block
          MaxAway,    \* bound: the height of the highest block of another node
          Strays      \* the payloads of blocks of height 0: none or StrayPayload

\* Heights 0 and 1 earn 8, 2 and 3 earn 4, 4 and 5 earn 2.
MCSchedule == EmissionSchedule(32, 8, 4)

Pay(value, address) == [ value |-> value, script_pubkey |-> address ]
Mint(value, address) == Coinbase(value, address)
Sends(outpoint, signer, outputs) ==
    [ inputs |-> <<[ previous_output |-> outpoint, signer |-> signer ]>>,
      outputs |-> outputs ]

GenesisTx == Mint(0, "genesis")
AnnFunds == <<Mint(9, "ann"), 1>>
BobFunds == <<Mint(8, "bob"), 1>>
MCBootstrap == {AnnFunds, BobFunds}
NoBootstrap == {}

\* Every transaction is one byte long: a fee is its own rate.  With one to
\* twenty entries waiting, a fee of 2 pays for the standard lane and one of 3
\* for the instant one.
AnnPays == Sends(AnnFunds, "ann", <<Pay(5, "cat")>>)
AnnPaysElse == Sends(AnnFunds, "ann", <<Pay(4, "dan")>>)
BobPaysSlowly == Sends(BobFunds, "bob", <<Pay(6, "cat")>>)

\* Payments of coinbases of the model, of height 1 or 2, worth 8 and 4;
\* AwayPays and AwayPaysElse spend the same one, and CatPays what AwayPays paid.
MinedPays == Sends(<<Mint(8, "home"), 1>>, "home", <<Pay(5, "cat")>>)
MinedPaysAgain == Sends(<<Mint(4, "home"), 1>>, "home", <<Pay(1, "dan")>>)
AwayPays == Sends(<<Mint(8, "away"), 1>>, "away", <<Pay(5, "cat")>>)
AwayPaysElse == Sends(<<Mint(8, "away"), 1>>, "away", <<Pay(6, "dan")>>)
CatPays == Sends(<<AwayPays, 1>>, "cat", <<Pay(3, "dan")>>)

TwoLanes == {AnnPays, BobPaysSlowly}
MinedPayments == {MinedPays, MinedPaysAgain}
AwayConflicts == {AwayPays, AwayPaysElse, CatPays}

MCTx == Payments
MCSize == [ tx \in Tx |-> 1 ]
MCRank == CHOOSE rank \in [Tx -> 1..Cardinality(Tx)] : IsInjective(rank)

\* What a block can confirm besides its coinbase: payments without conflict.
Confirmable ==
    { txs \in UNION { [ 1..n -> Payments ] : n \in 0..2 } :
        \A i, j \in DOMAIN txs : i # j => Spends(txs[i]) \cap Spends(txs[j]) = {} }

\* A block of height 0 above the genesis block; the heights of what builds on
\* it begin again.
StrayPayload == [ by |-> "stray", txs |-> <<>> ]

PayloadSet ==
    { [ by |-> "home", txs |-> txs ] : txs \in Confirmable }
      \cup { [ by |-> "away", txs |-> txs ] : txs \in AwayBlocks } \cup Strays

Payloads == FoldSet(LAMBDA payload, list : Append(list, payload), <<>>, PayloadSet)

\* The submitting threads are interchangeable.
Symmetry == Permutations(Submitters)

\* Blocks are numbered like the nodes of a heap, the genesis block is 0.
Width == Cardinality(PayloadSet)
Blocks == 0..SumFunction([ height \in 1..MaxHeight |-> Width^height ])
PayloadOf(b, list) == list[1 + ((b - 1) % Len(list))]

Path(b, width) ==
    LET path[c \in Nat] == IF c = 0 THEN <<0>> ELSE Append(path[(c - 1) \div width], c)
    IN  path[b]

BlockAt(b, list) ==
    LET path == Path(b, Len(list))
        above == { i \in 2..Len(path) : PayloadOf(path[i], list) = StrayPayload }
        height == Len(path) - Max({1} \cup above)
        payload == PayloadOf(b, list)
        fees == SumFunction([ i \in DOMAIN payload.txs |-> Fee(payload.txs[i]) ])
    IN  [ previous_block_hash |-> path[Len(path) - 1],
          height |-> height, timestamp |-> Len(path),
          transactions |->
            <<Mint(BlockReward(Schedule, height) + fees, payload.by)>> \o payload.txs,
          sealed |-> TRUE ]

GenesisBlock ==
    [ previous_block_hash |-> NoBlock, height |-> 0, timestamp |-> 0,
      transactions |-> <<GenesisTx>>, sealed |-> TRUE ]

Contents ==
    LET list == Payloads
    IN  [ b \in Blocks |-> IF b = 0 THEN GenesisBlock ELSE BlockAt(b, list) ]

Paths == LET width == Width IN [ b \in Blocks |-> Path(b, width) ]

\* Other nodes build valid blocks, on their own ones only.
FromAway ==
    LET list == Payloads
        width == Width
        away(path) ==
            /\ Len(path) <= MaxAway + 1
            /\ \A i \in 2..Len(path) : PayloadOf(path[i], list).by # "home"
            /\ ValidChain([ i \in DOMAIN path |->
                 IF i = 1 THEN GenesisBlock ELSE BlockAt(path[i], list) ])
    IN  { b \in Blocks \ {0} : away(Path(b, width)) }

\* TLC evaluates a definition once, and what a configuration names for a
\* constant wherever it is used: so that is only the name of a definition.
MCBlock == Blocks
MCBlockOf == Contents
MCAncestry == Paths
MCIncoming == FromAway

EmptyAway == {<<>>}
AwayPaying == {<<>>, <<AwayPays, CatPays>>}
AwayAnn == {<<AnnPays>>, <<AnnPaysElse>>}
None == {}
OneStray == {StrayPayload}
===============================================================================
