----------------------------- MODULE MCBlockchain -----------------------------
(***************************************************************************)
(* Small block trees for Blockchain.  Rewards halve every second block:    *)
(* heights 0 and 1 earn 4, heights 2 and 3 earn 2, height 4 earns 1.       *)
(***************************************************************************)
EXTENDS Blockchain

MCSchedule == EmissionSchedule(16, 4, 4)

Pay(value, address) == [ value |-> value, script_pubkey |-> address ]
Mint(value, address) == [ inputs |-> <<>>, outputs |-> <<Pay(value, address)>> ]
Sends(outpoint, signer, outputs) ==
    [ inputs |-> <<[ previous_output |-> outpoint, signer |-> signer ]>>,
      outputs |-> outputs ]

\* The genesis coinbase pays nothing; one address is funded at the start.
GenesisTx == Mint(0, "genesis")
FundTx == Mint(5, "ann")
MCBootstrap == {<<FundTx, 1>>}

\* ann pays bob from her funds with a fee of 1; bob passes a part on, with a
\* fee and change, which can only follow it; ann spends the same output
\* otherwise (a double spend); eve signs for an output that is not hers; and a
\* payment worth more than it has.
AnnPaysBob == Sends(<<FundTx, 1>>, "ann", <<Pay(3, "bob"), Pay(1, "ann")>>)
BobPaysCat == Sends(<<AnnPaysBob, 1>>, "bob", <<Pay(1, "cat"), Pay(1, "bob")>>)
AnnPaysOn == Sends(<<AnnPaysBob, 2>>, "ann", <<Pay(1, "dan")>>)
AnnPaysCat == Sends(<<FundTx, 1>>, "ann", <<Pay(4, "cat")>>)
EveTakes == Sends(<<FundTx, 1>>, "eve", <<Pay(5, "eve")>>)
AnnInflates == Sends(<<FundTx, 1>>, "ann", <<Pay(9, "ann")>>)

MCTx == { GenesisTx, FundTx, AnnPaysBob, BobPaysCat, AnnPaysOn, AnnPaysCat, EveTakes,
          AnnInflates } \cup { Mint(v, a) : v \in 1..6, a \in {"bob", "cat", "dan"} }

BlockWith(parent, height, timestamp, transactions) ==
    [ previous_block_hash |-> parent, height |-> height, timestamp |-> timestamp,
      transactions |-> transactions, sealed |-> TRUE ]

\* Branches a and b fork at the genesis block and are three blocks long, the
\* second with the double spend of the first; x and y continue or replace
\* blocks of theirs with every way to be invalid.
MCBlockOf(b) ==
    CASE b = "G"  -> BlockWith("none", 0, 0, <<GenesisTx>>)
      [] b = "a1" -> BlockWith("G", 1, 1, <<Mint(5, "bob"), AnnPaysBob>>)
      [] b = "a2" -> BlockWith("a1", 2, 2, <<Mint(2, "cat"), BobPaysCat, AnnPaysOn>>)
      [] b = "a3" -> BlockWith("a2", 3, 2, <<Mint(2, "dan")>>)
      [] b = "b1" -> BlockWith("G", 1, 3, <<Mint(4, "cat")>>)
      [] b = "b2" -> BlockWith("b1", 2, 3, <<Mint(3, "bob"), AnnPaysCat>>)
      [] b = "b3" -> BlockWith("b2", 3, 4, <<Mint(2, "bob")>>)
      [] b = "b4" -> BlockWith("b3", 4, 5, <<Mint(1, "dan")>>)
      \* invalid only on replay: a double spend across blocks and its child
      [] b = "x3" -> BlockWith("a2", 3, 3, <<Mint(2, "bob"), AnnPaysCat>>)
      [] b = "x4" -> BlockWith("x3", 4, 3, <<Mint(1, "bob")>>)
      \* too large a reward, a foreign signature, an overdraft, a coinbase last
      [] b = "y1" -> BlockWith("G", 1, 1, <<Mint(6, "bob"), AnnPaysBob>>)
      [] b = "y2" -> BlockWith("b1", 2, 3, <<Mint(2, "bob"), EveTakes>>)
      [] b = "y3" -> BlockWith("b2", 3, 4, <<Mint(2, "dan"), AnnInflates>>)
      [] b = "y4" -> BlockWith("b1", 2, 3, <<Mint(1, "bob"), Mint(1, "cat")>>)
      \* refused before it is stored: wrong height, older than its parent,
      \* unsealed, no transaction
      [] b = "z1" -> BlockWith("a1", 3, 2, <<Mint(2, "bob")>>)
      [] b = "z2" -> BlockWith("b1", 2, 1, <<Mint(2, "bob")>>)
      [] b = "z3" -> [ BlockWith("b1", 2, 3, <<Mint(2, "bob")>>) EXCEPT !.sealed = FALSE ]
      [] b = "z4" -> BlockWith("b1", 2, 3, <<>>)
      \* blocks of height 0 of unknown parent, forever or until a1 or b1 arrives,
      \* and blocks on top of them
      [] b = "o0" -> BlockWith("elsewhere", 0, 0, <<GenesisTx>>)
      [] b = "s0" -> BlockWith("a1", 0, 0, <<Mint(4, "cat")>>)
      [] b = "s1" -> BlockWith("s0", 1, 0, <<Mint(4, "dan"), BobPaysCat>>)
      [] b = "s2" -> BlockWith("s1", 2, 1, <<Mint(1, "dan")>>)
      [] b = "t0" -> BlockWith("b1", 0, 3, <<Mint(5, "cat")>>)

ForkBlocks == { "G", "a1", "a2", "a3", "b1", "b2", "b3", "b4", "x3", "x4",
                "y1", "y2", "y3", "y4", "z1", "z2", "z3", "z4", "o0", "s0",
                "s1", "s2", "t0" }

Contents == [ b \in Block |-> MCBlockOf(b) ]

Walks[b \in Block] ==
    IF b = "G" \/ Contents[b].previous_block_hash \notin Block
    THEN <<b>>
    ELSE Append(Walks[Contents[b].previous_block_hash], b)

Steps == [ b \in Block |-> Walks[b] ]

\* TLC evaluates a definition once, and what a configuration names for a
\* constant wherever it is used: so that is only the name of a definition.
MCBlocks == Contents
MCAncestry == Steps
===============================================================================
