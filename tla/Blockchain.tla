------------------------------ MODULE Blockchain ------------------------------
(***************************************************************************)
(* The block store and the choice of the best chain: struct Blockchain and *)
(* its add_block.  A block is named by its hash, and a hash fixes the      *)
(* header it was computed from; BlockOf gives the contents of every block  *)
(* considered, and ancestry the walk along previous_block_hash that        *)
(* path_to_genesis would take with every block in the store.               *)
(*                                                                         *)
(* A hash does not fix the transactions: the merkle root of a list is also *)
(* that of the list with some of its last transactions twice.  BlockOf has *)
(* the list without repetition; spoiled are the hashes stored with the     *)
(* other, which no replay accepts.                                         *)
(*                                                                         *)
(* An attempt that add_block refuses before storing the block changes      *)
(* nothing: it is a stuttering step.  headers repeats blocks and           *)
(* genesis_hash is the constant Genesis.                                   *)
(***************************************************************************)
EXTENDS Ledger, SequencesExt

CONSTANTS Block,     \* the hashes of the blocks considered
          Genesis,   \* genesis_hash
          BlockOf,   \* a hash's block: its header, transactions and seal
          ancestry   \* a hash's path back to a block of unknown parent

VARIABLES blocks,          \* the hashes stored, valid or not
          spoiled,         \* those of them stored with transactions repeated
          best_chain,      \* hashes from the genesis block to the tip
          current_height,  \* the height of the tip
          utxo_set         \* the outputs unspent at the tip

chainVars == <<blocks, spoiled, best_chain, current_height, utxo_set>>

\* A hash commits to its parent, so the walk to the genesis block, where it
\* stops, is fixed.  Nothing ties a block's height to its place in the walk.
ASSUME BlockAssumption ==
    /\ Genesis \in Block
    /\ \A b \in Block :
          /\ BlockOf[b].height \in Nat
          /\ ancestry[b] \in Seq(Block)
          /\ ancestry[b] = IF b = Genesis \/ BlockOf[b].previous_block_hash \notin Block
                           THEN <<b>>
                           ELSE Append(ancestry[BlockOf[b].previous_block_hash], b)
          /\ BlockOf[b].transactions \in Seq(Range(BlockOf[b].transactions))
          /\ \A i \in DOMAIN BlockOf[b].transactions :
                IsTransaction(BlockOf[b].transactions[i])
    /\ BlockOf[Genesis].height = 0

Tip == best_chain[Len(best_chain)]

BlocksOf(chain) == [ i \in DOMAIN chain |-> BlockOf[chain[i]] ]

\* build_utxo_state_for_chain succeeds on a chain of hashes.
ChainIsValid(chain) == ValidChain(BlocksOf(chain))

\* A block of height 0 beside the genesis block.  add_block takes it only while
\* its parent is missing (there is no check then) and never looks again, so the
\* parent may come later and put it in the middle of a chain.
Stray(b) == b # Genesis /\ BlockOf[b].height = 0

NoStray(chain) == \A i \in DOMAIN chain : ~Stray(chain[i])

\* A chain whose blocks, as they are stored, replay without error.
Replays(chain) ==
    /\ \A i \in DOMAIN chain : chain[i] \notin spoiled
    /\ ChainIsValid(chain)

\* calculate_merkle_root pairs an odd last hash with itself, on each level: all
\* but the lists of 1, 2, 4, 8, ... transactions share it with a longer one.
HasTwin(b) ==
    LET n == Len(BlockOf[b].transactions)
    IN  n > 0 /\ \A k \in 0..n : n # 2^k

\* Blockchain::new expects the genesis block alone to be a valid chain, and
\* create_genesis_block makes it pay nothing.
ASSUME GenesisAssumption ==
    /\ ChainIsValid(<<Genesis>>)
    /\ \A o \in Creates(BlockOf[Genesis].transactions[1]) : OutputAt(o).value = 0

\* Mutant of Validate: a block may be older than its parent.
ValidateUntimed(b) ==
    LET parent == BlockOf[b].previous_block_hash
    IN  /\ BlockOf[b].transactions # <<>>
        /\ IF parent \in blocks
           THEN BlockOf[b].height = BlockOf[parent].height + 1
           ELSE BlockOf[b].height = 0
        /\ BlockOf[b].sealed

\* Block::validate, against the parent if the store has it.  sealed: the
\* merkle root is the one of the transactions and the hash meets the target
\* of the block's own bits.
Validate(b) ==
    LET parent == BlockOf[b].previous_block_hash
    IN  /\ BlockOf[b].transactions # <<>>
        /\ IF parent \in blocks
           THEN /\ BlockOf[b].height = BlockOf[parent].height + 1
                /\ BlockOf[b].timestamp >= BlockOf[parent].timestamp
           ELSE BlockOf[b].height = 0
        /\ BlockOf[b].sealed

\* add_block gets as far as inserting b in the store.
CanStore(b) ==
    /\ b \notin blocks
    /\ BlockOf[b].height > 0 => BlockOf[b].previous_block_hash \in blocks
    /\ Validate(b)

\* path_to_genesis(b) is Some(ancestry[b]) once b is stored.
PathKnown(b) ==
    /\ ancestry[b][1] = Genesis
    /\ \A i \in DOMAIN ancestry[b] : ancestry[b][i] \in blocks \cup {b}

\* Mutant of Adopts: the branch is not replayed before it is adopted.
AdoptsUnreplayed(b) ==
    /\ PathKnown(b)
    /\ Len(ancestry[b]) > Len(best_chain)

\* Mutant of Adopts: only a block on top of the tip is adopted.
AdoptsOnTip(b) ==
    /\ PathKnown(b)
    /\ Replays(ancestry[b])
    /\ BlockOf[b].previous_block_hash = Tip

\* The candidate chain exists, replays without error and is longer.
Adopts(b) ==
    /\ PathKnown(b)
    /\ Replays(ancestry[b])
    /\ Len(ancestry[b]) > Len(best_chain)

Init ==
    /\ blocks = {Genesis}
    /\ spoiled = {}
    /\ best_chain = <<Genesis>>
    /\ current_height = 0
    /\ utxo_set = UtxoOf(BlocksOf(<<Genesis>>))

\* add_block stores a block whose path is unknown, whose branch fails to
\* replay (both are errors, after the block was stored), or whose branch is
\* not longer than the best chain (Ok).
StoreBlock(b) ==
    /\ CanStore(b)
    /\ ~Adopts(b)
    /\ blocks' = blocks \cup {b}
    /\ UNCHANGED <<spoiled, best_chain, current_height, utxo_set>>

\* add_block of the list that repeats transactions: its header passes like the
\* other's, its replay does not, and from then on the hash is known.
StoreTwin(b) ==
    /\ CanStore(b)
    /\ HasTwin(b)
    /\ blocks' = blocks \cup {b}
    /\ spoiled' = spoiled \cup {b}
    /\ UNCHANGED <<best_chain, current_height, utxo_set>>

\* Mutant of AdoptBlock: the set of the tip is updated, not rebuilt, so a
\* displaced branch leaves its outputs behind.
AdoptBlockInPlace(b) ==
    /\ CanStore(b)
    /\ Adopts(b)
    /\ blocks' = blocks \cup {b}
    /\ best_chain' = ancestry[b]
    /\ current_height' = BlockOf[b].height
    /\ UNCHANGED spoiled
    /\ utxo_set' = ApplyBlock(utxo_set, BlockOf[b])

\* add_block stores a block and switches to its branch.
AdoptBlock(b) ==
    /\ CanStore(b)
    /\ Adopts(b)
    /\ blocks' = blocks \cup {b}
    /\ best_chain' = ancestry[b]
    /\ current_height' = BlockOf[b].height
    /\ UNCHANGED spoiled
    /\ utxo_set' = UtxoOf(BlocksOf(ancestry[b]))

Next == \E b \in Block : StoreBlock(b) \/ StoreTwin(b) \/ AdoptBlock(b)

Spec == Init /\ [][Next]_chainVars

-----------------------------------------------------------------------------
TypeOK ==
    /\ blocks \subseteq Block /\ spoiled \subseteq blocks
    /\ best_chain \in Seq(Block)
    /\ current_height \in Nat

\* The best chain is a chain: it starts at the genesis block, every block is
\* stored and builds on the one before it, current_height is the height of the
\* tip, and every block is one higher than the one before it and not older,
\* unless it is a stray, which nobody compared with its parent.
BestChainLinked ==
    /\ best_chain # <<>> /\ best_chain[1] = Genesis
    /\ \A i \in DOMAIN best_chain : best_chain[i] \in blocks
    /\ \A i \in 2..Len(best_chain) :
          LET block == BlockOf[best_chain[i]]
              parent == BlockOf[best_chain[i - 1]]
          IN  /\ block.previous_block_hash = best_chain[i - 1]
              /\ \/ Stray(best_chain[i])
                 \/ block.height = parent.height + 1 /\ block.timestamp >= parent.timestamp
    /\ current_height = BlockOf[Tip].height

\* Whatever order blocks arrived in, valid and invalid ones, on whichever
\* branch, the best chain replays without error, and no longer chain does that
\* is stored as its blocks were built and free of strays.  (A stored chain with
\* a stray can be longer: nobody looks at it when the stray's parent arrives.)
LongestValidChain ==
    /\ Replays(best_chain)
    /\ \A b \in blocks :
          PathKnown(b) /\ Replays(ancestry[b]) /\ NoStray(ancestry[b])
            => Len(ancestry[b]) <= Len(best_chain)

ChainTransactions == FlattenSeq([ i \in DOMAIN best_chain |->
                                    BlockOf[best_chain[i]].transactions ])

NoRepeatedTransaction ==
    /\ IsInjective(ChainTransactions)
    /\ \A o \in Bootstrap : o[1] \notin ToSet(ChainTransactions)

\* Where no transaction occurs twice on the best chain, the running set that
\* removes and inserts outputs block by block holds what was created and never
\* spent, and no output was spent twice or before it existed.
UtxoIsUnspent ==
    LET txs == ChainTransactions
        created(k) == Bootstrap \cup UNION { Creates(txs[j]) : j \in 1..k }
        spent(k) == UNION { Spends(txs[j]) : j \in 1..k }
    IN  NoRepeatedTransaction =>
          /\ utxo_set = created(Len(txs)) \ spent(Len(txs))
          /\ \A k \in DOMAIN txs :
                Spends(txs[k]) \subseteq created(k - 1) \ spent(k - 1)

ValueOf(outpoints) == SumFunction([ o \in outpoints |-> OutputAt(o).value ])

\* The outputs unspent at the tip are worth no more than the subsidies of the
\* heights the blocks of the best chain claim: fees, splits and reorganisations
\* create no coins.  (Behind a stray, heights and subsidies begin again.)
SupplyWithinSubsidies ==
    ValueOf(utxo_set) <= ValueOf(Bootstrap)
        + SumFunction([ i \in 2..Len(best_chain) |->
                          BlockReward(Schedule, BlockOf[best_chain[i]].height) ])

\* A step never leaves the best chain for one that is not longer, and it
\* never forgets a block.
ReorgsOnlyToLonger ==
    [][ /\ best_chain' # best_chain => Len(best_chain') > Len(best_chain)
        /\ blocks \subseteq blocks' ]_chainVars

\* The chains of stored blocks whose path reaches the genesis block, of blocks
\* stored as they were built.
Whole(b) == \A i \in DOMAIN ancestry[b] : ancestry[b][i] \notin spoiled

KnownChains == { ancestry[b] : b \in { x \in blocks : PathKnown(x) /\ Whole(x) } }

ValidChains == { ancestry[b] : b \in { x \in Block : ChainIsValid(ancestry[x]) } }

\* The block store seen as a store of chains whose head is the best chain.
LC == INSTANCE LongestChain WITH
        Chain <- { ancestry[b] : b \in Block },
        Valid <- ValidChains,
        Root  <- <<Genesis>>,
        known <- KnownChains,
        head  <- best_chain

\* add_block implements LongestChain: the chains a stray's parent makes known
\* are the ones that are late, and a hash that is stored with transactions
\* repeated makes no chain known.
ImplementsLongestChain == LC!Spec

-----------------------------------------------------------------------------
\* contains_transaction: any stored block, on the best chain or not.
ContainsTransaction(tx) ==
    \E b \in blocks : tx \in ToSet(BlockOf[b].transactions)

PaidTo(tx, address) ==
    ValueOf({ o \in Creates(tx) : OutputAt(o).script_pubkey = address })

\* What txs[k] spends of the address, as far as its outputs were seen before.
OwnedInputAmount(txs, k, address) ==
    ValueOf({ o \in Spends(txs[k]) : /\ o[1] \in { txs[j] : j \in 1..(k - 1) }
                                     /\ OutputAt(o).script_pubkey = address })

\* Mutant of HistoryLine: an outgoing payment is shown with what went out of
\* the inputs, and its fee besides.
HistoryLineGross(txs, k, address) ==
    LET incoming == PaidTo(txs[k], address)
        owned == OwnedInputAmount(txs, k, address)
    IN  [ direction |-> IF owned = 0 THEN "Incoming" ELSE "Outgoing",
          amount |-> IF owned = 0 THEN incoming ELSE owned - incoming,
          fee |-> IF owned = 0 THEN 0 ELSE owned - TotalOutputValue(txs[k]) ]

\* The line of wallet_transaction_history for txs[k].
HistoryLine(txs, k, address) ==
    LET tx == txs[k]
        incoming == PaidTo(tx, address)
        owned == OwnedInputAmount(txs, k, address)
        external == ValueOf({ o \in Creates(tx) : OutputAt(o).script_pubkey # address })
        fee == IF owned > TotalOutputValue(tx) THEN owned - TotalOutputValue(tx) ELSE 0
        line(direction, amount) ==
            [ direction |-> direction, amount |-> amount, fee |-> fee ]
    IN  CASE tx.inputs = <<>> -> line("MiningReward", incoming)
          [] tx.inputs # <<>> /\ owned > 0 /\ external = 0 -> line("SelfTransfer", incoming)
          [] tx.inputs # <<>> /\ owned > 0 /\ external > 0 -> line("Outgoing", external)
          [] tx.inputs # <<>> /\ owned = 0 -> line("Incoming", incoming)

\* The lines of an address, those of other addresses' transactions included:
\* they show zero.
HistoryTotal(address) ==
    LET txs == ChainTransactions
        change(line) == CASE line.direction \in {"MiningReward", "Incoming"} -> line.amount
                          [] line.direction = "SelfTransfer" -> 0 - line.fee
                          [] line.direction = "Outgoing" -> 0 - line.amount - line.fee
    IN  SumFunction([ k \in DOMAIN txs |-> change(HistoryLine(txs, k, address)) ])

\* The inputs are of one address, and bootstrap outputs or none.
OneSource(tx) ==
    /\ \A i, j \in DOMAIN tx.inputs : tx.inputs[i].signer = tx.inputs[j].signer
    /\ Spends(tx) \subseteq Bootstrap \/ Spends(tx) \cap Bootstrap = {}

\* The wallet shows a balance, summed over the running set, and a history,
\* replayed from the blocks: after any reorganisation the rewards, receipts,
\* payments and fees of the history add up to the balance, as long as no
\* transaction occurs twice on the chain, spends outputs of two addresses, or
\* mixes outputs the history knows with bootstrap outputs, which it does not.
\* (Two equal rewards of one address are one transaction: see the README.)
HistoryAddsUp ==
    NoRepeatedTransaction /\ (\A tx \in ToSet(ChainTransactions) : OneSource(tx)) =>
        \A o \in UNION { Creates(tx) : tx \in ToSet(ChainTransactions) } :
            LET address == OutputAt(o).script_pubkey
            IN  Balance(utxo_set \ Bootstrap, address) = HistoryTotal(address)
===============================================================================
