--------------------------------- MODULE Node ---------------------------------
(***************************************************************************)
(* struct Node: one block store and one mempool, each behind its own lock, *)
(* shared by the threads that submit transactions (wallet, peers, RPC),    *)
(* by the peer threads that submit blocks, by the mining controller, and   *)
(* by the reset button.  An action is one critical section.                *)
(*                                                                         *)
(* submit_transaction is two of them: it releases the block store before   *)
(* it takes the mempool.  submit_block holds the block store until the     *)
(* mempool is pruned; a transaction admitted between its two lock          *)
(* acquisitions does not read the block store, so it is as if admitted     *)
(* just before.  save_state, which only reads, is left out.                *)
(***************************************************************************)
EXTENDS Blockchain, Mempool

CONSTANTS Submitters,      \* the threads that submit transactions
          Incoming,        \* the blocks other nodes may send
          MinerAddress,    \* the address that is mined to
          MineEmptyBlocks, \* MiningSettings::mine_empty_blocks
          MaxSubmissions,  \* bound: how often each transaction is submitted
          MaxNow,          \* bound: where the clock stops
          MaxResets,       \* bound: how often the node is reset
          NoTx, NoBlock

VARIABLES pending,      \* the transaction a thread has checked, not yet added
          submissions,  \* how often each transaction was submitted
          mining,       \* Miner::running
          miner,        \* where the mining controller is
          template,     \* the block it works on
          resetting,    \* the chain is reset, the mempool not yet
          resets        \* how often the node was reset

nodeVars == <<pending, submissions, mining, miner, template, resetting, resets>>
vars == <<chainVars, mempoolVars, nodeVars>>

\* Blockchain::new has no bootstrap outputs: only a node without any is reset.
ASSUME NodeAssumption ==
    /\ NoTx \notin Tx /\ NoBlock \notin Block
    /\ Incoming \subseteq Block
    /\ MaxNow \in Nat /\ MaxSubmissions \in Nat /\ MaxResets \in Nat
    /\ MaxResets > 0 => Bootstrap = {}

NodeInit ==
    /\ Init
    /\ mempool = <<>>
    /\ now = 0
    /\ pending = [ s \in Submitters |-> NoTx ]
    /\ submissions = [ tx \in Tx |-> 0 ]
    /\ mining = TRUE
    /\ miner = "idle"
    /\ template = NoBlock
    /\ resetting = FALSE
    /\ resets = 0

-----------------------------------------------------------------------------
\* submit_transaction under the lock of the block store: the transaction is
\* in no stored block and spends outputs unspent at the tip.
CheckTransaction(s, tx) ==
    /\ pending[s] = NoTx
    /\ submissions[tx] < MaxSubmissions
    /\ ~ContainsTransaction(tx)
    /\ ValidSpend(utxo_set, tx)
    /\ pending' = [ pending EXCEPT ![s] = tx ]
    /\ submissions' = [ submissions EXCEPT ![tx] = @ + 1 ]
    /\ UNCHANGED <<chainVars, mempoolVars, mining, miner, template, resetting, resets>>

\* submit_transaction under the lock of the mempool.
AdmitTransaction(s) ==
    /\ pending[s] # NoTx
    /\ Admissible(pending[s])
    /\ AddTransaction(pending[s])
    /\ pending' = [ pending EXCEPT ![s] = NoTx ]
    /\ UNCHANGED <<chainVars, now, submissions, mining, miner, template, resetting, resets>>

RefuseTransaction(s) ==
    /\ pending[s] # NoTx
    /\ ~Admissible(pending[s])
    /\ pending' = [ pending EXCEPT ![s] = NoTx ]
    /\ UNCHANGED <<chainVars, mempoolVars, submissions, mining, miner, template, resetting, resets>>

\* Mutant of SubmitBlock: a block beside the best chain prunes as well.
SubmitBlockPruningAlways(b) ==
    /\ AdoptBlock(b) \/ StoreBlock(b)
    /\ RemoveConfirmed(BlockOf[b].transactions)

\* submit_block of a block add_block stores: if it is the new tip, what it
\* confirms leaves the mempool.
SubmitBlock(b) ==
    \/ AdoptBlock(b) /\ RemoveConfirmed(BlockOf[b].transactions)
    \/ StoreBlock(b) /\ UNCHANGED mempool

\* A block of another node, perhaps with its transactions repeated.
ReceiveBlock(b) ==
    /\ \/ SubmitBlock(b)
       \/ StoreTwin(b) /\ UNCHANGED mempool
    /\ UNCHANGED <<now, nodeVars>>

-----------------------------------------------------------------------------
\* create_coinbase_transaction, which does not use the height.
Coinbase(reward, address) ==
    [ inputs  |-> <<>>,
      outputs |-> <<[ value |-> reward, script_pubkey |-> address ]>> ]

\* Mutant of TemplateNow: the reward of the tip's height.
TemplateWithTipReward ==
    LET selected == TransactionsForBlock
    IN  [ previous_block_hash |-> Tip,
          height |-> current_height + 1,
          transactions |->
            <<Coinbase(BlockReward(Schedule, current_height) + SelectedFees(selected),
                       MinerAddress)>> \o selected ]

\* What create_block_template returns: the selection on top of the tip, after
\* a coinbase that takes the subsidy of the new height and the fees.
TemplateNow ==
    LET selected == TransactionsForBlock
        height == current_height + 1
    IN  [ previous_block_hash |-> Tip,
          height |-> height,
          transactions |->
            <<Coinbase(BlockReward(Schedule, height) + SelectedFees(selected),
                       MinerAddress)>> \o selected ]

\* The controller takes a template, under both locks.  b is the template,
\* mined: its time is not before its parent's and a nonce will seal it.
CreateTemplate ==
    /\ mining /\ miner = "idle"
    /\ LET fresh == TemplateNow
       IN  /\ MineEmptyBlocks \/ Len(fresh.transactions) > 1
           /\ \E b \in Block :
                 /\ BlockOf[b].previous_block_hash = Tip
                 /\ BlockOf[b].height = fresh.height
                 /\ BlockOf[b].transactions = fresh.transactions
                 /\ template' = b
    /\ miner' = "hashing"
    /\ UNCHANGED <<chainVars, mempoolVars, pending, submissions, mining, resetting, resets>>

\* A worker finds a nonce.
FindBlock ==
    /\ miner = "hashing"
    /\ miner' = "submitting"
    /\ UNCHANGED <<chainVars, mempoolVars, pending, submissions, mining, template,
                   resetting, resets>>

\* Mutant of SubmitMined: the controller keeps a template that was submitted.
SubmitMinedKeepingTemplate ==
    /\ miner = "submitting"
    /\ \/ SubmitBlock(template)
       \/ ~CanStore(template) /\ UNCHANGED <<chainVars, mempool>>
    /\ miner' = "idle"
    /\ UNCHANGED <<now, pending, submissions, mining, template, resetting, resets>>

\* The controller submits what it found; an error only makes it try again.
SubmitMined ==
    /\ miner = "submitting"
    /\ \/ SubmitBlock(template)
       \/ ~CanStore(template) /\ UNCHANGED <<chainVars, mempool>>
    /\ miner' = "idle"
    /\ template' = NoBlock
    /\ UNCHANGED <<now, pending, submissions, mining, resetting, resets>>

Tick ==
    /\ now < MaxNow
    /\ now' = now + 1
    /\ UNCHANGED <<chainVars, mempool, nodeVars>>

-----------------------------------------------------------------------------
\* reset_to_genesis: mining stops, which a search notices and a submission
\* does not; then the block store is replaced ...
ResetChain ==
    /\ ~resetting /\ resets < MaxResets
    /\ resetting' = TRUE
    /\ resets' = resets + 1
    /\ mining' = FALSE
    /\ miner' = IF miner = "hashing" THEN "idle" ELSE miner
    /\ template' = IF miner = "hashing" THEN NoBlock ELSE template
    /\ blocks' = {Genesis}
    /\ spoiled' = {}
    /\ best_chain' = <<Genesis>>
    /\ current_height' = 0
    /\ utxo_set' = UtxoOf(BlocksOf(<<Genesis>>))
    /\ UNCHANGED <<mempoolVars, pending, submissions>>

\* ... and, under its own lock, the mempool.
ResetMempool ==
    /\ resetting
    /\ resetting' = FALSE
    /\ mempool' = <<>>
    /\ UNCHANGED <<chainVars, now, pending, submissions, mining, miner, template, resets>>

\* start_continuous: refused while mining.
StartMining ==
    /\ ~mining
    /\ mining' = TRUE
    /\ UNCHANGED <<chainVars, mempoolVars, pending, submissions, miner, template,
                   resetting, resets>>

NodeNext ==
    \/ \E s \in Submitters :
          \/ \E tx \in Tx : CheckTransaction(s, tx)
          \/ AdmitTransaction(s)
          \/ RefuseTransaction(s)
    \/ \E b \in Incoming : ReceiveBlock(b)
    \/ CreateTemplate
    \/ FindBlock
    \/ SubmitMined
    \/ Tick
    \/ ResetChain
    \/ ResetMempool
    \/ StartMining

NodeSpec == NodeInit /\ [][NodeNext]_vars

\* The threads of the node are scheduled, a search finds a nonce and the
\* clock runs; nobody has to submit, send or reset anything.
NodeFairness ==
    /\ \A s \in Submitters : WF_vars(AdmitTransaction(s) \/ RefuseTransaction(s))
    /\ WF_vars(CreateTemplate)
    /\ WF_vars(FindBlock)
    /\ WF_vars(SubmitMined)
    /\ WF_vars(Tick)

FairNodeSpec == NodeSpec /\ NodeFairness

-----------------------------------------------------------------------------
NodeTypeOK ==
    /\ TypeOK
    /\ DOMAIN mempool \subseteq Tx
    /\ \A tx \in DOMAIN mempool : mempool[tx] \in
          [ fee_paid : Nat, fee_rate : Nat, received_at : 0..MaxNow ]
    /\ now \in 0..MaxNow
    /\ pending \in [ Submitters -> Tx \cup {NoTx} ]
    /\ submissions \in [ Tx -> 0..MaxSubmissions ]
    /\ mining \in BOOLEAN /\ resetting \in BOOLEAN /\ resets \in 0..MaxResets
    /\ miner \in {"idle", "hashing", "submitting"}
    /\ template \in Block \cup {NoBlock}
    /\ miner = "idle" <=> template = NoBlock

\* However submissions interleave with each other, with blocks and with a
\* reset, no two waiting transactions spend the same output.
MempoolDisjoint ==
    \A t, u \in DOMAIN mempool : t # u => Spends(t) \cap Spends(u) = {}

SelectionIsUnspent ==
    LET selected == TransactionsForBlock
    IN  \A i \in DOMAIN selected : Spends(selected[i]) \subseteq utxo_set

\* A template connects to the tip unless a selected transaction spends what
\* is no longer there: selection order, fees and reward are never the reason
\* for which the node's own block is refused.
TemplateConnects == SelectionIsUnspent => ValidBlock(utxo_set, TemplateNow)

\* A waiting transaction leaves only with the mempool, on a reset, or
\* because the new tip confirms it or spends one of its outputs.
LeavesOnlyWhenDisplaced ==
    [][ \A tx \in DOMAIN mempool \ DOMAIN mempool' :
          \/ resetting
          \/ /\ best_chain' # best_chain
             /\ Displaced(tx, BlockOf[best_chain'[Len(best_chain')]].transactions) ]_vars

\* A block on top of the tip, mined here or elsewhere, leaves no waiting
\* transaction behind that could be spent before it and cannot be after it:
\* pruning by id and by conflict is enough there, though nothing looks at the
\* outputs themselves again.  (A reorganisation does leave some behind.)
ExtensionKeepsSpendable ==
    [][ Front(best_chain') = best_chain =>
          \A tx \in DOMAIN mempool' :
              Spends(tx) \subseteq utxo_set => Spends(tx) \subseteq utxo_set' ]_vars

\* The standard rate of a full mempool.
FullFeeRate == MinFeeRate + DivCeil(MaxSize, CongestionStep)

\* A transaction waits at a fee that suffices however many entries join it,
\* itself included, and matures before the model's clock stops.
AskedToConfirm(tx) ==
    \E waiting \in DOMAIN mempool :
        /\ waiting = tx
        /\ mempool[waiting].fee_rate >= FullFeeRate
        /\ mempool[waiting].received_at + StandardDelay <= MaxNow

\* Another transaction has spent what tx spends, on the best chain.
Forestalled(tx) ==
    \E u \in ToSet(ChainTransactions) : u # tx /\ Spends(u) \cap Spends(tx) # {}

\* A transaction whose fee suffices however many entries join it, itself
\* included, is confirmed (or forestalled): at once in the instant lane, after
\* StandardDelay in the standard one (main.rs:1442), as far as the model's clock
\* goes.  Provided that nothing is ever selected that spends an output which is
\* not there: one such entry, admitted after a block confirmed it (node.rs:148)
\* or kept through a reorganisation, has every template refused from then on.
AdmittedIsConfirmed ==
    []SelectionIsUnspent =>
        \A tx \in Tx :
            AskedToConfirm(tx) ~> tx \in ToSet(ChainTransactions) \/ Forestalled(tx)
===============================================================================
