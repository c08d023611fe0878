------------------------------- MODULE Ledger -------------------------------
(***************************************************************************)
(* Transactions and the set of unspent outputs: transaction.rs and the     *)
(* UTXO half of blockchain.rs, as operators.                               *)
(*                                                                         *)
(* A transaction id hashes the whole transaction, so a transaction stands  *)
(* for its own id: equal contents are one transaction.  An outpoint is     *)
(* <<transaction, position>>, and the output it names is read off the      *)
(* transaction, so utxo_set is the set of its keys.  An input carries the  *)
(* address its script_sig's public key hashes to (NoAddress when the bytes *)
(* are no public key).  UTXO.block_height and is_coinbase, which decide no *)
(* validity, are left out.                                                 *)
(***************************************************************************)
EXTENDS Protocol, Sequences, FiniteSetsExt

CONSTANTS Tx,          \* the transactions considered
          NoAddress,   \* a script_sig that is not a public key
          Schedule,    \* EmissionSchedule::default()
          Bootstrap,   \* bootstrap_utxos: the outpoints funded at the start
          U64          \* 2^64: sums of outputs wrap, checked sums fail there

\* Transaction: lists of inputs and outputs, an output worth a u64.
IsTransaction(tx) ==
    /\ tx.inputs \in Seq(Range(tx.inputs))
    /\ tx.outputs \in Seq(Range(tx.outputs))
    /\ \A i \in DOMAIN tx.outputs : tx.outputs[i].value \in 0..(U64 - 1)

ASSUME LedgerAssumption ==
    /\ U64 \in Nat
    /\ IsSchedule(Schedule)
    /\ IsFiniteSet(Bootstrap)
    /\ \A o \in Bootstrap : /\ IsTransaction(o[1])
                            /\ o \in { <<o[1], i>> : i \in DOMAIN o[1].outputs }

OutputAt(outpoint) == outpoint[1].outputs[outpoint[2]]

IsCoinbase(tx) == tx.inputs = <<>>

Spends(tx) == { tx.inputs[i].previous_output : i \in DOMAIN tx.inputs }

Creates(tx) == { <<tx, i>> : i \in DOMAIN tx.outputs }

\* Transaction::validate.
WellFormed(tx) ==
    /\ tx.outputs # <<>>
    /\ \A i, j \in DOMAIN tx.inputs :
          tx.inputs[i].previous_output = tx.inputs[j].previous_output => i = j
    /\ \A i \in DOMAIN tx.outputs : tx.outputs[i].value # 0

\* Transaction::total_output_value: an unchecked sum.
TotalOutputValue(tx) ==
    SumFunction([ i \in DOMAIN tx.outputs |-> tx.outputs[i].value ]) % U64

TotalInputValue(tx) ==
    SumFunction([ o \in Spends(tx) |-> OutputAt(o).value ])

\* validate_transaction_against_utxo_set succeeds.
ValidSpend(utxo, tx) ==
    /\ WellFormed(tx)
    /\ \A i \in DOMAIN tx.inputs :
          /\ tx.inputs[i].previous_output \in utxo
          /\ tx.inputs[i].signer = OutputAt(tx.inputs[i].previous_output).script_pubkey
    /\ TotalInputValue(tx) < U64
    /\ TotalOutputValue(tx) <= TotalInputValue(tx)

\* The fee it then returns.
Fee(tx) == TotalInputValue(tx) - TotalOutputValue(tx)

\* apply_transaction: inputs are removed first, then outputs are inserted.
ApplyTransaction(utxo, tx) == (utxo \ Spends(tx)) \cup Creates(tx)

\* The running set after each transaction of a block, from utxo on.
StatesThrough(utxo, transactions) ==
    LET state[i \in 0..Len(transactions)] ==
          IF i = 0 THEN utxo ELSE ApplyTransaction(state[i - 1], transactions[i])
    IN  state

BlockFees(transactions) ==
    SumFunction([ i \in 2..Len(transactions) |-> Fee(transactions[i]) ])

\* Mutant of ValidReward: fees are granted on top of themselves.
ValidRewardTwiceFees(block) ==
    TotalOutputValue(block.transactions[1])
      <= BlockReward(Schedule, block.height) + 2 * BlockFees(block.transactions)

\* validate_block_reward.
ValidReward(block) ==
    LET allowed_reward == BlockReward(Schedule, block.height)
                            + BlockFees(block.transactions)
    IN  /\ allowed_reward < U64
        /\ TotalOutputValue(block.transactions[1]) <= allowed_reward

\* apply_block_to_utxo_set succeeds on a block applied to utxo.
ValidBlock(utxo, block) ==
    LET transactions == block.transactions
        state == StatesThrough(utxo, transactions)
        coinbase == transactions[1]
    IN  /\ transactions # <<>>
        /\ IsCoinbase(coinbase)
        /\ \/ block.height = 0 /\ \A i \in DOMAIN coinbase.outputs :
                                     coinbase.outputs[i].value = 0
           \/ WellFormed(coinbase)
        /\ \A i \in 2..Len(transactions) :
              /\ ~IsCoinbase(transactions[i])
              /\ ValidSpend(state[i - 1], transactions[i])
        /\ ValidReward(block)

\* The set it leaves behind.
ApplyBlock(utxo, block) ==
    StatesThrough(utxo, block.transactions)[Len(block.transactions)]

\* build_utxo_state_for_chain: the set after each block of a chain of blocks.
UtxoThrough(chain) ==
    LET state[i \in 0..Len(chain)] ==
          IF i = 0 THEN Bootstrap ELSE ApplyBlock(state[i - 1], chain[i])
    IN  state

ValidChain(chain) ==
    LET state == UtxoThrough(chain)
    IN  \A i \in DOMAIN chain : ValidBlock(state[i - 1], chain[i])

UtxoOf(chain) == UtxoThrough(chain)[Len(chain)]

\* get_balance.
Balance(utxo, address) ==
    LET owned == { o \in utxo : OutputAt(o).script_pubkey = address }
    IN  SumFunction([ o \in owned |-> OutputAt(o).value ])
=============================================================================
