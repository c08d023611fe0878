------------------------------- MODULE Mempool -------------------------------
(***************************************************************************)
(* The transactions waiting for a block: struct Mempool of src/mempool.rs. *)
(* Entries are keyed by transaction (see Ledger); the clock counts the     *)
(* seconds current_unix_time returns.                                      *)
(***************************************************************************)
EXTENDS Ledger, SequencesExt

CONSTANTS MaxSize,         \* Mempool::max_size: 10000 in the node
          MinFeeRate,      \* Mempool::min_fee_rate: 1 in the node
          CongestionStep,  \* CONGESTION_STEP_TRANSACTIONS: 20
          StandardDelay,   \* STANDARD_CONFIRMATION_TARGET_SECONDS: 60
          MaxPerBlock,     \* the transactions a template takes: 10
          MaxBlockSize,    \* the bytes a template takes: 1000000
          Size,            \* estimated_size of each transaction
          Rank             \* the order of transaction ids as bytes

VARIABLES mempool,   \* transactions: the entries
          now        \* the time of day

mempoolVars == <<mempool, now>>

ASSUME MempoolAssumption ==
    /\ MaxSize \in Nat /\ MaxPerBlock \in Nat \ {0}
    /\ MinFeeRate \in Nat \ {0} /\ CongestionStep \in Nat \ {0} /\ StandardDelay \in Nat
    /\ Size \in [Tx -> Nat \ {0}] /\ Rank \in Injection(Tx, Nat)
    /\ \A tx \in Tx : IsTransaction(tx)

Entry(tx, received_at) ==
    [ fee_paid    |-> Fee(tx),
      fee_rate    |-> DivCeil(Fee(tx), Size[tx]),
      received_at |-> received_at ]

StandardFeeRate == MinFeeRate + DivCeil(Cardinality(DOMAIN mempool), CongestionStep)

InstantFeeRate ==
    StandardFeeRate + (IF StandardFeeRate \div 4 > 0 THEN StandardFeeRate \div 4 ELSE 1)

MinimumRequiredFee(tx) == Size[tx] * StandardFeeRate

\* has_conflicting_inputs.
Conflicts(tx) == \E other \in DOMAIN mempool : Spends(other) \cap Spends(tx) # {}

\* Mutant of Admissible: conflicts are not looked for.
AdmissibleConflicting(tx) ==
    /\ tx \notin DOMAIN mempool
    /\ Fee(tx) >= MinimumRequiredFee(tx)
    /\ Cardinality(DOMAIN mempool) < MaxSize

\* The checks submit_transaction and add_transaction make under the mempool's
\* lock: not a duplicate, a sufficient fee, no conflict, room for one more.
Admissible(tx) ==
    /\ tx \notin DOMAIN mempool
    /\ Fee(tx) >= MinimumRequiredFee(tx)
    /\ ~Conflicts(tx)
    /\ Cardinality(DOMAIN mempool) < MaxSize

\* add_transaction.
AddTransaction(tx) ==
    mempool' = [ t \in DOMAIN mempool \cup {tx} |->
                   IF t = tx THEN Entry(tx, now) ELSE mempool[t] ]

\* The order of get_transactions_for_block: fee rate, age, fee, id.
Precedes(left, right) ==
    LET l == mempool[left]
        r == mempool[right]
    IN  \/ l.fee_rate > r.fee_rate
        \/ l.fee_rate = r.fee_rate /\
           \/ l.received_at < r.received_at
           \/ l.received_at = r.received_at /\
              \/ l.fee_paid > r.fee_paid
              \/ l.fee_paid = r.fee_paid /\ Rank[left] > Rank[right]

\* Mutant of Eligible: the standard lane asks for the instant rate.
EligibleAtInstantRate(tx) == mempool[tx].fee_rate >= InstantFeeRate

\* Paid for instant confirmation, or for standard confirmation and old enough.
Eligible(tx) ==
    \/ mempool[tx].fee_rate >= InstantFeeRate
    \/ /\ mempool[tx].fee_rate >= StandardFeeRate
       /\ now >= mempool[tx].received_at + StandardDelay

SizeOf(txs) == SumFunction([ i \in DOMAIN txs |-> Size[txs[i]] ])

\* The entries sorted: each comes after those that precede it.
InOrder(entries) ==
    [ i \in 1..Cardinality(entries) |->
        CHOOSE tx \in entries : Cardinality({ u \in entries : Precedes(u, tx) }) = i - 1 ]

\* get_transactions_for_block: greedily, in order, what is eligible and fits.
Take(selected, tx) ==
    IF Len(selected) < MaxPerBlock /\ SizeOf(selected) + Size[tx] <= MaxBlockSize
    THEN Append(selected, tx) ELSE selected

TransactionsForBlock ==
    LET entries == InOrder({ tx \in DOMAIN mempool : Eligible(tx) })
        selected[i \in 0..Len(entries)] ==
          IF i = 0 THEN <<>> ELSE Take(selected[i - 1], entries[i])
    IN  selected[Len(entries)]

\* The total of fee_paid over the selection.
SelectedFees(txs) == SumFunction([ i \in DOMAIN txs |-> mempool[txs[i]].fee_paid ])

\* Mutant of Displaced: only the confirmed transactions themselves leave.
DisplacedByIdOnly(tx, confirmed) == tx \in ToSet(confirmed)

\* tx has to leave once confirmed is in a block: it is one of them or spends
\* an output one of them spends.
Displaced(tx, confirmed) ==
    \E i \in DOMAIN confirmed :
        tx = confirmed[i] \/ Spends(tx) \cap Spends(confirmed[i]) # {}

\* remove_confirmed_transactions.
RemoveConfirmed(confirmed) ==
    mempool' = [ tx \in { t \in DOMAIN mempool : ~Displaced(t, confirmed) } |-> mempool[tx] ]
==============================================================================
