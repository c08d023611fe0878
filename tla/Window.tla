-------------------------------- MODULE Window --------------------------------
(***************************************************************************)
(* The wallet window over its node: what it shows of the chain and of the  *)
(* mempool, and when it reads them again.  Each frame begins with          *)
(* poll_background_state; then the user may press a button.  The window    *)
(* takes one lock at a time, so that submissions, blocks and the miner     *)
(* change the node in between.  The window is who resets the node.         *)
(*                                                                         *)
(* Sends are not among the buttons: with recipient and amount filled in,   *)
(* the frame never ends (Locks), and pending_transfers stays empty.        *)
(***************************************************************************)
EXTENDS Node

CONSTANT Owner   \* wallet.address

VARIABLES at,        \* where the window's thread is
          back,      \* where refresh_wallet_state returns to
          status,    \* poll_background_state: status
          reserved,  \* refresh_wallet_state: reserved_outpoints
          shown,     \* wallet.balance and spendable_balance
          observed   \* last_observed_height and last_observed_mempool_size

windowVars == <<at, back, status, reserved, shown, observed>>
allVars == <<vars, windowVars>>

\* spendable_balance: the wallet's outputs no waiting transaction spends.
Spendable(taken) == Balance(utxo_set \ taken, Owner)

\* reserved_outpoints of the mempool.
ReservedOutpoints == UNION { Spends(tx) : tx \in DOMAIN mempool }

Status == [ height |-> current_height, size |-> Cardinality(DOMAIN mempool) ]

WindowInit ==
    /\ NodeInit
    /\ at = "poll"
    /\ back = "frame"
    /\ status = Status
    /\ reserved = {}
    /\ shown = [ balance |-> Balance(utxo_set, Owner), spendable |-> Spendable({}) ]
    /\ observed = Status

-----------------------------------------------------------------------------
\* get_status in poll_background_state: the height ...
PollHeight ==
    /\ at = "poll"
    /\ status' = [ status EXCEPT !.height = current_height ]
    /\ at' = "poll_size"
    /\ UNCHANGED <<vars, back, reserved, shown, observed>>

\* ... and, under the next lock, the mempool's size: what differs from the
\* last time is a reason to refresh.
PollSize ==
    /\ at = "poll_size"
    /\ status' = [ status EXCEPT !.size = Status.size ]
    /\ IF status' # observed
       THEN at' = "reserve" /\ back' = "polled"
       ELSE at' = "frame" /\ UNCHANGED back
    /\ UNCHANGED <<vars, reserved, shown, observed>>

\* A reason of its own: the refresh and mining buttons, a block that was mined
\* here, another wallet.
Refresh ==
    /\ at \in {"polled", "frame"}
    /\ at' = "reserve"
    /\ back' = "frame"
    /\ UNCHANGED <<vars, status, reserved, shown, observed>>

\* refresh_wallet_state: the mempool's reservations,
ReadReserved ==
    /\ at = "reserve"
    /\ reserved' = ReservedOutpoints
    /\ at' = "balance"
    /\ UNCHANGED <<vars, back, status, shown, observed>>

\* the balances,
ReadBalance ==
    /\ at = "balance"
    /\ shown' = [ balance |-> Balance(utxo_set, Owner), spendable |-> Spendable(reserved) ]
    /\ at' = "height"
    /\ UNCHANGED <<vars, back, status, reserved, observed>>

\* and get_status again, in two parts.
ReadHeight ==
    /\ at = "height"
    /\ observed' = [ observed EXCEPT !.height = current_height ]
    /\ at' = "size"
    /\ UNCHANGED <<vars, back, status, reserved, shown>>

\* Mutant of ReadSize: a poll keeps what the refresh observed.
ReadSizeLatest ==
    /\ at = "size"
    /\ observed' = [ observed EXCEPT !.size = Status.size ]
    /\ at' = back
    /\ UNCHANGED <<vars, back, status, reserved, shown>>

\* A poll takes as observed what it read before the refresh.
ReadSize ==
    /\ at = "size"
    /\ observed' = IF back = "polled" THEN status
                   ELSE [ observed EXCEPT !.size = Status.size ]
    /\ at' = back
    /\ UNCHANGED <<vars, back, status, reserved, shown>>

EndFrame ==
    /\ at \in {"polled", "frame"}
    /\ at' = "poll"
    /\ UNCHANGED <<vars, back, status, reserved, shown, observed>>

\* The reset button: reset_to_genesis, then a refresh.
PressReset ==
    /\ at = "frame"
    /\ ResetChain
    /\ at' = "resetting"
    /\ UNCHANGED <<back, status, reserved, shown, observed>>

FinishReset ==
    /\ at = "resetting"
    /\ ResetMempool
    /\ at' = "reserve"
    /\ back' = "frame"
    /\ UNCHANGED <<status, reserved, shown, observed>>

\* The start button.
PressStart ==
    /\ at = "frame"
    /\ StartMining
    /\ UNCHANGED windowVars

WindowStep ==
    \/ PollHeight \/ PollSize \/ Refresh
    \/ ReadReserved \/ ReadBalance \/ ReadHeight \/ ReadSize
    \/ EndFrame \/ PressReset \/ FinishReset \/ PressStart

\* Everybody else.
NodeStep ==
    /\ \/ \E s \in Submitters :
             \/ \E tx \in Tx : CheckTransaction(s, tx)
             \/ AdmitTransaction(s)
             \/ RefuseTransaction(s)
       \/ \E b \in Incoming : ReceiveBlock(b)
       \/ CreateTemplate \/ FindBlock \/ SubmitMined
       \/ Tick
    /\ UNCHANGED windowVars

WindowNext == WindowStep \/ NodeStep

WindowSpec == WindowInit /\ [][WindowNext]_allVars

-----------------------------------------------------------------------------
\* Whatever was submitted, mined or reorganised while a poll refreshed the
\* balances one lock after the other: either they are those of the node, or
\* the next poll will see a difference.  It is why the poll restores the older
\* status (main.rs:995); a refresh for another reason does not.  A chain with a
\* stray is excepted: it may have the height of the shorter one it replaced.
PolledIsCurrent ==
    at = "polled" /\ NoStray(best_chain) =>
        \/ shown = [ balance |-> Balance(utxo_set, Owner),
                     spendable |-> Spendable(ReservedOutpoints) ]
        \/ Status # observed
===============================================================================
