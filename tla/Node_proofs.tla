------------------------------ MODULE Node_proofs ------------------------------
(***************************************************************************)
(* What holds of a node however its threads interleave, for every number   *)
(* of threads, every set of transactions and blocks and every bound, and   *)
(* of the window that polls it.                                            *)
(*                                                                         *)
(* The block store: every step of the node is a step of the block store, a *)
(* reset, or leaves it alone, so its invariant carries over.  The mempool: *)
(* the check for conflicts and the insertion share one critical section,   *)
(* so that entries stay disjoint although the transaction was checked      *)
(* against the chain in an earlier one.                                    *)
(*                                                                         *)
(* Under a window the node is still a node.  And a poll is not fooled by a *)
(* node that looks the same again: outside a reset, which is the window's  *)
(* own, the best chain only changes to a longer one, and while it does not *)
(* change the mempool only grows; so a poll that finds the height and the  *)
(* size it began with has read the balances of one and the same node, as   *)
(* long as no stray makes the height less than the length.                 *)
(*                                                                         *)
(* The template: what waits was checked, and what the check found of a     *)
(* transaction's own values stays true; an output a waiting transaction    *)
(* spends can only be taken by a block that also displaces it.  The        *)
(* selection keeps the order of the mempool and takes a transaction only   *)
(* if its inputs are unspent and not yet taken, so the selected ones apply *)
(* one after the other and their fees add up to what the coinbase claims.  *)
(***************************************************************************)
EXTENDS Window, Blockchain_proofs

\* The inductive invariant of the node.
MempoolInv ==
    /\ DOMAIN mempool \subseteq Tx
    /\ IsFiniteSet(DOMAIN mempool)
    /\ MempoolDisjoint

ThreadInv ==
    /\ pending \in [ Submitters -> Tx \cup {NoTx} ]
    /\ miner # "idle" => template \in Block

NodeInv == StoreInv /\ MempoolInv /\ ThreadInv

-----------------------------------------------------------------------------
\* A block that is submitted is a step of the block store.
LEMMA SubmittingIsStoring ==
    ASSUME NEW b \in Block, SubmitBlock(b)
    PROVE  Next /\ DOMAIN mempool' \subseteq DOMAIN mempool
<1>1. CASE AdoptBlock(b) /\ RemoveConfirmed(BlockOf[b].transactions)
  BY <1>1 DEF Next, RemoveConfirmed
<1>2. CASE StoreBlock(b) /\ UNCHANGED mempool
  BY <1>2 DEF Next
<1> QED BY <1>1, <1>2 DEF SubmitBlock

\* Every step is a step of the block store, a reset of it, or none; and it
\* shrinks the mempool unless it admits a transaction.
LEMMA StepsOfTheNode ==
    ASSUME NodeInv, [NodeNext]_vars
    PROVE  /\ [Next]_chainVars \/ Init'
           /\ \/ \E s \in Submitters : AdmitTransaction(s)
              \/ DOMAIN mempool' \subseteq DOMAIN mempool
           /\ ThreadInv'
<1> DEFINE Goal == /\ [Next]_chainVars \/ Init'
                   /\ \/ \E s \in Submitters : AdmitTransaction(s)
                      \/ DOMAIN mempool' \subseteq DOMAIN mempool
                   /\ ThreadInv'
<1> USE DEF chainVars, nodeVars, mempoolVars, ThreadInv, NodeInv
<1>1. ASSUME NEW s \in Submitters, NEW tx \in Tx, CheckTransaction(s, tx) PROVE Goal
  BY <1>1 DEF CheckTransaction
<1>2. ASSUME NEW s \in Submitters, AdmitTransaction(s) PROVE Goal
  BY <1>2 DEF AdmitTransaction
<1>3. ASSUME NEW s \in Submitters, RefuseTransaction(s) PROVE Goal
  BY <1>3 DEF RefuseTransaction
<1>4. ASSUME NEW b \in Incoming, ReceiveBlock(b) PROVE Goal
  <2>1. b \in Block
    BY NodeAssumption
  <2>2. Next /\ DOMAIN mempool' \subseteq DOMAIN mempool
    BY <1>4, <2>1, SubmittingIsStoring DEF ReceiveBlock, Next
  <2> QED BY <1>4, <2>2 DEF ReceiveBlock
<1>5. CASE CreateTemplate
  BY <1>5 DEF CreateTemplate
<1>6. CASE FindBlock
  BY <1>6 DEF FindBlock
<1>7. CASE SubmitMined
  <2>1. template \in Block
    BY <1>7 DEF SubmitMined
  <2>2. /\ Next \/ UNCHANGED chainVars
        /\ DOMAIN mempool' \subseteq DOMAIN mempool
    BY <1>7, <2>1, SubmittingIsStoring DEF SubmitMined
  <2>3. ThreadInv'
    BY <1>7 DEF SubmitMined
  <2> QED BY <2>2, <2>3
<1>8. CASE Tick
  BY <1>8 DEF Tick
<1>9. CASE ResetChain
  <2>1. Init' /\ mempool' = mempool
    BY <1>9 DEF ResetChain, Init, BlocksOf
  <2>2. ThreadInv'
    BY <1>9 DEF ResetChain
  <2> QED BY <2>1, <2>2
<1>10. CASE ResetMempool
  <2>1. DOMAIN mempool' = {}
    BY <1>10 DEF ResetMempool
  <2> QED BY <1>10, <2>1 DEF ResetMempool
<1>11. CASE StartMining
  BY <1>11 DEF StartMining
<1>12. CASE UNCHANGED vars
  BY <1>12 DEF vars
<1> QED BY <1>1, <1>2, <1>3, <1>4, <1>5, <1>6, <1>7, <1>8, <1>9, <1>10, <1>11, <1>12
        DEF NodeNext

\* What leaves the mempool leaves it disjoint.
LEMMA ShrinkingKeeps ==
    ASSUME MempoolInv, DOMAIN mempool' \subseteq DOMAIN mempool
    PROVE  MempoolInv'
<1>1. IsFiniteSet(DOMAIN mempool')
  BY FS_Subset DEF MempoolInv
<1>2. MempoolDisjoint'
  BY DEF MempoolInv, MempoolDisjoint
<1> QED BY <1>1, <1>2 DEF MempoolInv

\* What enters it is in conflict with nothing there.
LEMMA AdmittingKeeps ==
    ASSUME MempoolInv, ThreadInv, NEW s \in Submitters, AdmitTransaction(s)
    PROVE  MempoolInv'
<1> DEFINE tx == pending[s]
<1>1. /\ tx \in Tx /\ tx \notin DOMAIN mempool /\ ~Conflicts(tx)
      /\ DOMAIN mempool' = DOMAIN mempool \cup {tx}
  BY DEF AdmitTransaction, Admissible, AddTransaction, ThreadInv
<1>2. IsFiniteSet(DOMAIN mempool')
  BY <1>1, FS_AddElement DEF MempoolInv
<1>4. ASSUME NEW t \in DOMAIN mempool', NEW u \in DOMAIN mempool', t # u
      PROVE  Spends(t) \cap Spends(u) = {}
  <2>1. CASE t \in DOMAIN mempool /\ u \in DOMAIN mempool
    BY <1>4, <2>1 DEF MempoolInv, MempoolDisjoint
  <2>2. CASE t = tx
    BY <1>1, <1>4, <2>2 DEF Conflicts
  <2>3. CASE u = tx
    BY <1>1, <1>4, <2>3 DEF Conflicts
  <2> QED BY <1>1, <2>1, <2>2, <2>3
<1>5. MempoolDisjoint'
  BY <1>4 DEF MempoolDisjoint
<1> QED BY <1>1, <1>2, <1>5 DEF MempoolInv

\* The node starts with the genesis block, an empty mempool and idle threads.
LEMMA InitEstablishesNode == NodeInit => NodeInv
<1> SUFFICES ASSUME NodeInit PROVE NodeInv
  OBVIOUS
<1>1. StoreInv
  BY InitEstablishesStore DEF NodeInit
<1>2. DOMAIN mempool = {}
  BY DEF NodeInit
<1>3. MempoolInv
  BY <1>2, FS_EmptySet DEF MempoolInv, MempoolDisjoint
<1>4. ThreadInv
  BY DEF NodeInit, ThreadInv
<1> QED BY <1>1, <1>3, <1>4 DEF NodeInv

\* Every step of every thread keeps the invariant.
LEMMA StepPreservesNode == NodeInv /\ [NodeNext]_vars => NodeInv'
<1>1. Init' => StoreInv'
  BY InitEstablishesStore, PTL
<1> SUFFICES ASSUME NodeInv, [NodeNext]_vars PROVE NodeInv'
  OBVIOUS
<1>2. StoreInv'
  BY <1>1, StepsOfTheNode, StepPreservesStore DEF NodeInv
<1>3. MempoolInv'
  BY StepsOfTheNode, ShrinkingKeeps, AdmittingKeeps DEF NodeInv
<1>4. ThreadInv'
  BY StepsOfTheNode
<1> QED BY <1>2, <1>3, <1>4 DEF NodeInv

\* The inductive invariant is one.
LEMMA NodeInvariant == NodeSpec => []NodeInv
BY InitEstablishesNode, StepPreservesNode, PTL DEF NodeSpec

-----------------------------------------------------------------------------
\* No two waiting transactions spend the same output, although each was
\* checked against the chain before the mempool was locked.
THEOREM EntriesDisjoint == NodeSpec => []MempoolDisjoint
<1>1. NodeInv => MempoolDisjoint
  BY DEF NodeInv, MempoolInv
<1> QED BY <1>1, NodeInvariant, PTL

\* In a node that mines, receives and resets, the best chain is linked but for
\* the heights of strays.
THEOREM NodeChainIsLinked == NodeSpec => []BestChainLinked
<1>1. NodeInv => BestChainLinked
  BY StoreInvLinks DEF NodeInv
<1> QED BY <1>1, NodeInvariant, PTL

\* In such a node, too, no stored chain that replays and is free of strays is
\* longer than the best one.
THEOREM NodeLongestValid == NodeSpec => []LongestValidChain
<1>1. NodeInv => LongestValidChain
  BY DEF NodeInv, StoreInv
<1> QED BY <1>1, NodeInvariant, PTL

-----------------------------------------------------------------------------
\* What leaves the mempool on a step.
Leaving ==
    \A tx \in DOMAIN mempool \ DOMAIN mempool' :
        \/ resetting
        \/ /\ best_chain' # best_chain
           /\ Displaced(tx, BlockOf[best_chain'[Len(best_chain')]].transactions)

\* A block that is adopted is the new tip, and only what it displaces leaves.
LEMMA SubmittingDisplaces == ASSUME StoreInv, NEW b \in Block, SubmitBlock(b) PROVE Leaving
<1>1. CASE AdoptBlock(b) /\ RemoveConfirmed(BlockOf[b].transactions)
  <2>1. /\ best_chain' = ancestry[b] /\ Len(ancestry[b]) > Len(best_chain)
        /\ CanStore(b) /\ blocks' = blocks \cup {b}
    BY <1>1 DEF AdoptBlock, Adopts
  <2>2. ancestry[b][Len(ancestry[b])] = b
    BY PathEnds
  <2>3. best_chain' # best_chain /\ best_chain'[Len(best_chain')] = b
    BY <2>1, <2>2 DEF StoreInv, TypeOK
  <2>4. \A tx \in DOMAIN mempool \ DOMAIN mempool' : Displaced(tx, BlockOf[b].transactions)
    BY <1>1 DEF RemoveConfirmed
  <2> QED BY <2>3, <2>4 DEF Leaving
<1>2. CASE StoreBlock(b) /\ UNCHANGED mempool
  BY <1>2 DEF Leaving
<1> QED BY <1>1, <1>2 DEF SubmitBlock

\* No step but a reset changes the chain to one that is no higher.
LEMMA StepLeaves == ASSUME NodeInv, [NodeNext]_vars PROVE Leaving
<1>1. ASSUME mempool' = mempool PROVE Leaving
  BY <1>1 DEF Leaving
<1>2. ASSUME NEW s \in Submitters, AdmitTransaction(s) PROVE Leaving
  BY <1>2 DEF AdmitTransaction, AddTransaction, Leaving
<1>3. ASSUME NEW b \in Incoming, ReceiveBlock(b) PROVE Leaving
  BY <1>1, <1>3, SubmittingDisplaces, NodeAssumption DEF ReceiveBlock, NodeInv
<1>4. CASE SubmitMined
  <2>1. template \in Block
    BY <1>4 DEF SubmitMined, NodeInv, ThreadInv
  <2> QED BY <1>1, <1>4, <2>1, SubmittingDisplaces DEF SubmitMined, NodeInv
<1>5. CASE ResetMempool
  BY <1>5 DEF ResetMempool, Leaving
<1>6. ASSUME NEW s \in Submitters,
             RefuseTransaction(s) \/ \E tx \in Tx : CheckTransaction(s, tx)
      PROVE  mempool' = mempool
  BY <1>6 DEF RefuseTransaction, CheckTransaction, mempoolVars
<1>7. CreateTemplate \/ FindBlock \/ Tick \/ ResetChain \/ StartMining \/ UNCHANGED vars
        => mempool' = mempool
  BY DEF CreateTemplate, FindBlock, Tick, ResetChain, StartMining, vars, mempoolVars
<1> QED BY <1>1, <1>2, <1>3, <1>4, <1>5, <1>6, <1>7 DEF NodeNext

\* A transaction that waits is only dropped by a reset, or by the new tip, for
\* any number of threads and whatever else happens to the node meanwhile.
THEOREM NoneDroppedInVain == NodeSpec => LeavesOnlyWhenDisplaced
<1>1. NodeInv /\ [NodeNext]_vars => [Leaving]_vars
  BY StepLeaves
<1> QED BY <1>1, NodeInvariant, PTL DEF NodeSpec, LeavesOnlyWhenDisplaced, Leaving

-----------------------------------------------------------------------------
\* What a refresh under one lock would show.
Current == [ balance |-> Balance(utxo_set, Owner),
             spendable |-> Spendable(ReservedOutpoints) ]

\* The window refreshes because of what it polled, or has just done so.
Polling ==
    \/ at = "polled"
    \/ at \in {"reserve", "balance", "height", "size"} /\ back = "polled"

\* What the height is without strays, and no less than with some.
Depth == Len(best_chain) - 1

Deep == [ height |-> Depth, size |-> Status.size ]

\* The inductive invariant: what was polled is a lower bound of what there is,
\* and while it is all there is, what was read since is current.
PollInv ==
    /\ status \in [ height : Nat, size : Nat ]
    /\ back \in {"polled", "frame"}
    /\ at = "poll_size" => status.height <= Depth
    /\ Polling =>
          /\ status.height <= Depth
          /\ status.height = Depth => status.size <= Status.size
          /\ status = Deep /\ at # "reserve" => reserved = ReservedOutpoints
          /\ status = Deep /\ at \in {"height", "size", "polled"} => shown = Current
          /\ at = "polled" => observed = status

-----------------------------------------------------------------------------
\* A step of the window reads the node, or is one of the node's.
LEMMA WindowStepsAreNodeSteps ==
    ASSUME [WindowNext]_allVars
    PROVE  [NodeNext]_vars
<1>1. ASSUME WindowStep PROVE [NodeNext]_vars
  <2>1. CASE PressReset
    BY <2>1 DEF PressReset, NodeNext
  <2>2. CASE FinishReset
    BY <2>2 DEF FinishReset, NodeNext
  <2>3. CASE PressStart
    BY <2>3 DEF PressStart, NodeNext
  <2>4. CASE PollHeight \/ PollSize \/ Refresh \/ ReadReserved \/ ReadBalance
               \/ ReadHeight \/ ReadSize \/ EndFrame
    BY <2>4 DEF PollHeight, PollSize, Refresh, ReadReserved, ReadBalance, ReadHeight,
                ReadSize, EndFrame
  <2> QED BY <1>1, <2>1, <2>2, <2>3, <2>4 DEF WindowStep
<1>2. ASSUME NodeStep PROVE NodeNext
  BY <1>2 DEF NodeStep, NodeNext
<1>3. CASE UNCHANGED allVars
  BY <1>3 DEF allVars
<1> QED BY <1>1, <1>2, <1>3 DEF WindowNext

\* The node under a window is a node: what is proved of the one holds under
\* the other, whenever the window reads, resets or starts it.
THEOREM WindowImplementsNode == WindowSpec => NodeSpec
<1>1. WindowInit => NodeInit
  BY DEF WindowInit
<1> QED BY <1>1, WindowStepsAreNodeSteps, PTL DEF WindowSpec, NodeSpec

\* The best chain of a node with a window is linked, through every reset.
THEOREM WindowChainIsLinked == WindowSpec => []BestChainLinked
BY WindowImplementsNode, NodeChainIsLinked, PTL

-----------------------------------------------------------------------------
\* Nothing changed that the window reads, ...
Same ==
    /\ best_chain' = best_chain /\ utxo_set' = utxo_set
    /\ DOMAIN mempool' = DOMAIN mempool

\* ... a transaction joined the mempool, or the chain became a longer one.
Joined ==
    /\ best_chain' = best_chain
    /\ Status'.size = Status.size + 1

Longer == Len(best_chain') > Len(best_chain)

\* The numbers a node has: the height of its tip is its place in the chain,
\* unless there is a stray below.
Numbers ==
    /\ Len(best_chain) \in Nat \ {0}
    /\ current_height \in Nat /\ current_height <= Depth
    /\ NoStray(best_chain) => current_height = Depth
    /\ Status.size \in Nat /\ Status = [ height |-> current_height, size |-> Status.size ]

\* Heights and sizes are naturals, ...
LEMMA NodeHasNumbers == NodeInv => Numbers
<1> SUFFICES ASSUME NodeInv PROVE Numbers
  OBVIOUS
<1>1. BestChainLinked /\ TypeOK
  BY StoreInvLinks DEF NodeInv, StoreInv
<1>2. Len(best_chain) \in Nat \ {0}
  BY <1>1 DEF BestChainLinked, TypeOK
<1>3. Status.size \in Nat /\ Status = [ height |-> current_height, size |-> Status.size ]
  BY FS_CardinalityType DEF NodeInv, MempoolInv, Status
<1>4. /\ current_height <= Depth
      /\ NoStray(best_chain) => current_height = Depth
  <2>1. Len(best_chain) \in 1..Len(best_chain) /\ current_height = BlockOf[Tip].height
    BY <1>1, <1>2 DEF BestChainLinked
  <2> QED BY <2>1, HeightIsPlace, HeightWithinPlace DEF NodeInv, Tip, Depth
<1> QED BY <1>1, <1>2, <1>3, <1>4 DEF TypeOK, Numbers

\* ... in the next state too.
LEMMA NodeHasNumbersNext == NodeInv' => Numbers'
BY NodeHasNumbers, PTL

\* A block that is submitted changes nothing or makes the chain longer.
LEMMA SubmittingIsSeen ==
    ASSUME NEW b \in Block, SubmitBlock(b)
    PROVE  Same \/ Longer
<1>1. CASE AdoptBlock(b)
  BY <1>1 DEF AdoptBlock, Adopts, Longer
<1>2. CASE StoreBlock(b) /\ UNCHANGED mempool
  BY <1>2 DEF StoreBlock, Same
<1> QED BY <1>1, <1>2 DEF SubmitBlock

\* What the rest of the node does between two reads of the window.
LEMMA NodeStepIsSeen ==
    ASSUME NodeInv, NodeInv', NodeStep
    PROVE  (Same \/ Joined \/ Longer) /\ UNCHANGED windowVars
<1> USE DEF chainVars, mempoolVars, nodeVars
<1>1. ASSUME NEW s \in Submitters, NEW tx \in Tx, CheckTransaction(s, tx) PROVE Same
  BY <1>1 DEF CheckTransaction, Same
<1>2. ASSUME NEW s \in Submitters, AdmitTransaction(s) PROVE Joined
  <2>1. /\ pending[s] \notin DOMAIN mempool
        /\ DOMAIN mempool' = DOMAIN mempool \cup {pending[s]}
        /\ best_chain' = best_chain
    BY <1>2 DEF AdmitTransaction, Admissible, AddTransaction
  <2>2. Cardinality(DOMAIN mempool') = Cardinality(DOMAIN mempool) + 1
    BY <2>1, FS_AddElement DEF NodeInv, MempoolInv
  <2> QED BY <2>1, <2>2 DEF Joined, Status
<1>3. ASSUME NEW s \in Submitters, RefuseTransaction(s) PROVE Same
  BY <1>3 DEF RefuseTransaction, Same
<1>4. ASSUME NEW b \in Incoming, ReceiveBlock(b) PROVE Same \/ Longer
  <2>1. CASE SubmitBlock(b)
    BY <2>1, SubmittingIsSeen, NodeAssumption
  <2>2. CASE StoreTwin(b) /\ UNCHANGED mempool
    BY <2>2 DEF StoreTwin, Same
  <2> QED BY <1>4, <2>1, <2>2 DEF ReceiveBlock
<1>5. ASSUME CreateTemplate \/ FindBlock \/ Tick PROVE Same
  BY <1>5 DEF CreateTemplate, FindBlock, Tick, Same
<1>6. ASSUME SubmitMined PROVE Same \/ Longer
  <2>1. template \in Block
    BY <1>6 DEF SubmitMined, NodeInv, ThreadInv
  <2>2. CASE SubmitBlock(template)
    BY <2>1, <2>2, SubmittingIsSeen
  <2>3. CASE UNCHANGED <<chainVars, mempool>>
    BY <2>3 DEF Same
  <2> QED BY <1>6, <2>2, <2>3 DEF SubmitMined
<1> QED BY <1>1, <1>2, <1>3, <1>4, <1>5, <1>6 DEF NodeStep

-----------------------------------------------------------------------------
\* No poll has begun.
LEMMA InitEstablishesPoll == WindowInit => PollInv
<1> SUFFICES ASSUME WindowInit PROVE PollInv
  OBVIOUS
<1>1. NodeInv
  BY InitEstablishesNode DEF WindowInit
<1>2. Status.size \in Nat /\ Status.height \in Nat
  BY <1>1, NodeHasNumbers DEF Numbers
<1>3. status \in [ height : Nat, size : Nat ]
  BY <1>2 DEF WindowInit, Status
<1> QED BY <1>3 DEF WindowInit, PollInv, Polling

\* The node moves between two reads.
LEMMA NodeStepKeepsPoll ==
    ASSUME NodeInv, NodeInv', PollInv, NodeStep
    PROVE  PollInv'
<1>1. (Same \/ Joined \/ Longer) /\ UNCHANGED windowVars
  BY NodeStepIsSeen
<1>2. /\ at' = at /\ back' = back /\ status' = status /\ reserved' = reserved
      /\ shown' = shown /\ observed' = observed
  BY <1>1 DEF windowVars
<1>3. Depth \in Nat /\ Status.size \in Nat /\ Deep.height = Depth /\ Deep.size = Status.size
  BY NodeHasNumbers DEF Numbers, Depth, Deep
<1>4. /\ Depth' \in Nat /\ Status'.size \in Nat
      /\ Deep'.height = Depth' /\ Deep'.size = Status'.size
  BY NodeHasNumbersNext DEF Numbers, Depth, Deep
<1>5. status.height \in Nat /\ status.size \in Nat
  BY DEF PollInv
<1>6. CASE Same
  <2>1. /\ Status'.size = Status.size /\ ReservedOutpoints' = ReservedOutpoints
        /\ Depth' = Depth
    BY <1>6 DEF Same, Status, ReservedOutpoints, Depth
  <2>2. Current' = Current /\ Deep' = Deep
    BY <1>6, <2>1 DEF Same, Current, Spendable, Deep
  <2> QED BY <1>2, <2>1, <2>2 DEF PollInv, Polling
<1>7. CASE Joined
  <2>1. Depth' = Depth
    BY <1>7 DEF Joined, Depth
  <2>2. Polling /\ status.height = Depth => status.size < Status'.size
    BY <1>3, <1>5, <1>7 DEF PollInv, Joined
  <2>3. Polling => status # Deep'
    BY <1>4, <1>5, <2>1, <2>2
  <2>4. Polling' <=> Polling
    BY <1>2 DEF Polling
  <2>5. Polling => status.height <= Depth
    BY DEF PollInv
  <2> QED BY <1>2, <1>4, <1>5, <2>1, <2>2, <2>3, <2>4, <2>5 DEF PollInv
<1>8. CASE Longer
  <2>1. Depth' > Depth
    <3>1. Len(best_chain) \in Nat /\ Len(best_chain') \in Nat
      BY NodeHasNumbers, NodeHasNumbersNext DEF Numbers
    <3> QED BY <1>8, <3>1 DEF Longer, Depth
  <2>2. Polling \/ at = "poll_size" => status.height < Depth'
    BY <1>3, <1>4, <1>5, <2>1 DEF PollInv
  <2>3. Polling => status # Deep' /\ status.height # Depth'
    BY <1>4, <1>5, <2>2
  <2>4. Polling' <=> Polling
    BY <1>2 DEF Polling
  <2>5. Polling \/ at = "poll_size" => status.height <= Depth'
    BY <1>4, <1>5, <2>2
  <2> QED BY <1>2, <2>3, <2>4, <2>5 DEF PollInv
<1> QED BY <1>1, <1>6, <1>7, <1>8

\* The window reads, under one lock at a time.
LEMMA WindowStepKeepsPoll ==
    ASSUME NodeInv, PollInv, WindowStep
    PROVE  PollInv'
<1>1. /\ Depth \in Nat /\ current_height \in Nat /\ current_height <= Depth
      /\ Status.size \in Nat
  BY NodeHasNumbers DEF Numbers, Depth
<1>2. ASSUME UNCHANGED vars
      PROVE  /\ Status'.size = Status.size /\ ReservedOutpoints' = ReservedOutpoints
             /\ Current' = Current /\ Depth' = Depth /\ Deep' = Deep
  BY <1>2 DEF vars, chainVars, mempoolVars, Status, ReservedOutpoints, Current, Spendable,
              Depth, Deep
<1>3. CASE PollHeight
  <2>1. /\ at' = "poll_size" /\ status' \in [ height : Nat, size : Nat ]
        /\ status'.height = current_height /\ back' = back
    BY <1>1, <1>3 DEF PollHeight, PollInv
  <2>2. Depth' = Depth
    BY <1>2, <1>3 DEF PollHeight
  <2> QED BY <1>1, <2>1, <2>2 DEF PollInv, Polling
<1>4. CASE PollSize
  <2>1. /\ status' \in [ height : Nat, size : Nat ]
        /\ status'.height = status.height /\ status'.size = Status.size
        /\ status.height <= Depth
    BY <1>1, <1>4 DEF PollSize, PollInv
  <2>2. Status'.size = Status.size /\ Depth' = Depth
    BY <1>2, <1>4 DEF PollSize
  <2>3. \/ at' = "reserve" /\ back' = "polled"
        \/ at' = "frame" /\ back' = back
    BY <1>4 DEF PollSize
  <2> QED BY <1>1, <2>1, <2>2, <2>3 DEF PollInv, Polling
<1>5. CASE Refresh
  BY <1>5 DEF Refresh, PollInv, Polling
<1>6. CASE ReadReserved
  <2>1. /\ reserved' = ReservedOutpoints /\ at' = "balance" /\ at = "reserve"
        /\ UNCHANGED <<back, status, shown, observed>>
    BY <1>6 DEF ReadReserved
  <2>2. Status'.size = Status.size /\ ReservedOutpoints' = ReservedOutpoints
          /\ Depth' = Depth /\ Deep' = Deep
    BY <1>2, <1>6 DEF ReadReserved
  <2> QED BY <2>1, <2>2 DEF PollInv, Polling
<1>7. CASE ReadBalance
  <2>1. /\ shown' = [ balance |-> Balance(utxo_set, Owner), spendable |-> Spendable(reserved) ]
        /\ at' = "height" /\ at = "balance"
        /\ UNCHANGED <<back, status, reserved, observed>>
    BY <1>7 DEF ReadBalance
  <2>2. /\ Status'.size = Status.size /\ ReservedOutpoints' = ReservedOutpoints
        /\ Current' = Current /\ Depth' = Depth /\ Deep' = Deep
    BY <1>2, <1>7 DEF ReadBalance
  <2>3. reserved = ReservedOutpoints => shown' = Current
    BY <2>1 DEF Current
  <2> QED BY <2>1, <2>2, <2>3 DEF PollInv, Polling
<1>8. CASE ReadHeight
  <2>1. at' = "size" /\ at = "height" /\ UNCHANGED <<back, status, reserved, shown>>
    BY <1>8 DEF ReadHeight
  <2>2. /\ Status'.size = Status.size /\ ReservedOutpoints' = ReservedOutpoints
        /\ Current' = Current /\ Depth' = Depth /\ Deep' = Deep
    BY <1>2, <1>8 DEF ReadHeight
  <2> QED BY <2>1, <2>2 DEF PollInv, Polling
<1>9. CASE ReadSize
  <2>1. /\ at' = back /\ at = "size" /\ UNCHANGED <<back, status, reserved, shown>>
        /\ back = "polled" => observed' = status
    BY <1>9 DEF ReadSize
  <2>2. /\ Status'.size = Status.size /\ ReservedOutpoints' = ReservedOutpoints
        /\ Current' = Current /\ Depth' = Depth /\ Deep' = Deep
    BY <1>2, <1>9 DEF ReadSize
  <2> QED BY <2>1, <2>2 DEF PollInv, Polling
<1>10. CASE EndFrame
  BY <1>10 DEF EndFrame, PollInv, Polling
<1>11. CASE PressReset
  BY <1>11 DEF PressReset, PollInv, Polling
<1>12. CASE FinishReset
  BY <1>12 DEF FinishReset, PollInv, Polling
<1>13. CASE PressStart
  BY <1>13 DEF PressStart, windowVars, PollInv, Polling
<1> QED BY <1>3, <1>4, <1>5, <1>6, <1>7, <1>8, <1>9, <1>10, <1>11, <1>12, <1>13
        DEF WindowStep

\* Every step of the node or the window keeps what a poll knows.
LEMMA StepPreservesPoll ==
    ASSUME NodeInv, NodeInv', PollInv, [WindowNext]_allVars
    PROVE  PollInv'
<1>1. CASE UNCHANGED allVars
  BY <1>1 DEF allVars, vars, windowVars, chainVars, mempoolVars, PollInv, Polling, Status,
              ReservedOutpoints, Current, Spendable, Depth, Deep
<1> QED BY <1>1, NodeStepKeepsPoll, WindowStepKeepsPoll DEF WindowNext

\* A poll that refreshed, lock after lock, what the window shows: either it is
\* what the node has, or the next poll refreshes again, for whatever was
\* submitted, mined, received or reorganised in between.
THEOREM PollsAreCurrent == WindowSpec => []PolledIsCurrent
<1>1. WindowSpec => []NodeInv
  BY WindowImplementsNode, NodeInvariant, PTL
<1>2. NodeInv /\ PollInv => PolledIsCurrent
  <2> SUFFICES ASSUME NodeInv, PollInv, at = "polled", NoStray(best_chain), Status = observed
               PROVE  shown = Current
    BY DEF PolledIsCurrent, Current
  <2>1. Status = Deep
    BY NodeHasNumbers DEF Numbers, Deep
  <2> QED BY <2>1 DEF PollInv, Polling
<1>3. NodeInv /\ NodeInv' /\ PollInv /\ [WindowNext]_allVars => PollInv'
  BY StepPreservesPoll
<1> QED BY <1>1, <1>2, <1>3, InitEstablishesPoll, PTL DEF WindowSpec

-----------------------------------------------------------------------------
\* The step leaves spendable what waits and was.
Spendables ==
    Front(best_chain') = best_chain =>
      \A tx \in DOMAIN mempool' : Spends(tx) \subseteq utxo_set => Spends(tx) \subseteq utxo_set'

\* A block that extends the best chain spends none of what stays in the mempool.
LEMMA SubmittingSpares == ASSUME StoreInv, NEW b \in Block, SubmitBlock(b) PROVE Spendables
<1>1. CASE AdoptBlock(b) /\ RemoveConfirmed(BlockOf[b].transactions)
  <2> SUFFICES ASSUME Front(best_chain') = best_chain,
                      NEW tx \in DOMAIN mempool', NEW o \in Spends(tx), o \in utxo_set
               PROVE  o \in utxo_set'
    BY DEF Spendables
  <2>1. utxo_set' = ApplyBlock(utxo_set, BlockOf[b])
    BY <1>1, ExtensionApplies
  <2>2. ~Displaced(tx, BlockOf[b].transactions)
    BY <1>1 DEF RemoveConfirmed
  <2>3. \A i \in DOMAIN BlockOf[b].transactions : o \notin Spends(BlockOf[b].transactions[i])
    BY <2>2 DEF Displaced
  <2> QED BY <2>1, <2>3, BlockLeaves
<1>2. CASE StoreBlock(b) /\ UNCHANGED mempool
  BY <1>2 DEF StoreBlock, Spendables
<1> QED BY <1>1, <1>2 DEF SubmitBlock

\* Nothing else touches the outputs unless it shortens the chain.
LEMMA StepSpares == ASSUME NodeInv, [NodeNext]_vars PROVE Spendables
<1>1. ASSUME utxo_set' = utxo_set PROVE Spendables
  BY <1>1 DEF Spendables
<1>2. ASSUME NEW s \in Submitters,
             \/ AdmitTransaction(s) \/ RefuseTransaction(s)
             \/ \E tx \in Tx : CheckTransaction(s, tx)
      PROVE  utxo_set' = utxo_set
  BY <1>2 DEF AdmitTransaction, RefuseTransaction, CheckTransaction, chainVars
<1>3. ASSUME NEW b \in Incoming, ReceiveBlock(b) PROVE Spendables
  BY <1>1, <1>3, SubmittingSpares, NodeAssumption DEF ReceiveBlock, StoreTwin, NodeInv
<1>4. CASE SubmitMined
  <2>1. template \in Block
    BY <1>4 DEF SubmitMined, NodeInv, ThreadInv
  <2>2. CASE SubmitBlock(template)
    BY <2>1, <2>2, SubmittingSpares DEF NodeInv
  <2>3. CASE UNCHANGED <<chainVars, mempool>>
    BY <1>1, <2>3 DEF chainVars
  <2> QED BY <1>4, <2>2, <2>3 DEF SubmitMined
<1>5. CASE ResetChain
  <2>1. best_chain' = <<Genesis>> /\ best_chain # <<>>
    BY <1>5, StoreInvLinks DEF ResetChain, NodeInv, BestChainLinked
  <2>2. Front(best_chain') = <<>>
    BY <2>1 DEF Front
  <2> QED BY <2>1, <2>2 DEF Spendables
<1>6. CreateTemplate \/ FindBlock \/ Tick \/ ResetMempool \/ StartMining \/ UNCHANGED vars
        => utxo_set' = utxo_set
  BY DEF CreateTemplate, FindBlock, Tick, ResetMempool, StartMining, vars, chainVars
<1> QED BY <1>1, <1>2, <1>3, <1>4, <1>5, <1>6 DEF NodeNext

\* A block on top of the tip never leaves a transaction waiting that could be
\* spent before it and cannot be after it: pruning by id and by conflict is
\* enough, whatever the block holds and however the threads interleave.
THEOREM ExtensionsSpareTheMempool == NodeSpec => ExtensionKeepsSpendable
<1>1. NodeInv /\ [NodeNext]_vars => [Spendables]_vars
  BY StepSpares
<1> QED BY <1>1, NodeInvariant, PTL DEF NodeSpec, ExtensionKeepsSpendable, Spendables

-----------------------------------------------------------------------------
\* An entry as the mempool keeps it.
IsEntry(tx, entry) ==
    /\ entry.fee_paid = Fee(tx) /\ entry.fee_paid \in Nat /\ entry.fee_rate \in Nat
    /\ entry.received_at \in Nat

\* The entries are well typed.
Entries ==
    /\ DOMAIN mempool \subseteq Tx /\ IsFiniteSet(DOMAIN mempool)
    /\ \A tx \in DOMAIN mempool : IsEntry(tx, mempool[tx])

\* The order of the entries is a strict total order: rank decides ties.
LEMMA PrecedesOrders ==
    ASSUME Entries
    PROVE  /\ \A t, u, v \in DOMAIN mempool : Precedes(t, u) /\ Precedes(u, v) => Precedes(t, v)
           /\ \A t, u \in DOMAIN mempool : t # u => Precedes(t, u) \/ Precedes(u, t)
           /\ \A t, u \in DOMAIN mempool : ~(Precedes(t, u) /\ Precedes(u, t))
<1>1. \A t \in DOMAIN mempool : /\ mempool[t].fee_rate \in Nat /\ mempool[t].received_at \in Nat
                               /\ mempool[t].fee_paid \in Nat /\ Rank[t] \in Nat
  BY MempoolAssumption DEF Entries, IsEntry, Injection
<1>2. \A t, u \in DOMAIN mempool : Rank[t] = Rank[u] => t = u
  BY MempoolAssumption DEF Entries, Injection, IsInjective
<1>3. ASSUME NEW t \in DOMAIN mempool, NEW u \in DOMAIN mempool, NEW v \in DOMAIN mempool,
             Precedes(t, u), Precedes(u, v)
      PROVE  Precedes(t, v)
  BY <1>1, <1>3 DEF Precedes
<1>4. ASSUME NEW t \in DOMAIN mempool, NEW u \in DOMAIN mempool, t # u
      PROVE  Precedes(t, u) \/ Precedes(u, t)
  BY <1>1, <1>2, <1>4 DEF Precedes
<1>5. ASSUME NEW t \in DOMAIN mempool, NEW u \in DOMAIN mempool
      PROVE  ~(Precedes(t, u) /\ Precedes(u, t))
  BY <1>1 DEF Precedes
<1> QED BY <1>3, <1>4, <1>5

\* Some entry of a set comes last.
LEMMA LastExists ==
    ASSUME Entries
    PROVE  \A s \in SUBSET DOMAIN mempool :
              s # {} => \E m \in s : \A u \in s \ {m} : Precedes(u, m)
<1> DEFINE D == DOMAIN mempool
           HasLast(s) == \E m \in s : \A u \in s \ {m} : Precedes(u, m)
           Good == { s \in SUBSET D : s # {} => HasLast(s) }
<1>1. ASSUME NEW s \in SUBSET D, \A t \in SUBSET s : t # s => t \in Good
      PROVE  s # {} => HasLast(s)
  <2> SUFFICES ASSUME s # {} PROVE HasLast(s)
    OBVIOUS
  <2>1. PICK x \in s : TRUE
    OBVIOUS
  <2>2. CASE s = {x}
    BY <2>2
  <2>3. CASE s # {x}
    <3>1. s \ {x} \in Good /\ s \ {x} # {}
      BY <1>1, <2>1, <2>3
    <3>2. PICK m \in s \ {x} : \A u \in (s \ {x}) \ {m} : Precedes(u, m)
      BY <3>1
    <3>3. x \in D /\ m \in D /\ m # x /\ m \in s
      BY <2>1, <3>2
    <3>4. CASE Precedes(m, x)
      <4>1. \A u \in s \ {x} : Precedes(u, x)
        BY <3>2, <3>3, <3>4, PrecedesOrders
      <4> QED BY <2>1, <4>1
    <3>5. CASE Precedes(x, m)
      <4>1. \A u \in s \ {m} : Precedes(u, m)
        BY <3>2, <3>5
      <4> QED BY <3>3, <4>1
    <3> QED BY <3>3, <3>4, <3>5, PrecedesOrders
  <2> QED BY <2>2, <2>3
<1>2. IsFiniteSet(D)
  BY DEF Entries
<1>3. \A s \in SUBSET D : s \in Good
  <2>1. ASSUME NEW s \in SUBSET D, \A t \in SUBSET s : t # s => t \in Good PROVE s \in Good
    BY <1>1, <2>1
  <2> HIDE DEF Good, D
  <2> QED BY <1>2, <2>1, SetInduction
<1> QED BY <1>3

\* How many of s come before tx.
Before(s, tx) == Cardinality({ u \in s : Precedes(u, tx) })

\* Every position is taken.
LEMMA PositionsAreTaken ==
    ASSUME Entries
    PROVE  \A s \in SUBSET DOMAIN mempool :
              \A i \in 1..Cardinality(s) : \E tx \in s : Before(s, tx) = i - 1
<1> DEFINE D == DOMAIN mempool
           Taken(s) == \A i \in 1..Cardinality(s) : \E tx \in s : Before(s, tx) = i - 1
           Good == { s \in SUBSET D : Taken(s) }
<1>1. ASSUME NEW s \in SUBSET D, \A t \in SUBSET s : t # s => t \in Good
      PROVE  Taken(s)
  <2>1. IsFiniteSet(s) /\ Cardinality(s) \in Nat
    BY FS_Subset, FS_CardinalityType DEF Entries
  <2>2. CASE s = {}
    BY <2>2, FS_EmptySet
  <2>3. CASE s # {}
    <3>1. PICK m \in s : \A u \in s \ {m} : Precedes(u, m)
      BY <2>3, LastExists
    <3> DEFINE t == s \ {m}
    <3>2. t \in Good /\ Cardinality(t) = Cardinality(s) - 1
      BY <1>1, <2>1, <3>1, FS_RemoveElement
    <3>3. ASSUME NEW x \in t PROVE Before(s, x) = Before(t, x)
      <4>1. ~Precedes(m, x)
        BY <3>1, <3>3, PrecedesOrders
      <4>2. { u \in s : Precedes(u, x) } = { u \in t : Precedes(u, x) }
        BY <3>1, <4>1
      <4> QED BY <4>2 DEF Before
    <3>4. Before(s, m) = Cardinality(s) - 1
      <4>1. ~Precedes(m, m)
        BY <3>1, PrecedesOrders
      <4>2. { u \in s : Precedes(u, m) } = t
        BY <3>1, <4>1
      <4> QED BY <3>2, <4>2 DEF Before
    <3> SUFFICES ASSUME NEW i \in 1..Cardinality(s) PROVE \E tx \in s : Before(s, tx) = i - 1
      OBVIOUS
    <3>5. CASE i = Cardinality(s)
      BY <3>4, <3>5
    <3>6. CASE i # Cardinality(s)
      <4>1. i \in 1..Cardinality(t)
        BY <2>1, <3>2, <3>6
      <4>2. PICK x \in t : Before(t, x) = i - 1
        BY <3>2, <4>1
      <4> QED BY <3>3, <4>2
    <3> QED BY <3>5, <3>6
  <2> QED BY <2>2, <2>3
<1>2. IsFiniteSet(D)
  BY DEF Entries
<1>3. \A s \in SUBSET D : s \in Good
  <2>1. ASSUME NEW s \in SUBSET D, \A t \in SUBSET s : t # s => t \in Good PROVE s \in Good
    BY <1>1, <2>1
  <2> HIDE DEF Good, D
  <2> QED BY <1>2, <2>1, SetInduction
<1> QED BY <1>3

\* Sorting drops no entry and repeats none.
LEMMA SortingKeeps ==
    ASSUME Entries, NEW S \in SUBSET DOMAIN mempool
    PROVE  /\ InOrder(S) \in Seq(S) /\ Len(InOrder(S)) = Cardinality(S)
           /\ \A i, j \in DOMAIN InOrder(S) : InOrder(S)[i] = InOrder(S)[j] => i = j
<1> DEFINE n == Cardinality(S)
           order == InOrder(S)
<1>1. n \in Nat
  BY FS_Subset, FS_CardinalityType DEF Entries
<1>2. \A i \in 1..n : order[i] \in S /\ Before(S, order[i]) = i - 1
  <2> TAKE i \in 1..n
  <2>1. \E tx \in S : Before(S, tx) = i - 1
    BY PositionsAreTaken
  <2>2. order[i] = CHOOSE tx \in S : Before(S, tx) = i - 1
    BY DEF InOrder, Before
  <2> QED BY <2>1, <2>2
<1>3. order = [ i \in 1..n |-> order[i] ]
  <2> DEFINE nth(i) == CHOOSE tx \in S : Cardinality({ u \in S : Precedes(u, tx) }) = i - 1
  <2>1. order = [ i \in 1..n |-> nth(i) ]
    BY DEF InOrder
  <2> HIDE DEF nth, order, n
  <2> QED BY <2>1
<1> HIDE DEF n, order
<1>4. order \in Seq(S) /\ Len(order) = n /\ DOMAIN order = 1..n
  BY <1>1, <1>2, <1>3
<1>5. ASSUME NEW i \in 1..n, NEW j \in 1..n, order[i] = order[j] PROVE i = j
  <2>1. i - 1 = j - 1
    BY <1>2, <1>5
  <2> QED BY <2>1
<1> QED BY <1>4, <1>5 DEF order, n

\* The selections after each of the entries es.
Selects(es, g, n) ==
    g = [ i \in 0..n |-> IF i = 0 THEN <<>> ELSE Take(g[i - 1], es[i]) ]

\* There is such a function, for every number of entries.
LEMMA SelectsExists ==
    ASSUME NEW es
    PROVE  \A n \in Nat : \E g : Selects(es, g, n)
<1> DEFINE Good == { n \in Nat : \E g : Selects(es, g, n) }
<1>1. 0 \in Good
  <2> DEFINE g == [ i \in 0..0 |-> <<>> ]
  <2>1. Selects(es, g, 0)
    BY DEF Selects
  <2> HIDE DEF g
  <2> QED BY <2>1
<1>2. ASSUME NEW n \in Nat, n \in Good PROVE n + 1 \in Good
  <2>1. PICK g : Selects(es, g, n)
    BY <1>2
  <2> DEFINE h == [ i \in 0..(n + 1) |-> IF i = 0 THEN <<>> ELSE Take(g[i - 1], es[i]) ]
  <2>2. \A i \in 0..n : h[i] = g[i]
    <3>1. \A i \in 0..n : g[i] = IF i = 0 THEN <<>> ELSE Take(g[i - 1], es[i])
      BY <2>1 DEF Selects
    <3>2. \A i \in 0..n : h[i] = IF i = 0 THEN <<>> ELSE Take(g[i - 1], es[i])
      OBVIOUS
    <3> QED BY <3>1, <3>2
  <2>3. Selects(es, h, n + 1)
    <3>1. \A i \in 0..(n + 1) : i # 0 => i - 1 \in 0..n
      OBVIOUS
    <3> QED BY <2>2, <3>1 DEF Selects
  <2> HIDE DEF h
  <2> QED BY <2>3
<1> HIDE DEF Good
<1>3. \A n \in Nat : n \in Good
  BY <1>1, <1>2, IntervalInduction
<1> QED BY <1>3 DEF Good

\* TransactionsForBlock satisfies its equations.
LEMMA SelectionUnfolds ==
    ASSUME NEW es, es = InOrder({ tx \in DOMAIN mempool : Eligible(tx) }), Len(es) \in Nat
    PROVE  \E g : /\ TransactionsForBlock = g[Len(es)] /\ g[0] = <<>>
                  /\ \A i \in 1..Len(es) : g[i] = Take(g[i - 1], es[i])
<1> DEFINE g == CHOOSE f : Selects(es, f, Len(es))
<1>1. TransactionsForBlock = g[Len(es)]
  BY DEF TransactionsForBlock, Selects
<1>2. Selects(es, g, Len(es))
  BY SelectsExists
<1> HIDE DEF g
<1>3. \A i \in 0..Len(es) : g[i] = IF i = 0 THEN <<>> ELSE Take(g[i - 1], es[i])
  BY <1>2 DEF Selects
<1>4. g[0] = <<>> /\ \A i \in 1..Len(es) : g[i] = Take(g[i - 1], es[i])
  <2>1. 0 \in 0..Len(es) /\ \A i \in 1..Len(es) : i \in 0..Len(es) /\ i # 0
    OBVIOUS
  <2> QED BY <1>3, <2>1
<1> QED BY <1>1, <1>4

\* A selection takes waiting transactions, each once.
LEMMA SelectionIsWaiting ==
    ASSUME Entries
    PROVE  /\ TransactionsForBlock \in Seq(DOMAIN mempool)
           /\ \A i, j \in DOMAIN TransactionsForBlock :
                 TransactionsForBlock[i] = TransactionsForBlock[j] => i = j
<1> DEFINE D == DOMAIN mempool
           es == InOrder({ tx \in DOMAIN mempool : Eligible(tx) })
           n == Len(es)
<1>1. /\ es \in Seq(D) /\ n \in Nat
      /\ \A i, j \in 1..n : es[i] = es[j] => i = j
  <2> DEFINE S == { tx \in DOMAIN mempool : Eligible(tx) }
  <2>1. S \in SUBSET DOMAIN mempool
    OBVIOUS
  <2>2. es = InOrder(S)
    OBVIOUS
  <2> HIDE DEF S, es
  <2>3. es \in Seq(S) /\ \A i, j \in DOMAIN es : es[i] = es[j] => i = j
    BY <2>1, <2>2, SortingKeeps
  <2> QED BY <2>1, <2>3
<1>2. PICK g : /\ TransactionsForBlock = g[n] /\ g[0] = <<>>
               /\ \A i \in 1..n : g[i] = Take(g[i - 1], es[i])
  <2>1. \E g : /\ TransactionsForBlock = g[Len(es)] /\ g[0] = <<>>
               /\ \A i \in 1..Len(es) : g[i] = Take(g[i - 1], es[i])
    BY <1>1, SelectionUnfolds
  <2> QED BY <2>1
<1> HIDE DEF es, n, D
\* The selection after the first k entries.
<1> DEFINE Once(k) == /\ g[k] \in Seq(D)
                      /\ \A a \in DOMAIN g[k] : \E j \in 1..k : g[k][a] = es[j]
                      /\ \A a, b \in DOMAIN g[k] : g[k][a] = g[k][b] => a = b
           Good == { k \in Nat : k <= n => Once(k) }
<1>3. 0 \in Good
  <2>1. <<>> \in Seq(D) /\ DOMAIN <<>> = {}
    OBVIOUS
  <2>2. Once(0)
    BY <1>2, <2>1
  <2> QED BY <2>2
<1>4. ASSUME NEW k \in Nat, k \in Good PROVE k + 1 \in Good
  <2> SUFFICES ASSUME k + 1 <= n PROVE Once(k + 1)
    OBVIOUS
  <2> DEFINE m == k + 1
             s == g[k]
  <2>1. Once(k) /\ m \in 1..n /\ m - 1 = k /\ \A j \in 1..k : j \in 1..m /\ j \in 1..n /\ j # m
    BY <1>1, <1>4
  <2>2. es[m] \in D
    BY <1>1, <2>1 DEF n
  <2>3. g[m] = s \/ g[m] = Append(s, es[m])
    <3>1. g[m] = Take(s, es[m])
      BY <1>2, <2>1
    <3> QED BY <3>1 DEF Take
  <2>4. CASE g[m] = s
    <3>1. Once(m)
      BY <2>1, <2>4
    <3> QED BY <3>1
  <2>5. CASE g[m] = Append(s, es[m])
    <3> HIDE DEF m, s
    <3>1. s \in Seq(D) /\ g[m] \in Seq(D)
      BY <2>1, <2>2, <2>5 DEF s
    <3>2. /\ DOMAIN s = 1..Len(s) /\ Len(s) \in Nat /\ DOMAIN g[m] = 1..(Len(s) + 1)
          /\ g[m][Len(s) + 1] = es[m] /\ \A a \in 1..Len(s) : g[m][a] = s[a]
      BY <2>2, <2>5, <3>1
    <3>3. \A a \in 1..Len(s) : \E j \in 1..k : s[a] = es[j]
      BY <2>1, <3>2 DEF s
    <3>4. \A a \in 1..Len(s) : s[a] # es[m]
      BY <1>1, <2>1, <3>3
    <3>5. \A a, b \in 1..Len(s) : s[a] = s[b] => a = b
      BY <2>1, <3>2 DEF s
    <3>6. \A a \in DOMAIN g[m] : \E j \in 1..m : g[m][a] = es[j]
      <4> TAKE a \in DOMAIN g[m]
      <4>1. CASE a = Len(s) + 1
        BY <2>1, <3>2, <4>1
      <4>2. CASE a # Len(s) + 1
        <5>1. a \in 1..Len(s)
          BY <3>2, <4>2
        <5> QED BY <2>1, <3>2, <3>3, <5>1
      <4> QED BY <4>1, <4>2
    <3>7. \A a, b \in DOMAIN g[m] : g[m][a] = g[m][b] => a = b
      <4> TAKE a, b \in DOMAIN g[m]
      <4>1. a \in 1..Len(s) \/ a = Len(s) + 1
        BY <3>2
      <4>2. b \in 1..Len(s) \/ b = Len(s) + 1
        BY <3>2
      <4> QED BY <3>2, <3>4, <3>5, <4>1, <4>2
    <3>8. Once(m)
      BY <3>1, <3>6, <3>7
    <3> QED BY <3>8 DEF m
  <2> QED BY <2>3, <2>4, <2>5
<1>5. n \in Good
  <2> HIDE DEF Good
  <2> QED BY <1>1, <1>3, <1>4, IntervalInduction
<1>6. Once(n)
  BY <1>1, <1>5
<1> QED BY <1>2, <1>6 DEF D

-----------------------------------------------------------------------------
\* The inductive invariant of what is checked, of what waits and of the types.
PoolInv ==
    /\ NodeTypeOK
    /\ \A s \in Submitters : pending[s] # NoTx => Checked(pending[s])
    /\ \A tx \in DOMAIN mempool : /\ Checked(tx) /\ ~IsCoinbase(tx)
                                  /\ mempool[tx].fee_paid = Fee(tx)

\* A coinbase pays no fee.
LEMMA CoinbasesPayNothing ==
    ASSUME NEW tx, IsCoinbase(tx), TotalOutputValue(tx) \in Nat
    PROVE  Fee(tx) <= 0
<1> DEFINE f == [ o \in Spends(tx) |-> OutputAt(o).value ]
<1>1. Spends(tx) = {}
  BY DEF IsCoinbase, Spends
<1>2. DOMAIN f = {}
  BY <1>1
<1>3. SumFunction(f) = 0
  BY <1>2, SumOfNone DEF SumFunction
<1>4. TotalInputValue(tx) = 0
  BY <1>3 DEF TotalInputValue
<1> QED BY <1>4 DEF Fee

\* Every fee rate asked for is a positive natural.
LEMMA RatesArePositive ==
    ASSUME NodeInv
    PROVE  StandardFeeRate \in Nat \ {0}
<1>1. Cardinality(DOMAIN mempool) \in Nat
  BY FS_CardinalityType DEF NodeInv, MempoolInv
<1>2. \A a \in Nat, b \in Nat \ {0} : (a + b - 1) \div b \in Nat
  BY Z3
<1> QED BY <1>1, <1>2, MempoolAssumption DEF StandardFeeRate, DivCeil

\* Nothing waits at first.
LEMMA InitEstablishesPool == NodeInit => PoolInv
<1> SUFFICES ASSUME NodeInit PROVE PoolInv
  OBVIOUS
<1>1. TypeOK
  BY InitEstablishesNode DEF NodeInv, StoreInv
<1>2. DOMAIN mempool = {}
  BY DEF NodeInit
<1>3. NodeTypeOK
  <2>1. /\ pending \in [ Submitters -> Tx \cup {NoTx} ]
        /\ submissions \in [ Tx -> 0..MaxSubmissions ]
        /\ now \in 0..MaxNow /\ resets \in 0..MaxResets
    BY NodeAssumption DEF NodeInit
  <2> QED BY <1>1, <1>2, <2>1 DEF NodeInit, NodeTypeOK
<1> QED BY <1>2, <1>3 DEF NodeInit, PoolInv

\* What enters the mempool was checked, and pays more than a coinbase can.
LEMMA AdmittingKeepsPool ==
    ASSUME NodeInv, PoolInv, NEW s \in Submitters, AdmitTransaction(s)
    PROVE  /\ DOMAIN mempool' = DOMAIN mempool \cup {pending[s]} /\ pending[s] \in Tx
           /\ \A tx \in DOMAIN mempool' :
                 /\ Checked(tx) /\ ~IsCoinbase(tx)
                 /\ mempool'[tx].fee_paid = Fee(tx)
                 /\ mempool'[tx] \in [ fee_paid : Nat, fee_rate : Nat, received_at : 0..MaxNow ]
<1> DEFINE tx == pending[s]
<1>1. tx \in Tx /\ tx # NoTx /\ Checked(tx)
  BY DEF AdmitTransaction, NodeInv, ThreadInv, PoolInv
<1>2. /\ Fee(tx) >= Size[tx] * StandardFeeRate /\ mempool' =
           [ t \in DOMAIN mempool \cup {tx} |-> IF t = tx THEN Entry(tx, now) ELSE mempool[t] ]
  BY DEF AdmitTransaction, Admissible, AddTransaction, MinimumRequiredFee
<1>3. Size[tx] \in Nat \ {0} /\ Fee(tx) \in Nat /\ now \in 0..MaxNow
  BY <1>1, MempoolAssumption DEF Checked, PoolInv, NodeTypeOK
<1>4. Size[tx] * StandardFeeRate >= 1
  <2>1. \A a, b \in Nat \ {0} : a * b >= 1 /\ a * b \in Nat
    BY Z3
  <2> QED BY <1>3, <2>1, RatesArePositive
<1>5. Fee(tx) >= 1
  <2>1. Size[tx] * StandardFeeRate \in Int
    BY <1>3, RatesArePositive
  <2> QED BY <1>2, <1>3, <1>4, <2>1
<1>6. ~IsCoinbase(tx)
  BY <1>1, <1>3, <1>5, CoinbasesPayNothing DEF Checked
<1>7. /\ Entry(tx, now) \in [ fee_paid : Nat, fee_rate : Nat, received_at : 0..MaxNow ]
      /\ Entry(tx, now).fee_paid = Fee(tx)
  <2>1. \A a \in Nat, b \in Nat \ {0} : (a + b - 1) \div b \in Nat
    BY Z3
  <2>2. DivCeil(Fee(tx), Size[tx]) \in Nat
    BY <1>3, <2>1 DEF DivCeil
  <2> QED BY <1>3, <2>2 DEF Entry
<1> HIDE DEF tx
<1>8. ASSUME NEW t \in DOMAIN mempool', t # tx
      PROVE  t \in DOMAIN mempool /\ mempool'[t] = mempool[t]
  BY <1>2, <1>8
<1>9. mempool'[tx] = Entry(tx, now) /\ DOMAIN mempool' = DOMAIN mempool \cup {tx}
  BY <1>2
<1>10. \A t \in DOMAIN mempool :
          /\ Checked(t) /\ ~IsCoinbase(t) /\ mempool[t].fee_paid = Fee(t)
          /\ mempool[t] \in [ fee_paid : Nat, fee_rate : Nat, received_at : 0..MaxNow ]
  BY DEF PoolInv, NodeTypeOK
<1>11. \A t \in DOMAIN mempool' :
          /\ Checked(t) /\ ~IsCoinbase(t)
          /\ mempool'[t].fee_paid = Fee(t)
          /\ mempool'[t] \in [ fee_paid : Nat, fee_rate : Nat, received_at : 0..MaxNow ]
  <2> TAKE t \in DOMAIN mempool'
  <2>1. CASE t = tx
    BY <1>1, <1>6, <1>7, <1>9, <2>1
  <2>2. CASE t # tx
    BY <1>8, <1>10, <2>2
  <2> QED BY <2>1, <2>2
<1> QED BY <1>1, <1>9, <1>11 DEF tx

\* The two halves of the invariant: what waits, ...
PoolPart ==
    /\ DOMAIN mempool \subseteq Tx
    /\ \A tx \in DOMAIN mempool :
          /\ Checked(tx) /\ ~IsCoinbase(tx)
          /\ mempool[tx].fee_paid = Fee(tx)
          /\ mempool[tx] \in [ fee_paid : Nat, fee_rate : Nat, received_at : 0..MaxNow ]

\* ... and where the threads are.
ThreadPart ==
    /\ now \in 0..MaxNow
    /\ pending \in [ Submitters -> Tx \cup {NoTx} ]
    /\ \A s \in Submitters : pending[s] # NoTx => Checked(pending[s])
    /\ submissions \in [ Tx -> 0..MaxSubmissions ]
    /\ mining \in BOOLEAN /\ resetting \in BOOLEAN /\ resets \in 0..MaxResets
    /\ miner \in {"idle", "hashing", "submitting"}
    /\ template \in Block \cup {NoBlock}
    /\ miner = "idle" <=> template = NoBlock

\* The invariant is taken apart: the mempool and the clock, and the threads.
LEMMA PoolInvParts == PoolInv <=> TypeOK /\ PoolPart /\ ThreadPart
BY DEF PoolInv, PoolPart, ThreadPart, NodeTypeOK

\* What leaves the mempool leaves the rest as it was.
LEMMA PruningKeepsPool ==
    ASSUME PoolPart, DOMAIN mempool' \subseteq DOMAIN mempool,
           \A tx \in DOMAIN mempool' : mempool'[tx] = mempool[tx]
    PROVE  PoolPart'
BY DEF PoolPart

\* A block that is submitted only takes entries out.
LEMMA SubmittingPrunes ==
    ASSUME PoolPart, NEW b \in Block, SubmitBlock(b)
    PROVE  PoolPart'
<1>1. CASE AdoptBlock(b) /\ RemoveConfirmed(BlockOf[b].transactions)
  BY <1>1, PruningKeepsPool DEF RemoveConfirmed
<1>2. CASE StoreBlock(b) /\ UNCHANGED mempool
  BY <1>2, PruningKeepsPool
<1> QED BY <1>1, <1>2 DEF SubmitBlock

\* What each step does to what waits, ...
LEMMA StepKeepsPoolPart ==
    ASSUME NodeInv, PoolInv, [NodeNext]_vars
    PROVE  PoolPart'
<1>0. PoolPart
  BY PoolInvParts
<1>1. ASSUME UNCHANGED mempool PROVE PoolPart'
  BY <1>0, <1>1, PruningKeepsPool
<1>2. ASSUME NEW s \in Submitters, AdmitTransaction(s) PROVE PoolPart'
  BY <1>0, <1>2, AdmittingKeepsPool DEF PoolPart
<1>3. ASSUME NEW s \in Submitters, RefuseTransaction(s) \/ \E tx \in Tx : CheckTransaction(s, tx)
      PROVE  PoolPart'
  BY <1>1, <1>3 DEF RefuseTransaction, CheckTransaction, mempoolVars
<1>4. ASSUME NEW b \in Incoming, ReceiveBlock(b) PROVE PoolPart'
  BY <1>0, <1>1, <1>4, SubmittingPrunes, NodeAssumption DEF ReceiveBlock
<1>5. CASE SubmitMined
  <2>1. template \in Block
    BY <1>5 DEF SubmitMined, NodeInv, ThreadInv
  <2>2. CASE SubmitBlock(template)
    BY <1>0, <2>1, <2>2, SubmittingPrunes
  <2>3. CASE UNCHANGED <<chainVars, mempool>>
    BY <1>1, <2>3
  <2> QED BY <1>5, <2>2, <2>3 DEF SubmitMined
<1>6. CASE ResetMempool
  <2>1. DOMAIN mempool' = {}
    BY <1>6 DEF ResetMempool
  <2> QED BY <2>1 DEF PoolPart
<1>7. CreateTemplate \/ FindBlock \/ Tick \/ ResetChain \/ StartMining \/ UNCHANGED vars
        => UNCHANGED mempool
  BY DEF CreateTemplate, FindBlock, Tick, ResetChain, StartMining, vars, mempoolVars
<1> QED BY <1>1, <1>2, <1>3, <1>4, <1>5, <1>6, <1>7 DEF NodeNext

\* ... and to the threads.
LEMMA StepKeepsThreadPart ==
    ASSUME NodeInv, PoolInv, [NodeNext]_vars
    PROVE  ThreadPart'
<1>0. ThreadPart
  BY PoolInvParts
<1> USE DEF chainVars, nodeVars, mempoolVars
<1>1. ASSUME NEW s \in Submitters, NEW tx \in Tx, CheckTransaction(s, tx) PROVE ThreadPart'
  <2>1. Checked(tx)
    <3>1. ValidSpend(utxo_set, tx) /\ IsTransaction(tx)
      BY <1>1, MempoolAssumption DEF CheckTransaction
    <3>2. Held(utxo_set)
      BY UnspentAreHeld DEF NodeInv
    <3> QED BY <3>1, <3>2, CheckEstablishes
  <2>2. /\ pending' = [ pending EXCEPT ![s] = tx ]
        /\ submissions' = [ submissions EXCEPT ![tx] = @ + 1 ] /\ submissions[tx] < MaxSubmissions
        /\ UNCHANGED <<now, mining, miner, template, resetting, resets>>
    BY <1>1 DEF CheckTransaction
  <2>3. pending' \in [ Submitters -> Tx \cup {NoTx} ]
    BY <1>0, <2>2 DEF ThreadPart
  <2>4. submissions' \in [ Tx -> 0..MaxSubmissions ]
    BY <1>0, <2>2, NodeAssumption DEF ThreadPart
  <2>5. \A t \in Submitters : pending'[t] # NoTx => Checked(pending'[t])
    BY <1>0, <2>1, <2>2 DEF ThreadPart
  <2> QED BY <1>0, <2>2, <2>3, <2>4, <2>5 DEF ThreadPart
<1>2. ASSUME NEW s \in Submitters, AdmitTransaction(s) \/ RefuseTransaction(s) PROVE ThreadPart'
  <2>1. /\ pending' = [ pending EXCEPT ![s] = NoTx ]
        /\ UNCHANGED <<now, submissions, mining, miner, template, resetting, resets>>
    BY <1>2 DEF AdmitTransaction, RefuseTransaction
  <2>2. pending' \in [ Submitters -> Tx \cup {NoTx} ]
    BY <1>0, <2>1 DEF ThreadPart
  <2>3. \A t \in Submitters : pending'[t] # NoTx => Checked(pending'[t])
    BY <1>0, <2>1 DEF ThreadPart
  <2> QED BY <1>0, <2>1, <2>2, <2>3 DEF ThreadPart
<1>3. ASSUME NEW b \in Incoming, ReceiveBlock(b) PROVE ThreadPart'
  BY <1>0, <1>3 DEF ReceiveBlock, ThreadPart
<1>4. CASE CreateTemplate
  <2>1. /\ template' \in Block /\ miner' = "hashing"
        /\ UNCHANGED <<now, pending, submissions, mining, resetting, resets>>
    BY <1>4 DEF CreateTemplate
  <2> QED BY <1>0, <2>1, NodeAssumption DEF ThreadPart
<1>5. CASE FindBlock
  BY <1>0, <1>5 DEF FindBlock, ThreadPart
<1>6. CASE SubmitMined
  BY <1>0, <1>6 DEF SubmitMined, ThreadPart
<1>7. CASE Tick
  BY <1>0, <1>7, NodeAssumption DEF Tick, ThreadPart
<1>8. CASE ResetChain
  <2>1. /\ resetting' = TRUE /\ resets' = resets + 1 /\ mining' = FALSE
        /\ UNCHANGED <<now, pending, submissions>> /\ resets < MaxResets
        /\ miner' = IF miner = "hashing" THEN "idle" ELSE miner
        /\ template' = IF miner = "hashing" THEN NoBlock ELSE template
    BY <1>8 DEF ResetChain
  <2>2. resets' \in 0..MaxResets
    BY <1>0, <2>1, NodeAssumption DEF ThreadPart
  <2>3. /\ miner' \in {"idle", "hashing", "submitting"}
        /\ template' \in Block \cup {NoBlock}
        /\ miner' = "idle" <=> template' = NoBlock
    BY <1>0, <2>1 DEF ThreadPart
  <2> QED BY <1>0, <2>1, <2>2, <2>3 DEF ThreadPart
<1>9. CASE ResetMempool
  BY <1>0, <1>9 DEF ResetMempool, ThreadPart
<1>10. CASE StartMining
  BY <1>0, <1>10 DEF StartMining, ThreadPart
<1>11. CASE UNCHANGED vars
  BY <1>0, <1>11 DEF vars, ThreadPart
<1> QED BY <1>1, <1>2, <1>3, <1>4, <1>5, <1>6, <1>7, <1>8, <1>9, <1>10, <1>11 DEF NodeNext

\* The inductive invariant of the pool is one.
LEMMA PoolInvariant == NodeSpec => []PoolInv
<1>1. NodeInv /\ NodeInv' /\ PoolInv /\ [NodeNext]_vars => PoolInv'
  <2> SUFFICES ASSUME NodeInv, NodeInv', PoolInv, [NodeNext]_vars PROVE PoolInv'
    OBVIOUS
  <2>1. TypeOK'
    BY DEF NodeInv, StoreInv
  <2>2. (PoolInv <=> TypeOK /\ PoolPart /\ ThreadPart)'
    BY PoolInvParts, PTL
  <2> QED BY <2>1, <2>2, StepKeepsPoolPart, StepKeepsThreadPart
<1> QED BY <1>1, NodeInvariant, InitEstablishesPool, PTL DEF NodeSpec

\* A node's state keeps its types: every fee is a natural, so no subtraction of
\* the fee's ever goes below zero, and the miner has a template exactly while
\* it works on one.
THEOREM NodeTypesCorrect == NodeSpec => []NodeTypeOK
<1>1. PoolInv => NodeTypeOK
  BY DEF PoolInv
<1> QED BY <1>1, PoolInvariant, PTL

\* The subsidy of the next height and the fees selected are a u64, not zero.
CoinbaseFits == TemplateNow.transactions[1].outputs[1].value \in 1..(U64 - 1)

\* A coinbase of one output pays what the output says.
LEMMA CoinbasePays ==
    ASSUME NEW value \in 0..(U64 - 1), NEW address
    PROVE  TotalOutputValue(Coinbase(value, address)) = value
<1> DEFINE outputs == <<[ value |-> value, script_pubkey |-> address ]>>
           f == [ i \in DOMAIN outputs |-> outputs[i].value ]
<1>1. DOMAIN f = 1..1 /\ f[1] = value
  OBVIOUS
<1>2. value \in Nat /\ U64 \in Nat /\ value % U64 = value
  <2>1. U64 \in Nat /\ value \in Nat /\ value < U64
    BY LedgerAssumption
  <2>2. \A u, v \in Nat : v < u => v % u = v
    BY Z3
  <2> QED BY <2>1, <2>2
<1>3. TotalOutputValue(Coinbase(value, address)) = SumFunction(f) % U64
  BY DEF TotalOutputValue, Coinbase
<1> HIDE DEF f
<1>4. SumFunctionOnSet(f, 1..1) = value * ((1 + 1) - 1)
  <2>1. value \in Int /\ \A i \in 1..1 : f[i] = value
    BY <1>1, <1>2
  <2> DEFINE a == 1
             z == 1
  <2>2. a \in Int /\ z \in Int /\ a <= z + 1 /\ \A i \in a..z : f[i] = value
    BY <2>1
  <2> HIDE DEF a, z
  <2>3. SumFunctionOnSet(f, a..z) = value * ((z + 1) - a)
    BY <2>1, <2>2, SumOfEqual
  <2> QED BY <2>3 DEF a, z
<1>5. SumFunction(f) = value
  BY <1>1, <1>2, <1>4 DEF SumFunction
<1> QED BY <1>2, <1>3, <1>5

\* The entries are ordered and summed as they should be.
LEMMA PoolEntries == ASSUME NodeInv, PoolInv PROVE Entries
<1>1. \A tx \in DOMAIN mempool : IsEntry(tx, mempool[tx])
  BY DEF PoolInv, NodeTypeOK, IsEntry
<1> QED BY <1>1 DEF NodeInv, MempoolInv, Entries

\* The fees a template's coinbase takes are those its block is allowed.
LEMMA FeesAreSelected ==
    ASSUME NodeInv, PoolInv, NEW coinbase
    PROVE  BlockFees(<<coinbase>> \o TransactionsForBlock) = SelectedFees(TransactionsForBlock)
<1> DEFINE D == DOMAIN mempool
           selected == TransactionsForBlock
           n == Len(selected)
           txs == <<coinbase>> \o selected
           f == [ i \in 2..Len(txs) |-> Fee(txs[i]) ]
           g == [ i \in DOMAIN selected |-> mempool[selected[i]].fee_paid ]
           h == [ i \in 1..n |-> i + 1 ]
<1>1. selected \in Seq(D)
  BY PoolEntries, SelectionIsWaiting
<1>2. BlockFees(txs) = SumFunction(f) /\ SelectedFees(selected) = SumFunction(g)
  BY DEF BlockFees, SelectedFees
<1> HIDE DEF selected, D
<1>3. /\ n \in Nat /\ Len(txs) = n + 1 /\ DOMAIN selected = 1..n
      /\ \A i \in 1..n : txs[i + 1] = selected[i] /\ selected[i] \in D
  BY <1>1
<1>4. \A i \in 1..n : /\ i + 1 \in 2..Len(txs) /\ h[i] = i + 1
                      /\ f[i + 1] = Fee(selected[i])
                      /\ g[i] = mempool[selected[i]].fee_paid
  BY <1>3
<1>5. \A i \in 1..n : g[i] = f[h[i]] /\ f[h[i]] \in Int
  <2>1. \A tx \in D : mempool[tx].fee_paid = Fee(tx) /\ Fee(tx) \in Int
    BY DEF PoolInv, Checked, D
  <2> QED BY <1>3, <1>4, <2>1
<1>6. DOMAIN f = 2..(n + 1) /\ DOMAIN g = 1..n /\ { h[i] : i \in 1..n } = 2..(n + 1)
  <2>1. ASSUME NEW k \in 2..(n + 1) PROVE k \in { h[i] : i \in 1..n }
    <3>1. k - 1 \in 1..n /\ (k - 1) + 1 = k
      BY <1>3
    <3> QED BY <1>4, <3>1
  <2>2. \A i \in 1..n : h[i] \in 2..(n + 1)
    BY <1>3, <1>4
  <2>3. { h[i] : i \in 1..n } = 2..(n + 1)
    <3> HIDE DEF h, n
    <3> QED BY <2>1, <2>2
  <2> QED BY <1>3, <2>3
<1>7. \A i, j \in 1..n : h[i] = h[j] => i = j
  BY <1>4
<1> HIDE DEF f, g, h, txs, n
<1>8. /\ IsFiniteSet({ h[i] : i \in 1..n })
      /\ SumFunctionOnSet(f, { h[i] : i \in 1..n }) = SumFunctionOnSet(g, 1..n)
  <2>1. n \in Nat
    BY <1>3
  <2> QED BY <2>1, <1>5, <1>7, SumOfImage
<1>9. SumFunction(f) = SumFunction(g)
  BY <1>6, <1>8 DEF SumFunction
<1> QED BY <1>2, <1>9 DEF txs, selected

\* No selected transaction takes what another needs.
LEMMA SelectionStaysSpendable ==
    ASSUME NodeInv, PoolInv, SelectionIsUnspent, NEW coinbase, IsCoinbase(coinbase),
           NEW i \in 2..(Len(TransactionsForBlock) + 1)
    PROVE  LET txs == <<coinbase>> \o TransactionsForBlock
           IN  /\ txs[i] \in DOMAIN mempool
               /\ Spends(txs[i]) \subseteq StatesThrough(utxo_set, txs)[i - 1]
<1> DEFINE D == DOMAIN mempool
           selected == TransactionsForBlock
           n == Len(selected)
           txs == <<coinbase>> \o selected
           state == StatesThrough(utxo_set, txs)
<1>1. /\ selected \in Seq(D)
      /\ \A a, b \in DOMAIN selected : selected[a] = selected[b] => a = b
  BY PoolEntries, SelectionIsWaiting
<1>2. \A a \in DOMAIN selected : Spends(selected[a]) \subseteq utxo_set
  BY DEF SelectionIsUnspent
<1>i. i \in 2..(n + 1)
  OBVIOUS
<1> HIDE DEF selected
<1>3. /\ n \in Nat /\ Len(txs) = n + 1 /\ DOMAIN selected = 1..n /\ txs[1] = coinbase
      /\ \A a \in 1..n : txs[a + 1] = selected[a] /\ selected[a] \in D
  BY <1>1
<1>4. state[0] = utxo_set /\ \A a \in 1..(n + 1) : state[a] = ApplyTransaction(state[a - 1], txs[a])
  <2>1. Len(txs) \in Nat
    BY <1>3
  <2> HIDE DEF txs
  <2> QED BY <1>3, <2>1, StatesUnfold
<1> HIDE DEF txs, state, n
<1> DEFINE Left(a) == \A k \in 1..n : k + 1 > a => Spends(selected[k]) \subseteq state[a]
           Good == { a \in Nat : a <= n => Left(a) }
<1>5. 0 \in Good
  BY <1>2, <1>3, <1>4
<1>6. ASSUME NEW a \in Nat, a \in Good PROVE a + 1 \in Good
  <2> SUFFICES ASSUME a + 1 <= n, NEW k \in 1..n, k + 1 > a + 1
               PROVE  Spends(selected[k]) \subseteq state[a + 1]
    OBVIOUS
  <2>1. a <= n /\ k + 1 > a /\ a + 1 \in 1..(n + 1) /\ (a + 1) - 1 = a
    BY <1>3
  <2>2. Spends(selected[k]) \subseteq state[a]
    BY <1>6, <2>1
  <2>3. Spends(selected[k]) \cap Spends(txs[a + 1]) = {}
    <3>1. CASE a = 0
      <4>1. txs[a + 1] = coinbase
        BY <1>3, <3>1
      <4> QED BY <4>1 DEF IsCoinbase, Spends
    <3>2. CASE a # 0
      <4>1. a \in 1..n /\ txs[a + 1] = selected[a] /\ a # k
        BY <1>3, <2>1, <3>2
      <4>2. selected[a] # selected[k] /\ selected[a] \in D /\ selected[k] \in D
        BY <1>1, <1>3, <4>1
      <4> QED BY <4>1, <4>2 DEF NodeInv, MempoolInv, MempoolDisjoint
    <3> QED BY <3>1, <3>2
  <2>4. state[a + 1] = (state[a] \ Spends(txs[a + 1])) \cup Creates(txs[a + 1])
    BY <1>4, <2>1 DEF ApplyTransaction
  <2> QED BY <2>2, <2>3, <2>4
<1>7. ASSUME NEW a \in Nat, a <= n PROVE Left(a)
  <2>1. a \in Good
    <3> HIDE DEF Good
    <3>1. \A b \in Nat : b \in Good
      BY <1>5, <1>6, IntervalInduction
    <3> QED BY <3>1
  <2> QED BY <1>7, <2>1
<1>8. txs[i] \in D /\ Spends(txs[i]) \subseteq state[i - 1]
  <2> DEFINE k == i - 1
  <2>1. k \in 1..n /\ k \in Nat /\ k <= n /\ i = k + 1 /\ k + 1 > k
    BY <1>3, <1>i
  <2>2. Left(k)
    BY <1>7, <2>1
  <2>3. txs[k + 1] = selected[k] /\ selected[k] \in D
    BY <1>3, <2>1
  <2>4. Spends(selected[k]) \subseteq state[k]
    BY <2>1, <2>2
  <2> HIDE DEF k
  <2>5. txs[i] = selected[k] /\ i - 1 = k
    BY <2>1, <2>3 DEF k
  <2> QED BY <2>3, <2>4, <2>5
<1> QED BY <1>8 DEF txs, state, selected

\* Selection order, fees and reward are never the reason for which the node's
\* own block would be refused.
LEMMA TemplatesAreValid ==
    ASSUME NodeInv, PoolInv, CoinbaseFits, SelectionIsUnspent
    PROVE  ValidBlock(utxo_set, TemplateNow)
<1> DEFINE selected == TransactionsForBlock
           n == Len(selected)
           value == BlockReward(Schedule, current_height + 1) + SelectedFees(selected)
           coinbase == Coinbase(value, MinerAddress)
           txs == <<coinbase>> \o selected
           state == StatesThrough(utxo_set, txs)
<1>1. /\ TemplateNow.transactions = txs /\ TemplateNow.height = current_height + 1
      /\ value \in 1..(U64 - 1)
  <2>1. TemplateNow.transactions = txs /\ TemplateNow.height = current_height + 1
    BY DEF TemplateNow
  <2>2. selected \in Seq(DOMAIN mempool)
    BY PoolEntries, SelectionIsWaiting
  <2> HIDE DEF selected, coinbase
  <2>3. txs[1] = coinbase
    BY <2>2
  <2>4. coinbase.outputs[1].value = value
    BY DEF coinbase, Coinbase
  <2> QED BY <2>1, <2>3, <2>4 DEF CoinbaseFits
<1>2. selected \in Seq(DOMAIN mempool)
  BY PoolEntries, SelectionIsWaiting
<1>3. IsCoinbase(coinbase) /\ WellFormed(coinbase)
  <2>1. value # 0
    BY <1>1
  <2> HIDE DEF value
  <2> QED BY <2>1 DEF IsCoinbase, WellFormed, Coinbase
<1>4. TotalOutputValue(coinbase) = value
  <2>1. value \in 0..(U64 - 1)
    BY <1>1
  <2> HIDE DEF value
  <2> QED BY <2>1, CoinbasePays
<1>5. BlockFees(txs) = SelectedFees(selected)
  BY FeesAreSelected
<1>6. ASSUME NEW i \in 2..(n + 1)
      PROVE  txs[i] \in DOMAIN mempool /\ Spends(txs[i]) \subseteq state[i - 1]
  BY <1>3, SelectionStaysSpendable
<1> HIDE DEF selected, coinbase, state
<1>7. /\ Len(txs) = n + 1 /\ txs[1] = coinbase /\ txs # <<>> /\ n \in Nat
  BY <1>2
<1>8. ASSUME NEW i \in 2..(n + 1) PROVE ~IsCoinbase(txs[i]) /\ ValidSpend(state[i - 1], txs[i])
  <2> DEFINE tx == txs[i]
  <2>1. tx \in DOMAIN mempool /\ Spends(tx) \subseteq state[i - 1]
    BY <1>6
  <2> HIDE DEF tx
  <2>2. Checked(tx) /\ ~IsCoinbase(tx)
    BY <2>1 DEF PoolInv
  <2>3. \A j \in DOMAIN tx.inputs : tx.inputs[j].previous_output \in state[i - 1]
    BY <2>1 DEF Spends
  <2>4. ValidSpend(state[i - 1], tx)
    BY <2>2, <2>3 DEF Checked, ValidSpend
  <2> QED BY <2>2, <2>4 DEF tx
<1>9. ValidReward(TemplateNow)
  <2>1. TemplateNow.transactions[1] = coinbase /\ value < U64 /\ value <= value
    BY <1>1, <1>7, LedgerAssumption
  <2>2. BlockReward(Schedule, TemplateNow.height) + BlockFees(TemplateNow.transactions) = value
    BY <1>1, <1>5
  <2> HIDE DEF value
  <2> QED BY <1>4, <2>1, <2>2 DEF ValidReward
<1> HIDE DEF txs, n
<1>10. /\ TemplateNow.transactions # <<>> /\ TemplateNow.transactions[1] = coinbase
       /\ Len(TemplateNow.transactions) = n + 1
       /\ StatesThrough(utxo_set, TemplateNow.transactions) = state
  BY <1>1, <1>7 DEF state
<1> QED BY <1>1, <1>3, <1>8, <1>9, <1>10 DEF ValidBlock

\* A template connects to the tip whenever what it selects is still unspent,
\* for every mempool that any interleaving of submissions, blocks and resets
\* leaves: provided the coinbase has something to pay, for a reward of zero
\* without fees makes a coinbase that Transaction::validate refuses.
THEOREM TemplatesConnect == NodeSpec => [](CoinbaseFits => TemplateConnects)
<1>1. NodeInv /\ PoolInv => (CoinbaseFits => TemplateConnects)
  BY TemplatesAreValid DEF TemplateConnects
<1> QED BY <1>1, NodeInvariant, PoolInvariant, PTL
===============================================================================
