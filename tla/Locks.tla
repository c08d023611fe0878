--------------------------------- MODULE Locks ---------------------------------
(***************************************************************************)
(* The mutexes of the node and the order in which its operations take      *)
(* them.  An operation is the sequence of what it does to locks: a guard   *)
(* is taken, dropped at the end of its scope or statement, and every error *)
(* return drops all guards there are.  A mutex is not reentrant: a thread  *)
(* that takes one it holds waits for itself.                               *)
(*                                                                         *)
(* peers is the table of P2PManager where it is locked for writing; those  *)
(* who read it hold no other lock.  Locks nothing else is taken under (log *)
(* lines, counters and handles of the miner and the RPC server) are left   *)
(* out.                                                                    *)
(***************************************************************************)
EXTENDS Naturals, Sequences

CONSTANTS Thread,    \* the window, peers, RPC clients, mining controller
          Calls,     \* the operations each thread calls
          NoThread

VARIABLES holder,    \* who holds each lock
          program,   \* the operation a thread is in
          pc         \* how many of its steps are done

vars == <<holder, program, pc>>

Lock == {"peers", "blockchain", "mempool", "peer_manager"}

Take(l) == <<"take", l>>
Drop(l) == <<"drop", l>>
Check == <<"check", "error">>
Step == { Take(l) : l \in Lock } \cup { Drop(l) : l \in Lock } \cup {Check}

ASSUME LocksAssumption ==
    /\ NoThread \notin Thread
    /\ \A t \in Thread : Calls[t] \subseteq Seq(Step)

Hold(l, body) == <<Take(l)>> \o body \o <<Drop(l)>>

-----------------------------------------------------------------------------
\* The guards in the literal of NodeDiskState live until its statement ends.
SaveState == Hold("blockchain", Hold("mempool", Hold("peer_manager", <<>>)))

GetBestHeight == Hold("blockchain", <<>>)

BlocksFromHeight == Hold("blockchain", <<>>)

GetStatus ==
    Hold("peer_manager", <<>>) \o GetBestHeight
      \o Hold("mempool", <<>>) \o Hold("mempool", <<>>)

\* Mutant of SubmitTransaction: the mempool is not dropped before the save.
SubmitTransactionHolding ==
    Hold("blockchain", <<Check>>) \o Hold("mempool", <<Check>> \o SaveState)

SubmitTransaction ==
    Hold("blockchain", <<Check>>) \o Hold("mempool", <<Check>>) \o SaveState

\* Mutant of CreateBlockTemplate: the locks are taken the other way round.
CreateBlockTemplateSwapped == Hold("mempool", Hold("blockchain", <<Check>>))

CreateBlockTemplate == Hold("blockchain", Hold("mempool", <<Check>>))

SubmitBlock ==
    Hold("blockchain", <<Check>> \o Hold("mempool", <<>>)) \o SaveState

ResetToGenesis ==
    Hold("blockchain", <<>>) \o Hold("mempool", <<>>)
      \o Hold("peer_manager", <<>>) \o SaveState

\* The controller's loop.
MineBlock == CreateBlockTemplate \o SubmitBlock

\* upsert_peer, remove_peer, note_peer_activity, the expiry of silent peers.
ChangePeers == Hold("peers", Hold("peer_manager", <<>>))

ReceiveBlock == ChangePeers \o SubmitBlock

SynchronizeBlock == GetBestHeight \o SubmitBlock \o GetBestHeight

RefreshWalletState ==
    Hold("mempool", <<>>) \o Hold("blockchain", <<>>) \o Hold("mempool", <<>>)
      \o GetStatus

\* current_send_preview: the reserved outpoints are read under the block store.
SendPreview == Hold("blockchain", Hold("mempool", <<>>))

\* suggested_fee_for_priority: the status, too, is read under the block store.
SuggestedFee == Hold("blockchain", Hold("mempool", <<>>) \o GetStatus)

\* A frame of the Send tab with recipient and amount filled in, up to its Send
\* button (without them it is GetStatus).  The frame keeps the errors of the
\* first two calls and goes on.
SendTab ==
    SendPreview \o SuggestedFee \o GetStatus \o SubmitTransaction \o RefreshWalletState

\* The Refresh button.
Refresh == RefreshWalletState \o SaveState

-----------------------------------------------------------------------------
Init ==
    /\ holder = [ l \in Lock |-> NoThread ]
    /\ program = [ t \in Thread |-> <<>> ]
    /\ pc = [ t \in Thread |-> 0 ]

Done(t) == pc[t] = Len(program[t])

NextStep(t) == program[t][pc[t] + 1]

Advance(t) == pc' = [ pc EXCEPT ![t] = @ + 1 ] /\ UNCHANGED program

Call(t) ==
    /\ Done(t)
    /\ \E p \in Calls[t] : program' = [ program EXCEPT ![t] = p ]
    /\ pc' = [ pc EXCEPT ![t] = 0 ]
    /\ UNCHANGED holder

TakeLock(t) ==
    /\ ~Done(t)
    /\ \E l \in Lock :
          /\ NextStep(t) = Take(l)
          /\ holder[l] = NoThread
          /\ holder' = [ holder EXCEPT ![l] = t ]
    /\ Advance(t)

DropLock(t) ==
    /\ ~Done(t)
    /\ \E l \in Lock :
          /\ NextStep(t) = Drop(l)
          /\ holder[l] = t
          /\ holder' = [ holder EXCEPT ![l] = NoThread ]
    /\ Advance(t)

Succeed(t) ==
    /\ ~Done(t)
    /\ NextStep(t) = Check
    /\ Advance(t)
    /\ UNCHANGED holder

\* A check returns an error: the guards go out of scope.
Fail(t) ==
    /\ ~Done(t)
    /\ NextStep(t) = Check
    /\ holder' = [ l \in Lock |-> IF holder[l] = t THEN NoThread ELSE holder[l] ]
    /\ pc' = [ pc EXCEPT ![t] = Len(program[t]) ]
    /\ UNCHANGED program

Next ==
    \E t \in Thread :
        Call(t) \/ TakeLock(t) \/ DropLock(t) \/ Succeed(t) \/ Fail(t)

Spec == Init /\ [][Next]_vars

-----------------------------------------------------------------------------
\* The locks a program holds after its first n steps.
HeldAfter(p, n) ==
    { l \in Lock : \E j \in 1..n :
          p[j] = Take(l) /\ \A k \in (j + 1)..n : p[k] # Drop(l) }

\* The order in which the node means to take its locks.
Rank(l) == CASE l = "peers" -> 1
             [] l = "blockchain" -> 2
             [] l = "mempool" -> 3
             [] l = "peer_manager" -> 4

\* The step at which the Send tab's frame locks the block store for the
\* status, with the block store locked for the suggested fee.
LocksAgain(p, i) == p = SendTab /\ i = Len(SendPreview) + 6

\* A program takes each lock while it holds only earlier ones ...
Ordered(p) ==
    \A i \in 1..Len(p) : \A l \in Lock :
        p[i] = Take(l) => \A m \in HeldAfter(p, i - 1) :
                             Rank(m) < Rank(l) \/ (LocksAgain(p, i) /\ m = l)

\* ... and returns without any.
ReturnsClean(p) == HeldAfter(p, Len(p)) = {}

TypeOK ==
    /\ holder \in [ Lock -> Thread \cup {NoThread} ]
    /\ \A t \in Thread : program[t] \in Calls[t] \cup {<<>>}
    /\ \A t \in Thread : pc[t] \in 0..Len(program[t])
    \* whoever holds a lock has not returned and has it from its own steps
    /\ \A l \in Lock : holder[l] # NoThread =>
          ~Done(holder[l]) /\ l \in HeldAfter(program[holder[l]], pc[holder[l]])

WaitsFor(t, u) ==
    /\ ~Done(t)
    /\ \E l \in Lock : NextStep(t) = Take(l) /\ holder[l] = u

\* t is in the Send tab's frame, where it waits for itself.
AsksAgain(t) == LocksAgain(program[t], pc[t] + 1)

\* A thread never wants a lock that comes before one it holds (the order is
\* nowhere written down; main.rs, node.rs and p2p.rs each keep to it), nor one
\* it holds itself, but for the status behind the suggested fee (main.rs:1226).
LocksInOrder ==
    \A t \in Thread : \A l, m \in Lock :
        ~Done(t) /\ NextStep(t) = Take(l) /\ holder[m] = t =>
            Rank(m) < Rank(l) \/ (AsksAgain(t) /\ m = l)

\* Whatever the window, the peers, the RPC clients and the miner call at one
\* time: where a group of threads waits for locks only its own members hold,
\* all of it waits for a window that waits for itself in the Send tab's frame,
\* and nothing else can make them wait for ever.
NoWaitCycle ==
    \A S \in SUBSET Thread :
        S # {} /\ (\A t \in S : \E u \in S : WaitsFor(t, u)) => \E t \in S : AsksAgain(t)
===============================================================================
