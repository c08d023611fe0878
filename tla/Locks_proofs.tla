------------------------------ MODULE Locks_proofs ------------------------------
(***************************************************************************)
(* Threads that take locks in one order never wait in a cycle, however     *)
(* many there are and whatever they call.  In a group of threads that wait *)
(* for each other, one waits for a lock of greatest rank; whoever holds it *)
(* waits for a lock of still greater rank.                                 *)
(***************************************************************************)
EXTENDS Locks, TLAPS

\* Operations in lock order, but for the Send tab's frame, that return without
\* locks: those of the node (in the run of MCLocks LocksInOrder fails when one
\* of them is not, at the latest when the operation is called again).
Disciplined ==
    \A t \in Thread : \A p \in Calls[t] : Ordered(p) /\ ReturnsClean(p)

\* The inductive invariant: a lock is held by the thread whose program took
\* it and did not drop it since.
LocksInv ==
    /\ holder \in [ Lock -> Thread \cup {NoThread} ]
    /\ program \in [ Thread -> Seq(Step) ]
    /\ pc \in [ Thread -> Nat ]
    /\ \A t \in Thread :
          /\ program[t] \in Calls[t] \cup {<<>>}
          /\ Ordered(program[t]) /\ ReturnsClean(program[t])
          /\ pc[t] \in 0..Len(program[t])
    /\ \A l \in Lock : holder[l] # NoThread =>
          l \in HeldAfter(program[holder[l]], pc[holder[l]])

\* A program that has done nothing holds nothing.
LEMMA NothingHeld == HeldAfter(<<>>, 0) = {} /\ \A p : HeldAfter(p, 0) = {}
BY DEF HeldAfter

\* A step keeps the locks it does not drop.
LEMMA StepKeepsLocks ==
    ASSUME NEW p, NEW n \in Nat, NEW l \in Lock,
           l \in HeldAfter(p, n), p[n + 1] # Drop(l)
    PROVE  l \in HeldAfter(p, n + 1)
<1>1. PICK j \in 1..n : p[j] = Take(l) /\ \A k \in (j + 1)..n : p[k] # Drop(l)
  BY DEF HeldAfter
<1>2. j \in 1..(n + 1)
  OBVIOUS
<1>3. \A k \in (j + 1)..(n + 1) : p[k] # Drop(l)
  <2> SUFFICES ASSUME NEW k \in (j + 1)..(n + 1) PROVE p[k] # Drop(l)
    OBVIOUS
  <2>1. k \in (j + 1)..n \/ k = n + 1
    OBVIOUS
  <2> QED BY <1>1, <2>1
<1> QED BY <1>1, <1>2, <1>3 DEF HeldAfter

\* A step that takes a lock holds it.
LEMMA StepTakesLock ==
    ASSUME NEW p, NEW n \in Nat, NEW l \in Lock, p[n + 1] = Take(l)
    PROVE  l \in HeldAfter(p, n + 1)
<1>1. n + 1 \in 1..(n + 1) /\ (n + 2)..(n + 1) = {}
  OBVIOUS
<1> QED BY <1>1 DEF HeldAfter

\* Taking is not dropping, and locks differ in their steps.
LEMMA StepsDiffer ==
    \A l, m \in Lock : /\ Take(l) # Drop(m) /\ Check # Drop(m)
                       /\ Drop(l) = Drop(m) => l = m
                       /\ Take(l) = Take(m) => l = m
BY DEF Take, Drop, Check

\* Nobody holds a lock at first.
LEMMA InitEstablishesLocks == ASSUME Init PROVE LocksInv
<1>1. Ordered(<<>>) /\ ReturnsClean(<<>>)
  BY NothingHeld DEF Ordered, ReturnsClean
<1>2. <<>> \in Seq(Step) /\ Len(<<>>) = 0
  OBVIOUS
<1> QED BY <1>1, <1>2, LocksAssumption DEF Init, LocksInv

\* Where a thread advances by a step that drops no lock it keeps.
LEMMA StepPreservesLocks ==
    ASSUME Disciplined, LocksInv, [Next]_vars
    PROVE  LocksInv'
<1> USE DEF LocksInv
<1>1. ASSUME NEW t \in Thread, Call(t) PROVE LocksInv'
  <2>1. PICK p \in Calls[t] : program' = [ program EXCEPT ![t] = p ]
    BY <1>1 DEF Call
  <2>2. p \in Seq(Step) /\ Ordered(p) /\ ReturnsClean(p) /\ 0 \in 0..Len(p)
    BY LocksAssumption DEF Disciplined
  <2>3. \A l \in Lock : holder[l] # t
    <3> SUFFICES ASSUME NEW l \in Lock, holder[l] = t PROVE FALSE
      OBVIOUS
    <3>1. l \in HeldAfter(program[t], Len(program[t]))
      BY <1>1, LocksAssumption DEF Call, Done
    <3> QED BY <3>1 DEF ReturnsClean
  <2>4. pc' = [ pc EXCEPT ![t] = 0 ] /\ UNCHANGED holder
    BY <1>1 DEF Call
  <2>5. \A u \in Thread : u # t => program'[u] = program[u] /\ pc'[u] = pc[u]
    BY <2>1, <2>4
  <2>6. program'[t] = p /\ pc'[t] = 0
    BY <2>1, <2>4
  <2>7. program' \in [ Thread -> Seq(Step) ] /\ pc' \in [ Thread -> Nat ]
    BY <2>1, <2>2, <2>4
  <2>8. \A l \in Lock : holder'[l] # NoThread =>
            l \in HeldAfter(program'[holder'[l]], pc'[holder'[l]])
    BY <2>3, <2>4, <2>5
  <2>9. \A u \in Thread : /\ program'[u] \in Calls[u] \cup {<<>>}
                          /\ Ordered(program'[u]) /\ ReturnsClean(program'[u])
                          /\ pc'[u] \in 0..Len(program'[u])
    BY <2>2, <2>5, <2>6
  <2> QED BY <2>4, <2>7, <2>8, <2>9
<1>2. ASSUME NEW t \in Thread, TakeLock(t) \/ DropLock(t) \/ Succeed(t)
      PROVE  LocksInv'
  <2> DEFINE n == pc[t]
             p == program[t]
  <2>1. UNCHANGED program /\ pc' = [ pc EXCEPT ![t] = n + 1 ] /\ n # Len(p)
    BY <1>2 DEF TakeLock, DropLock, Succeed, Advance, Done
  <2>2. n \in Nat /\ n + 1 \in 0..Len(p) /\ pc' \in [ Thread -> Nat ]
    BY <2>1
  <2>3. \A u \in Thread : u # t => pc'[u] = pc[u]
    BY <2>1
  <2>4. pc'[t] = n + 1
    BY <2>1
  \* what the step does to each lock
  <2>5. /\ holder' \in [ Lock -> Thread \cup {NoThread} ]
        /\ \A l \in Lock :
              \/ holder'[l] = NoThread
              \/ holder'[l] = t /\ p[n + 1] = Take(l)
              \/ holder'[l] = holder[l] /\ (holder[l] = t => p[n + 1] # Drop(l))
    <3>1. CASE TakeLock(t)
      BY <3>1, StepsDiffer DEF TakeLock, NextStep
    <3>2. CASE DropLock(t)
      BY <3>2, StepsDiffer DEF DropLock, NextStep
    <3>3. CASE Succeed(t)
      BY <3>3, StepsDiffer DEF Succeed, NextStep
    <3> QED BY <1>2, <3>1, <3>2, <3>3
  <2>6. ASSUME NEW l \in Lock, holder'[l] # NoThread
        PROVE  l \in HeldAfter(program'[holder'[l]], pc'[holder'[l]])
    <3>1. CASE holder'[l] = t /\ p[n + 1] = Take(l)
      BY <3>1, <2>1, <2>2, <2>4, StepTakesLock
    <3>2. CASE holder'[l] = holder[l] /\ holder[l] = t /\ p[n + 1] # Drop(l)
      BY <3>2, <2>1, <2>2, <2>4, <2>6, StepKeepsLocks
    <3>3. CASE holder'[l] = holder[l] /\ holder[l] # t
      BY <3>3, <2>1, <2>3, <2>6
    <3> QED BY <2>5, <2>6, <3>1, <3>2, <3>3
  <2>7. \A u \in Thread : pc'[u] \in 0..Len(program'[u])
    BY <2>1, <2>2, <2>3, <2>4
  <2> QED BY <2>1, <2>2, <2>5, <2>6, <2>7
<1>3. ASSUME NEW t \in Thread, Fail(t) PROVE LocksInv'
  <2>1. /\ UNCHANGED program
        /\ pc' = [ pc EXCEPT ![t] = Len(program[t]) ]
        /\ holder' = [ l \in Lock |-> IF holder[l] = t THEN NoThread ELSE holder[l] ]
    BY <1>3 DEF Fail
  <2>2. Len(program[t]) \in Nat
    OBVIOUS
  <2>3. pc' \in [ Thread -> Nat ] /\ \A u \in Thread : pc'[u] \in 0..Len(program'[u])
    BY <2>1, <2>2
  <2>4. holder' \in [ Lock -> Thread \cup {NoThread} ]
    BY <2>1
  <2>5. ASSUME NEW l \in Lock, holder'[l] # NoThread
        PROVE  l \in HeldAfter(program'[holder'[l]], pc'[holder'[l]])
    BY <2>1, <2>5
  <2> QED BY <2>1, <2>3, <2>4, <2>5
<1>4. CASE UNCHANGED vars
  BY <1>4 DEF vars
<1> QED BY <1>1, <1>2, <1>3, <1>4 DEF Next

\* The invariant holds throughout.
LEMMA LocksInvariant == ASSUME Disciplined PROVE Spec => []LocksInv
<1>1. Disciplined /\ LocksInv /\ [Next]_vars => LocksInv'
  BY StepPreservesLocks
<1> QED BY <1>1, InitEstablishesLocks, PTL DEF Spec

\* Every lock is held by a thread that is still in an operation that took it,
\* so none is left behind by a return or an error.
THEOREM TypeCorrect == ASSUME Disciplined PROVE Spec => []TypeOK
<1>1. LocksInv => TypeOK
  <2> SUFFICES ASSUME LocksInv PROVE TypeOK
    OBVIOUS
  <2> USE DEF LocksInv
  <2>1. ASSUME NEW l \in Lock, holder[l] # NoThread PROVE ~Done(holder[l])
    <3>1. holder[l] \in Thread
      BY <2>1
    <3> QED BY <2>1, <3>1 DEF Done, ReturnsClean
  <2> QED BY <2>1 DEF TypeOK
<1> QED BY <1>1, LocksInvariant, PTL

\* A thread that wants a lock holds only locks of smaller rank, or asks again.
LEMMA WaitsUpwards ==
    ASSUME LocksInv, NEW t \in Thread, NEW u \in Thread, NEW l \in Lock,
           ~Done(t), NextStep(t) = Take(l), NEW m \in Lock, holder[m] = t
    PROVE  Rank(m) < Rank(l) \/ (AsksAgain(t) /\ m = l)
<1> USE DEF LocksInv
<1>1. pc[t] + 1 \in 1..Len(program[t]) /\ (pc[t] + 1) - 1 = pc[t]
  BY DEF Done
<1>2. program[t][pc[t] + 1] = Take(l)
  BY DEF NextStep
<1>3. m \in HeldAfter(program[t], pc[t])
  BY LocksAssumption
<1>4. \A k \in HeldAfter(program[t], (pc[t] + 1) - 1) :
          Rank(k) < Rank(l) \/ (LocksAgain(program[t], pc[t] + 1) /\ k = l)
  BY <1>1, <1>2 DEF Ordered
<1> QED BY <1>1, <1>3, <1>4 DEF AsksAgain

\* Every thread takes its locks in the node's order, whichever steps of its
\* operation returned an error before, but for the one of main.rs:1226.
THEOREM TakenInOrder == ASSUME Disciplined PROVE Spec => []LocksInOrder
<1>1. LocksInv => LocksInOrder
  BY WaitsUpwards DEF LocksInOrder
<1> QED BY <1>1, LocksInvariant, PTL

\* No group of threads waits in a cycle unless one of them waits for itself in
\* the Send tab's frame, for any number of threads that call the node's
\* operations.
THEOREM NoDeadlock == ASSUME Disciplined PROVE Spec => []NoWaitCycle
<1>1. LocksInv => NoWaitCycle
  <2> SUFFICES ASSUME LocksInv, NEW S \in SUBSET Thread, S # {},
                      \A t \in S : \E u \in S : WaitsFor(t, u),
                      \A t \in S : ~AsksAgain(t)
               PROVE  FALSE
    BY DEF NoWaitCycle
  <2> DEFINE Wants(t, l) == ~Done(t) /\ NextStep(t) = Take(l)
  \* who waits for a lock waits for somebody that waits for a greater one
  <2>1. ASSUME NEW t \in S, NEW l \in Lock, Wants(t, l)
        PROVE  \E u \in S, k \in Lock : Wants(u, k) /\ Rank(l) < Rank(k)
    <3>1. PICK u \in S : WaitsFor(t, u)
      OBVIOUS
    <3>2. PICK m \in Lock : NextStep(t) = Take(m) /\ holder[m] = u
      BY <3>1 DEF WaitsFor
    <3>3. m = l
      BY <2>1, <3>2, StepsDiffer
    <3>4. PICK v \in S : WaitsFor(u, v)
      OBVIOUS
    <3>5. PICK k \in Lock : ~Done(u) /\ NextStep(u) = Take(k)
      BY <3>4 DEF WaitsFor
    <3>6. Rank(l) < Rank(k)
      BY <3>2, <3>3, <3>5, WaitsUpwards
    <3> QED BY <3>5, <3>6
  <2>2. \A l \in Lock : Rank(l) \in 1..4
    BY DEF Lock, Rank
  <2>3. \A t \in S, l \in Lock : Rank(l) = 4 => ~Wants(t, l)
    BY <2>1, <2>2
  <2>4. \A t \in S, l \in Lock : Rank(l) = 3 => ~Wants(t, l)
    BY <2>1, <2>2, <2>3
  <2>5. \A t \in S, l \in Lock : Rank(l) = 2 => ~Wants(t, l)
    BY <2>1, <2>2, <2>3, <2>4
  <2>6. \A t \in S, l \in Lock : Rank(l) = 1 => ~Wants(t, l)
    BY <2>1, <2>2, <2>3, <2>4, <2>5
  <2>7. PICK t \in S : TRUE
    OBVIOUS
  <2>8. PICK l \in Lock : Wants(t, l)
    BY <2>7 DEF WaitsFor
  <2> QED BY <2>2, <2>3, <2>4, <2>5, <2>6, <2>8
<1> QED BY <1>1, LocksInvariant, PTL

\* The one wait that is not in order (main.rs:1226) never ends: a thread that
\* has locked the block store for the suggested fee waits for that lock, and
\* still does and still holds it after every step of anybody.
THEOREM SendTabWaitsForItself ==
    ASSUME NEW t \in Thread, program \in [ Thread -> Seq(Step) ], pc \in [ Thread -> Nat ],
           AsksAgain(t), holder["blockchain"] = t
    PROVE  /\ WaitsFor(t, t)
           /\ [Next]_vars => AsksAgain(t)' /\ holder'["blockchain"] = t
<1>1. ~Done(t) /\ NextStep(t) = Take("blockchain") /\ "blockchain" \in Lock
  <2>1. Len(SendPreview) = 4
    BY DEF SendPreview, Hold
  <2>2. Len(SendTab) >= 10 /\ SendTab[10] = Take("blockchain")
    BY DEF SendTab, SendPreview, SuggestedFee, GetStatus, GetBestHeight, Hold
  <2> QED BY <2>1, <2>2 DEF AsksAgain, LocksAgain, Done, NextStep, Lock
<1>2. WaitsFor(t, t)
  BY <1>1 DEF WaitsFor
<1>3. ASSUME NEW u \in Thread,
             Call(u) \/ TakeLock(u) \/ DropLock(u) \/ Succeed(u) \/ Fail(u)
      PROVE  AsksAgain(t)' /\ holder'["blockchain"] = t
  <2>1. u # t
    <3>1. ~Call(t)
      BY <1>1 DEF Call
    <3>2. ~TakeLock(t)
      BY <1>1, LocksAssumption, StepsDiffer DEF TakeLock
    <3>3. ~DropLock(t)
      BY <1>1, StepsDiffer DEF DropLock
    <3>4. ~Succeed(t) /\ ~Fail(t)
      BY <1>1 DEF Succeed, Fail, Take, Check
    <3> QED BY <1>3, <3>1, <3>2, <3>3, <3>4
  <2>2. program'[t] = program[t] /\ pc'[t] = pc[t]
    BY <1>3, <2>1 DEF Call, TakeLock, DropLock, Succeed, Fail, Advance
  <2>3. holder'["blockchain"] = t
    <3>1. CASE Call(u) \/ Succeed(u)
      BY <3>1 DEF Call, Succeed
    <3>2. CASE TakeLock(u)
      BY <3>2, <1>1, LocksAssumption DEF TakeLock
    <3>3. CASE DropLock(u)
      BY <3>3, <1>1, <2>1 DEF DropLock
    <3>4. CASE Fail(u)
      BY <3>4, <1>1, <2>1 DEF Fail
    <3> QED BY <1>3, <3>1, <3>2, <3>3, <3>4
  <2> QED BY <2>2, <2>3 DEF AsksAgain
<1>4. ASSUME UNCHANGED vars PROVE AsksAgain(t)' /\ holder'["blockchain"] = t
  BY <1>4 DEF vars, AsksAgain
<1> QED BY <1>2, <1>3, <1>4 DEF Next
=================================================================================
