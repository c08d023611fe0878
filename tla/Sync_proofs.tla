------------------------------ MODULE Sync_proofs ------------------------------
(***************************************************************************)
(* How blocks travel, for every set of nodes and every network.            *)
(*                                                                         *)
(* Resets take a node's blocks away, but not that it has had them: the     *)
(* greatest height it has had and the heights it has gained never fall.    *)
(* So whatever was true of a node when a peer wrote its height down stays  *)
(* true: a reported height is one the node has had, a message carries a    *)
(* block its sender has had, and what synchronize_blocks counted since its *)
(* last reading is at most what the node has gained.                       *)
(***************************************************************************)
EXTENDS Sync, TLAPS

\* What a node has, and no block of it is higher than it has ever been.
ChainTypes ==
    /\ store \in [ Peer -> SUBSET Seq(Mark) ]
    /\ {tip, found, notified} \subseteq [ Peer -> Seq(Mark) ]
    /\ {peak, grown} \subseteq [ Peer -> Nat ]
    /\ \A n \in Peer : tip[n] \in store[n]

HadIt == \A n \in Peer : \A b \in store[n] : Len(b) <= peak[n]

Chains == ChainTypes /\ HadIt

\* Messages carry blocks that their senders have had.
SentIsHeld ==
    \A r \in outbox \cup relays :
        r \in Peer \X Peer \X Seq(Mark) /\ r[1] # r[2] /\ Len(r[3]) <= peak[r[1]]

\* An entry of n's table: of another node, no higher than that has
\* been; and the one of a message's connection is of the message's sender.
Listed(n, entries, tops) ==
    \A c \in DOMAIN entries :
        /\ entries[c] \in [ address : Peer \ {n}, best_height : Nat ]
        /\ entries[c].best_height <= tops[entries[c].address]
        /\ \A m \in Peer : c = Call(m, n) => entries[c].address = m

Tables == DOMAIN table = Peer /\ \A n \in Peer : Listed(n, table[n], peak)

\* A call of synchronize_blocks: what it counted, the node has gained; and
\* what it gained since the last reading is yet to be counted.
Counts(n, s) ==
    /\ s \in Session
    /\ s.todo \subseteq (Peer \ {n}) \X Nat
    /\ s.peer = NoPeer <=> s.phase \in {"idle", "asking"}
    /\ s.phase # "idle" => s.began + s.imported <= grown[n]
    /\ s.phase \in {"adding", "counting"} =>
          /\ s.began + s.imported + Height(n) <= grown[n] + s.previous_height
          /\ s.wire # <<>>

Sessions == session \in [ Peer -> Session ] /\ \A n \in Peer : Counts(n, session[n])

World ==
    /\ network \in Networks
    /\ links \subseteq network.dials
    /\ failures \in 0..network.failures
    /\ resets \in [ Peer -> Nat ]

\* The inductive invariant.
SyncInv == World /\ Chains /\ SentIsHeld /\ Tables /\ Sessions

\* A height is a natural.
LEMMA HeightIsNat ==
    ASSUME ChainTypes, NEW n \in Peer
    PROVE  Height(n) \in Nat
BY DEF ChainTypes, Height

\* Every peer starts with its own chain and nothing sent.
LEMMA InitEstablishesSync == Init => SyncInv
<1> SUFFICES ASSUME Init PROVE SyncInv
  OBVIOUS
<1>1. Genesis \in Seq(Mark) /\ Len(Genesis) = 0
  BY DEF Genesis
<1>p. peak = [ n \in Peer |-> 0 ] /\ grown = peak
  BY DEF Init
<1>2. Chains
  <2>1. store \in [ Peer -> SUBSET Seq(Mark) ] /\ \A n \in Peer : store[n] = {Genesis}
    BY <1>1 DEF Init
  <2>2. \A n \in Peer : tip[n] = Genesis
    BY DEF Init
  <2>3. {tip, found, notified} \subseteq [ Peer -> Seq(Mark) ]
    BY <1>1 DEF Init
  <2>4. {peak, grown} \subseteq [ Peer -> Nat ]
    BY <1>p
  <2> QED BY <1>1, <1>p, <2>1, <2>2, <2>3, <2>4 DEF Chains, ChainTypes, HadIt
<1>3. World
  BY SyncAssumption DEF Init, World
<1>4. NoSession \in Session
  <2>1. <<>> \in Seq(Seq(Mark))
    OBVIOUS
  <2> QED BY <2>1 DEF NoSession, Session
<1>5. Sessions
  <2>1. session = [ n \in Peer |-> NoSession ]
    BY DEF Init
  <2>2. \A n \in Peer : Counts(n, NoSession)
    BY <1>4 DEF Counts, NoSession
  <2> QED BY <1>4, <2>1, <2>2 DEF Sessions
<1>6. SentIsHeld
  BY DEF Init, SentIsHeld
<1>7. Tables
  <2>1. \A n \in Peer : table[n] = <<>>
    BY DEF Init
  <2>2. DOMAIN <<>> = {}
    OBVIOUS
  <2> QED BY <2>1, <2>2 DEF Init, Tables, Listed
<1> QED BY <1>2, <1>3, <1>5, <1>6, <1>7 DEF SyncInv

-----------------------------------------------------------------------------
(* What has been stays. *)

\* A node's history only grows, and by as much at least as its height does.
Grows ==
    \A n \in Peer :
        peak[n] <= peak'[n] /\ grown[n] <= grown'[n]
        /\ Height(n)' + grown[n] <= Height(n) + grown'[n]

\* A block that is added is counted in the history.
LEMMA AddingGrows ==
    ASSUME Chains, NEW n \in Peer, NEW b \in Seq(Mark), AddBlock(n, b),
           {found', notified'} \subseteq [ Peer -> Seq(Mark) ]
    PROVE  Chains' /\ Grows /\ Len(b) <= peak'[n]
<1>1. /\ store'[n] = store[n] \cup {b}
      /\ \A m \in Peer \ {n} : /\ store'[m] = store[m] /\ tip'[m] = tip[m]
                               /\ peak'[m] = peak[m] /\ grown'[m] = grown[m]
      /\ tip'[n] = IF Len(b) > Len(tip[n]) THEN b ELSE tip[n]
      /\ peak'[n] = IF peak[n] < Len(b) THEN Len(b) ELSE peak[n]
      /\ grown'[n] = grown[n] + (Larger(Len(tip[n]), Len(b)) - Len(tip[n]))
  BY DEF Chains, ChainTypes, AddBlock, Larger, Height
<1>2. /\ Len(b) \in Nat /\ Len(tip[n]) \in Nat /\ \A c \in store[n] : Len(c) \in Nat
      /\ peak[n] \in Nat /\ grown[n] \in Nat
  BY DEF Chains, ChainTypes
<1>3. Len(tip'[n]) = Larger(Len(tip[n]), Len(b)) /\ Larger(Len(tip[n]), Len(b)) \in Nat
      /\ Len(tip[n]) <= Larger(Len(tip[n]), Len(b))
  BY <1>1, <1>2 DEF Larger
<1>4. peak'[n] \in Nat /\ grown'[n] \in Nat /\ peak[n] <= peak'[n] /\ grown[n] <= grown'[n]
      /\ Len(b) <= peak'[n] /\ Len(tip'[n]) + grown[n] <= Len(tip[n]) + grown'[n]
  BY <1>1, <1>2, <1>3
<1>5. /\ store' \in [ Peer -> SUBSET Seq(Mark) ] /\ tip' \in [ Peer -> Seq(Mark) ]
      /\ {peak', grown'} \subseteq [ Peer -> Nat ]
  <2>1. store[n] \cup {b} \in SUBSET Seq(Mark)
    BY DEF Chains, ChainTypes
  <2>2. (IF Len(b) > Len(tip[n]) THEN b ELSE tip[n]) \in Seq(Mark)
    BY DEF Chains, ChainTypes
  <2>3. store' \in [ Peer -> SUBSET Seq(Mark) ] /\ tip' \in [ Peer -> Seq(Mark) ]
    BY <2>1, <2>2 DEF Chains, ChainTypes, AddBlock
  <2>4. peak' = [ peak EXCEPT ![n] = peak'[n] ] /\ grown' = [ grown EXCEPT ![n] = grown'[n] ]
    BY DEF AddBlock, Chains, ChainTypes
  <2>5. {peak', grown'} \subseteq [ Peer -> Nat ]
    BY <1>4, <2>4 DEF Chains, ChainTypes
  <2> QED BY <2>3, <2>5
<1>6. ChainTypes'
  BY <1>1, <1>5 DEF Chains, ChainTypes
<1>7. HadIt'
  <2> SUFFICES ASSUME NEW m \in Peer, NEW c \in store'[m] PROVE Len(c) <= peak'[m]
    BY DEF HadIt
  <2>1. CASE m = n
    <3>1. c = b \/ (c \in store[n] /\ Len(c) <= peak[n] /\ Len(c) \in Nat)
      BY <1>1, <1>2, <2>1 DEF Chains, HadIt
    <3> QED BY <1>2, <1>4, <2>1, <3>1
  <2>2. CASE m # n
    BY <1>1, <2>2 DEF Chains, HadIt
  <2> QED BY <2>1, <2>2
<1>8. Grows
  <2>1. \A m \in Peer : peak[m] \in Nat /\ grown[m] \in Nat /\ Len(tip[m]) \in Nat
    BY DEF Chains, ChainTypes
  <2>2. ASSUME NEW m \in Peer
        PROVE  /\ peak[m] <= peak'[m] /\ grown[m] <= grown'[m]
               /\ Len(tip'[m]) + grown[m] <= Len(tip[m]) + grown'[m]
    <3>1. CASE m = n
      BY <1>4, <3>1
    <3>2. CASE m # n
      <4>1. tip'[m] = tip[m] /\ peak'[m] = peak[m] /\ grown'[m] = grown[m]
        BY <1>1, <3>2
      <4> QED BY <2>1, <4>1
    <3> QED BY <3>1, <3>2
  <2> QED BY <2>2 DEF Grows, Height
<1> QED BY <1>4, <1>6, <1>7, <1>8 DEF Chains

\* What a step does to the blocks: it adds one, or takes them all away.
LEMMA StepsGrow ==
    ASSUME SyncInv, [Next]_vars
    PROVE  Chains' /\ Grows
<1> DEFINE Goal == Chains' /\ Grows
<1>t. \A n \in Peer : peak[n] \in Nat /\ grown[n] \in Nat /\ Height(n) \in Nat
  BY HeightIsNat DEF SyncInv, Chains, ChainTypes
<1>g. Genesis \in Seq(Mark) /\ Len(Genesis) = 0
  BY DEF Genesis
<1>u. ASSUME UNCHANGED <<held, found, notified>> PROVE Goal
  BY <1>t, <1>u DEF held, SyncInv, Chains, ChainTypes, HadIt, Grows, Height
<1>1. ASSUME NEW n \in Peer, NEW m \in Peer, Connect(n, m) PROVE Goal
  BY <1>1, <1>u DEF Connect
<1>2. ASSUME NEW n \in Peer, Mine(n) PROVE Goal
  <2> DEFINE b == Append(tip[n], <<n, resets[n]>>)
  <2>1. b \in Seq(Mark)
    BY DEF SyncInv, Chains, ChainTypes, World, Mark
  <2>2. AddBlock(n, b) /\ found' = [ found EXCEPT ![n] = b ] /\ notified' = notified
    BY <1>2 DEF Mine
  <2> HIDE DEF b
  <2>3. {found', notified'} \subseteq [ Peer -> Seq(Mark) ]
    BY <2>1, <2>2 DEF SyncInv, Chains, ChainTypes
  <2> QED BY <2>1, <2>2, <2>3, AddingGrows DEF SyncInv
<1>3. ASSUME NEW n \in Peer, Announce(n) PROVE Goal
  <2>1. UNCHANGED <<held, found>> /\ notified' = [ notified EXCEPT ![n] = found[n] ]
    BY <1>3 DEF Announce
  <2>2. notified' \in [ Peer -> Seq(Mark) ]
    BY <2>1 DEF SyncInv, Chains, ChainTypes
  <2> QED BY <1>t, <2>1, <2>2 DEF held, SyncInv, Chains, ChainTypes, HadIt, Grows, Height
<1>4. ASSUME NEW r \in outbox \cup relays, AcceptBlock(r) PROVE Goal
  <2>1. r[2] \in Peer /\ r[3] \in Seq(Mark)
    BY DEF SyncInv, SentIsHeld
  <2>2. AddBlock(r[2], r[3]) /\ UNCHANGED <<found, notified>>
    BY <1>4 DEF AcceptBlock
  <2> QED BY <2>1, <2>2, AddingGrows DEF SyncInv, Chains, ChainTypes
<1>5. ASSUME NEW n \in Peer, AddReceived(n) PROVE Goal
  <2>1. Head(session[n].wire) \in Seq(Mark)
    BY <1>5 DEF AddReceived, SyncInv, Sessions, Counts, Session
  <2>2. AddBlock(n, Head(session[n].wire)) /\ UNCHANGED <<found, notified>>
    BY <1>5 DEF AddReceived
  <2> QED BY <2>1, <2>2, AddingGrows DEF SyncInv, Chains, ChainTypes
<1>6. ASSUME NEW n \in Peer, Reset(n) PROVE Goal
  <2>1. /\ store' = [ store EXCEPT ![n] = {Genesis} ]
        /\ tip' = [ tip EXCEPT ![n] = Genesis ]
        /\ notified' = [ notified EXCEPT ![n] = Genesis ]
        /\ UNCHANGED <<found, peak, grown>>
    BY <1>6 DEF Reset
  <2>2. ChainTypes'
    BY <1>g, <2>1 DEF SyncInv, Chains, ChainTypes
  <2>3. HadIt'
    BY <1>g, <1>t, <2>1 DEF SyncInv, Chains, ChainTypes, HadIt
  <2>4. \A m \in Peer : Len(tip'[m]) <= Len(tip[m])
    BY <1>g, <1>t, <2>1 DEF SyncInv, Chains, ChainTypes, Height
  <2>5. \A m \in Peer : Len(tip'[m]) \in Nat
    BY <2>2 DEF ChainTypes
  <2> QED BY <1>t, <2>1, <2>2, <2>3, <2>4, <2>5 DEF Chains, Grows, Height
<1>7. ASSUME NEW n \in Peer,
             \/ Forget(n) \/ LosePeer(n) \/ AbortSync(n)
             \/ StartSync(n) \/ AskPeer(n) \/ ServeHeaders(n) \/ ReceiveBlock(n)
             \/ SkipReceived(n) \/ CountImported(n) \/ EndSync(n)
      PROVE  Goal
  BY <1>7, <1>u DEF Forget, LosePeer, AbortSync, StartSync, AskPeer, ServeHeaders,
     ReceiveBlock, SkipReceived, CountImported, EndSync
<1>8. ASSUME NEW r, OpenRelay(r) \/ RefuseBlock(r) \/ LoseRelay(r) PROVE Goal
  BY <1>8, <1>u DEF OpenRelay, RefuseBlock, LoseRelay
<1>9. ASSUME NEW l, Disconnect(l) PROVE Goal
  BY <1>9, <1>u DEF Disconnect
<1>10. ASSUME UNCHANGED vars PROVE Goal
  BY <1>10, <1>u DEF vars
<1>11. Goal
  <2> HIDE DEF Goal
  <2> QED
    BY <1>1, <1>2, <1>3, <1>4, <1>5, <1>6, <1>7, <1>8, <1>9, <1>10
    DEF Next, SyncStep, RelayStep
<1> QED BY <1>11

-----------------------------------------------------------------------------
(* Messages. *)

\* A peer does not send to itself.
LEMMA AddressesAreOthers ==
    ASSUME Tables, NEW n \in Peer, NEW x
    PROVE  Addresses(n, x) \subseteq Peer \ {n}
BY DEF Tables, Listed, Addresses

\* What is sent is a block its sender has had.
LEMMA StepsHold ==
    ASSUME SyncInv, [Next]_vars, Chains', Grows
    PROVE  SentIsHeld'
<1> DEFINE Held(r) == r \in Peer \X Peer \X Seq(Mark) /\ r[1] # r[2] /\ Len(r[3]) <= peak'[r[1]]
<1>1. \A r \in outbox \cup relays : Held(r)
  <2>1. \A n \in Peer : peak[n] \in Nat /\ peak'[n] \in Nat
    BY DEF SyncInv, Chains, ChainTypes
  <2>2. \A b \in Seq(Mark) : Len(b) \in Nat
    OBVIOUS
  <2> QED BY <2>1, <2>2 DEF SyncInv, SentIsHeld, Grows
<1>2. ASSUME NEW n \in Peer, NEW x, NEW b \in Seq(Mark), Len(b) <= peak'[n],
             SendTo(n, Addresses(n, x), b)
      PROVE  \A r \in outbox' : Held(r)
  <2> SUFFICES ASSUME NEW r \in outbox' PROVE Held(r)
    OBVIOUS
  <2>1. CASE r \in outbox
    BY <1>1, <2>1
  <2>2. CASE r \notin outbox
    <3>1. PICK m \in Addresses(n, x) : r = <<n, m, b>>
      BY <1>2, <2>2 DEF SendTo
    <3>2. m \in Peer /\ m # n
      BY AddressesAreOthers DEF SyncInv
    <3> QED BY <1>2, <3>1, <3>2
  <2> QED BY <2>1, <2>2
<1> DEFINE Goal == \A r \in outbox' \cup relays' : Held(r)
<1>3. ASSUME NEW n \in Peer, Announce(n) PROVE Goal
  <2>1. CASE found[n] \in store[n]
    <3>1. found[n] \in Seq(Mark) /\ Len(found[n]) <= peak'[n]
      BY <1>3, <2>1 DEF Announce, held, SyncInv, Chains, ChainTypes, HadIt
    <3>2. SendTo(n, Addresses(n, NoPeer), found[n]) /\ relays' = relays
      BY <1>3, <2>1 DEF Announce
    <3> HIDE DEF Held
    <3> QED BY <1>1, <1>2, <3>1, <3>2
  <2>2. CASE found[n] \notin store[n]
    BY <1>1, <1>3, <2>2 DEF Announce
  <2> QED BY <2>1, <2>2
<1>4. ASSUME NEW r \in outbox \cup relays, AcceptBlock(r) PROVE Goal
  <2>1. r[2] \in Peer /\ r[3] \in Seq(Mark)
    BY DEF SyncInv, SentIsHeld
  <2>2. AddBlock(r[2], r[3]) /\ relays' = relays \ {r}
        /\ SendTo(r[2], Addresses(r[2], r[1]), r[3])
    BY <1>4 DEF AcceptBlock
  <2>3. Len(r[3]) <= peak'[r[2]]
    BY <2>1, <2>2, AddingGrows DEF AcceptBlock, SyncInv, Chains, ChainTypes
  <2> HIDE DEF Held
  <2> QED BY <1>1, <1>2, <2>1, <2>2, <2>3
<1>5. ASSUME outbox' \cup relays' \subseteq outbox \cup relays PROVE Goal
  BY <1>1, <1>5
<1>6. ASSUME NEW n \in Peer, NEW m \in Peer, Connect(n, m) PROVE Goal
  BY <1>5, <1>6 DEF Connect
<1>7. ASSUME NEW n \in Peer,
             \/ Mine(n) \/ Reset(n) \/ Forget(n) \/ LosePeer(n) \/ AbortSync(n)
             \/ SyncStep(n)
      PROVE  Goal
  BY <1>5, <1>7 DEF Mine, Reset, Forget, LosePeer, AbortSync, SyncStep, StartSync, AskPeer, ServeHeaders,
     ReceiveBlock, AddReceived, SkipReceived, CountImported, EndSync
<1>8. ASSUME NEW r \in outbox \cup relays, OpenRelay(r) \/ RefuseBlock(r) \/ LoseRelay(r)
      PROVE  Goal
  <2>1. outbox' \cup relays' \subseteq outbox \cup relays
    BY <1>8 DEF OpenRelay, RefuseBlock, LoseRelay
  <2> QED BY <1>5, <2>1
<1>9. ASSUME NEW l, Disconnect(l) PROVE Goal
  BY <1>5, <1>9 DEF Disconnect
<1>10. ASSUME UNCHANGED vars PROVE Goal
  <2>1. outbox' \cup relays' \subseteq outbox \cup relays
    BY <1>10 DEF vars
  <2> QED BY <1>5, <2>1
<1>11. Goal
  <2> HIDE DEF Held, Goal
  <2> QED
    BY <1>3, <1>4, <1>6, <1>7, <1>8, <1>9, <1>10 DEF Next, RelayStep
<1> QED BY <1>11 DEF SentIsHeld

-----------------------------------------------------------------------------
(* Tables of peers. *)

\* An entry that is put into a table is of a height its peer has reached.
LEMMA UpsertLists ==
    ASSUME NEW tops, NEW n \in Peer, NEW entries, Listed(n, entries, tops), NEW c,
           NEW a \in Peer \ {n}, NEW h \in Nat, h <= tops[a],
           \A m \in Peer : c = Call(m, n) => a = m
    PROVE  Listed(n, Upsert(entries, c, a, h), tops)
<1> DEFINE entry == [ address |-> a, best_height |-> h ]
           new == Upsert(entries, c, a, h)
<1>1. /\ DOMAIN new = DOMAIN entries \cup {c} /\ new[c] = entry
      /\ \A d \in DOMAIN entries : d # c => new[d] = entries[d]
  BY DEF Upsert
<1> HIDE DEF new
<1>2. Listed(n, new, tops)
  BY <1>1 DEF Listed
<1> QED BY <1>2 DEF new

\* So is one that is brought up to date.
LEMMA NoteLists ==
    ASSUME NEW tops, NEW n \in Peer, NEW entries, Listed(n, entries, tops), NEW m \in Peer,
           NEW h \in Nat, h <= tops[m]
    PROVE  Listed(n, Note(entries, Call(m, n), h), tops)
<1> DEFINE c == Call(m, n)
           new == [ entries EXCEPT ![c].best_height = h ]
<1> SUFFICES ASSUME c \in DOMAIN entries PROVE Listed(n, new, tops)
  BY DEF Note
<1>1. entries[c] \in [ address : Peer \ {n}, best_height : Nat ] /\ entries[c].address = m
  BY DEF Listed
<1>2. /\ DOMAIN new = DOMAIN entries
      /\ new[c] = [ entries[c] EXCEPT !.best_height = h ]
      /\ \A d \in DOMAIN entries : d # c => new[d] = entries[d]
  OBVIOUS
<1>3. /\ new[c] \in [ address : Peer \ {n}, best_height : Nat ]
      /\ new[c].address = m /\ new[c].best_height = h
  BY <1>1, <1>2
<1> HIDE DEF new, c
<1>4. ASSUME NEW d \in DOMAIN new
      PROVE  /\ new[d] \in [ address : Peer \ {n}, best_height : Nat ]
             /\ new[d].best_height <= tops[new[d].address]
             /\ \A p \in Peer : d = Call(p, n) => new[d].address = p
  <2>1. CASE d = c
    BY <1>3, <2>1 DEF c, Call
  <2>2. CASE d # c
    BY <1>2, <2>2 DEF Listed
  <2> QED BY <2>1, <2>2
<1> QED BY <1>4 DEF Listed

\* What is listed stays right while the nodes grow, and so do the steps that
\* list more.
LEMMA StepsList ==
    ASSUME SyncInv, Chains', Grows, [Next]_vars
    PROVE  Tables'
<1>d. DOMAIN table = Peer
  BY DEF SyncInv, Tables
<1>h. \A n \in Peer : /\ Height(n) \in Nat /\ peak[n] \in Nat /\ peak'[n] \in Nat
                      /\ Height(n) <= peak'[n] /\ peak[n] <= peak'[n]
  BY HeightIsNat DEF SyncInv, Chains, ChainTypes, HadIt, Grows, Height
<1>s. \A n \in Peer : Listed(n, table[n], peak')
  <2>1. \A n \in Peer : Listed(n, table[n], peak)
    BY DEF SyncInv, Tables
  <2> QED BY <2>1, <1>h DEF Listed
<1>u. ASSUME NEW n \in Peer, NEW entries, Listed(n, entries, peak'),
             table' = [ table EXCEPT ![n] = entries ]
      PROVE  Tables'
  BY <1>d, <1>s, <1>u DEF Tables
<1>v. ASSUME table' = table PROVE Tables'
  BY <1>d, <1>s, <1>v DEF Tables
<1>1. ASSUME NEW n \in Peer, NEW m \in Peer, Connect(n, m) PROVE Tables'
  <2>1. n # m
    BY <1>1, SyncAssumption DEF Connect, SyncInv, World
  <2> DEFINE mine == Upsert(table[n], Link(n, m), m, Height(m))
             theirs == Upsert(table[m], Link(n, m), n, Height(n))
  <2>2. table' = [ table EXCEPT ![n] = mine, ![m] = theirs ]
    BY <1>1, <2>1, <1>d DEF Connect
  <2>3. \A a, b, p, q : Link(a, b) # Call(p, q)
    BY DEF Link, Call
  <2>4. Listed(n, mine, peak') /\ Listed(m, theirs, peak')
    <3> USE <1>h, <1>s, <2>1, <2>3
    <3>1. Listed(n, mine, peak')
      BY UpsertLists
    <3>2. Listed(m, theirs, peak')
      BY UpsertLists
    <3> QED BY <3>1, <3>2
  <2> HIDE DEF mine, theirs
  <2> QED BY <1>d, <1>s, <2>1, <2>2, <2>4 DEF Tables
<1>2. ASSUME NEW n \in Peer, Forget(n) PROVE Tables'
  <2>1. PICK c \in DOMAIN table[n] :
          table' = [ table EXCEPT ![n] = Restrict(table[n], DOMAIN table[n] \ {c}) ]
    BY <1>2, <1>d DEF Forget
  <2>2. Listed(n, Restrict(table[n], DOMAIN table[n] \ {c}), peak')
    BY <1>s DEF Listed, Restrict
  <2> QED BY <1>u, <2>1, <2>2
<1>3. ASSUME NEW r \in outbox \cup relays, RelayStep(r) PROVE Tables'
  <2>1. /\ r[1] \in Peer /\ r[2] \in Peer /\ r[1] # r[2]
        /\ Len(r[3]) <= peak[r[1]] /\ Len(r[3]) \in Nat
    BY DEF SyncInv, SentIsHeld
  <2>2. \A m \in Peer : Call(r[1], r[2]) = Call(m, r[2]) => m = r[1]
    BY DEF Call
  <2>3. CASE OpenRelay(r)
    <3>1. table' = [ table EXCEPT ![r[2]] =
             Upsert(table[r[2]], Call(r[1], r[2]), r[1], Height(r[1])) ]
      BY <1>d, <2>1, <2>3 DEF OpenRelay
    <3>2. Listed(r[2], Upsert(table[r[2]], Call(r[1], r[2]), r[1], Height(r[1])), peak')
      BY <1>h, <1>s, <2>1, <2>2, UpsertLists
    <3> QED BY <1>u, <2>1, <3>1, <3>2
  <2>4. CASE AcceptBlock(r) \/ RefuseBlock(r)
    <3>1. table' = [ table EXCEPT ![r[2]] = Note(table[r[2]], Call(r[1], r[2]), Len(r[3])) ]
      BY <1>d, <2>1, <2>4 DEF AcceptBlock, RefuseBlock
    <3>2. Len(r[3]) <= peak'[r[1]]
      BY <1>h, <2>1
    <3>3. Listed(r[2], Note(table[r[2]], Call(r[1], r[2]), Len(r[3])), peak')
      BY <1>s, <2>1, <3>2, NoteLists
    <3> QED BY <1>u, <2>1, <3>1, <3>3
  <2> QED BY <1>3, <2>3, <2>4 DEF RelayStep
<1>4. ASSUME NEW n \in Peer, AskPeer(n) PROVE Tables'
  <2>1. PICK e \in session[n].todo :
          table' = [ table EXCEPT ![e[1]] = Upsert(@, Call(n, e[1]), n, Height(n)) ]
    BY <1>4 DEF AskPeer
  <2>2. e[1] \in Peer /\ e[1] # n
    BY DEF SyncInv, Sessions, Counts
  <2>3. table' = [ table EXCEPT ![e[1]] = Upsert(table[e[1]], Call(n, e[1]), n, Height(n)) ]
    BY <1>d, <2>1, <2>2
  <2>4. \A m \in Peer : Call(n, e[1]) = Call(m, e[1]) => n = m
    BY DEF Call
  <2>5. Listed(e[1], Upsert(table[e[1]], Call(n, e[1]), n, Height(n)), peak')
    BY <1>h, <1>s, <2>2, <2>4, UpsertLists
  <2> QED BY <1>u, <2>2, <2>3, <2>5
<1>5. ASSUME NEW n \in Peer,
             \/ Mine(n) \/ Announce(n) \/ Reset(n) \/ LosePeer(n) \/ AbortSync(n)
             \/ StartSync(n) \/ ServeHeaders(n) \/ ReceiveBlock(n)
             \/ AddReceived(n) \/ SkipReceived(n) \/ CountImported(n) \/ EndSync(n)
      PROVE  Tables'
  BY <1>5, <1>v DEF Mine, Announce, Reset, LosePeer, AbortSync, StartSync, ServeHeaders,
     ReceiveBlock, AddReceived, SkipReceived, CountImported, EndSync
<1>6. ASSUME NEW r, LoseRelay(r) PROVE Tables'
  BY <1>6, <1>v DEF LoseRelay
<1>7. ASSUME NEW l, Disconnect(l) PROVE Tables'
  BY <1>7, <1>v DEF Disconnect
<1>8. CASE UNCHANGED vars
  BY <1>8, <1>v DEF vars
<1> QED BY <1>1, <1>2, <1>3, <1>4, <1>5, <1>6, <1>7, <1>8 DEF Next, SyncStep

-----------------------------------------------------------------------------
(* Calls of synchronize_blocks. *)

\* A reading of the height made up for by what was gained since.
LEMMA AddSums ==
    ASSUME NEW a \in Nat, NEW l \in Nat, NEW h \in Nat, NEW g \in Nat, NEW f \in Nat,
           NEW p \in Nat, a + h <= g + p, l + g <= h + f
    PROVE  a + l <= f + p
OBVIOUS

\* What a session has imported, its node has gained.
LEMMA StepsCount ==
    ASSUME SyncInv, Chains', Grows, [Next]_vars
    PROVE  Sessions'
<1> DEFINE Fits(n, s) ==
       /\ s \in Session
       /\ s.todo \subseteq (Peer \ {n}) \X Nat
       /\ s.peer = NoPeer <=> s.phase \in {"idle", "asking"}
       /\ s.phase # "idle" => s.began + s.imported <= grown'[n]
       /\ s.phase \in {"adding", "counting"} =>
             /\ s.began + s.imported + Len(tip'[n]) <= grown'[n] + s.previous_height
             /\ s.wire # <<>>
<1>n. NoPeer \notin Peer /\ MaxRequest \in Nat
  BY SyncAssumption
<1>h. \A n \in Peer : /\ Height(n) \in Nat /\ Len(tip'[n]) \in Nat
                      /\ grown[n] \in Nat /\ grown'[n] \in Nat /\ grown[n] <= grown'[n]
                      /\ Len(tip'[n]) + grown[n] <= Height(n) + grown'[n]
  BY HeightIsNat DEF SyncInv, Chains, ChainTypes, Grows, Height
<1>c. \A n \in Peer : Counts(n, session[n]) /\ session[n] \in Session
  BY DEF SyncInv, Sessions, Counts
<1>t. \A s \in Session : /\ s.began \in Nat /\ s.imported \in Nat
                         /\ s.previous_height \in Nat /\ s.local_height \in Nat
                         /\ s.count \in Nat /\ s.wire \in Seq(Seq(Mark))
  BY DEF Session
<1>s. \A n \in Peer : Fits(n, session[n])
  <2> SUFFICES ASSUME NEW n \in Peer PROVE Fits(n, session[n])
    OBVIOUS
  <2> DEFINE s == session[n]
  <2>1. s \in Session /\ Counts(n, s)
    BY <1>c
  <2>2. s.began \in Nat /\ s.imported \in Nat /\ s.previous_height \in Nat
    BY <1>t, <2>1
  <2> HIDE DEF s
  <2>3. s.phase # "idle" => s.began + s.imported <= grown'[n]
    BY <1>h, <2>1, <2>2 DEF Counts
  <2>4. ASSUME s.phase \in {"adding", "counting"}
        PROVE  s.began + s.imported + Len(tip'[n]) <= grown'[n] + s.previous_height
    <3>1. s.began + s.imported + Height(n) <= grown[n] + s.previous_height
      BY <2>1, <2>4 DEF Counts
    <3>2. s.began + s.imported \in Nat
      BY <2>2
    <3>3. Len(tip'[n]) + grown[n] <= Height(n) + grown'[n]
      BY <1>h
    <3> HIDE DEF Fits
    <3> QED BY <1>h, <2>2, <3>1, <3>2, <3>3, AddSums
  <2> HIDE DEF Fits
  <2>5. Fits(n, s)
    BY <2>1, <2>3, <2>4 DEF Counts, Fits
  <2> QED BY <2>5 DEF s
<1>u. ASSUME NEW n \in Peer, NEW s, Fits(n, s), session' = [ session EXCEPT ![n] = s ]
      PROVE  Sessions'
  <2>1. session' \in [ Peer -> Session ] /\ \A m \in Peer : Fits(m, session'[m])
    BY <1>s, <1>u DEF SyncInv, Sessions
  <2> QED BY <2>1 DEF Sessions, Counts, Height
<1>v. ASSUME session' = session PROVE Sessions'
  BY <1>s, <1>v DEF SyncInv, Sessions, Counts, Height
<1>w. <<>> \in Seq(Seq(Mark))
  OBVIOUS
<1>i. \A n \in Peer : Fits(n, NoSession)
  BY <1>n, <1>w DEF NoSession, Session
\* A session goes on with the blocks that remain.
<1>r. ASSUME NEW n \in Peer, NEW s \in Session, NEW wire \in Seq(Seq(Mark)),
             s.todo \subseteq (Peer \ {n}) \X Nat, s.peer # NoPeer,
             s.began + s.imported <= grown'[n]
      PROVE  Fits(n, Remaining(s, wire))
  <2>1. CASE wire # <<>>
    <3> DEFINE new == [ s EXCEPT !.phase = "receiving", !.wire = wire ]
    <3>1. new \in Session
      BY DEF Session
    <3>2. /\ new.todo = s.todo /\ new.peer = s.peer /\ new.phase = "receiving"
          /\ new.began = s.began /\ new.imported = s.imported
      BY DEF Session
    <3> HIDE DEF new
    <3>3. Fits(n, new)
      BY <1>r, <3>1, <3>2
    <3> QED BY <2>1, <3>3 DEF Remaining, new
  <2>2. CASE wire = <<>>
    <3> DEFINE new == [ s EXCEPT !.phase = "asking", !.wire = wire, !.peer = NoPeer,
                                 !.count = 0, !.previous_height = 0 ]
    <3>1. new \in Session
      BY DEF Session
    <3>2. /\ new.todo = s.todo /\ new.peer = NoPeer /\ new.phase = "asking"
          /\ new.began = s.began /\ new.imported = s.imported
      BY DEF Session
    <3> HIDE DEF new
    <3>3. Fits(n, new)
      BY <1>r, <3>1, <3>2
    <3> QED BY <2>2, <3>3 DEF Remaining, new
  <2> QED BY <2>1, <2>2
<1> HIDE DEF Fits
<1>1. ASSUME NEW n \in Peer, StartSync(n) PROVE Sessions'
  <2> DEFINE new == [ NoSession EXCEPT !.phase = "asking", !.todo = Heard(n),
                                       !.local_height = Height(n), !.began = grown[n] ]
  <2>1. session' = [ session EXCEPT ![n] = new ]
    BY <1>1 DEF StartSync
  <2>2. Heard(n) \subseteq (Peer \ {n}) \X Nat
    BY DEF Heard, SyncInv, Tables, Listed
  <2>3. NoSession \in Session /\ NoSession.imported = 0 /\ NoSession.peer = NoPeer
    BY <1>w DEF NoSession, Session
  <2>4. new \in Session
    BY <1>h, <2>2, <2>3 DEF Session
  <2>5. /\ new.todo = Heard(n) /\ new.began = grown[n] /\ new.phase = "asking"
        /\ new.imported = 0 /\ new.peer = NoPeer
    BY <2>3 DEF Session
  <2> HIDE DEF new
  <2>6. Fits(n, new)
    BY <1>h, <2>2, <2>4, <2>5 DEF Fits
  <2> QED BY <1>u, <2>1, <2>6
<1>2. ASSUME NEW n \in Peer, AskPeer(n) PROVE Sessions'
  <2>1. PICK e \in session[n].todo :
          /\ session[n].phase = "asking"
          /\ e[2] > session[n].local_height
          /\ session' = [ session EXCEPT
                ![n].phase = "asked", ![n].todo = @ \ {e}, ![n].peer = e[1],
                ![n].count = Lesser(e[2] - session[n].local_height, MaxRequest) ]
    BY <1>2 DEF AskPeer
  <2> DEFINE c == Lesser(e[2] - session[n].local_height, MaxRequest)
             new == [ session[n] EXCEPT !.phase = "asked", !.todo = @ \ {e}, !.peer = e[1],
                                        !.count = c ]
  <2>2. e[1] \in Peer /\ e[2] \in Nat
    BY <1>s DEF Fits
  <2>3. c \in Nat
    BY <1>c, <1>n, <1>t, <2>1, <2>2 DEF Lesser
  <2> HIDE DEF c
  <2>4. session' = [ session EXCEPT ![n] = new ]
    BY <2>1 DEF SyncInv, Sessions, c
  <2>5. new \in Session
    BY <1>c, <2>2, <2>3 DEF Session
  <2>6. /\ new.todo = session[n].todo \ {e} /\ new.peer = e[1] /\ new.phase = "asked"
        /\ new.began = session[n].began /\ new.imported = session[n].imported
    BY <1>c DEF Session
  <2> HIDE DEF new
  <2>7. Fits(n, new)
    BY <1>n, <1>s, <2>1, <2>2, <2>5, <2>6 DEF Fits
  <2> QED BY <1>u, <2>4, <2>7
<1>3. ASSUME NEW n \in Peer, ServeHeaders(n) PROVE Sessions'
  <2> DEFINE s == session[n]
             from == FromHeight(n)
             k == Lesser(s.count, (Height(s.peer) + 1) - from)
             wire == BlocksFromHeight(s.peer, from, s.count)
  <2>1. s.phase = "asked" /\ session' = [ session EXCEPT ![n] = Remaining(s, wire) ]
    BY <1>3 DEF ServeHeaders, SyncInv, Sessions
  <2>2. s.peer \in Peer /\ s.peer # NoPeer
    BY <1>c, <1>s, <2>1 DEF Fits, Session
  <2>3. from \in Nat /\ from > 0 /\ k \in Int /\ k <= (Height(s.peer) + 1) - from
    BY <1>c, <1>h, <1>t, <2>2 DEF FromHeight, Lesser
  <2>4. ASSUME NEW i \in 1..k PROVE SubSeq(tip[s.peer], 1, from + i - 1) \in Seq(Mark)
    <3>1. tip[s.peer] \in Seq(Mark)
      BY <2>2 DEF SyncInv, Chains, ChainTypes
    <3>2. from + i - 1 \in Nat /\ from + i - 1 <= Len(tip[s.peer])
      BY <1>h, <2>2, <2>3 DEF Height
    <3> QED BY <3>1, <3>2
  <2>5. wire \in Seq(Seq(Mark))
    <3> DEFINE l == IF k < 0 THEN 0 ELSE k
    <3>1. l \in Nat /\ 1..l = 1..k
      BY <2>3
    <3>2. wire = [ i \in 1..l |-> SubSeq(tip[s.peer], 1, from + i - 1) ]
      BY <3>1 DEF BlocksFromHeight
    <3> HIDE DEF l, k, wire, from, s
    <3>3. wire \in [ 1..l -> Seq(Mark) ]
      BY <2>4, <3>1, <3>2
    <3> QED BY <3>1, <3>3
  <2>6. Fits(n, Remaining(s, wire))
    <3>1. s \in Session /\ s.todo \subseteq (Peer \ {n}) \X Nat
          /\ s.began + s.imported <= grown'[n]
      BY <1>s, <2>1 DEF Fits
    <3> HIDE DEF s, wire
    <3> QED BY <1>r, <2>2, <2>5, <3>1
  <2> QED BY <1>u, <2>1, <2>6
<1>4. ASSUME NEW n \in Peer, ReceiveBlock(n) PROVE Sessions'
  <2> DEFINE new == [ session[n] EXCEPT !.phase = "adding", !.previous_height = Height(n) ]
  <2>1. /\ session' = [ session EXCEPT ![n] = new ]
        /\ session[n].phase = "receiving" /\ session[n].wire # <<>>
    BY <1>4 DEF ReceiveBlock, SyncInv, Sessions
  <2>2. new \in Session
    BY <1>c, <1>h DEF Session
  <2>3. /\ new.todo = session[n].todo /\ new.peer = session[n].peer /\ new.phase = "adding"
        /\ new.began = session[n].began /\ new.imported = session[n].imported
        /\ new.previous_height = Height(n) /\ new.wire = session[n].wire
    BY <1>c DEF Session
  <2>4. session[n].began + session[n].imported <= grown[n]
    BY <1>c, <2>1 DEF Counts
  <2> HIDE DEF new
  <2>5. /\ new.began + new.imported <= grown'[n]
        /\ new.began + new.imported + Len(tip'[n]) <= grown'[n] + new.previous_height
    <3>1. session[n].began \in Nat /\ session[n].imported \in Nat
      BY <1>c, <1>t
    <3>2. session[n].began + session[n].imported <= grown'[n]
      BY <1>h, <2>4, <3>1
    <3>3. session[n].began + session[n].imported \in Nat
      BY <3>1
    <3>4. session[n].began + session[n].imported + Height(n) <= grown[n] + Height(n)
      BY <1>h, <2>4, <3>3
    <3>5. Len(tip'[n]) + grown[n] <= Height(n) + grown'[n]
      BY <1>h
    <3>6. session[n].began + session[n].imported + Len(tip'[n]) <= grown'[n] + Height(n)
      BY <1>h, <3>3, <3>4, <3>5, AddSums
    <3> QED BY <2>3, <3>2, <3>6
  <2>6. Fits(n, new)
    BY <1>s, <2>1, <2>2, <2>3, <2>5 DEF Fits
  <2> QED BY <1>u, <2>1, <2>6
<1>5. ASSUME NEW n \in Peer, AddReceived(n) PROVE Sessions'
  <2> DEFINE new == [ session[n] EXCEPT !.phase = "counting" ]
  <2>1. session' = [ session EXCEPT ![n] = new ] /\ session[n].phase = "adding"
    BY <1>5 DEF AddReceived, SyncInv, Sessions
  <2>2. new \in Session
    BY <1>c DEF Session
  <2>3. /\ new.todo = session[n].todo /\ new.peer = session[n].peer /\ new.phase = "counting"
        /\ new.began = session[n].began /\ new.imported = session[n].imported
        /\ new.previous_height = session[n].previous_height /\ new.wire = session[n].wire
    BY <1>c DEF Session
  <2> HIDE DEF new
  <2>4. Fits(n, new)
    BY <1>s, <2>1, <2>2, <2>3 DEF Fits
  <2> QED BY <1>u, <2>1, <2>4
<1>6. ASSUME NEW n \in Peer, SkipReceived(n) PROVE Sessions'
  <2> DEFINE s == session[n]
  <2>1. s.phase = "adding" /\ session' = [ session EXCEPT ![n] = Remaining(s, Tail(s.wire)) ]
    BY <1>6 DEF SkipReceived, SyncInv, Sessions
  <2>2. /\ s \in Session /\ s.todo \subseteq (Peer \ {n}) \X Nat
        /\ s.began + s.imported <= grown'[n]
        /\ s.peer # NoPeer /\ s.wire \in Seq(Seq(Mark)) /\ s.wire # <<>>
    BY <1>s, <1>t, <2>1 DEF Fits
  <2> HIDE DEF s
  <2>3. Tail(s.wire) \in Seq(Seq(Mark))
    BY <2>2
  <2>4. Fits(n, Remaining(s, Tail(s.wire)))
    BY <1>r, <2>2, <2>3
  <2> QED BY <1>u, <2>1, <2>4
<1>7. ASSUME NEW n \in Peer, CountImported(n) PROVE Sessions'
  <2> DEFINE s == session[n]
             growth == Larger(Height(n), s.previous_height) - s.previous_height
             counted == [ s EXCEPT !.imported = @ + growth,
                                   !.local_height = IF growth > 0 THEN Height(n) ELSE @ ]
  <2>1. s.phase = "counting"
        /\ session' = [ session EXCEPT ![n] = Remaining(counted, Tail(counted.wire)) ]
    BY <1>7 DEF CountImported, SyncInv, Sessions
  <2>2. /\ s \in Session /\ s.todo \subseteq (Peer \ {n}) \X Nat
        /\ s.began + s.imported <= grown[n]
        /\ s.began + s.imported + Height(n) <= grown[n] + s.previous_height
        /\ s.peer # NoPeer /\ s.wire \in Seq(Seq(Mark)) /\ s.wire # <<>>
    BY <1>c, <1>s, <1>t, <2>1 DEF Fits, Counts
  <2>3. growth \in Nat /\ s.began + s.imported + growth <= grown[n]
    BY <1>h, <1>t, <2>2 DEF Larger
  <2> HIDE DEF growth, s
  <2>4. counted \in Session
    <3> DEFINE v == s.imported + growth
               w == IF growth > 0 THEN Height(n) ELSE s.local_height
    <3>1. v \in Nat /\ w \in Nat
      BY <1>h, <1>t, <2>2, <2>3
    <3>2. counted = [ s EXCEPT !.imported = v, !.local_height = w ]
      BY <2>2 DEF Session
    <3> HIDE DEF v, w, counted
    <3> QED BY <2>2, <3>1, <3>2 DEF Session
  <2>5. /\ counted.todo = s.todo /\ counted.peer = s.peer /\ counted.wire = s.wire
        /\ counted.began = s.began /\ counted.imported = s.imported + growth
    BY <2>2 DEF Session
  <2> HIDE DEF counted
  <2>6. counted.began + counted.imported <= grown'[n]
    BY <1>h, <1>t, <2>2, <2>3, <2>5
  <2>7. Tail(counted.wire) \in Seq(Seq(Mark))
    BY <2>2, <2>5
  <2>8. Fits(n, Remaining(counted, Tail(counted.wire)))
    BY <1>r, <2>2, <2>4, <2>5, <2>6, <2>7
  <2> QED BY <1>u, <2>1, <2>8
<1>8. ASSUME NEW n \in Peer, EndSync(n) \/ AbortSync(n) PROVE Sessions'
  <2>1. session' = [ session EXCEPT ![n] = NoSession ]
    BY <1>8 DEF EndSync, AbortSync
  <2> QED BY <1>i, <1>u, <2>1
<1>9. ASSUME NEW n \in Peer, LosePeer(n) PROVE Sessions'
  <2> DEFINE s == session[n]
  <2>1. /\ s.phase \in {"asked", "receiving"}
        /\ session' = [ session EXCEPT ![n] = Remaining(s, <<>>) ]
    BY <1>9 DEF LosePeer, SyncInv, Sessions
  <2>2. /\ s \in Session /\ s.todo \subseteq (Peer \ {n}) \X Nat
        /\ s.began + s.imported <= grown'[n] /\ s.peer # NoPeer
    BY <1>s, <2>1 DEF Fits
  <2> HIDE DEF s
  <2>3. Fits(n, Remaining(s, <<>>))
    BY <1>r, <1>w, <2>2
  <2> QED BY <1>u, <2>1, <2>3
<1>10. ASSUME NEW n \in Peer, NEW m \in Peer, Connect(n, m) PROVE Sessions'
  BY <1>10, <1>v DEF Connect
<1>11. ASSUME NEW n \in Peer, Mine(n) \/ Announce(n) \/ Reset(n) \/ Forget(n) PROVE Sessions'
  BY <1>11, <1>v DEF Mine, Announce, Reset, Forget
<1>12. ASSUME NEW r, RelayStep(r) \/ LoseRelay(r) PROVE Sessions'
  BY <1>12, <1>v DEF RelayStep, OpenRelay, AcceptBlock, RefuseBlock, LoseRelay
<1>13. ASSUME NEW l, Disconnect(l) PROVE Sessions'
  BY <1>13, <1>v DEF Disconnect
<1>14. CASE UNCHANGED vars
  BY <1>14, <1>v DEF vars
<1> QED
  BY <1>1, <1>2, <1>3, <1>4, <1>5, <1>6, <1>7, <1>8, <1>9, <1>10, <1>11, <1>12, <1>13, <1>14
  DEF Next, SyncStep

-----------------------------------------------------------------------------
\* The links stay those of the network, and failures within its bound.
LEMMA StepsKeepWorld == SyncInv /\ [Next]_vars => World'
<1> SUFFICES ASSUME SyncInv, [Next]_vars PROVE World'
  OBVIOUS
<1>w. World
  BY DEF SyncInv
<1>f. network.failures \in Nat
  BY SyncAssumption DEF SyncInv, World
<1>u. ASSUME UNCHANGED <<world, links>>, failures' = failures \/ Fails PROVE World'
  BY <1>f, <1>u, <1>w DEF World, Fails, world
<1>1. ASSUME NEW n \in Peer, NEW m \in Peer, Connect(n, m) PROVE World'
  BY <1>1, <1>w DEF Connect, World, world
<1>2. ASSUME NEW n \in Peer,
             \/ Mine(n) \/ Announce(n) \/ Forget(n) \/ LosePeer(n) \/ AbortSync(n)
             \/ SyncStep(n)
      PROVE  World'
  BY <1>2, <1>u DEF Mine, Announce, Forget, LosePeer, AbortSync, SyncStep, StartSync, AskPeer,
     ServeHeaders, ReceiveBlock, AddReceived, SkipReceived, CountImported, EndSync
<1>3. ASSUME NEW r, RelayStep(r) \/ LoseRelay(r) PROVE World'
  BY <1>3, <1>u DEF RelayStep, OpenRelay, AcceptBlock, RefuseBlock, LoseRelay
<1>4. ASSUME NEW l, Disconnect(l) PROVE World'
  <2>1. UNCHANGED world /\ links' \subseteq links /\ Fails
    BY <1>4 DEF Disconnect
  <2> QED BY <1>f, <1>w, <2>1 DEF World, Fails, world
<1>5. ASSUME NEW n \in Peer, Reset(n) PROVE World'
  <2>1. /\ resets' = [ resets EXCEPT ![n] = @ + 1 ]
        /\ UNCHANGED <<network, links, failures>>
    BY <1>5 DEF Reset
  <2> QED BY <1>w, <2>1 DEF World
<1>6. CASE UNCHANGED vars
  BY <1>6, <1>u DEF vars
<1> QED BY <1>1, <1>2, <1>3, <1>4, <1>5, <1>6 DEF Next

\* Every step keeps the invariant.
LEMMA NextKeepsSync == SyncInv /\ [Next]_vars => SyncInv'
BY StepsGrow, StepsHold, StepsList, StepsCount, StepsKeepWorld DEF SyncInv

\* The inductive invariant is one.
LEMMA SyncInvariant == Spec => []SyncInv
BY InitEstablishesSync, NextKeepsSync, PTL DEF Spec

\* Stores hold blocks, messages carry them, tables list other nodes and calls
\* ask other nodes; a call has a peer exactly while it waits for one.
THEOREM SyncTypes == Spec => []TypeOK
<1>1. SyncInv => TypeOK
  <2> SUFFICES ASSUME SyncInv PROVE TypeOK
    OBVIOUS
  <2>1. /\ \A n \in Peer : tip[n] \in store[n]
        /\ {peak, grown, resets} \subseteq [ Peer -> Nat ]
    BY DEF SyncInv, Chains, ChainTypes, World
  <2>2. outbox \cup relays \subseteq Peer \X Peer \X Seq(Mark)
    BY DEF SyncInv, SentIsHeld
  <2>3. DOMAIN table = Peer /\ \A n \in Peer : \A c \in DOMAIN table[n] :
          table[n][c] \in [ address : Peer \ {n}, best_height : Nat ]
    BY DEF SyncInv, Tables, Listed
  <2> QED BY <2>1, <2>2, <2>3 DEF SyncInv, World, Chains, ChainTypes, Sessions, Counts, TypeOK
<1> QED BY <1>1, SyncInvariant, PTL

\* A peer is never listed higher than it is or was before a reset, whatever a
\* node heard of it in handshakes and blocks, and however long ago.
THEOREM HeardHeightsAreHeld == Spec => []HeardIsHeld
<1>1. SyncInv => HeardIsHeld
  BY DEF SyncInv, Tables, Listed, HeardIsHeld
<1> QED BY <1>1, SyncInvariant, PTL

\* synchronize_blocks never reports more imported blocks than the heights the
\* node gained meanwhile, whoever adds blocks between its readings of the
\* height, and whenever the button resets it.
THEOREM ImportsAreGrowth == Spec => []ImportedWithinGrowth
<1>1. SyncInv => ImportedWithinGrowth
  BY DEF SyncInv, Sessions, Counts, Session, Chains, ChainTypes, ImportedWithinGrowth
<1> QED BY <1>1, SyncInvariant, PTL

\* A node sends a block when it found it itself or just added it.
LEMMA StepsSendNew == SyncInv /\ [Next]_vars =>
    \A r \in outbox' \ outbox :
        \/ r[3] = found[r[1]] /\ notified[r[1]] # r[3]
        \/ r[3] \in store'[r[1]] \ store[r[1]]
<1> SUFFICES ASSUME SyncInv, [Next]_vars, NEW s \in outbox' \ outbox
             PROVE  \/ s[3] = found[s[1]] /\ notified[s[1]] # s[3]
                    \/ s[3] \in store'[s[1]] \ store[s[1]]
  OBVIOUS
<1>1. ASSUME NEW n \in Peer, Announce(n) PROVE s[3] = found[s[1]] /\ notified[s[1]] # s[3]
  BY <1>1 DEF Announce, SendTo
<1>2. ASSUME NEW r \in outbox \cup relays, AcceptBlock(r)
      PROVE  s[3] \in store'[s[1]] \ store[s[1]]
  <2>1. r[2] \in Peer /\ s[1] = r[2] /\ s[3] = r[3]
    BY <1>2 DEF AcceptBlock, SendTo, SyncInv, SentIsHeld
  <2>2. r[3] \notin store[r[2]] /\ r[3] \in store'[r[2]]
    BY <1>2, <2>1 DEF AcceptBlock, CanAdd, AddBlock, SyncInv, Chains, ChainTypes
  <2> QED BY <2>1, <2>2
<1>3. ASSUME outbox' \subseteq outbox PROVE FALSE
  BY <1>3
<1>4. ASSUME NEW n \in Peer, NEW m \in Peer, Connect(n, m) PROVE FALSE
  BY <1>3, <1>4 DEF Connect
<1>5. ASSUME NEW n \in Peer,
             \/ Mine(n) \/ Reset(n) \/ Forget(n) \/ LosePeer(n) \/ AbortSync(n)
             \/ SyncStep(n)
      PROVE  FALSE
  BY <1>3, <1>5 DEF Mine, Reset, Forget, LosePeer, AbortSync, SyncStep, StartSync, AskPeer,
     ServeHeaders, ReceiveBlock, AddReceived, SkipReceived, CountImported, EndSync
<1>6. ASSUME NEW r \in outbox \cup relays, OpenRelay(r) \/ RefuseBlock(r) \/ LoseRelay(r)
      PROVE  FALSE
  BY <1>3, <1>6 DEF OpenRelay, RefuseBlock, LoseRelay
<1>7. ASSUME NEW l, Disconnect(l) PROVE FALSE
  BY <1>3, <1>7 DEF Disconnect
<1>8. ~UNCHANGED vars
  BY <1>3 DEF vars
<1> QED BY <1>1, <1>2, <1>4, <1>5, <1>6, <1>7, <1>8 DEF Next, RelayStep

\* Blocks do not go round in circles: what a node puts into its outbox, it
\* found itself and has not notified of since its last reset, or received in
\* this very step.
THEOREM SendsNewBlocks == Spec => SentWhenNew
<1>1. SyncInv /\ [Next]_vars =>
        [ \A r \in outbox' \ outbox :
            \/ r[3] = found[r[1]] /\ notified[r[1]] # r[3]
            \/ r[3] \in store'[r[1]] \ store[r[1]] ]_vars
  BY StepsSendNew
<1> QED BY <1>1, SyncInvariant, PTL DEF Spec, SentWhenNew
================================================================================
