--------------------------- MODULE PeerTable_proofs ----------------------------
(***************************************************************************)
(* The table of peers and the list of the node that mirrors it, for any    *)
(* hosts that connect to each other in any way.  The list may lack peers   *)
(* of the table, after a reset; once it is written it never has one that   *)
(* the table has not, because it is rewritten whenever an entry goes, and  *)
(* what changes an entry otherwise keeps its address.                      *)
(*                                                                         *)
(* The entry of a connection that works is no older than the number of its *)
(* pings that lie unread, whatever passes between them: so one that is     *)
(* pruned had an expiry time of pings unread, or a clock that stepped back.*)
(***************************************************************************)
EXTENDS PeerTable, TLAPS

\* A table whose entries have ages of A.
TableType(t, A) ==
    /\ DOMAIN t \subseteq Peer \cup Conn
    /\ \A k \in DOMAIN t : t[k] \in [ address : Peer, age : A ]

\* The ages by the clock of a host: below 0 only after it stepped back.
Ages(n) == (IF n \in stepped THEN 0 - Back ELSE 0)..Oldest(n)

Ends == [ dialer : Phase, acceptor : Phase, up : BOOLEAN, pings : [ End -> 0..Expiry ] ]

TablesInv ==
    /\ DOMAIN table = Peer /\ DOMAIN list = Peer
    /\ \A n \in Peer :
          /\ TableType(table[n], Ages(n))
          /\ list[n] \subseteq Addresses(table[n]) \/ list[n] = network.saved[n]

ConnsInv == DOMAIN conns \subseteq Conn /\ \A c \in DOMAIN conns : conns[c] \in Ends

RelaysInv ==
    DOMAIN relays \subseteq Conn /\ \A d \in DOMAIN relays : relays[d] \in Conn \X End

TodoInv == DOMAIN todo = Peer /\ \A n \in Peer : todo[n] \subseteq Peer

BoundsInv ==
    /\ network \in Networks
    /\ asked \subseteq Conn \X End
    /\ stepped \subseteq network.stepping
    /\ failures \in 0..network.failures
    /\ visits \in 0..network.visits
    /\ resets \in 0..network.resets

\* The inductive invariant.
PeerInv == TablesInv /\ ConnsInv /\ RelaysInv /\ TodoInv /\ BoundsInv

-----------------------------------------------------------------------------
\* The hosts at a connection's ends, and the keys they use for each other.
LEMMA EndsAreHosts ==
    ASSUME NEW c \in Conn, NEW e \in End
    PROVE  /\ At(c, e) \in Peer /\ At(c, Far(e)) \in Peer
           /\ Key(c, e) \in Peer \cup Conn /\ Key(c, Far(e)) \in Peer \cup Conn
BY DEF Conn, End, At, Far, Key

\* Of a network, what the counts and the clocks are compared with.
LEMMA NetworkTypes ==
    ASSUME network \in Networks
    PROVE  /\ network.failures \in Nat /\ network.visits \in Nat /\ network.resets \in Nat
           /\ network.saved \in [ Peer -> SUBSET Peer ] /\ network.stepping \subseteq Peer
           /\ network.dials \subseteq Peer \X Peer
BY PeerTableAssumption

\* An entry that was just noted has an age by every clock.
LEMMA AgesHaveZero == ASSUME NEW n PROVE 0 \in Ages(n) /\ Ages(n) \subseteq Int
BY PeerTableAssumption DEF Ages, Oldest

\* An entry more leaves a table.
LEMMA UpsertedIsTable ==
    ASSUME NEW t, NEW A, 0 \in A, TableType(t, A), NEW key \in Peer \cup Conn,
           NEW address \in Peer
    PROVE  TableType(Upserted(t, key, address), A)
BY DEF TableType, Upserted

\* So does an entry less.
LEMMA RestrictedIsTable ==
    ASSUME NEW t, NEW A, TableType(t, A), NEW S \in SUBSET DOMAIN t
    PROVE  TableType(Restrict(t, S), A)
BY DEF TableType, Restrict

\* Hearing of peers makes their entries young and keeps addresses and the others.
LEMMA NotedIsTable ==
    ASSUME NEW t, NEW A, 0 \in A, TableType(t, A), NEW keys
    PROVE  /\ TableType(Noted(t, keys), A) /\ Addresses(Noted(t, keys)) = Addresses(t)
           /\ DOMAIN Noted(t, keys) = DOMAIN t
           /\ \A k \in DOMAIN t :
                 Noted(t, keys)[k].age = IF k \in keys THEN 0 ELSE t[k].age
<1> DEFINE u == Noted(t, keys)
<1>1. DOMAIN u = DOMAIN t
  BY DEF Noted
<1>2. ASSUME NEW k \in DOMAIN t
      PROVE  /\ u[k] \in [ address : Peer, age : A ] /\ u[k].address = t[k].address
             /\ u[k].age = IF k \in keys THEN 0 ELSE t[k].age
  <2>1. t[k] \in [ address : Peer, age : A ]
    BY DEF TableType
  <2>2. u[k] = IF k \in keys THEN [ t[k] EXCEPT !.age = 0 ] ELSE t[k]
    BY DEF Noted
  <2> QED BY <2>1, <2>2
<1> HIDE DEF u
<1>3. TableType(u, A)
  BY <1>1, <1>2 DEF TableType
<1>4. Addresses(u) = Addresses(t)
  BY <1>1, <1>2 DEF Addresses
<1> QED BY <1>1, <1>2, <1>3, <1>4 DEF u

\* The addresses of a table are hosts.
LEMMA AddressesArePeers ==
    ASSUME NEW t, NEW A, TableType(t, A) PROVE Addresses(t) \subseteq Peer
BY DEF TableType, Addresses

\* The table is changed, and the list after it.
LEMMA SetTableKeepsTables ==
    ASSUME TablesInv, UNCHANGED <<network, stepped>>, NEW n \in Peer, NEW t,
           TableType(t, Ages(n)), SetTable(n, t)
    PROVE  TablesInv'
<1>1. DOMAIN table' = Peer /\ DOMAIN list' = Peer
  BY DEF SetTable, TablesInv
<1>2. table'[n] = t /\ list'[n] = Addresses(t)
  BY DEF SetTable, TablesInv
<1>3. \A m \in Peer \ {n} : table'[m] = table[m] /\ list'[m] = list[m]
  BY DEF SetTable, TablesInv
<1>4. \A m \in Peer : Ages(m)' = Ages(m)
  BY DEF Ages, Oldest
<1>5. ASSUME NEW m \in Peer
      PROVE  /\ TableType(table'[m], Ages(m))
             /\ list'[m] \subseteq Addresses(table'[m]) \/ list'[m] = network.saved[m]
  BY <1>2, <1>3 DEF TablesInv
<1> QED BY <1>1, <1>4, <1>5 DEF TablesInv, TableType, Addresses

\* Entries become younger or older, and stay with their addresses.
LEMMA AgeingKeepsTables ==
    ASSUME TablesInv, UNCHANGED <<network, list>>, DOMAIN table' = Peer,
           \A n \in Peer : /\ TableType(table'[n], Ages(n)')
                           /\ Addresses(table'[n]) = Addresses(table[n])
    PROVE  TablesInv'
BY DEF TablesInv, TableType, Addresses

\* Nothing of the tables changes.
LEMMA SameTables ==
    ASSUME TablesInv, UNCHANGED <<network, stepped, table, list>>
    PROVE  TablesInv'
BY DEF TablesInv, TableType, Addresses, Ages, Oldest

\* upsert_peer keeps the tables.
LEMMA UpsertKeepsTables ==
    ASSUME TablesInv, UNCHANGED <<network, stepped>>, NEW c \in Conn, NEW e \in End,
           UpsertPeer(c, e)
    PROVE  TablesInv'
<1>1. /\ At(c, e) \in Peer /\ At(c, Far(e)) \in Peer /\ Key(c, e) \in Peer \cup Conn
  BY EndsAreHosts
<1>2. TableType(table[At(c, e)], Ages(At(c, e))) /\ 0 \in Ages(At(c, e))
  BY <1>1, AgesHaveZero DEF TablesInv
<1> QED BY <1>1, <1>2, UpsertedIsTable, SetTableKeepsTables DEF UpsertPeer

\* remove_peer keeps them.
LEMMA RemoveKeepsTables ==
    ASSUME TablesInv, UNCHANGED <<network, stepped>>, NEW c \in Conn, NEW e \in End,
           RemovePeer(c, e)
    PROVE  TablesInv'
<1>1. At(c, e) \in Peer
  BY EndsAreHosts
<1>2. TableType(table[At(c, e)], Ages(At(c, e)))
  BY <1>1 DEF TablesInv
<1> QED BY <1>1, <1>2, RestrictedIsTable, SetTableKeepsTables DEF RemovePeer

\* The connections that can be made are connections.
LEMMA FreeIsConn ==
    ASSUME NEW n \in Peer, NEW a \in Peer, NEW d \in Free(n, a)
    PROVE  d \in Conn /\ d \notin DOMAIN conns
<1>1. PICK i \in 1..MaxCopies : <<n, a, i>> \notin DOMAIN conns /\ d = <<n, a, i>>
  BY DEF Free
<1> QED BY <1>1 DEF Conn

\* A new connection.
LEMMA DialKeepsConns ==
    ASSUME ConnsInv, NEW d \in Conn, NEW phase \in Phase, Dial(d, phase)
    PROVE  ConnsInv'
<1>1. Dialled(phase) \in Ends
  BY PeerTableAssumption DEF Dialled, Ends, Phase
<1> QED BY <1>1 DEF Dial, ConnsInv

\* There are no connections and no entries at first.
LEMMA InitEstablishesPeers == Init => PeerInv
<1> SUFFICES ASSUME Init PROVE PeerInv
  OBVIOUS
<1>1. TablesInv
  BY NetworkTypes DEF Init, TablesInv, TableType, Addresses
<1>2. ConnsInv /\ RelaysInv
  BY DEF Init, ConnsInv, RelaysInv
<1>3. TodoInv
  BY DEF Init, TodoInv
<1>4. BoundsInv
  BY NetworkTypes DEF Init, BoundsInv
<1> QED BY <1>1, <1>2, <1>3, <1>4 DEF PeerInv

\* Steps that dial, and leave the tables alone.
LEMMA DialingKeepsPeers ==
    ASSUME PeerInv, NEW n \in Peer, ConnectPeer(n) \/ Visit(n)
    PROVE  PeerInv'
<1>0. TablesInv' /\ RelaysInv'
  BY SameTables DEF ConnectPeer, Visit, PeerInv, RelaysInv
<1>1. CASE ConnectPeer(n)
  <2>1. PICK a \in todo[n] :
          /\ todo' = [ todo EXCEPT ![n] = @ \ {a} ]
          /\ conns' = conns \/ \E d \in Free(n, a) : Dial(d, "opening")
          /\ UNCHANGED <<network, asked, stepped, counts>>
    BY <1>1 DEF ConnectPeer
  <2>2. a \in Peer /\ "opening" \in Phase
    BY DEF PeerInv, TodoInv, Phase
  <2>3. ConnsInv'
    <3>1. CASE conns' = conns
      BY <3>1 DEF PeerInv, ConnsInv
    <3>2. ASSUME NEW d \in Free(n, a), Dial(d, "opening") PROVE ConnsInv'
      BY <2>2, <3>2, FreeIsConn, DialKeepsConns DEF PeerInv
    <3> QED BY <2>1, <3>1, <3>2
  <2>4. TodoInv'
    BY <2>1 DEF PeerInv, TodoInv
  <2> QED BY <1>0, <2>1, <2>3, <2>4 DEF PeerInv, BoundsInv, counts
<1>2. CASE Visit(n)
  <2>1. PICK a \in Addresses(table[n]) : \E d \in Free(n, a) : Dial(d, "visit")
    BY <1>2 DEF Visit
  <2>2. a \in Peer /\ "visit" \in Phase
    BY AddressesArePeers DEF PeerInv, TablesInv, Phase
  <2>3. ConnsInv'
    BY <2>1, <2>2, FreeIsConn, DialKeepsConns DEF PeerInv
  <2>4. BoundsInv'
    BY <1>2, NetworkTypes DEF Visit, PeerInv, BoundsInv
  <2> QED BY <1>0, <1>2, <2>3, <2>4 DEF Visit, PeerInv, TodoInv
<1> QED BY <1>1, <1>2

\* A reader that relays: it hears of its peer, and visits another.
LEMMA RelayingKeepsPeers ==
    ASSUME PeerInv, NEW c \in DOMAIN conns, NEW e \in End, Relay(c, e)
    PROVE  PeerInv'
<1> DEFINE n == At(c, e)
           t == Noted(table[n], {Key(c, e)})
<1>1. c \in Conn /\ n \in Peer /\ TablesInv /\ ConnsInv
  BY EndsAreHosts DEF PeerInv, ConnsInv
<1>2. TableType(t, Ages(n)) /\ Addresses(t) = Addresses(table[n])
  BY <1>1, NotedIsTable, AgesHaveZero DEF TablesInv
<1>3. PICK a \in Addresses(t) : \E d \in Free(n, a) :
        /\ Dial(d, "visit")
        /\ relays' = [ x \in DOMAIN relays \cup {d} |->
                          IF x = d THEN <<c, e>> ELSE relays[x] ]
  BY DEF Relay
<1>4. a \in Peer /\ "visit" \in Phase
  BY <1>2, AddressesArePeers DEF Phase
<1>5. PICK d \in Free(n, a) :
        /\ Dial(d, "visit")
        /\ relays' = [ x \in DOMAIN relays \cup {d} |->
                          IF x = d THEN <<c, e>> ELSE relays[x] ]
  BY <1>3
<1>6. d \in Conn
  BY <1>1, <1>4, FreeIsConn
<1>7. ConnsInv'
  BY <1>1, <1>4, <1>5, <1>6, DialKeepsConns
<1>8. RelaysInv'
  BY <1>1, <1>5, <1>6 DEF PeerInv, RelaysInv
<1>9. TablesInv'
  <2>1. UNCHANGED <<network, stepped>>
    BY DEF Relay
  <2>2. CASE SetTable(n, t)
    BY <1>1, <1>2, <2>1, <2>2, SetTableKeepsTables
  <2>3. CASE table' = [ table EXCEPT ![n] = t ] /\ UNCHANGED list
    <3>1. DOMAIN table' = Peer /\ \A m \in Peer : Ages(m)' = Ages(m)
      BY <1>1, <2>1, <2>3 DEF TablesInv, Ages, Oldest
    <3>2. \A m \in Peer : /\ TableType(table'[m], Ages(m))
                          /\ Addresses(table'[m]) = Addresses(table[m])
      BY <1>1, <1>2, <2>3 DEF TablesInv
    <3> QED BY <1>1, <2>1, <2>3, <3>1, <3>2, AgeingKeepsTables
  <2> QED BY <2>2, <2>3 DEF Relay
<1>10. BoundsInv'
  BY NetworkTypes DEF Relay, PeerInv, BoundsInv
<1> QED BY <1>7, <1>8, <1>9, <1>10 DEF Relay, PeerInv, TodoInv

\* Steps of a connection that only change it.
LEMMA ConnectionStepKeepsPeers ==
    ASSUME PeerInv, NEW c \in DOMAIN conns,
           \/ Accept(c) \/ LeaveEarly(c) \/ Break(c) \/ Close(c)
           \/ \E e \in End : NoticeWriting(c, e)
    PROVE  PeerInv'
<1>1. UNCHANGED <<network, table, list, todo, stepped, visits, resets>>
  BY DEF Accept, LeaveEarly, Break, Close, NoticeWriting, counts
<1>2. ConnsInv'
  <2>1. ConnsInv /\ conns[c] \in Ends
    BY DEF PeerInv, ConnsInv
  <2>2. CASE Accept(c)
    BY <2>1, <2>2 DEF Accept, ConnsInv, Ends, Phase
  <2>3. CASE LeaveEarly(c)
    BY <2>1, <2>3 DEF LeaveEarly, ConnsInv, Ends, Phase
  <2>4. CASE Break(c)
    <3> DEFINE p == [ e \in End |-> 0 ]
    <3>1. p \in [ End -> 0..Expiry ]
      BY PeerTableAssumption
    <3>2. conns' = [ conns EXCEPT ![c].up = FALSE, ![c].pings = p ]
      BY <2>4 DEF Break
    <3> HIDE DEF p
    <3> QED BY <2>1, <3>1, <3>2 DEF ConnsInv, Ends
  <2>5. CASE Close(c)
    BY <2>1, <2>5 DEF Close, ConnsInv, Restrict
  <2>6. ASSUME NEW e \in End, NoticeWriting(c, e) PROVE ConnsInv'
    BY <2>1, <2>6 DEF NoticeWriting, End, ConnsInv, Ends, Phase
  <2> QED BY <2>2, <2>3, <2>4, <2>5, <2>6
<1>3. RelaysInv'
  BY DEF Accept, LeaveEarly, Break, Close, NoticeWriting, Restrict, PeerInv, RelaysInv
<1>4. BoundsInv'
  <2>1. asked' \subseteq asked
    BY DEF Accept, LeaveEarly, Break, Close, NoticeWriting
  <2>2. \/ failures' = failures
        \/ failures < network.failures /\ failures' = failures + 1
    BY DEF Accept, LeaveEarly, Break, Close, NoticeWriting, counts
  <2> QED BY <1>1, <2>1, <2>2, NetworkTypes DEF PeerInv, BoundsInv
<1> QED BY <1>1, <1>2, <1>3, <1>4, SameTables DEF PeerInv, TodoInv

\* Steps of a connection that make or remove an entry.
LEMMA EntryStepKeepsPeers ==
    ASSUME PeerInv, NEW c \in DOMAIN conns,
           \/ Greet(c) \/ GreetNobody(c) \/ Welcome(c)
           \/ \E e \in End : Notice(c, e)
    PROVE  PeerInv'
<1>1. UNCHANGED <<network, relays, todo, stepped, counts>>
  BY DEF Greet, GreetNobody, Welcome, Notice
<1>2. c \in Conn /\ conns[c] \in Ends /\ ConnsInv /\ TablesInv
  BY DEF PeerInv, ConnsInv
<1>3. ConnsInv'
  <2>1. CASE Greet(c)
    BY <1>2, <2>1 DEF Greet, ConnsInv, Ends, Phase
  <2>2. CASE GreetNobody(c)
    BY <1>2, <2>2 DEF GreetNobody, ConnsInv, Ends, Phase
  <2>3. CASE Welcome(c)
    BY <1>2, <2>3 DEF Welcome, ConnsInv, Ends, Phase
  <2>4. ASSUME NEW e \in End, Notice(c, e) PROVE ConnsInv'
    BY <1>2, <2>4 DEF Notice, End, ConnsInv, Ends, Phase
  <2> QED BY <2>1, <2>2, <2>3, <2>4
<1>4. TablesInv'
  <2>1. CASE Greet(c) \/ Welcome(c)
    BY <1>1, <1>2, <2>1, UpsertKeepsTables DEF Greet, Welcome, End
  <2>2. CASE GreetNobody(c)
    <3>1. CASE UNCHANGED <<table, list>>
      BY <1>1, <1>2, <3>1, SameTables
    <3> QED BY <1>1, <1>2, <2>2, <3>1, UpsertKeepsTables DEF GreetNobody, End
  <2>3. ASSUME NEW e \in End, Notice(c, e) PROVE TablesInv'
    BY <1>1, <1>2, <2>3, RemoveKeepsTables DEF Notice
  <2> QED BY <2>1, <2>2, <2>3
<1>5. asked' \subseteq asked \cup ({c} \X End)
  BY DEF Greet, GreetNobody, Welcome, Notice, End
<1>6. BoundsInv'
  BY <1>1, <1>2, <1>5 DEF PeerInv, BoundsInv, counts
<1> QED BY <1>1, <1>3, <1>4, <1>6 DEF PeerInv, TodoInv, RelaysInv

\* Steps on which messages are read.
LEMMA HearingKeepsPeers ==
    ASSUME PeerInv, NEW c \in DOMAIN conns, NEW e \in End, TellPeers(c, e) \/ Hear(c, e)
    PROVE  PeerInv'
<1>1. UNCHANGED <<network, relays, list, stepped, counts>>
  BY DEF TellPeers, Hear
<1>2. /\ c \in Conn /\ conns[c] \in Ends /\ TablesInv /\ ConnsInv
      /\ At(c, e) \in Peer /\ At(c, Far(e)) \in Peer
  BY EndsAreHosts DEF PeerInv, ConnsInv
<1>3. \A n \in Peer : \/ table'[n] = table[n]
                      \/ \E keys : table'[n] = Noted(table[n], keys)
  BY <1>2 DEF TellPeers, Hear, TablesInv
<1>4. DOMAIN table' = Peer /\ \A n \in Peer : Ages(n)' = Ages(n)
  BY <1>1, <1>2 DEF TellPeers, Hear, TablesInv, Ages, Oldest
<1>5. ASSUME NEW n \in Peer
      PROVE  TableType(table'[n], Ages(n)) /\ Addresses(table'[n]) = Addresses(table[n])
  <2>1. TableType(table[n], Ages(n)) /\ 0 \in Ages(n)
    BY <1>2, AgesHaveZero DEF TablesInv
  <2> QED BY <1>3, <2>1, NotedIsTable
<1>6. TablesInv'
  BY <1>1, <1>2, <1>4, <1>5, AgeingKeepsTables
<1>7. asked' \subseteq asked
  BY DEF TellPeers, Hear
<1>8. TodoInv'
  <2>1. CASE Hear(c, e)
    BY <2>1 DEF Hear, PeerInv, TodoInv
  <2>2. CASE TellPeers(c, e)
    <3>1. Addresses(table[At(c, e)]) \subseteq Peer
      BY <1>2, AddressesArePeers DEF TablesInv
    <3>2. \E own : todo' = [ todo EXCEPT ![At(c, Far(e))] =
                               @ \cup (Addresses(table[At(c, e)]) \ own) ]
      BY <2>2 DEF TellPeers
    <3> QED BY <1>2, <3>1, <3>2 DEF PeerInv, TodoInv
  <2> QED BY <2>1, <2>2
<1>9. ConnsInv'
  <2>1. CASE TellPeers(c, e)
    BY <1>2, <2>1 DEF TellPeers, ConnsInv
  <2>2. CASE Hear(c, e)
    <3>1. /\ conns[c].pings[e] > 0
          /\ conns' = [ conns EXCEPT ![c].pings[e] = conns[c].pings[e] - 1 ]
      BY <2>2 DEF Hear
    <3>2. conns[c].pings[e] - 1 \in 0..Expiry
      BY <1>2, <3>1, PeerTableAssumption DEF Ends
    <3> HIDE DEF End
    <3> QED BY <1>2, <3>1, <3>2 DEF ConnsInv, Ends
  <2> QED BY <2>1, <2>2
<1> QED BY <1>1, <1>6, <1>7, <1>8, <1>9 DEF PeerInv, RelaysInv, BoundsInv, counts

\* Entries grow older, and pings wait to be read.
LEMMA TickKeepsPeers ==
    ASSUME PeerInv, Tick
    PROVE  PeerInv'
<1>1. UNCHANGED <<network, relays, list, todo, asked, stepped, counts>>
  BY DEF Tick
<1>2. DOMAIN table' = Peer /\ \A n \in Peer : Ages(n)' = Ages(n)
  BY <1>1 DEF Tick, Ages, Oldest
<1>3. ASSUME NEW n \in Peer
      PROVE  TableType(table'[n], Ages(n)) /\ Addresses(table'[n]) = Addresses(table[n])
  <2>1. TableType(table[n], Ages(n))
    BY DEF PeerInv, TablesInv
  <2>2. table'[n] = [ k \in DOMAIN table[n] |->
          [ table[n][k] EXCEPT !.age = IF @ < Oldest(n) THEN @ + 1 ELSE @ ] ]
    BY DEF Tick
  <2>3. ASSUME NEW k \in DOMAIN table[n]
        PROVE  /\ table'[n][k] \in [ address : Peer, age : Ages(n) ]
               /\ table'[n][k].address = table[n][k].address
    <3>1. table[n][k] \in [ address : Peer, age : Ages(n) ]
      BY <2>1 DEF TableType
    <3>2. Oldest(n) \in Int /\ 0 - Back \in Int
      BY PeerTableAssumption DEF Oldest
    <3>3. (IF table[n][k].age < Oldest(n) THEN table[n][k].age + 1 ELSE table[n][k].age)
            \in Ages(n)
      BY <3>1, <3>2 DEF Ages
    <3> QED BY <2>2, <3>1, <3>3
  <2>4. DOMAIN table'[n] = DOMAIN table[n]
    BY <2>2
  <2>5. TableType(table'[n], Ages(n))
    BY <2>1, <2>3, <2>4 DEF TableType
  <2>6. Addresses(table'[n]) = Addresses(table[n])
    BY <2>3, <2>4 DEF Addresses
  <2> QED BY <2>5, <2>6
<1>4. TablesInv'
  BY <1>1, <1>2, <1>3, AgeingKeepsTables DEF PeerInv
<1>5. ConnsInv'
  <2>1. DOMAIN conns' = DOMAIN conns
    BY DEF Tick
  <2>2. ASSUME NEW c \in DOMAIN conns PROVE conns'[c] \in Ends
    <3> DEFINE p == [ e \in End |->
            IF /\ conns[c].up /\ conns[c][Far(e)] = "open"
               /\ conns[c][e] \in {"opening", "open"} /\ conns[c].pings[e] < Expiry
            THEN conns[c].pings[e] + 1 ELSE conns[c].pings[e] ]
    <3>1. conns[c] \in Ends
      BY DEF PeerInv, ConnsInv
    <3>2. conns'[c] = [ conns[c] EXCEPT !.pings = p ]
      BY DEF Tick
    <3>3. p \in [ End -> 0..Expiry ]
      BY <3>1, PeerTableAssumption DEF Ends
    <3> HIDE DEF p
    <3> QED BY <3>1, <3>2, <3>3 DEF Ends
  <2> QED BY <2>1, <2>2 DEF PeerInv, ConnsInv
<1> QED BY <1>1, <1>4, <1>5 DEF PeerInv, RelaysInv, TodoInv, BoundsInv, counts

\* A clock steps back.
LEMMA ClockBackKeepsPeers ==
    ASSUME PeerInv, NEW h \in Peer, ClockBack(h)
    PROVE  PeerInv'
<1>1. UNCHANGED <<network, conns, relays, list, todo, asked, counts>>
  BY DEF ClockBack
<1>2. DOMAIN table' = Peer /\ stepped' = stepped \cup {h} /\ h \notin stepped
      /\ h \in network.stepping
  BY DEF ClockBack, PeerInv, TablesInv
<1>3. ASSUME NEW n \in Peer
      PROVE  TableType(table'[n], Ages(n)') /\ Addresses(table'[n]) = Addresses(table[n])
  <2>1. TableType(table[n], Ages(n))
    BY DEF PeerInv, TablesInv
  <2>2. CASE n # h
    BY <1>1, <1>2, <2>1, <2>2 DEF ClockBack, PeerInv, TablesInv, Ages, Oldest
  <2>3. CASE n = h
    <3>1. table'[h] = [ k \in DOMAIN table[h] |->
                         [ table[h][k] EXCEPT !.age = @ - Back ] ]
      BY DEF ClockBack, PeerInv, TablesInv
    <3>2. Ages(h) = 0..(Expiry + Back) /\ Ages(h)' = (0 - Back)..Expiry
      BY <1>1, <1>2 DEF Ages, Oldest
    <3>3. ASSUME NEW k \in DOMAIN table[h]
          PROVE  /\ table'[h][k] \in [ address : Peer, age : Ages(h)' ]
                 /\ table'[h][k].address = table[h][k].address
      <4>1. table[h][k] \in [ address : Peer, age : 0..(Expiry + Back) ]
        BY <2>1, <2>3, <3>2 DEF TableType
      <4>2. table[h][k].age - Back \in (0 - Back)..Expiry
        BY <4>1, PeerTableAssumption
      <4> QED BY <3>1, <3>2, <4>1, <4>2
    <3>4. DOMAIN table'[h] = DOMAIN table[h]
      BY <3>1
    <3>5. TableType(table'[h], Ages(h)')
      BY <2>1, <2>3, <3>3, <3>4 DEF TableType
    <3>6. Addresses(table'[h]) = Addresses(table[h])
      BY <3>3, <3>4 DEF Addresses
    <3> QED BY <2>3, <3>5, <3>6
  <2> QED BY <2>2, <2>3
<1>4. TablesInv'
  BY <1>1, <1>2, <1>3, AgeingKeepsTables DEF PeerInv
<1> QED BY <1>1, <1>2, <1>4 DEF PeerInv, ConnsInv, RelaysInv, TodoInv, BoundsInv, counts

\* The timer of a host, and its reset.
LEMMA TimerAndResetKeepPeers ==
    ASSUME PeerInv, NEW n \in Peer, Expire(n) \/ ResetPeers(n)
    PROVE  PeerInv'
<1>1. CASE Expire(n)
  <2> DEFINE fresh == { k \in DOMAIN table[n] : Fresh(table[n][k]) }
  <2>1. SetTable(n, Restrict(table[n], fresh)) /\ UNCHANGED <<network, stepped>>
    BY <1>1 DEF Expire
  <2>2. TableType(Restrict(table[n], fresh), Ages(n))
    BY RestrictedIsTable DEF PeerInv, TablesInv
  <2>3. TablesInv'
    BY <2>1, <2>2, SetTableKeepsTables DEF PeerInv
  <2> QED BY <1>1, <2>3 DEF Expire, PeerInv, ConnsInv, RelaysInv, TodoInv, BoundsInv, counts
<1>2. CASE ResetPeers(n)
  <2>1. /\ UNCHANGED <<network, stepped, table>> /\ DOMAIN list' = Peer
        /\ \A m \in Peer : list'[m] = {} \/ list'[m] = list[m]
    BY <1>2 DEF ResetPeers, PeerInv, TablesInv
  <2>2. TablesInv'
    BY <2>1 DEF PeerInv, TablesInv, TableType, Addresses, Ages, Oldest
  <2>3. BoundsInv'
    BY <1>2, NetworkTypes DEF ResetPeers, PeerInv, BoundsInv
  <2> QED BY <1>2, <2>2, <2>3 DEF ResetPeers, PeerInv, ConnsInv, RelaysInv, TodoInv
<1> QED BY <1>1, <1>2

\* Every step keeps the invariant.
LEMMA StepPreservesPeers ==
    ASSUME PeerInv, [Next]_vars
    PROVE  PeerInv'
<1>1. CASE UNCHANGED vars
  BY <1>1, SameTables
     DEF vars, counts, PeerInv, ConnsInv, RelaysInv, TodoInv, BoundsInv
<1>2. CASE Protocol
  BY <1>2, DialingKeepsPeers, ConnectionStepKeepsPeers, EntryStepKeepsPeers, HearingKeepsPeers
     DEF Protocol, Handle
<1>3. ASSUME NEW n \in Peer, Visit(n) \/ Expire(n) \/ ResetPeers(n) \/ ClockBack(n)
      PROVE  PeerInv'
  BY <1>3, DialingKeepsPeers, TimerAndResetKeepPeers, ClockBackKeepsPeers
<1>4. ASSUME NEW c \in DOMAIN conns,
             \/ Break(c)
             \/ \E e \in End : Hear(c, e) \/ Relay(c, e) \/ Notice(c, e) \/ NoticeWriting(c, e)
      PROVE  PeerInv'
  BY <1>4, ConnectionStepKeepsPeers, EntryStepKeepsPeers, HearingKeepsPeers, RelayingKeepsPeers
<1> QED BY <1>1, <1>2, <1>3, <1>4, TickKeepsPeers DEF Next

\* The inductive invariant is one.
LEMMA PeerInvariant == Spec => []PeerInv
BY InitEstablishesPeers, StepPreservesPeers, PTL DEF Spec

\* The table, the list and the connections keep their types, for any hosts.
THEOREM TypeCorrect == Spec => []TypeOK
<1>1. PeerInv => TypeOK
  <2> SUFFICES ASSUME PeerInv PROVE TypeOK
    OBVIOUS
  <2>1. \A n : Ages(n) \subseteq (-Back)..(Expiry + Back)
    BY PeerTableAssumption DEF Ages, Oldest
  <2>2. ASSUME NEW n \in Peer
        PROVE  /\ DOMAIN table[n] \subseteq Peer \cup Conn
               /\ \A k \in DOMAIN table[n] :
                     table[n][k] \in [ address : Peer, age : (-Back)..(Expiry + Back) ]
               /\ list[n] \subseteq Peer
    <3>1. TableType(table[n], Ages(n))
      BY DEF PeerInv, TablesInv
    <3>2. list[n] \subseteq Peer
      BY <3>1, AddressesArePeers, NetworkTypes DEF PeerInv, TablesInv, BoundsInv
    <3> QED BY <2>1, <3>1, <3>2 DEF TableType
  <2> QED BY <2>2 DEF PeerInv, ConnsInv, Ends, RelaysInv, TodoInv, BoundsInv, TypeOK
<1> QED BY <1>1, PeerInvariant, PTL

\* What the node reports as its peers is in the table, through every end of a
\* connection, expiry, relay and reset; or it still is what the run before
\* had saved.
THEOREM ListIsOfTheTable == Spec => []ListedIsConnected
<1>1. PeerInv => ListedIsConnected
  BY DEF PeerInv, TablesInv, ListedIsConnected
<1> QED BY <1>1, PeerInvariant, PTL
-----------------------------------------------------------------------------
\* The end of a connection that works, once its first message is read: its
\* entry is no older than the pings it has not read are many.
TimelyInv ==
    \A c \in DOMAIN conns : \A e \in End :
        Working(c) /\ <<c, e>> \notin asked /\ Key(c, e) \in DOMAIN table[At(c, e)] =>
            \/ table[At(c, e)][Key(c, e)].age <= conns[c].pings[e]
            \/ conns[c].pings[e] = Expiry

\* A step on which no entry becomes older, ...
NoneAges ==
    \A n \in Peer : \A k \in DOMAIN table'[n] :
        \/ table'[n][k].age <= 0
        \/ k \in DOMAIN table[n] /\ table'[n][k].age <= table[n][k].age

\* ... one on which an end begins to work, or reads, only with a young entry, ...
WorksAsBefore ==
    \A c \in DOMAIN conns' : \A e \in End :
        conns'[c].up /\ conns'[c].dialer = "open" /\ conns'[c].acceptor = "open"
          /\ <<c, e>> \notin asked' /\ Key(c, e) \in DOMAIN table'[At(c, e)] =>
          \/ table'[At(c, e)][Key(c, e)].age <= 0
          \/ /\ c \in DOMAIN conns /\ Working(c) /\ <<c, e>> \notin asked
             /\ conns'[c].pings[e] = conns[c].pings[e]

\* ... one on which no entry goes, ...
NoneLeaves == \A n \in Peer : DOMAIN table[n] \subseteq DOMAIN table'[n]

\* ... and what WorkingStaysKnown says of a step.
Kept ==
    \A c \in DOMAIN conns : \A e \in End :
          LET n == At(c, e)
              k == Key(c, e)
          IN  Working(c) /\ Leaves(n, k) =>
                \/ \E d \in DOMAIN conns :
                      /\ At(d, e) = n /\ Key(d, e) = k
                      /\ conns[d][e] = "open" /\ conns'[d][e] = "ended"
                \/ Overdue(c, e)
                \/ n \in stepped /\ table[n][k].age < 0

\* A step that removes no entry keeps those of working connections.
LEMMA NoneLeavesIsKept == ASSUME PeerInv, NoneLeaves PROVE Kept
<1>1. \A c \in DOMAIN conns : \A e \in End : At(c, e) \in Peer
  BY EndsAreHosts DEF PeerInv, ConnsInv
<1> QED BY <1>1 DEF NoneLeaves, Kept, Leaves

\* The entry of a working connection has an age, and its end counts pings.
LEMMA WorkingTypes ==
    ASSUME PeerInv, NEW c \in DOMAIN conns, NEW e \in End
    PROVE  /\ At(c, e) \in Peer /\ conns[c].pings[e] \in 0..Expiry
           /\ Key(c, e) \in DOMAIN table[At(c, e)] =>
                table[At(c, e)][Key(c, e)].age \in Ages(At(c, e))
<1>1. c \in Conn /\ conns[c] \in Ends
  BY DEF PeerInv, ConnsInv
<1>2. At(c, e) \in Peer
  BY <1>1, EndsAreHosts
<1>3. TableType(table[At(c, e)], Ages(At(c, e)))
  BY <1>2 DEF PeerInv, TablesInv
<1> QED BY <1>1, <1>2, <1>3 DEF Ends, TableType

\* Entries of working connections that did not grow older are as young as they were.
LEMMA YoungStaysYoung ==
    ASSUME PeerInv, PeerInv', TimelyInv, NoneAges, WorksAsBefore
    PROVE  TimelyInv'
<1> SUFFICES ASSUME NEW c \in DOMAIN conns', NEW e \in End,
                    conns'[c].up, conns'[c].dialer = "open", conns'[c].acceptor = "open",
                    <<c, e>> \notin asked', Key(c, e) \in DOMAIN table'[At(c, e)]
             PROVE  \/ table'[At(c, e)][Key(c, e)].age <= conns'[c].pings[e]
                    \/ conns'[c].pings[e] = Expiry
  BY DEF TimelyInv, Working
<1> DEFINE n == At(c, e)
           k == Key(c, e)
<1>1. c \in Conn /\ conns'[c] \in Ends /\ n \in Peer
  BY EndsAreHosts DEF PeerInv, ConnsInv
<1>2. conns'[c].pings[e] \in 0..Expiry
  BY <1>1 DEF Ends
<1>3. table'[n][k].age \in Int
  <2>1. TableType(table'[n], Ages(n)')
    BY <1>1 DEF PeerInv, TablesInv
  <2>2. Ages(n)' \subseteq Int
    BY PeerTableAssumption DEF Ages, Oldest
  <2> QED BY <2>1, <2>2 DEF TableType
<1>4. CASE table'[n][k].age <= 0
  BY <1>2, <1>3, <1>4, PeerTableAssumption
<1>5. CASE ~(table'[n][k].age <= 0)
  <2>1. /\ c \in DOMAIN conns /\ Working(c) /\ <<c, e>> \notin asked
        /\ conns'[c].pings[e] = conns[c].pings[e]
    BY <1>5 DEF WorksAsBefore
  <2>2. k \in DOMAIN table[n] /\ table'[n][k].age <= table[n][k].age
    BY <1>1, <1>5 DEF NoneAges
  <2>3. \/ table[n][k].age <= conns[c].pings[e]
        \/ conns[c].pings[e] = Expiry
    BY <2>1, <2>2 DEF TimelyInv
  <2>4. table[n][k].age \in Int
    BY <2>1, <2>2, WorkingTypes, AgesHaveZero
  <2> QED BY <1>2, <1>3, <2>1, <2>2, <2>3, <2>4, PeerTableAssumption
<1> QED BY <1>4, <1>5

\* Whoever is upserted has an entry of age 0, and nobody loses one.
LEMMA UpsertAgesNone ==
    ASSUME PeerInv, NEW c \in Conn, NEW e \in End, UpsertPeer(c, e)
    PROVE  NoneAges /\ NoneLeaves /\ table'[At(c, e)][Key(c, e)].age = 0
<1> DEFINE n == At(c, e)
           t == Upserted(table[n], Key(c, e), At(c, Far(e)))
<1>1. n \in Peer /\ DOMAIN table = Peer
  BY EndsAreHosts DEF PeerInv, TablesInv
<1>2. table' = [ table EXCEPT ![n] = t ]
  BY DEF UpsertPeer, SetTable
<1>3. table'[n] = t /\ \A m \in Peer \ {n} : table'[m] = table[m]
  BY <1>1, <1>2
<1>4. /\ DOMAIN t = DOMAIN table[n] \cup {Key(c, e)} /\ t[Key(c, e)].age = 0
      /\ \A k \in DOMAIN table[n] : k # Key(c, e) => t[k] = table[n][k]
  BY DEF Upserted
<1>5. ASSUME NEW m \in Peer, NEW k \in DOMAIN table[m] PROVE table[m][k].age \in Int
  BY AgesHaveZero DEF PeerInv, TablesInv, TableType
<1>6. NoneAges
  <2> SUFFICES ASSUME NEW m \in Peer, NEW k \in DOMAIN table'[m]
               PROVE  \/ table'[m][k].age <= 0
                      \/ k \in DOMAIN table[m] /\ table'[m][k].age <= table[m][k].age
    BY DEF NoneAges
  <2> HIDE DEF t
  <2>1. CASE m = n /\ k = Key(c, e)
    BY <1>3, <1>4, <2>1
  <2>2. CASE ~(m = n /\ k = Key(c, e))
    <3>1. k \in DOMAIN table[m] /\ table'[m][k] = table[m][k]
      BY <1>3, <1>4, <2>2
    <3> QED BY <1>5, <3>1
  <2> QED BY <2>1, <2>2
<1>7. NoneLeaves
  <2> SUFFICES ASSUME NEW m \in Peer PROVE DOMAIN table[m] \subseteq DOMAIN table'[m]
    BY DEF NoneLeaves
  <2> QED BY <1>3, <1>4
<1> QED BY <1>3, <1>4, <1>6, <1>7

\* A table that is cut to some of its entries.
LEMMA RestrictAgesNone ==
    ASSUME PeerInv, NEW n \in Peer, NEW S \in SUBSET DOMAIN table[n],
           SetTable(n, Restrict(table[n], S))
    PROVE  /\ NoneAges
           /\ \A m \in Peer : \A k : Leaves(m, k) => m = n /\ k \notin S
<1>1. DOMAIN table = Peer
  BY DEF PeerInv, TablesInv
<1>2. /\ table'[n] = Restrict(table[n], S)
      /\ \A m \in Peer \ {n} : table'[m] = table[m]
  BY <1>1 DEF SetTable
<1>3. DOMAIN Restrict(table[n], S) = S /\ \A k \in S : Restrict(table[n], S)[k] = table[n][k]
  BY DEF Restrict
<1>4. NoneAges
  <2> SUFFICES ASSUME NEW m \in Peer, NEW k \in DOMAIN table'[m]
               PROVE  k \in DOMAIN table[m] /\ table'[m][k].age <= table[m][k].age
    BY DEF NoneAges
  <2>1. k \in DOMAIN table[m] /\ table'[m][k] = table[m][k]
    BY <1>2, <1>3
  <2>2. table[m][k].age \in Int
    BY <2>1, AgesHaveZero DEF PeerInv, TablesInv, TableType
  <2> QED BY <2>1, <2>2
<1>5. ASSUME NEW m \in Peer, NEW k, Leaves(m, k) PROVE m = n /\ k \notin S
  BY <1>2, <1>3, <1>5 DEF Leaves
<1> QED BY <1>4, <1>5

\* No table changes.
LEMMA SameTableAgesNone == ASSUME PeerInv, table' = table PROVE NoneAges /\ NoneLeaves
<1>1. ASSUME NEW m \in Peer, NEW k \in DOMAIN table[m] PROVE table[m][k].age \in Int
  BY AgesHaveZero DEF PeerInv, TablesInv, TableType
<1> QED BY <1>1 DEF NoneAges, NoneLeaves

\* One entry of one host is noted.
LEMMA NotedAgesNone ==
    ASSUME PeerInv, NEW n \in Peer, NEW key, table' = [ table EXCEPT ![n] = Noted(@, {key}) ]
    PROVE  /\ NoneAges /\ NoneLeaves
           /\ key \in DOMAIN table'[n] => table'[n][key].age = 0
<1>1. DOMAIN table = Peer
  BY DEF PeerInv, TablesInv
<1>2. table'[n] = Noted(table[n], {key}) /\ \A m \in Peer \ {n} : table'[m] = table[m]
  BY <1>1
<1>3. \A m \in Peer : TableType(table[m], Ages(m)) /\ 0 \in Ages(m) /\ Ages(m) \subseteq Int
  BY AgesHaveZero DEF PeerInv, TablesInv
<1>4. /\ DOMAIN table'[n] = DOMAIN table[n]
      /\ \A k \in DOMAIN table[n] : table'[n][k].age = IF k = key THEN 0 ELSE table[n][k].age
  BY <1>2, <1>3, NotedIsTable
<1>5. ASSUME NEW m \in Peer, NEW k \in DOMAIN table[m] PROVE table[m][k].age \in Int
  BY <1>3 DEF TableType
<1>6. NoneAges
  <2> SUFFICES ASSUME NEW m \in Peer, NEW k \in DOMAIN table'[m]
               PROVE  \/ table'[m][k].age <= 0
                      \/ k \in DOMAIN table[m] /\ table'[m][k].age <= table[m][k].age
    BY DEF NoneAges
  <2>1. k \in DOMAIN table[m] /\ (table'[m][k].age = 0 \/ table'[m][k].age = table[m][k].age)
    BY <1>2, <1>4
  <2> QED BY <1>5, <2>1
<1>7. NoneLeaves
  <2> SUFFICES ASSUME NEW m \in Peer PROVE DOMAIN table[m] \subseteq DOMAIN table'[m]
    BY DEF NoneLeaves
  <2> QED BY <1>2, <1>4
<1> QED BY <1>4, <1>6, <1>7

\* Connections that change, of which none begins to work and none reads.
LEMMA NobodyBegins ==
    ASSUME asked \subseteq asked',
           \A c \in DOMAIN conns' :
              conns'[c].up /\ conns'[c].dialer = "open" /\ conns'[c].acceptor = "open" =>
                c \in DOMAIN conns /\ Working(c) /\ conns'[c].pings = conns[c].pings
    PROVE  WorksAsBefore
BY DEF WorksAsBefore

\* A connection that does not work after the step, others as they were.
LEMMA OtherWorks ==
    ASSUME NEW c \in DOMAIN conns, asked \subseteq asked',
           DOMAIN conns' = DOMAIN conns, \A d \in DOMAIN conns \ {c} : conns'[d] = conns[d],
           ~(conns'[c].up /\ conns'[c].dialer = "open" /\ conns'[c].acceptor = "open")
    PROVE  WorksAsBefore
<1>1. ASSUME NEW d \in DOMAIN conns',
             conns'[d].up, conns'[d].dialer = "open", conns'[d].acceptor = "open"
      PROVE  d \in DOMAIN conns /\ Working(d) /\ conns'[d].pings = conns[d].pings
  <2>1. d # c /\ d \in DOMAIN conns
    BY <1>1
  <2> QED BY <1>1, <2>1 DEF Working
<1> QED BY <1>1, NobodyBegins

\* A connection that is dialled does not work yet.
LEMMA DialBeginsNothing ==
    ASSUME NEW d, NEW phase, Dial(d, phase), asked' = asked
    PROVE  WorksAsBefore
<1>1. /\ DOMAIN conns' = DOMAIN conns \cup {d}
      /\ \A c \in DOMAIN conns' : conns'[c] = IF c = d THEN Dialled(phase) ELSE conns[c]
  BY DEF Dial
<1>2. Dialled(phase).acceptor = "none"
  BY DEF Dialled
<1>3. ASSUME NEW c \in DOMAIN conns',
             conns'[c].up, conns'[c].dialer = "open", conns'[c].acceptor = "open"
      PROVE  c \in DOMAIN conns /\ Working(c) /\ conns'[c].pings = conns[c].pings
  BY <1>1, <1>2, <1>3 DEF Working
<1> QED BY <1>3, NobodyBegins

\* No connection works at first.
LEMMA InitEstablishesTimely == Init => TimelyInv
BY DEF Init, TimelyInv

\* Steps of a connection that does not work after them, ...
LEMMA ConnectionStepKeepsTimely ==
    ASSUME PeerInv, PeerInv', TimelyInv, NEW c \in DOMAIN conns,
           \/ Accept(c) \/ LeaveEarly(c) \/ Break(c) \/ Close(c)
           \/ \E e \in End : NoticeWriting(c, e)
    PROVE  TimelyInv' /\ Kept
<1>1. table' = table
  BY DEF Accept, LeaveEarly, Break, Close, NoticeWriting
<1>2. WorksAsBefore
  <2>1. conns[c] \in Ends
    BY DEF PeerInv, ConnsInv
  <2>2. CASE Accept(c)
    BY <2>1, <2>2, OtherWorks DEF Accept, Ends
  <2>3. CASE LeaveEarly(c)
    BY <2>1, <2>3, OtherWorks DEF LeaveEarly, Ends
  <2>4. CASE Break(c)
    BY <2>1, <2>4, OtherWorks DEF Break, Ends
  <2>5. CASE Close(c)
    <3>1. /\ DOMAIN conns' = DOMAIN conns \ {c}
          /\ \A d \in DOMAIN conns' : conns'[d] = conns[d]
          /\ \A d \in DOMAIN conns' : \A e \in End : <<d, e>> \in asked => <<d, e>> \in asked'
      BY <2>5 DEF Close, Restrict
    <3> QED BY <3>1 DEF WorksAsBefore, Working
  <2>6. ASSUME NEW e \in End, NoticeWriting(c, e) PROVE WorksAsBefore
    BY <2>1, <2>6, OtherWorks DEF NoticeWriting, End, Ends
  <2> QED BY <2>2, <2>3, <2>4, <2>5, <2>6
<1> QED BY <1>1, <1>2, SameTableAgesNone, YoungStaysYoung, NoneLeavesIsKept

\* ... the new connections of the dialers, ...
LEMMA DialingKeepsTimely ==
    ASSUME PeerInv, PeerInv', TimelyInv, NEW n \in Peer, ConnectPeer(n) \/ Visit(n)
    PROVE  TimelyInv' /\ Kept
<1>1. table' = table /\ asked' = asked
  BY DEF ConnectPeer, Visit
<1>2. conns' = conns \/ \E d : Dial(d, "opening") \/ Dial(d, "visit")
  BY DEF ConnectPeer, Visit
<1>3. WorksAsBefore
  <2>1. CASE conns' = conns
    BY <1>1, <2>1 DEF WorksAsBefore, Working
  <2> QED BY <1>1, <1>2, <2>1, DialBeginsNothing
<1> QED BY <1>1, <1>3, SameTableAgesNone, YoungStaysYoung, NoneLeavesIsKept

\* ... and of a reader that relays, which has just heard of its peer, ...
LEMMA RelayingKeepsTimely ==
    ASSUME PeerInv, PeerInv', TimelyInv, NEW c \in DOMAIN conns, NEW e \in End, Relay(c, e)
    PROVE  TimelyInv' /\ Kept
<1>1. At(c, e) \in Peer
  BY EndsAreHosts DEF PeerInv, ConnsInv
<1>2. table' = [ table EXCEPT ![At(c, e)] = Noted(@, {Key(c, e)}) ] /\ asked' = asked
  BY <1>1 DEF Relay, SetTable
<1>3. \E d : Dial(d, "visit")
  BY DEF Relay
<1>4. WorksAsBefore
  BY <1>2, <1>3, DialBeginsNothing
<1> QED BY <1>1, <1>2, <1>4, NotedAgesNone, YoungStaysYoung, NoneLeavesIsKept

\* ... the end of a handshake, which makes the entry of one end and sends the
\* other its first message, ...
LEMMA GreetingKeepsTimely ==
    ASSUME PeerInv, PeerInv', TimelyInv, NEW c \in DOMAIN conns,
           Greet(c) \/ GreetNobody(c) \/ Welcome(c)
    PROVE  TimelyInv' /\ Kept
<1>1. c \in Conn /\ conns[c] \in Ends
  BY DEF PeerInv, ConnsInv
<1>2. ASSUME NEW e \in End, UpsertPeer(c, e), asked' = asked \cup {<<c, Far(e)>>},
             DOMAIN conns' = DOMAIN conns, \A d \in DOMAIN conns \ {c} : conns'[d] = conns[d]
      PROVE  TimelyInv' /\ Kept
  <2>1. WorksAsBefore
    <3> SUFFICES ASSUME NEW d \in DOMAIN conns', NEW f \in End,
                        conns'[d].up, conns'[d].dialer = "open", conns'[d].acceptor = "open",
                        <<d, f>> \notin asked'
                 PROVE  \/ table'[At(d, f)][Key(d, f)].age <= 0
                        \/ /\ d \in DOMAIN conns /\ Working(d) /\ <<d, f>> \notin asked
                           /\ conns'[d].pings[f] = conns[d].pings[f]
      BY DEF WorksAsBefore
    <3>1. CASE d = c
      <4>1. f = e
        BY <1>2, <3>1 DEF End, Far
      <4> QED BY <1>1, <1>2, <3>1, <4>1, UpsertAgesNone
    <3>2. CASE d # c
      BY <1>2, <3>2 DEF Working
    <3> QED BY <3>1, <3>2
  <2> QED BY <1>1, <1>2, <2>1, UpsertAgesNone, YoungStaysYoung, NoneLeavesIsKept
<1>3. CASE Greet(c)
  BY <1>2, <1>3 DEF Greet, End, Far
<1>4. CASE Welcome(c)
  BY <1>2, <1>4 DEF Welcome, End, Far
<1>5. CASE GreetNobody(c)
  <2>1. WorksAsBefore
    BY <1>1, <1>5, OtherWorks DEF GreetNobody, Ends
  <2>2. NoneAges /\ NoneLeaves
    BY <1>1, <1>5, UpsertAgesNone, SameTableAgesNone DEF GreetNobody, End
  <2> QED BY <2>1, <2>2, YoungStaysYoung, NoneLeavesIsKept
<1> QED BY <1>3, <1>4, <1>5

\* ... and its end, which removes the entry that the end has: dialers' keys
\* are hosts and acceptors' are connections, so none of the other kind.
LEMMA NoticeKeepsTimely ==
    ASSUME PeerInv, PeerInv', TimelyInv, NEW c \in DOMAIN conns, NEW e \in End, Notice(c, e)
    PROVE  TimelyInv' /\ Kept
<1> DEFINE n == At(c, e)
           S == DOMAIN table[n] \ {Key(c, e)}
<1>1. ConnsInv /\ c \in Conn /\ conns[c] \in Ends /\ n \in Peer
  BY EndsAreHosts DEF PeerInv, ConnsInv
<1>2. SetTable(n, Restrict(table[n], S))
  BY DEF Notice, RemovePeer
<1>3. NoneAges /\ \A m \in Peer : \A k : Leaves(m, k) => m = n /\ k \notin S
  <2>1. S \in SUBSET DOMAIN table[n]
    OBVIOUS
  <2> HIDE DEF S, n
  <2> QED BY <1>1, <1>2, <2>1, RestrictAgesNone
<1>4. WorksAsBefore
  BY <1>1, OtherWorks DEF Notice, End, Ends
<1>5. Kept
  <2> SUFFICES ASSUME NEW d \in DOMAIN conns, NEW f \in End, Leaves(At(d, f), Key(d, f))
               PROVE  /\ At(c, f) = At(d, f) /\ Key(c, f) = Key(d, f)
                      /\ conns[c][f] = "open" /\ conns'[c][f] = "ended"
    BY DEF Kept
  <2>1. At(d, f) \in Peer /\ d \in Conn
    BY <1>1, EndsAreHosts DEF ConnsInv
  <2>2. At(d, f) = n /\ Key(d, f) = Key(c, e)
    BY <1>3, <2>1 DEF Leaves
  <2>3. f = e
    <3>1. c[2] \in Peer /\ d[2] \in Peer
      BY <1>1, <2>1 DEF Conn
    <3> QED BY <1>1, <2>1, <2>2, <3>1, PeerTableAssumption DEF Key, End
  <2>4. conns[c][e] = "open" /\ conns'[c][e] = "ended"
    BY <1>1 DEF Notice, End, Ends
  <2> QED BY <2>2, <2>3, <2>4
<1> QED BY <1>3, <1>4, <1>5, YoungStaysYoung

\* A message that is read makes the entry young, and removes none, ...
LEMMA HearKeepsTimely ==
    ASSUME PeerInv, PeerInv', TimelyInv, NEW c \in DOMAIN conns, NEW e \in End, Hear(c, e)
    PROVE  TimelyInv' /\ Kept
<1>1. At(c, e) \in Peer /\ conns[c] \in Ends
  BY EndsAreHosts DEF PeerInv, ConnsInv
<1>2. table' = [ table EXCEPT ![At(c, e)] = Noted(@, {Key(c, e)}) ] /\ asked' = asked
  BY DEF Hear
<1>3. WorksAsBefore
  <2>1. /\ DOMAIN conns' = DOMAIN conns /\ \A d \in DOMAIN conns \ {c} : conns'[d] = conns[d]
        /\ \A f \in End \ {e} : conns'[c].pings[f] = conns[c].pings[f]
        /\ Working(c)
    BY <1>1 DEF Hear, Ends
  <2> SUFFICES ASSUME NEW d \in DOMAIN conns', NEW f \in End,
                      conns'[d].up, conns'[d].dialer = "open", conns'[d].acceptor = "open",
                      <<d, f>> \notin asked', Key(d, f) \in DOMAIN table'[At(d, f)]
               PROVE  \/ table'[At(d, f)][Key(d, f)].age <= 0
                      \/ /\ d \in DOMAIN conns /\ Working(d) /\ <<d, f>> \notin asked
                         /\ conns'[d].pings[f] = conns[d].pings[f]
    BY DEF WorksAsBefore
  <2>2. CASE d = c /\ f = e
    <3>1. Key(c, e) \in DOMAIN table'[At(c, e)]
      BY <2>2
    <3>2. table'[At(c, e)][Key(c, e)].age = 0
      BY <1>1, <1>2, <3>1, NotedAgesNone
    <3> QED BY <2>2, <3>2
  <2>3. CASE ~(d = c /\ f = e)
    BY <1>2, <2>1, <2>3 DEF Working
  <2> QED BY <2>2, <2>3
<1> QED BY <1>1, <1>2, <1>3, NotedAgesNone, YoungStaysYoung, NoneLeavesIsKept

\* ... as do a first message and its answer, ...
LEMMA TellKeepsTimely ==
    ASSUME PeerInv, PeerInv', TimelyInv, NEW c \in DOMAIN conns, NEW e \in End, TellPeers(c, e)
    PROVE  TimelyInv' /\ Kept
<1> DEFINE n == At(c, e)
           k == Key(c, e)
<1>1. n \in Peer /\ DOMAIN table = Peer
  BY EndsAreHosts DEF PeerInv, ConnsInv, TablesInv
<1>2. /\ conns' = conns /\ asked' = asked \ {<<c, e>>}
      /\ table' = [ h \in Peer |-> Noted(table[h], { Key(c, f) : f \in EndsOf(c, h) }) ]
  BY DEF TellPeers
<1>3. \A h \in Peer : TableType(table[h], Ages(h)) /\ 0 \in Ages(h) /\ Ages(h) \subseteq Int
  BY AgesHaveZero DEF PeerInv, TablesInv
<1>4. ASSUME NEW h \in Peer
      PROVE  /\ DOMAIN table'[h] = DOMAIN table[h]
             /\ \A j \in DOMAIN table[h] : \/ table'[h][j].age = 0
                                           \/ table'[h][j].age = table[h][j].age
             /\ h = n /\ k \in DOMAIN table[h] => table'[h][k].age = 0
  <2> DEFINE keys == { Key(c, f) : f \in EndsOf(c, h) }
  <2>1. table'[h] = Noted(table[h], keys)
    BY <1>2
  <2>2. h = n => k \in keys
    BY DEF EndsOf
  <2> HIDE DEF keys, k, n
  <2> QED BY <1>3, <2>1, <2>2, NotedIsTable
<1>5. NoneAges
  <2> SUFFICES ASSUME NEW h \in Peer, NEW j \in DOMAIN table'[h]
               PROVE  \/ table'[h][j].age <= 0
                      \/ j \in DOMAIN table[h] /\ table'[h][j].age <= table[h][j].age
    BY DEF NoneAges
  <2>1. j \in DOMAIN table[h] /\ table[h][j].age \in Int
    BY <1>3, <1>4 DEF TableType
  <2> QED BY <1>4, <2>1
<1>6. NoneLeaves
  BY <1>4 DEF NoneLeaves
<1>7. WorksAsBefore
  <2> SUFFICES ASSUME NEW d \in DOMAIN conns', NEW f \in End,
                      conns'[d].up, conns'[d].dialer = "open", conns'[d].acceptor = "open",
                      <<d, f>> \notin asked', Key(d, f) \in DOMAIN table'[At(d, f)]
               PROVE  \/ table'[At(d, f)][Key(d, f)].age <= 0
                      \/ /\ d \in DOMAIN conns /\ Working(d) /\ <<d, f>> \notin asked
                         /\ conns'[d].pings[f] = conns[d].pings[f]
    BY DEF WorksAsBefore
  <2>1. CASE d = c /\ f = e
    <3>1. k \in DOMAIN table[n] /\ table'[n][k].age = 0
      BY <1>1, <1>4, <2>1
    <3> QED BY <2>1, <3>1
  <2>2. CASE ~(d = c /\ f = e)
    BY <1>2, <2>2 DEF Working
  <2> QED BY <2>1, <2>2
<1> QED BY <1>5, <1>6, <1>7, YoungStaysYoung, NoneLeavesIsKept

\* ... on a tick, each end that works is sent a ping for the time that passes, ...
LEMMA TickKeepsTimely ==
    ASSUME PeerInv, TimelyInv, Tick
    PROVE  TimelyInv' /\ Kept
<1>1. NoneLeaves
  BY DEF Tick, NoneLeaves
<1>2. TimelyInv'
  <2> SUFFICES ASSUME NEW c \in DOMAIN conns', NEW e \in End,
                      conns'[c].up, conns'[c].dialer = "open", conns'[c].acceptor = "open",
                      <<c, e>> \notin asked', Key(c, e) \in DOMAIN table'[At(c, e)]
               PROVE  \/ table'[At(c, e)][Key(c, e)].age <= conns'[c].pings[e]
                      \/ conns'[c].pings[e] = Expiry
    BY DEF TimelyInv, Working
  <2> DEFINE n == At(c, e)
             k == Key(c, e)
             q == [ f \in End |->
                IF /\ conns[c].up /\ conns[c][Far(f)] = "open"
                   /\ conns[c][f] \in {"opening", "open"} /\ conns[c].pings[f] < Expiry
                THEN conns[c].pings[f] + 1 ELSE conns[c].pings[f] ]
  <2>1. c \in DOMAIN conns /\ asked' = asked
    BY DEF Tick
  <2>2. conns[c] \in Ends /\ n \in Peer
    BY <2>1, EndsAreHosts DEF PeerInv, ConnsInv
  <2>3. conns'[c] = [ conns[c] EXCEPT !.pings = q ]
    BY <2>1 DEF Tick
  <2>4. Working(c) /\ conns'[c].pings = q
    <3> HIDE DEF q
    <3> QED BY <2>2, <2>3 DEF Ends, Working
  <2>5. q[e] = IF conns[c].pings[e] < Expiry THEN conns[c].pings[e] + 1 ELSE conns[c].pings[e]
    BY <2>4 DEF Working, End, Far
  <2>6. /\ k \in DOMAIN table[n]
        /\ table'[n][k] = [ table[n][k] EXCEPT !.age = IF @ < Oldest(n) THEN @ + 1 ELSE @ ]
    BY <2>2 DEF Tick
  <2>7. table[n][k] \in [ address : Peer, age : Ages(n) ] /\ Ages(n) \subseteq Int
    BY <2>2, <2>6, AgesHaveZero DEF PeerInv, TablesInv, TableType
  <2>8. table'[n][k].age \in {table[n][k].age, table[n][k].age + 1}
    BY <2>6, <2>7
  <2>9. table[n][k].age <= conns[c].pings[e] \/ conns[c].pings[e] = Expiry
    BY <2>1, <2>4, <2>6 DEF TimelyInv
  <2>10. conns[c].pings[e] \in 0..Expiry
    BY <2>2 DEF Ends
  <2> HIDE DEF q
  <2> QED BY <2>4, <2>5, <2>7, <2>8, <2>9, <2>10, PeerTableAssumption
<1> QED BY <1>1, <1>2, NoneLeavesIsKept

\* ... a clock that steps back makes entries younger, or from the future, ...
LEMMA ClockBackKeepsTimely ==
    ASSUME PeerInv, PeerInv', TimelyInv, NEW h \in Peer, ClockBack(h)
    PROVE  TimelyInv' /\ Kept
<1>1. conns' = conns /\ asked' = asked /\ DOMAIN table = Peer
  BY DEF ClockBack, PeerInv, TablesInv
<1>2. /\ \A n \in Peer \ {h} : table'[n] = table[n]
      /\ table'[h] = [ k \in DOMAIN table[h] |-> [ table[h][k] EXCEPT !.age = @ - Back ] ]
  BY <1>1 DEF ClockBack
<1>3. ASSUME NEW n \in Peer, NEW k \in DOMAIN table[n]
      PROVE  table[n][k] \in [ address : Peer, age : Ages(n) ] /\ table[n][k].age \in Int
  BY AgesHaveZero DEF PeerInv, TablesInv, TableType
<1>4. \A n \in Peer : DOMAIN table'[n] = DOMAIN table[n]
  BY <1>2
<1>5. NoneAges
  <2> SUFFICES ASSUME NEW n \in Peer, NEW k \in DOMAIN table[n]
               PROVE  table'[n][k].age <= table[n][k].age
    BY <1>4 DEF NoneAges
  <2>1. table'[n][k].age \in {table[n][k].age, table[n][k].age - Back}
    BY <1>2, <1>3
  <2> QED BY <1>3, <2>1, PeerTableAssumption
<1>6. NoneLeaves
  BY <1>4 DEF NoneLeaves
<1>7. WorksAsBefore
  BY <1>1 DEF WorksAsBefore, Working
<1> QED BY <1>5, <1>6, <1>7, YoungStaysYoung, NoneLeavesIsKept

\* ... and the timer removes none whose end has read all but the latest.
LEMMA ExpireKeepsTimely ==
    ASSUME PeerInv, PeerInv', TimelyInv, NEW h \in Peer, Expire(h)
    PROVE  TimelyInv' /\ Kept
<1> DEFINE fresh == { k \in DOMAIN table[h] : Fresh(table[h][k]) }
<1>1. NoneAges /\ \A m \in Peer : \A k : Leaves(m, k) => m = h /\ k \notin fresh
  BY RestrictAgesNone DEF Expire
<1>2. WorksAsBefore
  BY DEF Expire, WorksAsBefore, Working
<1>3. Kept
  <2> SUFFICES ASSUME NEW c \in DOMAIN conns, NEW e \in End,
                      Working(c), Leaves(At(c, e), Key(c, e))
               PROVE  \/ Overdue(c, e)
                      \/ At(c, e) \in stepped /\ table[At(c, e)][Key(c, e)].age < 0
    BY DEF Kept
  <2> DEFINE age == table[h][Key(c, e)].age
  <2>1. At(c, e) \in Peer /\ conns[c].pings[e] \in 0..Expiry
    BY WorkingTypes
  <2>2. At(c, e) = h /\ Key(c, e) \in DOMAIN table[h] /\ Key(c, e) \notin fresh
    BY <1>1, <2>1 DEF Leaves
  <2>3. age \in Ages(h) /\ age \in Int
    BY <2>2, WorkingTypes, AgesHaveZero
  <2>4. age < 0 \/ age >= Expiry
    BY <2>2, <2>3, PeerTableAssumption DEF Fresh
  <2>5. CASE age < 0
    <3>1. h \in stepped
      BY <2>3, <2>5 DEF Ages
    <3> QED BY <2>2, <2>5, <3>1
  <2>6. CASE age >= Expiry
    <3>1. <<c, e>> \in asked \/ age <= conns[c].pings[e] \/ conns[c].pings[e] = Expiry
      BY <2>2 DEF TimelyInv
    <3> QED BY <2>1, <2>3, <2>6, <3>1, PeerTableAssumption DEF Overdue
  <2> QED BY <2>4, <2>5, <2>6
<1> QED BY <1>1, <1>2, <1>3, YoungStaysYoung

\* Every step keeps the entries timely, and in the table.
LEMMA StepKeepsTimely ==
    ASSUME PeerInv, TimelyInv, [Next]_vars
    PROVE  TimelyInv' /\ Kept
<1>1. PeerInv'
  BY StepPreservesPeers
<1>2. ASSUME table' = table, conns' = conns, asked' = asked PROVE TimelyInv' /\ Kept
  BY <1>1, <1>2, SameTableAgesNone, YoungStaysYoung, NoneLeavesIsKept DEF WorksAsBefore, Working
<1>3. CASE UNCHANGED vars
  BY <1>2, <1>3 DEF vars
<1>4. CASE Protocol
  BY <1>1, <1>4, DialingKeepsTimely, ConnectionStepKeepsTimely, GreetingKeepsTimely,
     TellKeepsTimely DEF Protocol, Handle
<1>5. ASSUME NEW n \in Peer, Visit(n) \/ Expire(n) \/ ResetPeers(n) \/ ClockBack(n)
      PROVE  TimelyInv' /\ Kept
  BY <1>1, <1>2, <1>5, DialingKeepsTimely, ExpireKeepsTimely, ClockBackKeepsTimely
     DEF ResetPeers
<1>6. ASSUME NEW c \in DOMAIN conns,
             \/ Break(c)
             \/ \E e \in End : Hear(c, e) \/ Relay(c, e) \/ Notice(c, e) \/ NoticeWriting(c, e)
      PROVE  TimelyInv' /\ Kept
  BY <1>1, <1>6, ConnectionStepKeepsTimely, HearKeepsTimely, RelayingKeepsTimely,
     NoticeKeepsTimely
<1> QED BY <1>3, <1>4, <1>5, <1>6, TickKeepsTimely DEF Next

\* An entry never leaves the table because a connection that works is silent,
\* but for a reader an expiry time behind or a clock that stepped back: for
\* any hosts, any time to expiry and any step of the clocks.
THEOREM WorkingIsNeverPruned == Spec => WorkingStaysKnown
<1>1. Init => TimelyInv
  BY InitEstablishesTimely
<1>2. PeerInv /\ TimelyInv /\ [Next]_vars => TimelyInv' /\ [Kept]_vars
  BY StepKeepsTimely
<1> QED BY <1>1, <1>2, PeerInvariant, PTL DEF Spec, WorkingStaysKnown, Kept
================================================================================
