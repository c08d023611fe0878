------------------------------- MODULE PeerTable -------------------------------
(***************************************************************************)
(* Who a node is connected to: P2PManager's table of peers, the handlers   *)
(* that fill and empty it, the addresses nodes tell each other, and the    *)
(* peer list of the Node that mirrors the table.  What travels on the      *)
(* connections besides, and the heights in the entries, is Sync's subject. *)
(*                                                                         *)
(* Every host has one address, at which it listens; others see its         *)
(* connections come from there, so that is also what it is advertised as   *)
(* (canonicalize_advertised_addr).  A host that listens anywhere does not  *)
(* recognise it as its own listen_addr.                                    *)
(***************************************************************************)
EXTENDS Integers, FiniteSets, Functions

CONSTANTS Peer,      \* the hosts
          Networks,  \* the networks considered: who dials whom at the start,
                     \* who listens anywhere, max_peers, the lists saved by
                     \* earlier runs, whose clock will step back, and bounds:
                     \* failing connections, messages and resets; whether
                     \* time passes
          MaxCopies, \* bound: connections from one host to another at a time
          Expiry,    \* age at which an entry is pruned (300 s), in ticks; a
                     \* tick is the time between two pings (60 s)
          Back       \* ticks by which a clock steps back

VARIABLES network,  \* one of Networks, throughout
          conns,    \* connection -> the state of its ends; up: it still works;
                    \* pings: those each end has not read, at least
          relays,   \* visiting connection -> the end whose reader waits for it
          table,    \* peers: host -> key -> advertised address and age by the
                    \* host's clock, below 0 when last_seen is in its future
          list,     \* peer_manager.peers of each host: advertised addresses
          todo,     \* spawned connect_peer calls that have not checked yet
          asked,    \* ends <<connection, end>> that were sent GetPeers
          stepped,  \* hosts whose clock has stepped back
          failures, visits, resets

\* What only the bounds look at.
counts == <<failures, visits, resets>>

vars == <<network, conns, relays, table, list, todo, asked, stepped, counts>>

Conn == Peer \X Peer \X (1..MaxCopies)

ASSUME PeerTableAssumption ==
    /\ Peer \cap Conn = {}
    /\ Networks \subseteq [ dials : SUBSET (Peer \X Peer), anywhere : SUBSET Peer,
                            max_peers : Nat, saved : [ Peer -> SUBSET Peer ],
                            timed : BOOLEAN, stepping : SUBSET Peer,
                            failures : Nat, visits : Nat, resets : Nat ]
    /\ MaxCopies \in Nat /\ Expiry \in Nat \ {0} /\ Back \in Nat

End == {"dialer", "acceptor"}
Far(e) == IF e = "dialer" THEN "acceptor" ELSE "dialer"

\* The host at an end of a connection.
At(c, e) == IF e = "dialer" THEN c[1] ELSE c[2]

\* The ends of a connection that a host has: both, if it listens anywhere and
\* connected to itself.
EndsOf(c, n) == { e \in End : At(c, e) = n }

\* connection_addr, the key of an entry: the acceptor sees a port of the
\* connection's own, the dialer what it dialled.
Key(c, e) == IF e = "dialer" THEN c[2] ELSE c

\* Phases of an end: "none" before the acceptor has it; "opening" until the
\* other's handshake is read; then "open"; "visit" is a dialer that only
\* sends a message or a request.
Phase == {"none", "opening", "open", "visit", "ended"}

Addresses(t) == { t[k].address : k \in DOMAIN t }

\* The list of a node that has run before is the one it saved (load_or_create).
Init ==
    /\ network \in Networks
    /\ conns = <<>> /\ relays = <<>>
    /\ table = [ n \in Peer |-> <<>> ]
    /\ list = network.saved
    /\ todo = [ n \in Peer |-> { m \in Peer : <<n, m>> \in network.dials } ]
    /\ asked = {} /\ stepped = {}
    /\ failures = 0 /\ visits = 0 /\ resets = 0

-----------------------------------------------------------------------------
\* Each change of the table rewrites the node's list under the table's lock.
SetTable(n, t) ==
    /\ table' = [ table EXCEPT ![n] = t ]
    /\ list' = [ list EXCEPT ![n] = Addresses(t) ]

\* upsert_peer
Upserted(t, key, address) ==
    [ k \in DOMAIN t \cup {key} |->
        IF k = key THEN [ address |-> address, age |-> 0 ] ELSE t[k] ]

UpsertPeer(c, e) ==
    SetTable(At(c, e), Upserted(table[At(c, e)], Key(c, e), At(c, Far(e))))

\* remove_peer
RemovePeer(c, e) ==
    LET t == table[At(c, e)]
    IN  SetTable(At(c, e), Restrict(t, DOMAIN t \ {Key(c, e)}))

\* note_peer_activity: an entry that is gone stays gone.
Noted(t, keys) == [ k \in DOMAIN t |-> IF k \in keys THEN [ t[k] EXCEPT !.age = 0 ] ELSE t[k] ]

\* Both ends of a connection are past the handshake, and bytes arrive.
Working(c) == conns[c].up /\ conns[c].dialer = "open" /\ conns[c].acceptor = "open"

\* The reader of an end that relays waits for the host it visits, for as long
\* as that takes: broadcast_message has no timeout.
Waits(c, e) == <<c, e>> \in Range(relays)

-----------------------------------------------------------------------------
\* The connections that n may make to a: the first that is free.
Free(n, a) ==
    { <<n, a, i>> : i \in { j \in 1..MaxCopies :
        /\ <<n, a, j>> \notin DOMAIN conns
        /\ \A k \in 1..(j - 1) : <<n, a, k>> \in DOMAIN conns } }

\* A connection that is being dialled.
Dialled(phase) ==
    [ dialer |-> phase, acceptor |-> "none", up |-> TRUE, pings |-> [ e \in End |-> 0 ] ]

Dial(d, phase) ==
    conns' = [ c \in DOMAIN conns \cup {d} |-> IF c = d THEN Dialled(phase) ELSE conns[c] ]

\* connect_peer: its own listen_addr and a known peer need no connection.
NeedsNone(n, a) ==
    \/ a = n /\ n \notin network.anywhere
    \/ a \in Addresses(table[n])

ConnectPeer(n) ==
    \E a \in todo[n] :
        /\ todo' = [ todo EXCEPT ![n] = @ \ {a} ]
        /\ \/ NeedsNone(n, a) /\ UNCHANGED conns
           \/ ~NeedsNone(n, a) /\ \E d \in Free(n, a) : Dial(d, "opening")
        /\ UNCHANGED <<network, relays, table, list, asked, stepped, counts>>

\* broadcast_message, or a request of synchronize_blocks: a connection to a
\* known peer for one exchange.
Visit(n) ==
    /\ visits < network.visits
    /\ visits' = visits + 1
    /\ \E a \in Addresses(table[n]) : \E d \in Free(n, a) : Dial(d, "visit")
    /\ UNCHANGED <<network, relays, table, list, todo, asked, stepped, failures, resets>>

\* handle_message: a block or a transaction arrives and is new.  The reader
\* relays it to the others before it reads on; a visit stands for those to
\* all of them.  (A block brings a height: the list is rewritten.)
Relay(c, e) ==
    LET n == At(c, e)
        t == Noted(table[n], {Key(c, e)})
        origin == { t[k].address : k \in DOMAIN t \cap {Key(c, e)} }
    IN  /\ conns[c].up /\ conns[c][e] = "open"
        /\ conns[c][Far(e)] \in {"open", "visit"}
        /\ <<c, e>> \notin asked /\ ~Waits(c, e)
        /\ visits < network.visits
        /\ visits' = visits + 1
        /\ \E a \in Addresses(t) \ origin : \E d \in Free(n, a) :
              /\ Dial(d, "visit")
              /\ relays' = [ x \in DOMAIN relays \cup {d} |->
                                IF x = d THEN <<c, e>> ELSE relays[x] ]
        /\ \/ SetTable(n, t)
           \/ table' = [ table EXCEPT ![n] = t ] /\ UNCHANGED list
        /\ UNCHANGED <<network, todo, asked, stepped, failures, resets>>

\* start: the listener accepts, unless the table is full.
Accept(c) ==
    /\ conns[c].acceptor = "none"
    /\ conns' = [ conns EXCEPT ![c] =
          IF Cardinality(DOMAIN table[At(c, "acceptor")]) >= network.max_peers
          THEN [ @ EXCEPT !.acceptor = "ended", !.up = FALSE ]
          ELSE [ @ EXCEPT !.acceptor = "opening" ] ]
    /\ UNCHANGED <<network, relays, table, list, todo, asked, stepped, counts>>

\* handle_peer reads the handshake, answers and asks for peers.
Greet(c) ==
    /\ conns[c].acceptor = "opening"
    /\ conns[c].up
    /\ UpsertPeer(c, "acceptor")
    /\ conns' = [ conns EXCEPT ![c].acceptor = "open" ]
    /\ asked' = asked \cup {<<c, "dialer">>}
    /\ UNCHANGED <<network, relays, todo, stepped, counts>>

\* The dialer has left: the handshake is not read, or it was and the answer
\* cannot be written; then the entry stays.
GreetNobody(c) ==
    /\ conns[c].acceptor = "opening"
    /\ ~conns[c].up
    /\ conns' = [ conns EXCEPT ![c].acceptor = "ended" ]
    /\ UpsertPeer(c, "acceptor") \/ UNCHANGED <<table, list>>
    /\ UNCHANGED <<network, relays, todo, asked, stepped, counts>>

\* Mutant of Welcome: only the acceptor asks for peers.
WelcomeUnasked(c) ==
    /\ conns[c].dialer = "opening"
    /\ conns[c].acceptor = "open"
    /\ conns[c].up
    /\ UpsertPeer(c, "dialer")
    /\ conns' = [ conns EXCEPT ![c].dialer = "open" ]
    /\ UNCHANGED <<network, relays, todo, asked, stepped, counts>>

\* handle_peer_connection reads the answer, and asks as well.
Welcome(c) ==
    /\ conns[c].dialer = "opening"
    /\ conns[c].acceptor = "open"
    /\ conns[c].up
    /\ UpsertPeer(c, "dialer")
    /\ conns' = [ conns EXCEPT ![c].dialer = "open" ]
    /\ asked' = asked \cup {<<c, "acceptor">>}
    /\ UNCHANGED <<network, relays, todo, stepped, counts>>

\* A dialer whose handshake is not answered, and a visitor that has been
\* served, leave no entry; the reader that sent the visitor reads on.
LeaveEarly(c) ==
    /\ \/ conns[c].dialer = "opening" /\ ~conns[c].up
       \/ conns[c].dialer = "visit" /\ (conns[c].acceptor = "open" \/ ~conns[c].up)
    /\ conns' = [ conns EXCEPT ![c].dialer = "ended", ![c].up = FALSE ]
    /\ relays' = Restrict(relays, DOMAIN relays \ {c})
    /\ UNCHANGED <<network, table, list, todo, asked, stepped, counts>>

\* handle_message: GetPeers, the first message after the handshake, is
\* answered with the table's addresses, the asker's own among them; for each,
\* the asker spawns a connect_peer.
TellPeers(c, e) ==
    LET n == At(c, e)
        asker == At(c, Far(e))
        own == IF asker \in network.anywhere THEN {} ELSE {asker}
    IN  /\ <<c, e>> \in asked /\ Working(c)
        /\ ~Waits(c, e) /\ ~Waits(c, Far(e))
        /\ asked' = asked \ {<<c, e>>}
        /\ todo' = [ todo EXCEPT ![asker] = @ \cup (Addresses(table[n]) \ own) ]
        /\ table' = [ h \in Peer |-> Noted(table[h], { Key(c, f) : f \in EndsOf(c, h) }) ]
        /\ UNCHANGED <<network, conns, relays, list, stepped, counts>>

\* handle_message: a Ping is read.  (The Pong that answers it would only make
\* another entry younger.)
Hear(c, e) ==
    /\ Working(c) /\ ~Waits(c, e)
    /\ <<c, e>> \notin asked /\ conns[c].pings[e] > 0
    /\ conns' = [ conns EXCEPT ![c].pings[e] = @ - 1 ]
    /\ table' = [ table EXCEPT ![At(c, e)] = Noted(@, {Key(c, e)}) ]
    /\ UNCHANGED <<network, relays, list, todo, asked, stepped, counts>>

-----------------------------------------------------------------------------
\* A connection breaks, or its process ends; what lies unread is lost.
Break(c) ==
    /\ conns[c].up /\ failures < network.failures
    /\ failures' = failures + 1
    /\ conns' = [ conns EXCEPT ![c].up = FALSE, ![c].pings = [ e \in End |-> 0 ] ]
    /\ UNCHANGED <<network, relays, table, list, todo, asked, stepped, visits, resets>>

\* The end notices when it reads, and removes the entry of that key ...
Notice(c, e) ==
    /\ conns[c][e] = "open" /\ ~conns[c].up /\ ~Waits(c, e)
    /\ RemovePeer(c, e)
    /\ conns' = [ conns EXCEPT ![c][e] = "ended" ]
    /\ UNCHANGED <<network, relays, todo, asked, stepped, counts>>

\* ... or when it writes an answer: the error leaves the loop before it.
NoticeWriting(c, e) ==
    /\ conns[c][e] = "open" /\ ~conns[c].up /\ ~Waits(c, e)
    /\ conns' = [ conns EXCEPT ![c][e] = "ended" ]
    /\ UNCHANGED <<network, relays, table, list, todo, asked, stepped, counts>>

\* Both ends are done with it.
Close(c) ==
    /\ \A e \in End : conns[c][e] \in {"none", "ended"}
    /\ ~conns[c].up
    /\ conns' = Restrict(conns, DOMAIN conns \ {c})
    /\ asked' = { a \in asked : a[1] # c }
    /\ UNCHANGED <<network, relays, table, list, todo, stepped, counts>>

-----------------------------------------------------------------------------
\* Entries that will be as old as can matter, a step of the clock included.
Oldest(n) == IF n \in network.stepping \ stepped THEN Expiry + Back ELSE Expiry

\* A tick passes, however far the readers are: each end that is past its
\* handshake sends a ping, which lies at the other until that one reads it.
Tick ==
    /\ network.timed
    /\ table' = [ n \in Peer |-> [ k \in DOMAIN table[n] |->
          [ table[n][k] EXCEPT !.age = IF @ < Oldest(n) THEN @ + 1 ELSE @ ] ] ]
    /\ conns' = [ c \in DOMAIN conns |->
          [ conns[c] EXCEPT !.pings = [ e \in End |->
              IF /\ conns[c].up /\ conns[c][Far(e)] = "open"
                 /\ conns[c][e] \in {"opening", "open"} /\ @[e] < Expiry
              THEN @[e] + 1 ELSE @[e] ] ] ]
    /\ UNCHANGED <<network, relays, list, todo, asked, stepped, counts>>

\* The clock of a host steps back: what it noted lies in the future, or is
\* less long ago than it was.
ClockBack(n) ==
    /\ network.timed /\ n \in network.stepping \ stepped
    /\ stepped' = stepped \cup {n}
    /\ table' = [ table EXCEPT ![n] =
          [ k \in DOMAIN table[n] |-> [ table[n][k] EXCEPT !.age = @ - Back ] ] ]
    /\ UNCHANGED <<network, conns, relays, list, todo, asked, counts>>

\* last_seen.elapsed() is an error in the future, and counts as Expiry then.
Fresh(entry) == 0 <= entry.age /\ entry.age < Expiry

\* Mutant of Expire: the list is rewritten when an entry goes.
ExpireWhenStale(n) ==
    LET fresh == { k \in DOMAIN table[n] : Fresh(table[n][k]) }
    IN  /\ fresh # DOMAIN table[n]
        /\ SetTable(n, Restrict(table[n], fresh))
        /\ UNCHANGED <<network, conns, relays, todo, asked, stepped, counts>>

\* Mutant of Expire: entries of connections that still exist are kept.
ExpireUnconnected(n) ==
    LET fresh == { k \in DOMAIN table[n] : Fresh(table[n][k]) \/ k \in Peer }
    IN  /\ SetTable(n, Restrict(table[n], fresh))
        /\ UNCHANGED <<network, conns, relays, todo, asked, stepped, counts>>

\* Mutant of Expire: entries are given the time between two pings.
ExpireEarly(n) ==
    LET fresh == { k \in DOMAIN table[n] : table[n][k].age = 0 }
    IN  /\ SetTable(n, Restrict(table[n], fresh))
        /\ UNCHANGED <<network, conns, relays, todo, asked, stepped, counts>>

\* start: the timer that prunes entries nobody was heard on.
Expire(n) ==
    LET fresh == { k \in DOMAIN table[n] : Fresh(table[n][k]) }
    IN  /\ SetTable(n, Restrict(table[n], fresh))
        /\ UNCHANGED <<network, conns, relays, todo, asked, stepped, counts>>

\* reset_to_genesis clears the list and not the table.
ResetPeers(n) ==
    /\ resets < network.resets
    /\ resets' = resets + 1
    /\ list' = [ list EXCEPT ![n] = {} ]
    /\ UNCHANGED <<network, conns, relays, table, todo, asked, stepped, failures, visits>>

-----------------------------------------------------------------------------
Handle(c) ==
    \/ Accept(c) \/ Greet(c) \/ GreetNobody(c) \/ Welcome(c) \/ LeaveEarly(c) \/ Close(c)
    \/ \E e \in End : TellPeers(c, e)

Protocol == (\E n \in Peer : ConnectPeer(n)) \/ (\E c \in DOMAIN conns : Handle(c))

Next ==
    \/ Protocol
    \/ \E n \in Peer : Visit(n) \/ Expire(n) \/ ResetPeers(n) \/ ClockBack(n)
    \/ \E c \in DOMAIN conns :
          \/ Break(c)
          \/ \E e \in End : Hear(c, e) \/ Relay(c, e) \/ Notice(c, e) \/ NoticeWriting(c, e)
    \/ Tick

Spec == Init /\ [][Next]_vars

\* Tasks run, time passes and timers fire.  Nothing says that a reader reads
\* its pings in time, or notices that its connection is gone.
Fairness ==
    /\ WF_vars(Protocol)
    /\ WF_vars(Tick)
    /\ \A n \in Peer : WF_vars(Expire(n))

FairSpec == Spec /\ Fairness

-----------------------------------------------------------------------------
TypeOK ==
    /\ network \in Networks
    /\ DOMAIN conns \subseteq Conn
    /\ \A c \in DOMAIN conns :
          conns[c] \in [ dialer : Phase, acceptor : Phase, up : BOOLEAN,
                         pings : [ End -> 0..Expiry ] ]
    /\ DOMAIN relays \subseteq Conn /\ \A d \in DOMAIN relays : relays[d] \in Conn \X End
    /\ \A n \in Peer :
          /\ DOMAIN table[n] \subseteq Peer \cup Conn
          /\ \A k \in DOMAIN table[n] :
                table[n][k] \in [ address : Peer, age : (-Back)..(Expiry + Back) ]
          /\ list[n] \subseteq Peer
          /\ todo[n] \subseteq Peer
    /\ asked \subseteq Conn \X End
    /\ stepped \subseteq network.stepping
    /\ failures \in 0..network.failures
    /\ visits \in 0..network.visits
    /\ resets \in 0..network.resets

\* The peers the node reports (get_status, the consensus threshold, what is
\* saved, the command "node peers") are peers of the table, none it has
\* already removed; or they still are all those of the run before, connected
\* or not, which is what a node without a P2P thread goes on to report.
ListedIsConnected ==
    \A n \in Peer : list[n] \subseteq Addresses(table[n]) \/ list[n] = network.saved[n]

\* A node starts with the list of an earlier run, and a reset leaves it with
\* an empty one and all its connections: the list has the peers of the table
\* again, though no connection changes.
ListCatchesUp == []<>(\A n \in Peer : list[n] = Addresses(table[n]))

Leaves(n, key) == key \in DOMAIN table[n] \ DOMAIN table'[n]

\* The reader of an end has left all pings of an expiry time unread, or its
\* first message: it is slow, or waits for a host that it relays to.
Overdue(c, e) == conns[c].pings[e] = Expiry \/ <<c, e>> \in asked

\* No matter which connection of which host ends, breaks or goes silent, which
\* readers wait and how long the handshakes take: the entry of a connection
\* that works leaves the table when a connection of its key ends; and
\* otherwise only if its own reader is an expiry time behind with its pings,
\* or the clock of its host stepped back behind what it noted.
WorkingStaysKnown ==
    [][ \A c \in DOMAIN conns : \A e \in End :
          LET n == At(c, e)
              k == Key(c, e)
          IN  Working(c) /\ Leaves(n, k) =>
                \/ \E d \in DOMAIN conns :
                      /\ At(d, e) = n /\ Key(d, e) = k
                      /\ conns[d][e] = "open" /\ conns'[d][e] = "ended"
                \/ Overdue(c, e)
                \/ n \in stepped /\ table[n][k].age < 0 ]_vars

Connected(n, key) ==
    \E c \in DOMAIN conns : \E e \in End :
        At(c, e) = n /\ Key(c, e) = key /\ conns[c].up

\* Entries that nobody removes, of a connection that went silent or whose
\* handler returned an error, do not stay: they would take the place of peers.
DeadIsForgotten ==
    []<>(network.timed => \A n \in Peer : \A k \in DOMAIN table[n] : Connected(n, k))

Linked(n, m) ==
    \E c \in DOMAIN conns : Working(c) /\ {c[1], c[2]} = {n, m}

\* GetPeers is sent once on each connection.  Still, two hosts that dial the
\* same third one find each other: whoever comes second is told of the first,
\* whatever the order of handshakes, entries and answers.  (A visit may hide
\* a host, a failure loses what was told, and so does an entry that expires
\* meanwhile.)
MeshForms ==
    []<>(network.failures = 0 /\ network.visits = 0 /\ ~network.timed =>
            \A n, m, b \in Peer :
                Linked(n, b) /\ Linked(m, b) /\ n # m => Linked(n, m))
===============================================================================
