--------------------------------- MODULE Sync ---------------------------------
(***************************************************************************)
(* How blocks travel between nodes: announcements and their relaying       *)
(* (handle_message, broadcast_message), the table of peers with the        *)
(* heights they report, synchronize_blocks, and the window's button that   *)
(* resets a node to the genesis block beside all of them.                  *)
(*                                                                         *)
(* A block is the sequence of the marks of those who mined it and its      *)
(* ancestors, so its parent is its Front and its height its length; the    *)
(* genesis block is the empty sequence.  All blocks are valid: what        *)
(* add_block does with others is Blockchain's subject.  In particular the  *)
(* height in a header is the block's: handle_message notes it before       *)
(* add_block looks at the block, so it is noted of refused blocks too.     *)
(* Messages that only keep a connection alive or exchange addresses are    *)
(* left out.                                                               *)
(***************************************************************************)
EXTENDS Naturals, Sequences, FiniteSets, SequencesExt, Functions

CONSTANTS Peer,         \* the nodes
          Networks,     \* the networks considered: who connects to whom, by
                        \* bootstrap or by Peers, who mines, and the bounds:
                        \* blocks mined, connections that break, resets of
                        \* each node
          MaxBlocks,    \* bound: the blocks mined in any of them
          MaxRequest,   \* blocks asked for at once (100)
          NoPeer

VARIABLES network,   \* one of Networks, throughout
          store,     \* the blocks each node has
          tip,       \* the last block of each node's best chain
          found,     \* last_block_hash; the genesis block stands for none
          notified,  \* last_notified_block_hash, likewise
          table,     \* peers: connection -> who is there, at which height
          links,     \* the lasting connections, <<who dialled, whom>>
          outbox,    \* messages to send: <<from, to, block>>
          relays,    \* those whose connection is open, block on its way
          session,   \* the call of synchronize_blocks each node is in
          failures,
          resets,    \* how often each node was reset
          peak,      \* history: the greatest height each node has had
          grown      \* history: the heights each node has gained, in all

world == <<network, resets>>
held == <<store, tip, peak, grown>>
vars == <<world, held, found, notified, table, links, outbox, relays, session, failures>>

Genesis == <<>>

ASSUME SyncAssumption ==
    /\ Networks \subseteq [ dials : SUBSET (Peer \X Peer), miners : SUBSET Peer,
                            blocks : 0..MaxBlocks, failures : Nat,
                            resets : [ Peer -> Nat ] ]
    /\ \A w \in Networks : \A d \in w.dials : d[1] # d[2]
    /\ MaxRequest \in Nat \ {0} /\ MaxBlocks \in Nat /\ NoPeer \notin Peer

Lesser(a, b) == IF a < b THEN a ELSE b
Larger(a, b) == IF a < b THEN b ELSE a

\* What tells the blocks of one parent apart: who mined it, and after how many
\* resets.
Mark == Peer \X Nat

\* get_best_height
Height(n) == Len(tip[n])

-----------------------------------------------------------------------------
\* A connection n opened to m: to stay, or for one message or request.  The
\* ones of the second kind are one here: the last to open knows best how high
\* n is.
Link(n, m) == <<"link", n, m>>
Call(n, m) == <<"call", n, m>>

NoSession == [ phase |-> "idle", todo |-> {}, local_height |-> 0, began |-> 0,
               imported |-> 0, peer |-> NoPeer, count |-> 0, wire |-> <<>>,
               previous_height |-> 0 ]

Connections ==
    { Link(l[1], l[2]) : l \in links }
      \cup { Call(r[1], r[2]) : r \in relays }
      \cup { Call(n, session[n].peer) : n \in { n \in Peer : session[n].peer # NoPeer } }

\* upsert_peer: what a handshake on connection c says of the other end.
Upsert(entries, c, address, best_height) ==
    [ d \in DOMAIN entries \cup {c} |->
        IF d = c THEN [ address |-> address, best_height |-> best_height ] ELSE entries[d] ]

\* note_peer_activity: a block shows that its sender is as high as the block.
Note(entries, c, best_height) ==
    IF c \in DOMAIN entries /\ entries[c].best_height < best_height
    THEN [ entries EXCEPT ![c].best_height = best_height ]
    ELSE entries

\* connected_peer_addresses, without the excluded one.
Addresses(n, excluded) ==
    { table[n][c].address : c \in DOMAIN table[n] } \ {excluded}

\* The pairs of address and height synchronize_blocks starts from.
Heard(n) ==
    { e \in { <<table[n][c].address, table[n][c].best_height>> : c \in DOMAIN table[n] } :
        \A c \in DOMAIN table[n] :
            table[n][c].address = e[1] => table[n][c].best_height <= e[2] }

-----------------------------------------------------------------------------
\* Mutant of CanAdd: a known block is accepted again.
CanAddAgain(n, b) == b # Genesis /\ Front(b) \in store[n]

\* What add_block accepts of valid blocks.
CanAdd(n, b) == b \notin store[n] /\ Front(b) \in store[n]

AddBlock(n, b) ==
    /\ store' = [ store EXCEPT ![n] = @ \cup {b} ]
    /\ tip' = [ tip EXCEPT ![n] = IF Len(b) > Len(@) THEN b ELSE @ ]
    /\ peak' = [ peak EXCEPT ![n] = Larger(@, Len(b)) ]
    /\ grown' = [ grown EXCEPT ![n] = @ + (Larger(Height(n), Len(b)) - Height(n)) ]

\* blocks_from_height
BlocksFromHeight(n, from, count) ==
    [ i \in 1..Lesser(count, (Height(n) + 1) - from) |->
        SubSeq(tip[n], 1, from + i - 1) ]

SendTo(n, addresses, b) == outbox' = outbox \cup { <<n, m, b>> : m \in addresses }

-----------------------------------------------------------------------------
Init ==
    /\ network \in Networks
    /\ store = [ n \in Peer |-> {Genesis} ]
    /\ tip = [ n \in Peer |-> Genesis ]
    /\ found = [ n \in Peer |-> Genesis ] /\ notified = found
    /\ table = [ n \in Peer |-> <<>> ]
    /\ links = {}
    /\ outbox = {}
    /\ relays = {}
    /\ session = [ n \in Peer |-> NoSession ]
    /\ failures = 0
    /\ resets = [ n \in Peer |-> 0 ]
    /\ peak = [ n \in Peer |-> 0 ] /\ grown = peak

\* Mutant of Connect: each end files its own height under the other.
ConnectSwapped(n, m) ==
    /\ <<n, m>> \in network.dials
    /\ m \notin Addresses(n, n)
    /\ links' = links \cup {<<n, m>>}
    /\ table' = [ table EXCEPT ![n] = Upsert(@, Link(n, m), m, Height(n)),
                               ![m] = Upsert(@, Link(n, m), n, Height(m)) ]
    /\ UNCHANGED <<world, held, found, notified, outbox, relays, session, failures>>

\* connect_peer up to the handshakes.  Each end learns how high the other is
\* now: no message on this connection will ever say so again.
Connect(n, m) ==
    /\ <<n, m>> \in network.dials
    /\ m \notin Addresses(n, n)
    /\ links' = links \cup {<<n, m>>}
    /\ table' = [ table EXCEPT ![n] = Upsert(@, Link(n, m), m, Height(m)),
                               ![m] = Upsert(@, Link(n, m), n, Height(n)) ]
    /\ UNCHANGED <<world, held, found, notified, outbox, relays, session, failures>>

\* An entry goes when its connection is found closed, or 300 seconds later
\* when an error return skipped remove_peer.
Forget(n) ==
    \E c \in DOMAIN table[n] \ Connections :
        /\ table' = [ table EXCEPT ![n] = Restrict(@, DOMAIN @ \ {c}) ]
        /\ UNCHANGED <<world, held, found, notified, links, outbox, relays, session, failures>>

\* The controller's submit_block succeeds; last_block_hash is one cell.
Mine(n) ==
    LET b == Append(tip[n], <<n, resets[n]>>)
    IN  /\ n \in network.miners
        /\ Cardinality(UNION Range(store)) <= network.blocks
        /\ AddBlock(n, b)
        /\ found' = [ found EXCEPT ![n] = b ]
        /\ UNCHANGED <<world, notified, table, links, outbox, relays, session,
                       failures>>

\* A frame sees a new last_block_hash and broadcasts that block, if the node
\* still has it.
Announce(n) ==
    /\ found[n] # notified[n]
    /\ notified' = [ notified EXCEPT ![n] = found[n] ]
    /\ IF found[n] \in store[n]
       THEN SendTo(n, Addresses(n, NoPeer), found[n])
       ELSE UNCHANGED outbox
    /\ UNCHANGED <<world, held, found, table, links, relays, session, failures>>

\* reset_to_genesis by the window's button, which also forgets what it has
\* notified of: mining stops, the P2P threads go on with their table, their
\* connections and their calls.
Reset(n) ==
    /\ resets[n] < network.resets[n]
    /\ resets' = [ resets EXCEPT ![n] = @ + 1 ]
    /\ store' = [ store EXCEPT ![n] = {Genesis} ]
    /\ tip' = [ tip EXCEPT ![n] = Genesis ]
    /\ notified' = [ notified EXCEPT ![n] = Genesis ]
    /\ UNCHANGED <<network, found, peak, grown, table, links, outbox, relays, session,
                   failures>>

\* broadcast_message: a connection of its own for each message and peer,
\* with handshakes first.
OpenRelay(r) ==
    /\ r \in outbox
    /\ outbox' = outbox \ {r}
    /\ relays' = relays \cup {r}
    /\ table' = [ table EXCEPT ![r[2]] = Upsert(@, Call(r[1], r[2]), r[1], Height(r[1])) ]
    /\ UNCHANGED <<world, held, found, notified, links, session, failures>>

\* handle_message of a Block that can be added: it goes on to the others.
AcceptBlock(r) ==
    /\ r \in relays /\ CanAdd(r[2], r[3])
    /\ relays' = relays \ {r}
    /\ table' = [ table EXCEPT ![r[2]] = Note(@, Call(r[1], r[2]), Len(r[3])) ]
    /\ AddBlock(r[2], r[3])
    /\ SendTo(r[2], Addresses(r[2], r[1]), r[3])
    /\ UNCHANGED <<world, found, notified, links, session, failures>>

\* handle_message of a Block that is known or whose parent is not.
RefuseBlock(r) ==
    /\ r \in relays /\ ~CanAdd(r[2], r[3])
    /\ relays' = relays \ {r}
    /\ table' = [ table EXCEPT ![r[2]] = Note(@, Call(r[1], r[2]), Len(r[3])) ]
    /\ UNCHANGED <<world, held, found, notified, links, outbox, session, failures>>

-----------------------------------------------------------------------------
\* synchronize_blocks begins: heights reported and the own height are read.
\* A call that finds no peer ahead returns without effect.  What the node has
\* gained so far is noted for the history only.
StartSync(n) ==
    /\ session[n].phase = "idle"
    /\ \E e \in Heard(n) : e[2] > Height(n)
    /\ session' = [ session EXCEPT ![n] =
          [ NoSession EXCEPT !.phase = "asking", !.todo = Heard(n),
                             !.local_height = Height(n), !.began = grown[n] ] ]
    /\ UNCHANGED <<world, held, found, notified, table, links, outbox, relays, failures>>

\* A peer that reported more than local_height gets a GetHeaders, after the
\* handshakes on a connection of its own.
AskPeer(n) ==
    \E e \in session[n].todo :
        /\ session[n].phase = "asking"
        /\ e[2] > session[n].local_height
        /\ session' = [ session EXCEPT
              ![n].phase = "asked", ![n].todo = @ \ {e}, ![n].peer = e[1],
              ![n].count = Lesser(e[2] - session[n].local_height, MaxRequest) ]
        /\ table' = [ table EXCEPT ![e[1]] = Upsert(@, Call(n, e[1]), n, Height(n)) ]
        /\ UNCHANGED <<world, held, found, notified, links, outbox, relays, failures>>

\* Mutant of FromHeight: the last block the node has is asked for again.
FromHeightAgain(n) == session[n].local_height

FromHeight(n) == session[n].local_height + 1

\* Mutant of Remaining: a finished peer is not let go.
RemainingConnected(s, wire) ==
    [ s EXCEPT !.phase = IF wire = <<>> THEN "asking" ELSE "receiving", !.wire = wire ]

\* The session with a peer goes on with these blocks, or ends: all that were
\* asked for came, or the Ping after the last there was.
Remaining(s, wire) ==
    IF wire # <<>>
    THEN [ s EXCEPT !.phase = "receiving", !.wire = wire ]
    ELSE [ s EXCEPT !.phase = "asking", !.wire = wire, !.peer = NoPeer,
                    !.count = 0, !.previous_height = 0 ]

\* The peer handles GetHeaders on the best chain it has by then; a Ping ends
\* the answer.
ServeHeaders(n) ==
    /\ session[n].phase = "asked"
    /\ session' = [ session EXCEPT ![n] = Remaining(@,
          BlocksFromHeight(@.peer, FromHeight(n), @.count)) ]
    /\ UNCHANGED <<world, held, found, notified, table, links, outbox, relays, failures>>

\* Mutant of ReceiveBlock: the height is read once, when the call begins.
ReceiveBlockLate(n) ==
    /\ session[n].phase = "receiving" /\ session[n].wire # <<>>
    /\ session' = [ session EXCEPT
          ![n].phase = "adding", ![n].previous_height = session[n].began ]
    /\ UNCHANGED <<world, held, found, notified, table, links, outbox, relays, failures>>

\* A Block arrives; previous_height is read.
ReceiveBlock(n) ==
    /\ session[n].phase = "receiving" /\ session[n].wire # <<>>
    /\ session' = [ session EXCEPT
          ![n].phase = "adding", ![n].previous_height = Height(n) ]
    /\ UNCHANGED <<world, held, found, notified, table, links, outbox, relays, failures>>

\* It is added and not relayed ...
AddReceived(n) ==
    /\ session[n].phase = "adding" /\ CanAdd(n, Head(session[n].wire))
    /\ AddBlock(n, Head(session[n].wire))
    /\ session' = [ session EXCEPT ![n].phase = "counting" ]
    /\ UNCHANGED <<world, found, notified, table, links, outbox, relays, failures>>

\* ... unless add_block refuses it.
SkipReceived(n) ==
    /\ session[n].phase = "adding" /\ ~CanAdd(n, Head(session[n].wire))
    /\ session' = [ session EXCEPT ![n] = Remaining(@, Tail(@.wire)) ]
    /\ UNCHANGED <<world, held, found, notified, table, links, outbox, relays, failures>>

\* new_height is read; by now others may have added blocks, or reset the node.
CountImported(n) ==
    LET growth == Larger(Height(n), session[n].previous_height) - session[n].previous_height
        counted == [ session[n] EXCEPT
                        !.imported = @ + growth,
                        !.local_height = IF growth > 0 THEN Height(n) ELSE @ ]
    IN  /\ session[n].phase = "counting"
        /\ session' = [ session EXCEPT ![n] = Remaining(counted, Tail(counted.wire)) ]
        /\ UNCHANGED <<world, held, found, notified, table, links, outbox, relays, failures>>

EndSync(n) ==
    /\ session[n].phase = "asking"
    /\ \A e \in session[n].todo : e[2] <= session[n].local_height
    /\ session' = [ session EXCEPT ![n] = NoSession ]
    /\ UNCHANGED <<world, held, found, notified, table, links, outbox, relays, failures>>

-----------------------------------------------------------------------------
Fails == failures < network.failures /\ failures' = failures + 1

\* A lasting connection breaks.
Disconnect(l) ==
    /\ l \in links /\ Fails
    /\ links' = links \ {l}
    /\ UNCHANGED <<world, held, found, notified, table, outbox, relays, session>>

\* A broadcast finds no connection or loses it: nobody sends it again.
LoseRelay(r) ==
    /\ r \in outbox \cup relays /\ Fails
    /\ outbox' = outbox \ {r} /\ relays' = relays \ {r}
    /\ UNCHANGED <<world, held, found, notified, table, links, session>>

\* A peer does not accept or stops answering: the next one's turn.
LosePeer(n) ==
    /\ session[n].phase \in {"asked", "receiving"} /\ Fails
    /\ session' = [ session EXCEPT ![n] = Remaining(@, <<>>) ]
    /\ UNCHANGED <<world, held, found, notified, table, links, outbox, relays>>

\* A handshake or a write fails: the call returns the error.
AbortSync(n) ==
    /\ session[n].phase = "asked" /\ Fails
    /\ session' = [ session EXCEPT ![n] = NoSession ]
    /\ UNCHANGED <<world, held, found, notified, table, links, outbox, relays>>

SyncStep(n) ==
    \/ StartSync(n) \/ AskPeer(n) \/ ServeHeaders(n) \/ ReceiveBlock(n)
    \/ AddReceived(n) \/ SkipReceived(n) \/ CountImported(n) \/ EndSync(n)

RelayStep(r) == OpenRelay(r) \/ AcceptBlock(r) \/ RefuseBlock(r)

Next ==
    \/ \E n, m \in Peer : Connect(n, m)
    \/ \E n \in Peer : Mine(n) \/ Announce(n) \/ Reset(n) \/ Forget(n) \/ SyncStep(n)
                         \/ LosePeer(n) \/ AbortSync(n)
    \/ \E r \in outbox \cup relays : RelayStep(r) \/ LoseRelay(r)
    \/ \E l \in links : Disconnect(l)

Spec == Init /\ [][Next]_vars

\* Tasks run, frames are drawn and the synchronisation has its timer.  Nobody
\* has to mine or to connect.
Fairness ==
    /\ \A n \in Peer : WF_vars(SyncStep(n)) /\ WF_vars(Announce(n))
    /\ WF_vars(\E r \in outbox \cup relays : RelayStep(r))

FairSpec == Spec /\ Fairness

-----------------------------------------------------------------------------
Session ==
    [ phase : {"idle", "asking", "asked", "receiving", "adding", "counting"},
      todo : SUBSET (Peer \X Nat), local_height : Nat, began : Nat, imported : Nat,
      peer : Peer \cup {NoPeer}, count : Nat, wire : Seq(Seq(Mark)),
      previous_height : Nat ]

TypeOK ==
    /\ network \in Networks
    /\ store \in [ Peer -> SUBSET Seq(Mark) ]
    /\ {tip, found, notified} \subseteq [ Peer -> Seq(Mark) ]
    /\ \A n \in Peer : tip[n] \in store[n]
    /\ {peak, grown, resets} \subseteq [ Peer -> Nat ]
    /\ links \subseteq network.dials
    /\ outbox \cup relays \subseteq Peer \X Peer \X Seq(Mark)
    /\ DOMAIN table = Peer
    /\ \A n \in Peer : \A c \in DOMAIN table[n] :
          table[n][c] \in [ address : Peer \ {n}, best_height : Nat ]
    /\ failures \in 0..network.failures
    \* a call asks other nodes, and only one that waits has a connection
    /\ session \in [ Peer -> Session ]
    /\ \A n \in Peer :
          /\ session[n].todo \subseteq (Peer \ {n}) \X Nat
          /\ session[n].peer = NoPeer <=> session[n].phase \in {"idle", "asking"}

\* "Blocks to sync" counts blocks there have been: no peer is listed higher
\* than it is, or was before it was reset, whatever it relays, reorganises to
\* or loses on the way.  (An entry is never lowered, so a reset peer stays
\* listed as high as before.)
HeardIsHeld ==
    \A n \in Peer : \A c \in DOMAIN table[n] :
        table[n][c].best_height <= peak[table[n][c].address]

\* "Imported N block(s). Height is now H.": the count a call returns is never
\* more than the heights the node gained meanwhile, though announcements and
\* the miner add blocks, and the button takes all away, between its reads.
ImportedWithinGrowth ==
    \A n \in Peer : session[n].phase # "idle" =>
        session[n].imported <= grown[n] - session[n].began

\* Blocks do not go round in circles: a node sends a block that it mined
\* itself and has not notified of since its last reset, or has only just
\* received, not one that it synchronised or sent before.
SentWhenNew ==
    [][ \A r \in outbox' \ outbox :
          \/ r[3] = found[r[1]] /\ notified[r[1]] # r[3]
          \/ r[3] \in store'[r[1]] \ store[r[1]] ]_vars

\* n is behind what peer m is known to have, on the same branch.
Behind(n, m, h) ==
    /\ \E c \in DOMAIN table[n] :
          table[n][c].address = m /\ table[n][c].best_height >= h
    /\ Height(n) < h /\ h <= Height(m)
    /\ IsPrefix(tip[n], tip[m])

\* A height once heard of is reached: by requests of MaxRequest blocks at a
\* time, with connections lost on the way, announcements and resets in between;
\* unless the peer is forgotten or reset, or branches part.
HeardIsReached ==
    \A n \in Peer : \A m \in Peer \ {n} : \A h \in 1..MaxBlocks :
        Behind(n, m, h) ~> ~Behind(n, m, h)
===============================================================================
