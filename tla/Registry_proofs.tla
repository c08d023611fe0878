---------------------------- MODULE Registry_proofs ----------------------------
(***************************************************************************)
(* A window's RPC server is its thread, for every number of windows and    *)
(* whatever they may start a server with.  The flag alone does not say     *)
(* which thread stores its addresses last: stop clears it before the       *)
(* thread has ended, and it is only because the window's thread waits for  *)
(* the end, and does nothing else meanwhile, that none is left to do so    *)
(* when the next server starts.                                            *)
(*                                                                         *)
(* The registry loses an entry only in the ways LostOnlyInARace lists, for *)
(* every number of windows and endpoints: whatever the interleaving of the *)
(* requests and whatever heights they bring, what a copy lacks of what was *)
(* read is stale when it is saved, and what is cut off a full one leaves   *)
(* it full of others at least as high.                                     *)
(***************************************************************************)
EXTENDS Registry, FiniteSetTheorems, TLAPS

\* One value for each window, and requests that are at some stage.
Shapes ==
    /\ DOMAIN running = Windows /\ DOMAIN store = Windows /\ DOMAIN threads = Windows
    /\ DOMAIN gui = Windows /\ DOMAIN request = Windows
    /\ \A w \in Windows : "stage" \in DOMAIN request[w]

ItsThread(w) ==
    \E t \in threads[w] : threads[w] = {t} /\ store[w] = t.offer /\ t.stage # "leaving"

Steady(w) ==
    /\ running[w] => ItsThread(w)
    /\ ~running[w] /\ gui[w] # "joining" => threads[w] = {}
    /\ gui[w] = "joining" => ~running[w]
    /\ request[w].stage # "none" => gui[w] = "waiting"

\* The inductive invariant: the thread of an active server is not about to
\* store its addresses again; a window that waits for its thread has stopped
\* the server, and one that waits for an answer does nothing else.
ServerInv == Shapes /\ \A w \in Windows : Steady(w)

\* No server runs at first.
LEMMA InitEstablishesServer == Init => ServerInv
BY DEF Init, Idle, ServerInv, Shapes, Steady

\* What a window keeps to itself stays as it is when nothing of it changes.
LEMMA OthersStaySteady ==
    ASSUME NEW v, Steady(v),
           threads'[v] = threads[v], store'[v] = store[v], running'[v] = running[v],
           gui'[v] = gui[v], request'[v] = request[v]
    PROVE  Steady(v)'
BY DEF Steady, ItsThread

\* What the server's threads and their window do.
LEMMA ServerStepKeepsServer ==
    ASSUME ServerInv, NEW w \in Windows,
           \/ \E o \in Offers[w] : Start(w, o)
           \/ Bind(w) \/ FailToBind(w) \/ Leave(w) \/ Return(w) \/ Stop(w) \/ Join(w)
    PROVE  ServerInv'
<1> USE DEF ServerInv, Shapes, Thread
<1>1. ASSUME NEW o \in Offers[w], Start(w, o) PROVE ServerInv'
  <2>1. /\ threads[w] = {} /\ threads'[w] = {Thread(o, "binding")}
        /\ store'[w] = o /\ running'[w] /\ gui'[w] = "idle" /\ request' = request
    BY <1>1 DEF Start, Steady
  <2>2. ItsThread(w)'
    BY <2>1 DEF ItsThread
  <2>3. Shapes'
    BY <1>1 DEF Start
  <2>4. ASSUME NEW v \in Windows, v # w PROVE Steady(v)'
    <3>1. /\ threads'[v] = threads[v] /\ store'[v] = store[v] /\ running'[v] = running[v]
          /\ gui'[v] = gui[v] /\ request'[v] = request[v]
      BY <1>1, <2>4 DEF Start
    <3> QED BY <3>1, OthersStaySteady
  <2>5. request'[w].stage = "none"
    BY <1>1, <2>1 DEF Start, Steady
  <2>6. Steady(w)'
    BY <2>1, <2>2, <2>5 DEF Steady
  <2> QED BY <2>3, <2>4, <2>6
<1>2. CASE Bind(w)
  <2>1. PICK t \in threads[w] :
          /\ threads' = [ threads EXCEPT ![w] = (@ \ {t}) \cup {Thread(t.offer, "listening")} ]
          /\ UNCHANGED <<running, store, gui, request>>
    BY <1>2 DEF Bind
  <2>2. ItsThread(w)' \/ ~running[w]
    <3> DEFINE u == [ offer |-> t.offer, stage |-> "listening" ]
    <3>1. threads'[w] = (threads[w] \ {t}) \cup {u}
      BY <2>1
    <3> SUFFICES ASSUME running[w] PROVE ItsThread(w)'
      OBVIOUS
    <3>2. threads[w] = {t} /\ store[w] = t.offer
      BY DEF Steady, ItsThread
    <3>3. threads'[w] = {u} /\ store'[w] = u.offer /\ u.stage # "leaving"
      BY <2>1, <3>1, <3>2
    <3> QED BY <3>3 DEF ItsThread
  <2>3. Steady(w)'
    BY <2>1, <2>2 DEF Steady
  <2>4. ASSUME NEW v \in Windows, v # w PROVE Steady(v)'
    BY <2>1, <2>4, OthersStaySteady
  <2> QED BY <2>1, <2>3, <2>4
<1>3. CASE FailToBind(w)
  BY <1>3 DEF FailToBind, Steady, ItsThread
<1>4. CASE Leave(w)
  <2>1. PICK t \in threads[w] :
          /\ ~running[w]
          /\ threads' = [ threads EXCEPT ![w] = (@ \ {t}) \cup {Thread(t.offer, "leaving")} ]
          /\ UNCHANGED <<running, store, gui, request>>
    BY <1>4 DEF Leave
  <2>2. gui[w] = "joining"
    BY <2>1 DEF Steady
  <2> QED BY <2>1, <2>2 DEF Steady, ItsThread
<1>5. CASE Return(w)
  <2>1. PICK t \in threads[w] :
          /\ t.stage = "leaving"
          /\ threads' = [ threads EXCEPT ![w] = @ \ {t} ]
          /\ store' = [ store EXCEPT ![w] = t.offer ]
          /\ UNCHANGED <<running, gui, request>>
    BY <1>5 DEF Return
  <2>2. ~running[w] /\ gui[w] = "joining"
    BY <2>1 DEF Steady, ItsThread
  <2> QED BY <2>1, <2>2 DEF Steady, ItsThread
<1>6. CASE Stop(w)
  BY <1>6 DEF Stop, Steady, ItsThread
<1>7. CASE Join(w)
  BY <1>7 DEF Join, server, Steady, ItsThread
<1> QED BY <1>1, <1>2, <1>3, <1>4, <1>5, <1>6, <1>7

\* A request that goes on, on the registry's side or the window's.
LEMMA RequestStepKeepsServer ==
    ASSUME ServerInv, NEW w \in Windows,
           \/ LoadToPublish(w) \/ LoadToProbe(w) \/ LoadToList(w)
           \/ Probe(w) \/ Truncate(w) \/ Write(w) \/ Published(w) \/ StatusReported(w)
    PROVE  ServerInv'
<1>1. /\ request[w].stage # "none"
      /\ UNCHANGED <<server, gui>>
  BY DEF LoadToPublish, LoadToProbe, LoadToList, Probe, Truncate, Write, Published,
         StatusReported
<1>2. /\ DOMAIN request' = Windows
      /\ "stage" \in DOMAIN request'[w]
      /\ \A v \in Windows \ {w} : request'[v] = request[v]
  <2>1. CASE LoadToPublish(w)
    BY <2>1 DEF LoadToPublish, ServerInv, Shapes
  <2>2. CASE LoadToProbe(w)
    BY <2>2 DEF LoadToProbe, ServerInv, Shapes
  <2>3. CASE LoadToList(w)
    BY <2>3 DEF LoadToList, ServerInv, Shapes
  <2>4. CASE Probe(w)
    <3>1. PICK u, copy : request' =
            [ request EXCEPT ![w].copy = copy,
                             ![w].left = @ \ {u},
                             ![w].time = IF request[w].left = {u} THEN 0 ELSE @,
                             ![w].stage = IF request[w].left = {u} THEN "save" ELSE "probe" ]
      BY <2>4, Zenon DEF Probe
    <3> QED BY <3>1 DEF ServerInv, Shapes
  <2>5. CASE Truncate(w) \/ Write(w)
    BY <2>5 DEF Truncate, Write, ServerInv, Shapes
  <2>6. "stage" \in DOMAIN Idle
    BY DEF Idle
  <2>7. CASE Published(w)
    BY <2>6, <2>7 DEF Published, Fetch, ServerInv, Shapes
  <2>8. CASE StatusReported(w)
    BY <2>6, <2>8 DEF StatusReported, ServerInv, Shapes
  <2> QED BY <2>1, <2>2, <2>3, <2>4, <2>5, <2>7, <2>8
<1> QED BY <1>1, <1>2 DEF server, ServerInv, Shapes, Steady, ItsThread

\* A request that begins or ends.
LEMMA WindowStepKeepsServer ==
    ASSUME ServerInv, NEW w \in Windows,
           Publish(w) \/ Refresh(w) \/ Fail(w) \/ ListReported(w)
    PROVE  ServerInv'
<1> USE DEF server, ServerInv, Shapes, Idle, Steady, ItsThread
<1>1. CASE Publish(w)
  BY <1>1 DEF Publish
<1>2. CASE Refresh(w)
  BY <1>2 DEF Refresh, Fetch
<1>3. CASE Fail(w)
  BY <1>3 DEF Fail
<1>4. CASE ListReported(w)
  BY <1>4 DEF ListReported
<1> QED BY <1>1, <1>2, <1>3, <1>4

\* Every step keeps the invariant.
LEMMA StepPreservesServer ==
    ASSUME ServerInv, [Next]_vars
    PROVE  ServerInv'
<1>1. CASE Tick
  BY <1>1 DEF Tick, server, ServerInv, Shapes, Steady, ItsThread
<1>2. CASE UNCHANGED vars
  BY <1>2 DEF vars, server, ServerInv, Shapes, Steady, ItsThread
<1> QED BY <1>1, <1>2, ServerStepKeepsServer, RequestStepKeepsServer, WindowStepKeepsServer
        DEF Next

\* An active server has one thread and advertises what that thread was started
\* with, and a stopped one has none, however starts, stops, failing binds and
\* the registry's requests follow each other.
THEOREM ActiveServerIsItsThread == Spec => []ServerIsItsThread
<1>1. ServerInv => ServerIsItsThread
  BY DEF ServerInv, Steady, ItsThread, ServerIsItsThread
<1> QED BY <1>1, InitEstablishesServer, StepPreservesServer, PTL DEF Spec
-----------------------------------------------------------------------------
Fields == {"action", "stage", "copy", "status"}

Shown(w) ==
    /\ request[w].action = "status" /\ request[w].stage = "answer"
          => stayed[w] \subseteq DOMAIN request[w].copy
    /\ request[w].action = "list" => stayed[w] \subseteq request[w].status

\* The inductive invariant: a status that is answered has been written, so that
\* what it lacks is not in the file; and it is kept until the list is there.
ShownInv ==
    /\ DOMAIN request = Windows /\ DOMAIN stayed = Windows
    /\ \A w \in Windows : Fields \subseteq DOMAIN request[w] /\ Shown(w)

\* Nothing has been fetched at first.
LEMMA InitEstablishesShown == Init => ShownInv
BY DEF Init, Idle, Fields, Shown, ShownInv

\* What is written is part of the copy, and fits; what is cut leaves the
\* registry full of entries at least as high.
LEMMA WrittenLeads ==
    ASSUME NEW copy, NEW kept \in Leading(copy)
    PROVE  LET written == Restrict(copy, kept)
           IN  /\ kept \subseteq DOMAIN copy /\ DOMAIN written = kept
               /\ Cardinality(DOMAIN written) <= MaxEndpoints
               /\ \A u \in DOMAIN copy \ kept : Fills(written, copy[u].height)
<1> DEFINE written == Restrict(copy, kept)
<1>1. /\ kept \subseteq DOMAIN copy /\ Cardinality(kept) <= MaxEndpoints
      /\ \A u \in DOMAIN copy \ kept :
            /\ Cardinality(kept) = MaxEndpoints
            /\ \A v \in kept : copy[v].height >= copy[u].height
  BY DEF Leading
<1>2. DOMAIN written = kept /\ \A v \in kept : written[v] = copy[v]
  BY DEF Restrict
<1> HIDE DEF written
<1>3. ASSUME NEW u \in DOMAIN copy \ kept PROVE Fills(written, copy[u].height)
  <2>1. { v \in DOMAIN written : written[v].height >= copy[u].height } = kept
    BY <1>1, <1>2
  <2> QED BY <1>1, <2>1 DEF Fills
<1>4. /\ kept \subseteq DOMAIN copy /\ DOMAIN written = kept
      /\ Cardinality(DOMAIN written) <= MaxEndpoints
      /\ \A u \in DOMAIN copy \ kept : Fills(written, copy[u].height)
  BY <1>1, <1>2, <1>3
<1> QED BY <1>4 DEF written

\* Only a window's own request, and less of what stayed, is nothing to others.
LEMMA OthersStayShown ==
    ASSUME ShownInv, NEW w \in Windows,
           DOMAIN request' = Windows, DOMAIN stayed' = Windows,
           Fields \subseteq DOMAIN request'[w], Shown(w)',
           \A v \in Windows \ {w} :
               request'[v] = request[v] /\ stayed'[v] \subseteq stayed[v]
    PROVE  ShownInv'
<1>1. ASSUME NEW v \in Windows, v # w PROVE Fields \subseteq DOMAIN request'[v] /\ Shown(v)'
  BY <1>1 DEF ShownInv, Shown
<1> QED BY <1>1 DEF ShownInv, Shown

\* A request's own steps keep what its window will show.
LEMMA RequestStepKeepsShown ==
    ASSUME ShownInv, NEW w \in Windows,
           \/ LoadToPublish(w) \/ LoadToProbe(w) \/ LoadToList(w)
           \/ Probe(w) \/ Truncate(w) \/ Write(w)
    PROVE  ShownInv'
<1> USE DEF Fields
<1>1. CASE LoadToPublish(w)
  <2>1. PICK height \in Heights :
          request' = [ request EXCEPT ![w].stage = "save", ![w].url = NoUrl,
                                      ![w].read = LoadRegistry,
                                      ![w].copy = Seen(LoadRegistry, request[w].url, height) ]
    BY <1>1 DEF LoadToPublish
  <2>2. stayed' = stayed /\ request[w].action = "publish"
    BY <1>1 DEF LoadToPublish
  <2>3. /\ request'[w].stage = "save" /\ request'[w].action = "publish"
        /\ Fields \subseteq DOMAIN request'[w] /\ DOMAIN request' = Windows
        /\ \A v \in Windows \ {w} : request'[v] = request[v]
    BY <2>1, <2>2 DEF ShownInv
  <2> QED BY <2>2, <2>3, OthersStayShown DEF ShownInv, Shown
<1>2. CASE LoadToProbe(w)
  <2>1. /\ stayed' = stayed /\ request'[w].stage \in {"save", "probe"}
        /\ request'[w].action = "status"
    BY <1>2 DEF LoadToProbe, ShownInv
  <2> QED BY <1>2, <2>1, OthersStayShown DEF LoadToProbe, ShownInv, Shown
<1>3. CASE LoadToList(w)
  <2>1. /\ stayed' = stayed /\ request'[w].status = request[w].status
        /\ request[w].action = "list" /\ request'[w].action = "list"
    BY <1>3 DEF LoadToList, ShownInv
  <2> QED BY <1>3, <2>1, OthersStayShown DEF LoadToList, ShownInv, Shown
<1>4. CASE Probe(w)
  <2>1. PICK u, copy : request' =
          [ request EXCEPT ![w].copy = copy,
                           ![w].left = @ \ {u},
                           ![w].time = IF request[w].left = {u} THEN 0 ELSE @,
                           ![w].stage = IF request[w].left = {u} THEN "save" ELSE "probe" ]
    BY <1>4, Zenon DEF Probe
  <2>2. request[w].action = "status" /\ stayed' = stayed
    BY <1>4 DEF Probe
  <2>3. /\ request'[w].stage \in {"save", "probe"} /\ request'[w].action = "status"
        /\ Fields \subseteq DOMAIN request'[w]
    BY <2>1, <2>2 DEF ShownInv
  <2> QED BY <2>1, <2>2, <2>3, OthersStayShown DEF ShownInv, Shown
<1>5. CASE Truncate(w)
  <2>1. /\ stayed' = stayed /\ request'[w].stage = "write"
        /\ request'[w].action = request[w].action /\ request'[w].status = request[w].status
    BY <1>5 DEF Truncate, ShownInv
  <2> QED BY <1>5, <2>1, OthersStayShown DEF Truncate, ShownInv, Shown
<1>6. CASE Write(w)
  <2>0. DOMAIN file' \subseteq DOMAIN request[w].copy
    BY <1>6, WrittenLeads DEF Write
  <2>1. /\ stayed'[w] \subseteq stayed[w] \cap DOMAIN request[w].copy
        /\ request'[w].copy = request[w].copy
        /\ request'[w].action = request[w].action /\ request'[w].status = request[w].status
    BY <1>6, <2>0 DEF Write, ShownInv
  <2> QED BY <1>6, <2>1, OthersStayShown DEF Write, ShownInv, Shown
<1> QED BY <1>1, <1>2, <1>3, <1>4, <1>5, <1>6

\* So do the steps that begin and end one.
LEMMA WindowStepKeepsShown ==
    ASSUME ShownInv, NEW w \in Windows,
           \/ Publish(w) \/ Refresh(w) \/ Fail(w)
           \/ Published(w) \/ StatusReported(w) \/ ListReported(w)
    PROVE  ShownInv'
<1> USE DEF Fields
<1>1. Fields \subseteq DOMAIN Idle
  BY DEF Idle
<1>2. CASE Publish(w)
  <2>1. stayed' = stayed /\ request'[w].action = "publish"
    BY <1>2 DEF Publish, Idle, ShownInv
  <2> QED BY <1>1, <1>2, <2>1, OthersStayShown DEF Publish, ShownInv, Shown
<1>3. CASE Refresh(w) \/ Published(w)
  <2>1. Fetch(w)
    BY <1>3 DEF Refresh, Published
  <2>2. request'[w].action = "status" /\ request'[w].stage = "load"
    BY <2>1 DEF Fetch, Idle, ShownInv
  <2> QED BY <1>1, <2>1, <2>2, OthersStayShown DEF Fetch, ShownInv, Shown
<1>4. CASE Fail(w) \/ ListReported(w)
  <2>1. request' = [ request EXCEPT ![w] = Idle ] /\ stayed' = [ stayed EXCEPT ![w] = {} ]
    BY <1>4 DEF Fail, ListReported
  <2> QED BY <1>1, <2>1, OthersStayShown DEF ShownInv, Shown
<1>5. CASE StatusReported(w)
  <2>1. /\ stayed' = stayed /\ request'[w].action = "list"
        /\ request'[w].status = DOMAIN request[w].copy
        /\ stayed[w] \subseteq DOMAIN request[w].copy
    BY <1>5 DEF StatusReported, Idle, ShownInv, Shown
  <2> QED BY <1>1, <1>5, <2>1, OthersStayShown DEF StatusReported, ShownInv, Shown
<1> QED BY <1>2, <1>3, <1>4, <1>5

\* And all others.
LEMMA StepPreservesShown ==
    ASSUME ShownInv, [Next]_vars
    PROVE  ShownInv'
<1>1. ASSUME UNCHANGED <<request, stayed>> PROVE ShownInv'
  BY <1>1 DEF ShownInv, Shown, Fields
<1>2. ASSUME NEW w \in Windows,
             \/ \E o \in Offers[w] : Start(w, o)
             \/ Bind(w) \/ FailToBind(w) \/ Leave(w) \/ Return(w) \/ Stop(w) \/ Join(w)
      PROVE  UNCHANGED <<request, stayed>>
  BY <1>2 DEF Start, Bind, FailToBind, Leave, Return, Stop, Join
<1>3. Tick \/ UNCHANGED vars => UNCHANGED <<request, stayed>>
  BY DEF Tick, vars
<1> QED BY <1>1, <1>2, <1>3, RequestStepKeepsShown, WindowStepKeepsShown DEF Next

\* What the registry listed all through a fetch is shown when it ends, for any
\* number of windows whose requests read, probe and write the file meanwhile.
THEOREM StayedEndpointsAreShown == Spec => []StayedIsShown
<1>1. ShownInv => StayedIsShown
  BY DEF ShownInv, Shown, StayedIsShown, Merged
<1> QED BY <1>1, InitEstablishesShown, StepPreservesShown, PTL DEF Spec

-----------------------------------------------------------------------------
\* The copies of the registry: entries of finitely many endpoints.
Copies == { e \in Entries : IsFiniteSet(DOMAIN e) }

Actions == {"none", "publish", "status", "list"}
Stages == {"none", "load", "probe", "save", "write", "answer"}

Request == [ action : Actions, stage : Stages, url : Url \cup {NoUrl}, read : Copies,
             copy : Copies, left : SUBSET Url, time : 0..MaxNow, status : SUBSET Url ]

\* What a request may leave out of what it has read is stale, now and later; and
\* what it has still to probe is as it was read.
Faithful(w) ==
    LET r == request[w]
    IN  /\ r.stage \in {"probe", "save", "write"} =>
              \A u \in DOMAIN r.read : u \in DOMAIN r.copy \/ r.read[u].seen + StaleAfter < now
        /\ r.stage = "probe" =>
              /\ r.time <= now /\ r.left # {}
              /\ r.left \subseteq DOMAIN r.copy \cap DOMAIN r.read
              /\ \A u \in r.left : r.copy[u] = r.read[u]
        /\ r.stage = "load" /\ r.action = "publish" => r.url \in Url

\* The request that is to write has the file, and only that one.
Writing ==
    /\ writer # NoWindow => writer \in Windows /\ request[writer].stage = "write"
    /\ \A w \in Windows : request[w].stage = "write" => writer = w

\* The inductive invariant of the windows, of their requests and of the file.
RegistryInv ==
    /\ TypeOK
    /\ request \in [ Windows -> Request ]
    /\ IsFiniteSet(DOMAIN file)
    /\ Writing
    /\ \A w \in Windows : Faithful(w)

Server == { Thread(o, stage) : o \in Offer, stage \in {"binding", "listening", "leaving"} }

Entered == [ seen : 0..MaxNow, height : Heights ]

\* Entries are functions on part of the endpoints.
LEMMA EntriesAre ==
    ASSUME NEW e
    PROVE  e \in Entries <=> /\ DOMAIN e \subseteq Url
                             /\ e \in [ DOMAIN e -> Entered ]
BY DEF Entries, Entered

\* What there is at first.
LEMMA ListedIsThere ==
    /\ Listed \in Copies /\ Cardinality(DOMAIN Listed) <= MaxEndpoints
    /\ Nothing \in Copies /\ Idle \in Request
<1>1. Listed \in Copies /\ Cardinality(DOMAIN Listed) <= MaxEndpoints
  BY RegistryAssumption, EntriesAre DEF Copies, Entered
<1>2. Nothing \in Copies
  BY FS_EmptySet, EntriesAre DEF Copies, Nothing
<1>3. 0 \in 0..MaxNow
  BY RegistryAssumption
<1> QED BY <1>1, <1>2, <1>3 DEF Idle, Request, Actions, Stages

\* What is loaded, an entry more, some entries less, and one that was seen again
\* are copies.
LEMMA CopiesStay ==
    ASSUME NEW e \in Copies
    PROVE  /\ \A D : D \subseteq DOMAIN e => Restrict(e, D) \in Copies
           /\ \A u \in Url, height \in Heights :
                now \in 0..MaxNow => Seen(e, u, height) \in Copies
           /\ \A u, x : x \in Entered => [ e EXCEPT ![u] = x ] \in Copies
<1>1. DOMAIN e \subseteq Url /\ IsFiniteSet(DOMAIN e) /\ e \in [ DOMAIN e -> Entered ]
  BY EntriesAre DEF Copies
<1>2. ASSUME NEW D, D \subseteq DOMAIN e PROVE Restrict(e, D) \in Copies
  <2> DEFINE r == [ x \in D |-> e[x] ]
  <2>1. r = Restrict(e, D) /\ DOMAIN r = D
    BY DEF Restrict
  <2>2. D \subseteq Url /\ IsFiniteSet(D)
    BY <1>1, <1>2, FS_Subset
  <2>3. r \in [ D -> Entered ]
    BY <1>1, <1>2
  <2> HIDE DEF r
  <2> QED BY <2>1, <2>2, <2>3, EntriesAre DEF Copies
<1>5. ASSUME NEW u \in Url, NEW height \in Heights, now \in 0..MaxNow
      PROVE  Seen(e, u, height) \in Copies
  <2> DEFINE s == Seen(e, u, height)
  <2>0. Entry(now, height) \in Entered
    BY <1>5 DEF Entry, Entered
  <2>1. DOMAIN s = DOMAIN e \cup {u} /\ s \in [ DOMAIN e \cup {u} -> Entered ]
    BY <1>1, <1>5, <2>0 DEF Seen
  <2>2. IsFiniteSet(DOMAIN e \cup {u})
    BY <1>1, FS_AddElement
  <2> HIDE DEF s
  <2>3. s \in Copies
    BY <1>1, <2>1, <2>2, EntriesAre DEF Copies
  <2> QED BY <2>3 DEF s
<1>6. ASSUME NEW u, NEW x, x \in Entered PROVE [ e EXCEPT ![u] = x ] \in Copies
  <2> DEFINE s == [ e EXCEPT ![u] = x ]
  <2>1. DOMAIN s = DOMAIN e /\ s \in [ DOMAIN e -> Entered ]
    BY <1>1, <1>6
  <2> HIDE DEF s
  <2>2. s \in Copies
    BY <1>1, <2>1, EntriesAre DEF Copies
  <2> QED BY <2>2 DEF s
<1> QED BY <1>2, <1>5, <1>6

\* The file is what was listed, and no request has begun.
LEMMA InitEstablishesRegistry == Init => RegistryInv
<1> SUFFICES ASSUME Init PROVE RegistryInv
  OBVIOUS
<1>1. /\ Listed \in Copies /\ Cardinality(DOMAIN Listed) <= MaxEndpoints
      /\ Idle \in Request /\ MaxNow \in Nat
  BY ListedIsThere, RegistryAssumption
<1>2. request \in [ Windows -> Request ] /\ IsFiniteSet(DOMAIN file)
  BY <1>1 DEF Init, Copies
<1>3. \A w \in Windows : request[w].stage = "none"
  BY DEF Init, Idle
<1>4. Writing /\ \A w \in Windows : Faithful(w)
  BY <1>3 DEF Init, Writing, Faithful
<1>5. TypeOK
  BY <1>1, <1>3 DEF Init, TypeOK, Copies
<1> QED BY <1>2, <1>4, <1>5 DEF RegistryInv

\* What the file read without the lock holds.
LEMMA Loading == ASSUME RegistryInv PROVE LoadRegistry \in Copies
BY ListedIsThere DEF RegistryInv, TypeOK, LoadRegistry, Copies

\* A step that leaves the file, its writer and the clock alone and takes the
\* request of one window on, without writing.
LEMMA OthersStayFaithful ==
    ASSUME RegistryInv, NEW w \in Windows, NEW r \in Request,
           request' = [ request EXCEPT ![w] = r ],
           UNCHANGED <<server, registry, now>>,
           gui' \in [ Windows -> {"idle", "joining", "waiting"} ],
           \A v \in Windows \ {w} : gui'[v] = gui[v],
           r.stage = "none" <=> gui'[w] # "waiting",
           request[w].stage # "write", r.stage # "write", Faithful(w)'
    PROVE  RegistryInv'
<1>1. request' \in [ Windows -> Request ]
  BY DEF RegistryInv
<1>2. request'[w] = r /\ \A v \in Windows \ {w} : request'[v] = request[v]
  BY DEF RegistryInv
<1>3. Writing'
  BY <1>2 DEF Writing, RegistryInv, registry
<1>4. \A v \in Windows : Faithful(v)'
  BY <1>2 DEF Faithful, RegistryInv
<1>5. \A v \in Windows : request'[v].stage = "none" <=> gui'[v] # "waiting"
  BY <1>2 DEF RegistryInv, TypeOK
<1>6. /\ writer' # NoWindow <=> \E v \in Windows : request'[v].stage = "write"
      /\ \A v \in Windows : request'[v].stage = "write" => writer' = v
  BY <1>2 DEF RegistryInv, TypeOK, registry
<1>7. TypeOK'
  <2>1. UNCHANGED <<running, store, threads, file, writer, now>>
    BY DEF server, registry
  <2>2. TypeOK
    BY DEF RegistryInv
  <2> QED BY <1>5, <1>6, <2>1, <2>2 DEF TypeOK
<1> QED BY <1>1, <1>3, <1>4, <1>7 DEF RegistryInv, registry

\* What the server's threads and their window do.
LEMMA ServerStepKeepsRegistry ==
    ASSUME ServerInv, RegistryInv, NEW w \in Windows,
           \/ \E o \in Offers[w] : Start(w, o)
           \/ Bind(w) \/ FailToBind(w) \/ Leave(w) \/ Return(w) \/ Stop(w) \/ Join(w)
    PROVE  RegistryInv'
<1>1. UNCHANGED <<request, registry, now>>
  BY DEF Start, Bind, FailToBind, Leave, Return, Stop, Join
<1>2. ASSUME NEW v \in Windows, NEW t \in threads[v]
      PROVE  /\ t.offer \in Offer
             /\ \A stage \in {"binding", "listening", "leaving"} : Thread(t.offer, stage) \in Server
  <2>1. t \in Server
    BY <1>2 DEF RegistryInv, TypeOK, Server
  <2> QED BY <2>1 DEF Server, Thread
<1>3. running' \in [ Windows -> BOOLEAN ]
  <2>1. running \in [ Windows -> BOOLEAN ]
    BY DEF RegistryInv, TypeOK
  <2>2. running' = running \/ \E r \in BOOLEAN : running' = [ running EXCEPT ![w] = r ]
    BY DEF Start, Bind, FailToBind, Leave, Return, Stop, Join, server
  <2> QED BY <2>1, <2>2
<1>4. /\ gui' \in [ Windows -> {"idle", "joining", "waiting"} ]
      /\ \A v \in Windows : gui'[v] = "waiting" <=> gui[v] = "waiting"
  <2>1. DOMAIN gui = Windows /\ \A v \in Windows : gui[v] \in {"idle", "joining", "waiting"}
    BY DEF RegistryInv, TypeOK
  <2>2. \/ gui' = gui
        \/ gui[w] = "idle" /\ gui' = [ gui EXCEPT ![w] = "joining" ]
        \/ gui[w] = "joining" /\ gui' = [ gui EXCEPT ![w] = "idle" ]
    BY DEF Start, Bind, FailToBind, Leave, Return, Stop, Join
  <2>3. gui \in [ Windows -> {"idle", "joining", "waiting"} ]
    BY DEF RegistryInv, TypeOK
  <2> QED BY <2>1, <2>2, <2>3
<1>5. /\ store' \in [ Windows -> Offer \cup {Unset} ]
      /\ \A v \in Windows : threads'[v] \subseteq Server
  <2> DEFINE O == Offer \cup {Unset}
  <2>1. store \in [ Windows -> O ] /\ \A v \in Windows : threads[v] \subseteq Server
    BY DEF RegistryInv, TypeOK, Server
  <2>2. DOMAIN threads = Windows
    BY DEF ServerInv, Shapes
  <2>3. \A v \in Windows : \A t \in threads[v] : t.offer \in O
    BY <1>2
  <2>4. \A o \in Offers[w] : o \in O /\ Thread(o, "binding") \in Server
    BY DEF Offer, Server
  <2> HIDE DEF O
  <2>5. ASSUME NEW T \in SUBSET Server, threads' = [ threads EXCEPT ![w] = T ]
        PROVE  \A v \in Windows : threads'[v] \subseteq Server
    BY <2>1, <2>2, <2>5
  <2>6. ASSUME NEW o \in Offers[w], Start(w, o)
        PROVE  store' \in [ Windows -> O ] /\ \A v \in Windows : threads'[v] \subseteq Server
    <3>1. /\ threads' = [ threads EXCEPT ![w] = threads[w] \cup {Thread(o, "binding")} ]
          /\ store' = [ store EXCEPT ![w] = o ]
      BY <2>6 DEF Start
    <3>2. threads[w] \cup {Thread(o, "binding")} \in SUBSET Server
      BY <2>1, <2>4
    <3> QED BY <2>1, <2>4, <2>5, <3>1, <3>2
  <2>7. ASSUME Bind(w) \/ Leave(w)
        PROVE  store' \in [ Windows -> O ] /\ \A v \in Windows : threads'[v] \subseteq Server
    <3>1. PICK t \in threads[w], stage \in {"binding", "listening", "leaving"} :
            /\ threads' = [ threads EXCEPT ![w] = (threads[w] \ {t}) \cup {Thread(t.offer, stage)} ]
            /\ store' = store
      BY <2>7 DEF Bind, Leave
    <3>2. (threads[w] \ {t}) \cup {Thread(t.offer, stage)} \in SUBSET Server
      BY <1>2, <2>1, <3>1
    <3> QED BY <2>1, <2>5, <3>1, <3>2
  <2>8. ASSUME FailToBind(w) \/ Return(w)
        PROVE  store' \in [ Windows -> O ] /\ \A v \in Windows : threads'[v] \subseteq Server
    <3>1. PICK t \in threads[w] :
            /\ threads' = [ threads EXCEPT ![w] = threads[w] \ {t} ]
            /\ store' = store \/ store' = [ store EXCEPT ![w] = t.offer ]
      BY <2>8 DEF FailToBind, Return
    <3>2. threads[w] \ {t} \in SUBSET Server /\ t.offer \in O
      BY <2>1, <2>3, <3>1
    <3>3. store' \in [ Windows -> O ]
      BY <2>1, <3>1, <3>2
    <3> QED BY <2>5, <3>1, <3>2, <3>3
  <2>9. ASSUME Stop(w) \/ Join(w)
        PROVE  store' \in [ Windows -> O ] /\ \A v \in Windows : threads'[v] \subseteq Server
    BY <2>1, <2>9 DEF Stop, Join, server
  <2>10. store' \in [ Windows -> O ] /\ \A v \in Windows : threads'[v] \subseteq Server
    BY <2>6, <2>7, <2>8, <2>9
  <2> QED BY <2>10 DEF O
<1>6. TypeOK'
  BY <1>1, <1>3, <1>4, <1>5 DEF RegistryInv, TypeOK, Server, registry
<1>7. Writing' /\ \A v \in Windows : Faithful(v)'
  BY <1>1 DEF RegistryInv, Writing, Faithful, registry
<1> QED BY <1>1, <1>6, <1>7 DEF RegistryInv, registry

\* What a window begins and what it ends.
LEMMA WindowStepKeepsRegistry ==
    ASSUME ServerInv, RegistryInv, NEW w \in Windows,
           \/ Publish(w) \/ Refresh(w) \/ Fail(w)
           \/ Published(w) \/ StatusReported(w) \/ ListReported(w)
    PROVE  RegistryInv'
<1>1. /\ Idle \in Request
      /\ gui \in [ Windows -> {"idle", "joining", "waiting"} ] /\ request[w] \in Request
      /\ request[w].stage = "none" <=> gui[w] # "waiting"
  BY ListedIsThere DEF RegistryInv, TypeOK
<1>2. ASSUME NEW r \in Request,
             request' = [ request EXCEPT ![w] = r ],
             UNCHANGED <<server, registry, now>>,
             gui' = gui \/ \E g \in {"idle", "waiting"} : gui' = [ gui EXCEPT ![w] = g ],
             r.stage = "none" <=> gui'[w] # "waiting",
             r.stage \in {"none", "load"}, request[w].stage # "write",
             r.stage = "load" /\ r.action = "publish" => r.url \in Url
      PROVE  RegistryInv'
  <2>1. request'[w] = r
    BY <1>2 DEF RegistryInv
  <2>2. Faithful(w)'
    BY <1>2, <2>1 DEF Faithful
  <2>3. /\ gui' \in [ Windows -> {"idle", "joining", "waiting"} ]
        /\ \A v \in Windows \ {w} : gui'[v] = gui[v]
    BY <1>1, <1>2
  <2> QED BY <1>2, <2>2, <2>3, OthersStayFaithful
<1>3. CASE Publish(w)
  <2> DEFINE r == [ Idle EXCEPT !.action = "publish", !.stage = "load", !.url = store[w].url ]
  <2>1. store[w].url \in Url
    <3>1. store[w] \in Offer \cup {Unset} /\ store[w].url # NoUrl
      BY <1>3 DEF Publish, RegistryInv, TypeOK
    <3> QED BY <3>1, RegistryAssumption DEF Unset
  <2>2. r \in Request /\ r.stage = "load" /\ r.url \in Url
    BY <1>1, <2>1 DEF Request, Actions, Stages
  <2>3. /\ request' = [ request EXCEPT ![w] = r ] /\ UNCHANGED <<server, registry, now>>
        /\ gui' = [ gui EXCEPT ![w] = "waiting" ] /\ gui[w] = "idle"
    BY <1>3 DEF Publish
  <2> HIDE DEF r
  <2> QED BY <1>1, <1>2, <2>2, <2>3
<1>4. CASE Refresh(w) \/ Published(w)
  <2> DEFINE r == [ Idle EXCEPT !.action = "status", !.stage = "load" ]
  <2>1. r \in Request /\ r.stage = "load" /\ r.action = "status"
    BY <1>1 DEF Request, Actions, Stages
  <2>2. /\ request' = [ request EXCEPT ![w] = r ] /\ UNCHANGED <<server, registry, now>>
        /\ \/ gui' = [ gui EXCEPT ![w] = "waiting" ] /\ gui[w] = "idle"
           \/ gui' = gui /\ request[w].stage = "answer"
    <3>1. CASE Refresh(w)
      BY <3>1 DEF Refresh, Fetch
    <3>2. CASE Published(w)
      BY <3>2 DEF Published, Fetch
    <3> QED BY <1>4, <3>1, <3>2
  <2> HIDE DEF r
  <2> QED BY <1>1, <1>2, <2>1, <2>2
<1>5. CASE Fail(w) \/ ListReported(w)
  <2>1. /\ request' = [ request EXCEPT ![w] = Idle ] /\ UNCHANGED <<server, registry, now>>
        /\ gui' = [ gui EXCEPT ![w] = "idle" ] /\ request[w].stage = "answer"
    BY <1>5 DEF Fail, ListReported
  <2>2. Idle.stage = "none"
    BY DEF Idle
  <2> QED BY <1>1, <1>2, <2>1, <2>2
<1>6. CASE StatusReported(w)
  <2> DEFINE r == [ Idle EXCEPT !.action = "list", !.stage = "load", !.status = DOMAIN request[w].copy ]
  <2>1. DOMAIN request[w].copy \subseteq Url
    <3>1. request[w].copy \in Entries
      BY <1>1 DEF Request, Copies
    <3> QED BY <3>1, EntriesAre
  <2>2. r \in Request /\ r.stage = "load" /\ r.action = "list"
    BY <1>1, <2>1 DEF Request, Actions, Stages
  <2>3. /\ request' = [ request EXCEPT ![w] = r ] /\ UNCHANGED <<server, registry, now, gui>>
        /\ request[w].stage = "answer"
    BY <1>6 DEF StatusReported
  <2> HIDE DEF r
  <2> QED BY <1>1, <1>2, <2>2, <2>3
<1> QED BY <1>3, <1>4, <1>5, <1>6

\* A request reads the file, probes, and takes the lock.
LEMMA RequestStepKeepsRegistry ==
    ASSUME RegistryInv, NEW w \in Windows,
           LoadToPublish(w) \/ LoadToProbe(w) \/ LoadToList(w) \/ Probe(w)
    PROVE  RegistryInv'
<1> DEFINE q == request[w]
<1>1. /\ request \in [ Windows -> Request ] /\ q \in Request
      /\ gui \in [ Windows -> {"idle", "joining", "waiting"} ]
      /\ q.stage = "none" <=> gui[w] # "waiting"
  BY DEF RegistryInv, TypeOK
<1>2. LoadRegistry \in Copies
  BY Loading
<1>3. DOMAIN LoadRegistry \subseteq Url
  BY <1>2, EntriesAre DEF Copies
<1>4. now \in 0..MaxNow /\ MaxNow \in Nat /\ StaleAfter \in Nat
  BY RegistryAssumption DEF RegistryInv, TypeOK
<1>5. ASSUME NEW r \in Request, request' = [ request EXCEPT ![w] = r ],
             UNCHANGED <<server, gui, registry, now>>,
             q.stage \in {"load", "probe"}, r.stage \in {"probe", "save", "answer"}, Faithful(w)'
      PROVE  RegistryInv'
  BY <1>1, <1>5, OthersStayFaithful
<1>6. CASE LoadToPublish(w)
  <2>0. PICK height \in Heights :
          request' = [ request EXCEPT ![w].stage = "save", ![w].url = NoUrl,
                                      ![w].read = LoadRegistry,
                                      ![w].copy = Seen(LoadRegistry, request[w].url, height) ]
    BY <1>6 DEF LoadToPublish
  <2> DEFINE copy == Seen(LoadRegistry, q.url, height)
             r == [ q EXCEPT !.stage = "save", !.url = NoUrl, !.read = LoadRegistry,
                             !.copy = copy ]
  <2>1. q.url \in Url /\ q.stage = "load"
    BY <1>6 DEF LoadToPublish, RegistryInv, Faithful
  <2>2. copy \in Copies
    BY <1>2, <1>4, <2>1, CopiesStay
  <2>3. DOMAIN LoadRegistry \subseteq DOMAIN copy
    BY DEF Seen
  <2>4. request' = [ request EXCEPT ![w] = r ] /\ UNCHANGED <<server, gui, registry, now>>
    BY <1>1, <1>6, <2>0 DEF LoadToPublish
  <2> HIDE DEF copy
  <2>5. r \in Request
    BY <1>1, <1>2, <2>2 DEF Request, Stages
  <2>6. r.stage = "save" /\ r.read = LoadRegistry /\ r.copy = copy
    BY <1>1 DEF Request
  <2> HIDE DEF r
  <2>7. Faithful(w)'
    <3>1. request'[w] = r
      BY <1>1, <2>4
    <3> QED BY <2>3, <2>6, <3>1 DEF Faithful
  <2> QED BY <1>5, <2>1, <2>4, <2>5, <2>6, <2>7
<1>7. CASE LoadToProbe(w)
  <2> DEFINE stage == IF LoadRegistry = Nothing THEN "save" ELSE "probe"
             r == [ q EXCEPT !.stage = stage, !.read = LoadRegistry, !.copy = LoadRegistry,
                             !.left = DOMAIN LoadRegistry, !.time = now ]
  <2>1. q.stage = "load"
    BY <1>7 DEF LoadToProbe
  <2>2. stage = "probe" => DOMAIN LoadRegistry # {}
    <3> SUFFICES ASSUME DOMAIN LoadRegistry = {} PROVE LoadRegistry = Nothing
      OBVIOUS
    <3>1. LoadRegistry \in [ {} -> Entered ]
      BY <1>2, EntriesAre DEF Copies
    <3> QED BY <3>1 DEF Nothing
  <2>3. request' = [ request EXCEPT ![w] = r ] /\ UNCHANGED <<server, gui, registry, now>>
    BY <1>1, <1>7 DEF LoadToProbe
  <2>4. stage \in {"save", "probe"}
    OBVIOUS
  <2> HIDE DEF stage
  <2>5. r \in Request
    BY <1>1, <1>2, <1>3, <1>4, <2>4 DEF Request, Stages
  <2>6. /\ r.stage = stage /\ r.read = LoadRegistry /\ r.copy = LoadRegistry
        /\ r.left = DOMAIN LoadRegistry /\ r.time = now
    BY <1>1 DEF Request
  <2> HIDE DEF r
  <2>7. Faithful(w)'
    <3>1. request'[w] = r /\ now' = now
      BY <1>1, <2>3
    <3>2. now <= now
      BY <1>4
    <3> QED BY <2>2, <2>4, <2>6, <3>1, <3>2 DEF Faithful
  <2> QED BY <1>5, <2>1, <2>3, <2>4, <2>5, <2>6, <2>7
<1>8. CASE LoadToList(w)
  <2> DEFINE r == [ q EXCEPT !.stage = "answer", !.copy = LoadRegistry ]
  <2>1. request' = [ request EXCEPT ![w] = r ] /\ UNCHANGED <<server, gui, registry, now>>
    BY <1>1, <1>8 DEF LoadToList
  <2>2. r \in Request /\ r.stage = "answer"
    BY <1>1, <1>2 DEF Request, Stages
  <2> HIDE DEF r
  <2>3. Faithful(w)'
    BY <1>1, <2>1, <2>2 DEF Faithful
  <2> QED BY <1>5, <1>8, <2>1, <2>2, <2>3 DEF LoadToList
<1>9. CASE Probe(w)
  <2>0. PICK u \in q.left :
          \E copy \in {Missed(w, u)}
               \cup { [ q.copy EXCEPT ![u] = Entry(q.time, height) ] :
                        height \in IF ListeningAt(Reaches[u]) THEN Heights ELSE {} } :
            request' = [ request EXCEPT ![w].copy = copy,
                                        ![w].left = @ \ {u},
                                        ![w].time = IF q.left = {u} THEN 0 ELSE @,
                                        ![w].stage = IF q.left = {u} THEN "save" ELSE "probe" ]
    BY <1>9, Zenon DEF Probe
  <2> DEFINE last == q.left = {u}
             stage == IF last THEN "save" ELSE "probe"
             time == IF last THEN 0 ELSE q.time
  <2>1. /\ q.stage = "probe" /\ q.time <= now /\ q.left # {}
        /\ q.left \subseteq DOMAIN q.copy \cap DOMAIN q.read
        /\ \A v \in q.left : q.copy[v] = q.read[v]
        /\ \A v \in DOMAIN q.read : v \in DOMAIN q.copy \/ q.read[v].seen + StaleAfter < now
    BY <1>9 DEF Probe, RegistryInv, Faithful
  <2>2. q.copy \in Copies /\ q.read \in Copies /\ q.left \in SUBSET Url /\ q.time \in 0..MaxNow
    BY <1>1 DEF Request
  <2>3. u \in q.left
    OBVIOUS
  <2>4. PICK copy \in {Missed(w, u)}
               \cup { [ q.copy EXCEPT ![u] = Entry(q.time, height) ] :
                        height \in IF ListeningAt(Reaches[u]) THEN Heights ELSE {} } :
          request' = [ request EXCEPT ![w].copy = copy,
                                      ![w].left = @ \ {u},
                                      ![w].time = IF last THEN 0 ELSE @,
                                      ![w].stage = IF last THEN "save" ELSE "probe" ]
    BY <2>0
  <2>5. UNCHANGED <<server, gui, registry, now>>
    BY <1>9 DEF Probe
  <2>6. last => q.left \ {u} = {}
    OBVIOUS
  <2>7. ~last => q.left \ {u} # {}
    BY <2>3
  <2>8. stage \in {"save", "probe"} /\ (stage = "save" <=> last)
    OBVIOUS
  <2>9. time \in 0..MaxNow /\ time <= now
    BY <1>4, <2>1, <2>2
  <2>10. /\ copy \in Copies
         /\ \A v \in DOMAIN q.copy : v \notin DOMAIN copy
               => v = u /\ q.copy[u].seen + StaleAfter < q.time
         /\ \A v \in DOMAIN copy : v \in DOMAIN q.copy /\ (v # u => copy[v] = q.copy[v])
    <3>1. ASSUME NEW height \in Heights, copy = [ q.copy EXCEPT ![u] = Entry(q.time, height) ]
          PROVE  /\ copy \in Copies
                 /\ \A v \in DOMAIN q.copy : v \in DOMAIN copy
                 /\ \A v \in DOMAIN copy : v \in DOMAIN q.copy /\ (v # u => copy[v] = q.copy[v])
      <4>1. Entry(q.time, height) \in Entered
        BY <2>2 DEF Entry, Entered
      <4> QED BY <2>2, <3>1, <4>1, CopiesStay
    <3>2. CASE copy = q.copy
      BY <2>2, <3>2
    <3>3. CASE copy = Restrict(q.copy, DOMAIN q.copy \ {u}) /\ q.copy[u].seen + StaleAfter < q.time
      <4>1. copy \in Copies
        BY <2>2, <3>3, CopiesStay
      <4>2. /\ DOMAIN copy = DOMAIN q.copy \ {u}
            /\ \A v \in DOMAIN q.copy \ {u} : copy[v] = q.copy[v]
        BY <3>3 DEF Restrict
      <4> QED BY <3>3, <4>1, <4>2
    <3> QED BY <2>4, <3>1, <3>2, <3>3 DEF Missed
  <2> DEFINE r == [ q EXCEPT !.copy = copy, !.left = q.left \ {u}, !.time = time, !.stage = stage ]
  <2>11. request' = [ request EXCEPT ![w] = r ]
    BY <1>1, <2>4
  <2> HIDE DEF last, stage, time
  <2>12. r \in Request
    BY <1>1, <2>2, <2>8, <2>9, <2>10 DEF Request, Stages
  <2>13. /\ r.copy = copy /\ r.left = q.left \ {u} /\ r.time = time /\ r.stage = stage
         /\ r.read = q.read
    BY <1>1 DEF Request
  <2> HIDE DEF r
  <2>14. Faithful(w)'
    <3>1. request'[w] = r /\ now' = now
      BY <1>1, <2>5, <2>11
    <3>2. \A v \in DOMAIN r.read : v \in DOMAIN r.copy \/ r.read[v].seen + StaleAfter < now
      <4> SUFFICES ASSUME NEW v \in DOMAIN q.read, v \in DOMAIN q.copy, v \notin DOMAIN copy
                   PROVE  q.read[v].seen + StaleAfter < now
        BY <2>1, <2>13
      <4>1. v = u /\ q.copy[u].seen + StaleAfter < q.time /\ q.copy[u] = q.read[u]
        BY <2>1, <2>3, <2>10
      <4>2. q.read[u].seen \in Nat
        <5>1. q.read \in [ DOMAIN q.read -> Entered ]
          BY <2>2, EntriesAre DEF Copies
        <5> QED BY <1>4, <4>1, <5>1 DEF Entered
      <4> QED BY <1>4, <2>1, <2>2, <4>1, <4>2
    <3>3. \A v \in r.left : v \in DOMAIN r.copy \cap DOMAIN r.read /\ r.copy[v] = r.read[v]
      <4> SUFFICES ASSUME NEW v \in q.left, v # u
                   PROVE  v \in DOMAIN copy \cap DOMAIN q.read /\ copy[v] = q.read[v]
        BY <2>13
      <4> QED BY <2>1, <2>10
    <3> QED BY <2>7, <2>8, <2>9, <2>13, <3>1, <3>2, <3>3 DEF Faithful
  <2> QED BY <1>5, <2>1, <2>5, <2>8, <2>11, <2>12, <2>13, <2>14
<1> QED BY <1>6, <1>7, <1>8, <1>9

\* A request that has the lock has the file to itself until it has written.
LEMMA WritingKeepsRegistry ==
    ASSUME RegistryInv, NEW w \in Windows, Truncate(w) \/ Write(w)
    PROVE  RegistryInv'
<1> DEFINE q == request[w]
<1>1. /\ request \in [ Windows -> Request ] /\ q \in Request /\ q.copy \in Copies
      /\ gui \in [ Windows -> {"idle", "joining", "waiting"} ]
      /\ \A v \in Windows : request[v].stage = "none" <=> gui[v] # "waiting"
      /\ NoWindow \notin Windows
  BY RegistryAssumption DEF RegistryInv, TypeOK, Request
<1>2. UNCHANGED <<running, store, threads, gui, now>>
  BY DEF Truncate, Write, server
<1>3. CASE Truncate(w)
  <2> DEFINE r == [ q EXCEPT !.stage = "write" ]
  <2>1. request' = [ request EXCEPT ![w] = r ] /\ q.stage = "save"
    BY <1>1, <1>3 DEF Truncate
  <2>2. r \in Request /\ r.stage = "write" /\ r.read = q.read /\ r.copy = q.copy
    BY <1>1 DEF Request, Stages
  <2> HIDE DEF r
  <2>3. request'[w] = r /\ \A v \in Windows \ {w} : request'[v] = request[v]
    BY <1>1, <2>1
  <2>4. writer = NoWindow /\ writer' = w /\ file' = file
    BY <1>3 DEF Truncate
  <2>5. \A v \in Windows : request[v].stage # "write"
    BY <1>1, <2>4 DEF RegistryInv, Writing
  <2>6. Writing'
    BY <2>2, <2>3, <2>4, <2>5 DEF Writing
  <2>7. \A v \in Windows : Faithful(v)'
    BY <1>2, <2>1, <2>2, <2>3 DEF Faithful, RegistryInv
  <2>8. \A v \in Windows : request'[v].stage = "none" <=> gui'[v] # "waiting"
    BY <1>1, <1>2, <2>1, <2>2, <2>3
  <2>9. TypeOK'
    <3>1. /\ writer' # NoWindow
          /\ \E v \in Windows : request'[v].stage = "write"
          /\ \A v \in Windows : request'[v].stage = "write" => writer' = v
      BY <1>1, <2>2, <2>3, <2>4, <2>5
    <3>2. TypeOK
      BY DEF RegistryInv
    <3> QED BY <1>2, <2>4, <2>8, <3>1, <3>2 DEF TypeOK
  <2>10. request' \in [ Windows -> Request ]
    BY <1>1, <2>1, <2>2
  <2> QED BY <2>4, <2>6, <2>7, <2>9, <2>10 DEF RegistryInv
<1>4. CASE Write(w)
  <2> DEFINE r == [ q EXCEPT !.stage = "answer", !.read = Nothing ]
  <2>1. request' = [ request EXCEPT ![w] = r ] /\ q.stage = "write"
    BY <1>1, <1>4 DEF Write
  <2>2. r \in Request /\ r.stage = "answer"
    BY <1>1, ListedIsThere DEF Request, Stages
  <2> HIDE DEF r
  <2>3. request'[w] = r /\ \A v \in Windows \ {w} : request'[v] = request[v]
    BY <1>1, <2>1
  <2>4. /\ writer' = NoWindow
        /\ \E kept \in Leading(q.copy) : file' = Restrict(q.copy, kept)
    BY <1>4 DEF Write
  <2>5. \A v \in Windows : request'[v].stage # "write"
    <3>1. \A v \in Windows \ {w} : request[v].stage # "write"
      BY <2>1 DEF RegistryInv, Writing
    <3> QED BY <2>2, <2>3, <3>1
  <2>6. Writing'
    BY <2>4, <2>5 DEF Writing
  <2>7. \A v \in Windows : Faithful(v)'
    BY <1>2, <2>2, <2>3 DEF Faithful, RegistryInv
  <2>8. \A v \in Windows : request'[v].stage = "none" <=> gui'[v] # "waiting"
    BY <1>1, <1>2, <2>1, <2>2, <2>3
  <2>9. file' \in Copies /\ Cardinality(DOMAIN file') <= MaxEndpoints
    <3>1. PICK kept \in Leading(q.copy) : file' = Restrict(q.copy, kept)
      BY <2>4
    <3>2. kept \subseteq DOMAIN q.copy /\ Cardinality(DOMAIN file') <= MaxEndpoints
      BY <3>1, WrittenLeads
    <3> QED BY <1>1, <3>1, <3>2, CopiesStay
  <2>10. TypeOK'
    <3>1. TypeOK
      BY DEF RegistryInv
    <3> QED BY <1>2, <2>4, <2>5, <2>8, <2>9, <3>1 DEF TypeOK, Copies
  <2>11. request' \in [ Windows -> Request ]
    BY <1>1, <2>1, <2>2
  <2> QED BY <2>6, <2>7, <2>9, <2>10, <2>11 DEF RegistryInv, Copies
<1> QED BY <1>3, <1>4

\* Time passes: what was stale stays so.
LEMMA TickKeepsRegistry == ASSUME RegistryInv, Tick PROVE RegistryInv'
<1>1. /\ now' = now + 1 /\ now < MaxNow
      /\ UNCHANGED <<running, store, threads, gui, request, file, writer>>
  BY DEF Tick, server, registry
<1>2. /\ now \in 0..MaxNow /\ MaxNow \in Nat /\ StaleAfter \in Nat
      /\ request \in [ Windows -> Request ]
  BY RegistryAssumption DEF RegistryInv, TypeOK
<1>3. TypeOK'
  <2>1. now' \in 0..MaxNow
    BY <1>1, <1>2
  <2>2. TypeOK
    BY DEF RegistryInv
  <2> QED BY <1>1, <2>1, <2>2 DEF TypeOK
<1>4. ASSUME NEW w \in Windows PROVE Faithful(w)'
  <2> DEFINE q == request[w]
  <2>1. q \in Request /\ request'[w] = q
    BY <1>1, <1>2
  <2>2. q.read \in [ DOMAIN q.read -> Entered ] /\ q.time \in 0..MaxNow
    BY <2>1, EntriesAre DEF Request, Copies
  <2>3. \A u \in DOMAIN q.read :
          q.read[u].seen + StaleAfter < now => q.read[u].seen + StaleAfter < now'
    <3>1. \A u \in DOMAIN q.read : q.read[u].seen \in Nat
      BY <1>2, <2>2 DEF Entered
    <3> QED BY <1>1, <1>2, <3>1
  <2>4. q.time <= now => q.time <= now'
    BY <1>1, <1>2, <2>2
  <2>5. Faithful(w)
    BY DEF RegistryInv
  <2> QED BY <1>1, <2>3, <2>4, <2>5 DEF Faithful
<1> QED BY <1>1, <1>3, <1>4 DEF RegistryInv, Writing

\* Every step keeps the invariant.
LEMMA StepKeepsRegistry == ASSUME ServerInv, RegistryInv, [Next]_vars PROVE RegistryInv'
<1>1. CASE UNCHANGED vars
  <2>1. UNCHANGED <<running, store, threads, gui, request, file, writer, now>>
    BY <1>1 DEF vars, server, registry
  <2>2. TypeOK'
    BY <2>1 DEF RegistryInv, TypeOK
  <2> QED BY <2>1, <2>2 DEF RegistryInv, Writing, Faithful
<1> QED BY <1>1, ServerStepKeepsRegistry, WindowStepKeepsRegistry, RequestStepKeepsRegistry,
           WritingKeepsRegistry, TickKeepsRegistry DEF Next

\* The inductive invariant is one, with that of the servers.
LEMMA RegistryInvariant == Spec => [](ServerInv /\ RegistryInv)
<1>1. Init => ServerInv /\ RegistryInv
  BY InitEstablishesServer, InitEstablishesRegistry
<1>2. ServerInv /\ RegistryInv /\ [Next]_vars => (ServerInv /\ RegistryInv)'
  BY StepPreservesServer, StepKeepsRegistry
<1> QED BY <1>1, <1>2, PTL DEF Spec

\* The states are well typed; the file lists no more than MAX_ENDPOINTS, and one
\* request at a time is between truncating and writing it.
THEOREM TypeCorrect == Spec => []TypeOK
<1>1. RegistryInv => TypeOK
  BY DEF RegistryInv
<1> QED BY <1>1, RegistryInvariant, PTL

\* What a step takes out of the file, and why.
Losing ==
    \A u \in DOMAIN file \ DOMAIN file' :
        LET reader == request[writer]
        IN  \/ file[u].seen + StaleAfter < now
            \/ u \notin DOMAIN reader.read \/ reader.read[u] # file[u]
            \/ u \in DOMAIN reader.copy /\ Fills(file', reader.copy[u].height)

\* Only writing takes anything out.
LEMMA StepLoses == ASSUME RegistryInv, [Next]_vars PROVE Losing
<1>1. ASSUME file' = file PROVE Losing
  BY <1>1 DEF Losing
<1>2. ASSUME NEW w \in Windows, Write(w) PROVE Losing
  <2> DEFINE q == request[w]
  <2>1. /\ q.stage = "write" /\ request[writer] = q
        /\ \E kept \in Leading(q.copy) : file' = Restrict(q.copy, kept)
    BY <1>2 DEF Write, RegistryInv, Writing
  <2>2. \A u \in DOMAIN q.read : u \in DOMAIN q.copy \/ q.read[u].seen + StaleAfter < now
    BY <2>1 DEF RegistryInv, Faithful
  <2>4. \A u \in DOMAIN q.copy : u \notin DOMAIN file' => Fills(file', q.copy[u].height)
    <3>1. PICK kept \in Leading(q.copy) : file' = Restrict(q.copy, kept)
      BY <2>1
    <3>2. DOMAIN file' = kept /\ \A u \in DOMAIN q.copy \ kept : Fills(file', q.copy[u].height)
      BY <3>1, WrittenLeads
    <3> QED BY <3>2 DEF Fills
  <2> HIDE DEF q
  <2> QED BY <2>1, <2>2, <2>4 DEF Losing
<1>3. ASSUME NEW w \in Windows,
             \/ \E o \in Offers[w] : Start(w, o)
             \/ Bind(w) \/ FailToBind(w) \/ Leave(w) \/ Return(w) \/ Stop(w) \/ Join(w)
             \/ Publish(w) \/ Refresh(w) \/ Fail(w)
             \/ Published(w) \/ StatusReported(w) \/ ListReported(w)
             \/ LoadToPublish(w) \/ LoadToProbe(w) \/ LoadToList(w) \/ Probe(w) \/ Truncate(w)
      PROVE  file' = file
  BY <1>3 DEF Start, Bind, FailToBind, Leave, Return, Stop, Join, Publish, Refresh, Fail,
              Published, StatusReported, ListReported, LoadToPublish, LoadToProbe, LoadToList,
              Probe, Truncate, registry
<1>4. Tick \/ UNCHANGED vars => file' = file
  BY DEF Tick, vars, registry
<1> QED BY <1>1, <1>2, <1>3, <1>4 DEF Next

\* Nothing is lost from the registry but what is stale, what others at least as
\* high leave no room for, or what another request changed while the one that
\* writes worked on its copy, for every number of windows, endpoints and
\* requests, and whatever heights they find.
THEOREM OnlyARaceLoses == Spec => LostOnlyInARace
<1>1. RegistryInv /\ [Next]_vars => [ Losing ]_vars
  BY StepLoses
<1>2. [][Losing]_vars => LostOnlyInARace
  BY DEF Losing, LostOnlyInARace
<1> QED BY <1>1, <1>2, RegistryInvariant, PTL DEF Spec
===============================================================================
