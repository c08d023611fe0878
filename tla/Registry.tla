------------------------------- MODULE Registry -------------------------------
(***************************************************************************)
(* The public RPC endpoints: the RPC server each window starts and stops,  *)
(* and the registry script the windows publish to and fetch from.          *)
(*                                                                         *)
(* A window does one thing at a time and waits for it; the server's thread *)
(* runs beside it, and so do the requests of the other windows.  The       *)
(* registry is a file: a request reads it without a lock, works on its     *)
(* copy (it may probe every endpoint, three seconds each) and writes it    *)
(* back whole.  The lock is held while writing only, and the file is empty *)
(* between truncation and write.                                           *)
(*                                                                         *)
(* An entry is the time its endpoint was last seen and the height it then  *)
(* had: the one a window publishes, or the answer of a probe, which is     *)
(* some height a node has at that moment.  Nodes find blocks, are reset,   *)
(* and agree when they are synchronised, so every publication and every    *)
(* probe may bring any height.  The registry is sorted by height; which of *)
(* several entries of one height comes first is left open.  Owners and     *)
(* whether an entry is verified are left out, and so is the probe of a     *)
(* publication, which comes before the file is read.                       *)
(***************************************************************************)
EXTENDS Naturals, FiniteSets, Functions

CONSTANTS Windows,
          Offers,       \* Offers[w]: what window w may start its server with
          Loopback,     \* the bind addresses of this host only
          Reaches,      \* Reaches[u]: the bind address a request to u arrives at
          Miners,       \* the windows that keep finding blocks, auto-publish on
          Url,          \* the endpoints
          Heights,      \* the heights nodes have
          Listed,       \* the registry at the beginning
          MaxEndpoints, \* MAX_ENDPOINTS
          StaleAfter,   \* STALE_AFTER_SECONDS
          MaxNow,       \* bound: where the clock stops
          NoUrl, NoWindow

VARIABLES running,  \* RpcServer::running
          store,    \* RpcServer::bind_addr and advertised_url
          threads,  \* the server's threads and where they are
          gui,      \* what the window's thread is doing
          request,  \* the request it waits for
          file,     \* REGISTRY_FILE as last written
          writer,   \* whose request has truncated it
          now,
          stayed    \* history: listed ever since the window's fetch began

server == <<running, store, threads>>
registry == <<file, writer>>
vars == <<server, gui, request, registry, now, stayed>>

Offer == UNION { Offers[w] : w \in Windows }
Unset == [ bind |-> CHOOSE a \in Loopback : TRUE, url |-> NoUrl ]

ASSUME RegistryAssumption ==
    /\ Loopback # {} /\ NoUrl \notin Url /\ NoWindow \notin Windows
    /\ \A o \in Offer : o.url \in Url
    /\ Miners \subseteq Windows /\ Heights \subseteq Nat
    /\ DOMAIN Listed \subseteq Url /\ IsFiniteSet(DOMAIN Listed)
    /\ Listed \in [ DOMAIN Listed -> [ seen : 0..MaxNow, height : Heights ] ]
    /\ Cardinality(DOMAIN Listed) <= MaxEndpoints
    /\ MaxEndpoints \in Nat /\ StaleAfter \in Nat /\ MaxNow \in Nat

Nothing == [ u \in {} |-> 0 ]
Entry(seen, height) == [ seen |-> seen, height |-> height ]
Idle == [ action |-> "none", stage |-> "none", url |-> NoUrl, read |-> Nothing,
          copy |-> Nothing, left |-> {}, time |-> 0, status |-> {} ]

\* A server thread at a stage.
Thread(o, stage) == [ offer |-> o, stage |-> stage ]

ListeningAt(bind) ==
    \E w \in Windows : \E t \in threads[w] :
        t.offer.bind = bind /\ t.stage \in {"listening", "leaving"}

Init ==
    /\ running = [ w \in Windows |-> FALSE ]
    /\ store = [ w \in Windows |-> Unset ]
    /\ threads = [ w \in Windows |-> {} ]
    /\ gui = [ w \in Windows |-> "idle" ]
    /\ request = [ w \in Windows |-> Idle ]
    /\ file = Listed
    /\ writer = NoWindow
    /\ now = 0
    /\ stayed = [ w \in Windows |-> {} ]

-----------------------------------------------------------------------------
\* start: refused while running; otherwise active, and advertised, before the
\* thread has bound its address.
Start(w, o) ==
    /\ gui[w] = "idle"
    /\ ~running[w]
    /\ running' = [ running EXCEPT ![w] = TRUE ]
    /\ store' = [ store EXCEPT ![w] = o ]
    /\ threads' = [ threads EXCEPT ![w] = @ \cup {Thread(o, "binding")} ]
    /\ UNCHANGED <<gui, request, registry, now, stayed>>

Bind(w) ==
    \E t \in threads[w] :
        /\ t.stage = "binding"
        /\ ~ListeningAt(t.offer.bind)
        /\ threads' = [ threads EXCEPT ![w] = (@ \ {t}) \cup {Thread(t.offer, "listening")} ]
        /\ UNCHANGED <<running, store, gui, request, registry, now, stayed>>

\* Somebody else, another window perhaps, has the address.
FailToBind(w) ==
    \E t \in threads[w] :
        /\ t.stage = "binding"
        /\ threads' = [ threads EXCEPT ![w] = @ \ {t} ]
        /\ running' = [ running EXCEPT ![w] = FALSE ]
        /\ UNCHANGED <<store, gui, request, registry, now, stayed>>

\* The accept loop sees that it is to end ...
Leave(w) ==
    \E t \in threads[w] :
        /\ t.stage = "listening"
        /\ ~running[w]
        /\ threads' = [ threads EXCEPT ![w] = (@ \ {t}) \cup {Thread(t.offer, "leaving")} ]
        /\ UNCHANGED <<running, store, gui, request, registry, now, stayed>>

\* ... and the thread stores its addresses once more before it returns.
Return(w) ==
    \E t \in threads[w] :
        /\ t.stage = "leaving"
        /\ threads' = [ threads EXCEPT ![w] = @ \ {t} ]
        /\ store' = [ store EXCEPT ![w] = t.offer ]
        /\ UNCHANGED <<running, gui, request, registry, now, stayed>>

\* Mutant of Stop: the thread is not joined.
StopUnjoined(w) ==
    /\ gui[w] = "idle"
    /\ running' = [ running EXCEPT ![w] = FALSE ]
    /\ UNCHANGED <<store, threads, gui, request, registry, now, stayed>>

\* stop, of the Stop RPC button, of a reset and of a window that is closed.
Stop(w) ==
    /\ gui[w] = "idle"
    /\ running' = [ running EXCEPT ![w] = FALSE ]
    /\ gui' = [ gui EXCEPT ![w] = "joining" ]
    /\ UNCHANGED <<store, threads, request, registry, now, stayed>>

Join(w) ==
    /\ gui[w] = "joining"
    /\ threads[w] = {}
    /\ gui' = [ gui EXCEPT ![w] = "idle" ]
    /\ UNCHANGED <<server, request, registry, now, stayed>>

-----------------------------------------------------------------------------
\* Mutant of Publish: by itself after a start, and never again.
PublishAtStart(w) ==
    /\ gui[w] = "idle"
    /\ running[w] /\ store[w].bind \notin Loopback /\ store[w].url # NoUrl
    /\ Thread(store[w], "binding") \in threads[w]
    /\ gui' = [ gui EXCEPT ![w] = "waiting" ]
    /\ request' = [ request EXCEPT ![w] =
                      [ Idle EXCEPT !.action = "publish", !.stage = "load", !.url = store[w].url ] ]
    /\ UNCHANGED <<server, registry, now, stayed>>

\* publish_current_rpc_to_registry, of the button or by itself after a start,
\* a mining start or an accepted block.
Publish(w) ==
    /\ gui[w] = "idle"
    /\ running[w] /\ store[w].bind \notin Loopback /\ store[w].url # NoUrl
    /\ gui' = [ gui EXCEPT ![w] = "waiting" ]
    /\ request' = [ request EXCEPT ![w] =
                      [ Idle EXCEPT !.action = "publish", !.stage = "load", !.url = store[w].url ] ]
    /\ UNCHANGED <<server, registry, now, stayed>>

\* fetch_public_rpcs begins with a status request.
Fetch(w) ==
    /\ request' = [ request EXCEPT ![w] = [ Idle EXCEPT !.action = "status", !.stage = "load" ] ]
    /\ stayed' = [ stayed EXCEPT ![w] = DOMAIN file ]

\* refresh_public_rpc_registry.
Refresh(w) ==
    /\ gui[w] = "idle"
    /\ gui' = [ gui EXCEPT ![w] = "waiting" ]
    /\ Fetch(w)
    /\ UNCHANGED <<server, registry, now>>

-----------------------------------------------------------------------------
\* load_registry: a file without valid JSON is an empty registry.
LoadRegistry == IF writer = NoWindow THEN file ELSE Nothing

\* upsert_registry_entry: the entries with one that was seen just now.
Seen(entries, url, height) ==
    [ u \in DOMAIN entries \cup {url} |-> IF u = url THEN Entry(now, height) ELSE entries[u] ]

\* publish: the entry is put into what was loaded.
LoadToPublish(w) ==
    /\ request[w].action = "publish" /\ request[w].stage = "load"
    /\ \E height \in Heights :
          request' = [ request EXCEPT ![w].stage = "save",
                                      ![w].url = NoUrl,
                                      ![w].read = LoadRegistry,
                                      ![w].copy = Seen(LoadRegistry, request[w].url, height) ]
    /\ UNCHANGED <<server, gui, registry, now, stayed>>

LoadToProbe(w) ==
    /\ request[w].action = "status" /\ request[w].stage = "load"
    /\ request' = [ request EXCEPT ![w].stage = IF LoadRegistry = Nothing THEN "save" ELSE "probe",
                                   ![w].read = LoadRegistry,
                                   ![w].copy = LoadRegistry,
                                   ![w].left = DOMAIN LoadRegistry,
                                   ![w].time = now ]
    /\ UNCHANGED <<server, gui, registry, now, stayed>>

LoadToList(w) ==
    /\ request[w].action = "list" /\ request[w].stage = "load"
    /\ request' = [ request EXCEPT ![w].stage = "answer", ![w].copy = LoadRegistry ]
    /\ UNCHANGED <<server, gui, registry, now, stayed>>

\* The copy after u did not answer.
Missed(w, u) ==
    IF request[w].copy[u].seen + StaleAfter < request[w].time
    THEN Restrict(request[w].copy, DOMAIN request[w].copy \ {u})
    ELSE request[w].copy

\* live_registry_status, in the order in which the entries were read, the
\* highest first: what answers was seen when the request began; what does not,
\* or too late, is dropped once it is stale.
Probe(w) ==
    LET r == request[w] IN
    /\ r.action = "status" /\ r.stage = "probe"
    /\ \E u \in r.left :
          /\ \A x \in r.left : r.read[x].height <= r.read[u].height
          /\ \E copy \in {Missed(w, u)}
                   \cup { [ r.copy EXCEPT ![u] = Entry(r.time, height) ] :
                            height \in IF ListeningAt(Reaches[u]) THEN Heights ELSE {} } :
                request' = [ request EXCEPT ![w].copy = copy,
                                            ![w].left = @ \ {u},
                                            ![w].time = IF r.left = {u} THEN 0 ELSE @,
                                            ![w].stage = IF r.left = {u}
                                                         THEN "save" ELSE "probe" ]
    /\ UNCHANGED <<server, gui, registry, now, stayed>>

\* Mutant of Leading: there is room for all.
LeadingUncut(copy) == {DOMAIN copy}

\* Mutant of Leading: the lowest are kept.
LeadingFromBelow(copy) ==
    { kept \in SUBSET DOMAIN copy :
        /\ Cardinality(kept) <= MaxEndpoints
        /\ \A u \in DOMAIN copy \ kept :
              /\ Cardinality(kept) = MaxEndpoints
              /\ \A v \in kept : copy[v].height <= copy[u].height }

\* The entries that may come first in the copy, which is sorted by height: all,
\* or as many as there is room for.
Leading(copy) ==
    { kept \in SUBSET DOMAIN copy :
        /\ Cardinality(kept) <= MaxEndpoints
        /\ \A u \in DOMAIN copy \ kept :
              /\ Cardinality(kept) = MaxEndpoints
              /\ \A v \in kept : copy[v].height >= copy[u].height }

\* save_registry: the lock, with which the file is truncated ...
Truncate(w) ==
    /\ request[w].stage = "save"
    /\ writer = NoWindow
    /\ writer' = w
    /\ request' = [ request EXCEPT ![w].stage = "write" ]
    /\ UNCHANGED <<server, gui, file, now, stayed>>

\* ... and written.
Write(w) ==
    /\ request[w].stage = "write"
    /\ \E kept \in Leading(request[w].copy) : file' = Restrict(request[w].copy, kept)
    /\ writer' = NoWindow
    /\ request' = [ request EXCEPT ![w].stage = "answer", ![w].read = Nothing ]
    /\ stayed' = [ v \in Windows |-> stayed[v] \cap DOMAIN file' ]
    /\ UNCHANGED <<server, gui, now>>

-----------------------------------------------------------------------------
\* An answer that is lost, or says no: the window keeps the list it has.
Fail(w) ==
    /\ request[w].stage = "answer"
    /\ request' = [ request EXCEPT ![w] = Idle ]
    /\ gui' = [ gui EXCEPT ![w] = "idle" ]
    /\ stayed' = [ stayed EXCEPT ![w] = {} ]
    /\ UNCHANGED <<server, registry, now>>

\* What was published is followed by a fetch, a status by the list, and both
\* are shown, merged.
Published(w) ==
    /\ request[w].action = "publish" /\ request[w].stage = "answer"
    /\ Fetch(w)
    /\ UNCHANGED <<server, gui, registry, now>>

StatusReported(w) ==
    /\ request[w].action = "status" /\ request[w].stage = "answer"
    /\ request' = [ request EXCEPT ![w] = [ Idle EXCEPT !.action = "list", !.stage = "load",
                                                       !.status = DOMAIN request[w].copy ] ]
    /\ UNCHANGED <<server, gui, registry, now, stayed>>

\* Mutant of Merged: only the list.
MergedListAlone(w) == DOMAIN request[w].copy

\* What discovered_public_rpcs becomes: the list, and the status over it.
Merged(w) == request[w].status \cup DOMAIN request[w].copy

ListReported(w) ==
    /\ request[w].action = "list" /\ request[w].stage = "answer"
    /\ request' = [ request EXCEPT ![w] = Idle ]
    /\ gui' = [ gui EXCEPT ![w] = "idle" ]
    /\ stayed' = [ stayed EXCEPT ![w] = {} ]
    /\ UNCHANGED <<server, registry, now>>

Tick ==
    /\ now < MaxNow
    /\ now' = now + 1
    /\ UNCHANGED <<server, gui, request, registry, stayed>>

Next ==
    \/ \E w \in Windows :
          \/ \E o \in Offers[w] : Start(w, o)
          \/ Bind(w) \/ FailToBind(w) \/ Leave(w) \/ Return(w)
          \/ Stop(w) \/ Join(w)
          \/ Publish(w) \/ Refresh(w)
          \/ LoadToPublish(w) \/ LoadToProbe(w) \/ LoadToList(w)
          \/ Probe(w) \/ Truncate(w) \/ Write(w)
          \/ Fail(w) \/ Published(w) \/ StatusReported(w) \/ ListReported(w)
    \/ Tick

Spec == Init /\ [][Next]_vars

\* The script and the window's thread run, and the file lock is granted to
\* whoever waits.  A window with auto-publish on publishes by itself after each
\* block that it finds, so one that keeps finding blocks does so again and
\* again; no other has to publish, and nobody has to start, stop or refresh.
Fairness ==
    /\ \A w \in Windows :
          /\ WF_vars(LoadToPublish(w) \/ LoadToProbe(w) \/ LoadToList(w) \/ Probe(w) \/ Write(w))
          /\ SF_vars(Truncate(w))
          /\ WF_vars(Fail(w) \/ Published(w) \/ StatusReported(w) \/ ListReported(w))
    /\ \A w \in Miners : SF_vars(Publish(w))

FairSpec == Spec /\ Fairness

-----------------------------------------------------------------------------
Entries == UNION { [ U -> [ seen : 0..MaxNow, height : Heights ] ] : U \in SUBSET Url }

TypeOK ==
    /\ running \in [ Windows -> BOOLEAN ]
    /\ store \in [ Windows -> Offer \cup {Unset} ]
    /\ \A w \in Windows : threads[w] \subseteq
          { Thread(o, stage) : o \in Offer, stage \in {"binding", "listening", "leaving"} }
    /\ gui \in [ Windows -> {"idle", "joining", "waiting"} ]
    /\ \A w \in Windows : request[w].stage = "none" <=> gui[w] # "waiting"
    /\ file \in Entries /\ Cardinality(DOMAIN file) <= MaxEndpoints
    /\ writer # NoWindow <=> \E w \in Windows : request[w].stage = "write"
    /\ \A w \in Windows : request[w].stage = "write" => writer = w
    /\ now \in 0..MaxNow

\* However starts, stops and failing binds follow each other: a server that is
\* active has one thread and advertises what that thread was started with, not
\* what the thread of an earlier start stores when it ends; and when stop has
\* returned nothing listens, so that the address can be bound again.
ServerIsItsThread ==
    \A w \in Windows :
        /\ running[w] => \E t \in threads[w] : threads[w] = {t} /\ store[w] = t.offer
        /\ ~running[w] /\ gui[w] # "joining" => threads[w] = {}

\* The entries of the file that are at least that high fill it.
Fills(entries, height) ==
    Cardinality({ v \in DOMAIN entries : entries[v].height >= height }) = MaxEndpoints

\* An endpoint is lost only because it is stale, because others that are as
\* high as what the request that writes has of it, or higher, fill the
\* registry, or because that request read the file before the entry was what it
\* is now, or while another was writing.
LostOnlyInARace ==
    [][ \A u \in DOMAIN file \ DOMAIN file' :
          LET reader == request[writer]
          IN  \/ file[u].seen + StaleAfter < now
              \/ u \notin DOMAIN reader.read \/ reader.read[u] # file[u]
              \/ u \in DOMAIN reader.copy /\ Fills(file', reader.copy[u].height) ]_vars

\* Whatever was listed from the beginning of a fetch to its end is shown, even
\* when the list is read while another request writes the file and is empty:
\* then the status has it.
StayedIsShown ==
    \A w \in Windows :
        request[w].action = "list" /\ request[w].stage = "answer" => stayed[w] \subseteq Merged(w)

\* What w has just published is not listed: others as high fill the registry.
Outranked(w, u) ==
    /\ request[w].action = "publish" /\ request[w].stage = "answer"
    /\ u \in DOMAIN request[w].copy /\ Fills(file, request[w].copy[u].height)

\* Two requests at a time can lose a publication that was answered with ok;
\* but the endpoint of a server that stays up in a window that keeps finding
\* blocks with auto-publish on (main.rs:1000-1020) is published after the next
\* one, and so it is listed again and again, or finds again and again the
\* registry full of endpoints at least as high as it.
ServedIsListedAgain ==
    \A w \in Miners : \A o \in Offers[w] :
        <>[](o.bind \notin Loopback /\ running[w] /\ Thread(o, "listening") \in threads[w])
            => []<>(o.url \in DOMAIN file \/ Outranked(w, o.url))
===============================================================================
