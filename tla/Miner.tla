-------------------------------- MODULE Miner --------------------------------
(***************************************************************************)
(* struct Miner: the window starts and stops mining, each start spawns a   *)
(* controller thread, and each search of a controller spawns its workers.  *)
(* Nobody waits for a stopped controller: it ends by itself, next to those *)
(* of later sessions.  What templates and submissions do is Node's         *)
(* subject.                                                                *)
(***************************************************************************)
EXTENDS Naturals

CONSTANTS Worker,      \* the workers of a search, worker_count of them
          MaxSession   \* bound: how often mining is started and stopped

VARIABLES running,     \* Miner::running
          session_id,  \* Miner::session_id
          window,      \* the window's thread: idle or within a call
          controller,  \* session -> where its controller is
          worker,      \* session -> where each worker of its search is
          found,       \* session -> the flag its search's workers share
          channel,     \* session -> the workers whose block is to be received
          result,      \* session -> what its search ended with
          late         \* sessions with a block submitted after their stop

vars == <<running, session_id, window, controller, worker, found, channel, result, late>>
searchVars == <<worker, found, channel, result>>

ASSUME WorkerAssumption == Worker # {}
ASSUME MaxSessionAssumption == MaxSession \in Nat

Session == 1..MaxSession

\* What the loops of controllers and workers ask.  The two loads are as one,
\* because a session that is over stays over.
Live(c) == running /\ session_id = c

Init ==
    /\ running = FALSE
    /\ session_id = 0
    /\ window = "idle"
    /\ controller = [ c \in Session |-> "none" ]
    /\ worker = [ c \in Session |-> [ w \in Worker |-> "done" ] ]
    /\ found = [ c \in Session |-> FALSE ]
    /\ channel = [ c \in Session |-> {} ]
    /\ result = [ c \in Session |-> "Stopped" ]
    /\ late = {}

-----------------------------------------------------------------------------
\* start_continuous is refused while running ...
Start ==
    /\ window = "idle" /\ ~running /\ session_id < MaxSession
    /\ running' = TRUE
    /\ window' = "starting"
    /\ UNCHANGED <<session_id, controller, searchVars, late>>

\* ... and otherwise spawns the controller of a new session.
Spawn ==
    /\ window = "starting"
    /\ session_id' = session_id + 1
    /\ controller' = [ controller EXCEPT ![session_id + 1] = "looping" ]
    /\ window' = "idle"
    /\ UNCHANGED <<running, searchVars, late>>

\* stop_mining, also when nothing runs: by button, with a reset or at exit.
Stop ==
    /\ window = "idle" /\ session_id < MaxSession
    /\ running' = FALSE
    /\ window' = "stopping"
    /\ UNCHANGED <<session_id, controller, searchVars, late>>

EndSession ==
    /\ window = "stopping"
    /\ session_id' = session_id + 1
    /\ window' = "idle"
    /\ UNCHANGED <<running, controller, searchVars, late>>

-----------------------------------------------------------------------------
\* Mutant of Loop: the controller only asks whether someone mines.
LoopAnySession(c) ==
    /\ controller[c] = "looping"
    /\ controller' = [ controller EXCEPT ![c] = IF running THEN "template" ELSE "ended" ]
    /\ UNCHANGED <<running, session_id, window, searchVars, late>>

\* The condition of the controller's while loop.
Loop(c) ==
    /\ controller[c] = "looping"
    /\ controller' = [ controller EXCEPT ![c] = IF Live(c) THEN "template" ELSE "ended" ]
    /\ UNCHANGED <<running, session_id, window, searchVars, late>>

\* There is no template, or nothing in it and empty blocks are not mined.
SkipTemplate(c) ==
    /\ controller[c] = "template"
    /\ controller' = [ controller EXCEPT ![c] = "looping" ]
    /\ UNCHANGED <<running, session_id, window, searchVars, late>>

\* mine_template_parallel: a new channel, a new flag and new workers.
BeginSearch(c) ==
    /\ controller[c] = "template"
    /\ controller' = [ controller EXCEPT ![c] = "searching" ]
    /\ worker' = [ worker EXCEPT ![c] = [ w \in Worker |-> "checking" ] ]
    /\ found' = [ found EXCEPT ![c] = FALSE ]
    /\ channel' = [ channel EXCEPT ![c] = {} ]
    /\ UNCHANGED <<running, session_id, window, result, late>>

\* A worker's loop condition.
CheckStop(c, w) ==
    /\ worker[c][w] = "checking"
    /\ worker' = [ worker EXCEPT ![c][w] = IF ~Live(c) \/ found[c] THEN "done" ELSE "hashing" ]
    /\ UNCHANGED <<running, session_id, window, controller, found, channel, result, late>>

\* A nonce does not meet the target ...
TryNonce(c, w) ==
    /\ worker[c][w] = "hashing"
    /\ worker' = [ worker EXCEPT ![c][w] = "checking" ]
    /\ UNCHANGED <<running, session_id, window, controller, found, channel, result, late>>

\* ... or it does, for one worker or for several at once.
FindNonce(c, w) ==
    /\ worker[c][w] = "hashing"
    /\ worker' = [ worker EXCEPT ![c][w] = "sending" ]
    /\ found' = [ found EXCEPT ![c] = TRUE ]
    /\ UNCHANGED <<running, session_id, window, controller, channel, result, late>>

\* Mutant of Send: the flag is asked once more before the block is sent.
SendUnlessFound(c, w) ==
    /\ worker[c][w] = "sending"
    /\ worker' = [ worker EXCEPT ![c][w] = "done" ]
    /\ channel' = [ channel EXCEPT ![c] = IF found[c] THEN @ ELSE @ \cup {w} ]
    /\ UNCHANGED <<running, session_id, window, controller, found, result, late>>

Send(c, w) ==
    /\ worker[c][w] = "sending"
    /\ worker' = [ worker EXCEPT ![c][w] = "done" ]
    /\ channel' = [ channel EXCEPT ![c] = @ \cup {w} ]
    /\ UNCHANGED <<running, session_id, window, controller, found, result, late>>

\* The controller goes on to receive, as long as its session is not over.
AwaitBlock(c) ==
    /\ controller[c] = "searching" /\ Live(c)
    /\ controller' = [ controller EXCEPT ![c] = "receiving" ]
    /\ UNCHANGED <<running, session_id, window, searchVars, late>>

EndSearch(c, r) ==
    /\ controller' = [ controller EXCEPT ![c] = "joining" ]
    /\ result' = [ result EXCEPT ![c] = r ]
    /\ found' = [ found EXCEPT ![c] = TRUE ]

NoticeStop(c) ==
    /\ controller[c] = "searching" /\ ~Live(c)
    /\ EndSearch(c, "Stopped")
    /\ UNCHANGED <<running, session_id, window, worker, channel, late>>

\* The first block is taken, whatever happened since the last look at
\* the session.
TakeBlock(c) ==
    /\ controller[c] = "receiving"
    /\ \E w \in channel[c] : channel' = [ channel EXCEPT ![c] = @ \ {w} ]
    /\ EndSearch(c, "Block")
    /\ UNCHANGED <<running, session_id, window, worker, late>>

Timeout(c) ==
    /\ controller[c] = "receiving" /\ channel[c] = {}
    /\ \E w \in Worker : worker[c][w] # "done"
    /\ controller' = [ controller EXCEPT ![c] = "searching" ]
    /\ UNCHANGED <<running, session_id, window, searchVars, late>>

\* All workers are gone and left no block.
Disconnected(c) ==
    /\ controller[c] = "receiving" /\ channel[c] = {}
    /\ \A w \in Worker : worker[c][w] = "done"
    /\ EndSearch(c, "Stopped")
    /\ UNCHANGED <<running, session_id, window, worker, channel, late>>

Join(c) ==
    /\ controller[c] = "joining"
    /\ \A w \in Worker : worker[c][w] = "done"
    /\ controller' = [ controller EXCEPT
          ![c] = IF result[c] = "Block" THEN "submitting" ELSE "ended" ]
    /\ UNCHANGED <<running, session_id, window, searchVars, late>>

Submitted(c) == late' = IF session_id # c THEN late \cup {c} ELSE late

\* Mutant of Submit: after an error there is a new attempt at once.
SubmitPersistently(c) ==
    /\ controller[c] = "submitting"
    /\ \E next \in {"looping", "template"} :
          controller' = [ controller EXCEPT ![c] = next ]
    /\ Submitted(c)
    /\ UNCHANGED <<running, session_id, window, searchVars>>

\* submit_block accepts or refuses the block; both ways lead to the loop.
Submit(c) ==
    /\ controller[c] = "submitting"
    /\ controller' = [ controller EXCEPT ![c] = "looping" ]
    /\ Submitted(c)
    /\ UNCHANGED <<running, session_id, window, searchVars>>

ControllerStep(c) ==
    \/ Loop(c) \/ SkipTemplate(c) \/ BeginSearch(c) \/ AwaitBlock(c) \/ NoticeStop(c)
    \/ TakeBlock(c) \/ Timeout(c) \/ Disconnected(c) \/ Join(c) \/ Submit(c)

WorkerStep(c, w) == CheckStop(c, w) \/ TryNonce(c, w) \/ FindNonce(c, w) \/ Send(c, w)

Next ==
    \/ Start \/ Spawn \/ Stop \/ EndSession
    \/ \E c \in Session : ControllerStep(c)
    \/ \E c \in Session, w \in Worker : WorkerStep(c, w)

Spec == Init /\ [][Next]_vars

\* Threads run; nobody has to start or to stop.
Fairness ==
    \A c \in Session : /\ WF_vars(ControllerStep(c))
                       /\ \A w \in Worker : WF_vars(WorkerStep(c, w))

FairSpec == Spec /\ Fairness

-----------------------------------------------------------------------------
Searching == {"searching", "receiving", "joining"}

\* Types; and a controller that is not in a search has left no worker behind.
TypeOK ==
    /\ running \in BOOLEAN
    /\ session_id \in 0..MaxSession
    /\ window \in {"idle", "starting", "stopping"}
    /\ controller \in [ Session -> Searching \cup
          {"none", "looping", "template", "submitting", "ended"} ]
    /\ worker \in [ Session -> [ Worker -> {"checking", "hashing", "sending", "done"} ] ]
    /\ found \in [ Session -> BOOLEAN ]
    /\ channel \in [ Session -> SUBSET Worker ]
    /\ result \in [ Session -> {"Block", "Stopped"} ]
    /\ late \subseteq Session
    /\ \A c \in Session : controller[c] \notin Searching =>
          \A w \in Worker : worker[c][w] = "done"

\* "Mining On" is true: whenever mining counts as running, the controller of
\* the current session has not ended.  It ends when a search finds all workers
\* gone and no block, which a stop must be the only reason for, although they
\* all go when one of them raises the flag.
ActiveIsMining ==
    running /\ window = "idle" =>
        /\ session_id \in Session
        /\ controller[session_id] \notin {"none", "ended"}

\* A stopped session has at most one more block: after it the controller
\* takes no further template, though a new session is mining by then.
OneLateBlock == \A c \in late : controller[c] \in {"looping", "ended"}

\* Only the controller of the current session can go on to another round: of
\* two that overlap, the older is in its last.
StoppedEnds ==
    \A c \in Session :
        (controller[c] # "none" /\ session_id # c) ~> controller[c] = "ended"
=============================================================================
