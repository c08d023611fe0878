----------------------------- MODULE Miner_proofs -----------------------------
(***************************************************************************)
(* Mining counts as running only while the current controller mines, and a *)
(* stopped session has at most one more block: for any number of workers   *)
(* and any number of starts and stops.                                     *)
(***************************************************************************)
EXTENDS Miner, TLAPS

\* No controller was spawned for the current session: it is a stopped one's
\* successor, or there was none yet.
Vacant == session_id \in Session => controller[session_id] = "none"

\* What the window's calls leave behind.
WindowInv ==
    /\ window = "starting" => running /\ Vacant /\ session_id < MaxSession
    /\ window = "stopping" => ~running /\ session_id < MaxSession
    /\ window = "idle" /\ ~running => Vacant
    /\ ActiveIsMining

LaterInv == \A c \in Session : c > session_id => controller[c] = "none"

\* A search whose session goes on: some worker goes on, too, or raised the
\* flag; and who raised the flag has sent a block or will.
SearchInv ==
    \A c \in Session : Live(c) =>
        /\ controller[c] \in {"searching", "receiving"} =>
              /\ found[c] \/ \E w \in Worker : worker[c][w] # "done"
              /\ found[c] => channel[c] # {} \/ \E w \in Worker : worker[c][w] = "sending"
              /\ \A w \in Worker : worker[c][w] = "sending" => found[c]
        /\ controller[c] = "joining" => result[c] = "Block"

LateInv == \A c \in late : c < session_id /\ controller[c] \in {"looping", "ended"}

MinerInv == TypeOK /\ WindowInv /\ LaterInv /\ SearchInv /\ LateInv

\* No session has begun.
LEMMA InitMiner == Init => MinerInv
<1> SUFFICES ASSUME Init PROVE MinerInv OBVIOUS
<1> USE MaxSessionAssumption DEF Init
<1>1. TypeOK
  <2>1. worker \in [ Session -> [ Worker -> {"checking", "hashing", "sending", "done"} ] ]
    OBVIOUS
  <2>2. session_id \in 0..MaxSession BY SMT
  <2>3. controller \in [ Session -> Searching \cup
            {"none", "looping", "template", "submitting", "ended"} ]
    OBVIOUS
  <2> QED BY <2>1, <2>2, <2>3 DEF TypeOK
<1>2. WindowInv BY DEF WindowInv, Vacant, ActiveIsMining
<1>3. LaterInv /\ SearchInv /\ LateInv BY DEF LaterInv, SearchInv, LateInv, Live
<1> QED BY <1>1, <1>2, <1>3 DEF MinerInv

-----------------------------------------------------------------------------
\* The window: a call in two halves starts one session or ends one.
LEMMA WindowSteps ==
    ASSUME MinerInv, Start \/ Spawn \/ Stop \/ EndSession
    PROVE  MinerInv'
<1> USE MaxSessionAssumption DEF MinerInv, Session
<1>1. CASE Start
  <2>1. TypeOK' BY <1>1 DEF Start, searchVars, TypeOK, Searching
  <2>2. WindowInv' BY <1>1 DEF Start, searchVars, TypeOK, WindowInv, Vacant, ActiveIsMining
  <2>3. LaterInv' BY <1>1 DEF Start, searchVars, LaterInv
  <2>4. SearchInv' BY <1>1 DEF Start, searchVars, WindowInv, Vacant, SearchInv, Live, TypeOK
  <2>5. LateInv' BY <1>1 DEF Start, searchVars, LateInv
  <2> QED BY <2>1, <2>2, <2>3, <2>4, <2>5
<1>2. CASE Spawn
  <2>1. session_id + 1 \in Session BY <1>2 DEF Spawn, TypeOK, WindowInv
  <2>2. TypeOK' BY <1>2, <2>1 DEF Spawn, searchVars, TypeOK, Searching, LaterInv
  <2>3. WindowInv' BY <1>2, <2>1 DEF Spawn, TypeOK, WindowInv, Vacant, ActiveIsMining
  <2>4. LaterInv' BY <1>2, <2>1 DEF Spawn, TypeOK, LaterInv
  <2>5. SearchInv' BY <1>2, <2>1 DEF Spawn, searchVars, TypeOK, SearchInv, Live
  <2>6. LateInv' BY <1>2, <2>1 DEF Spawn, TypeOK, LateInv
  <2> QED BY <2>2, <2>3, <2>4, <2>5, <2>6
<1>3. CASE Stop
  <2>1. TypeOK' BY <1>3 DEF Stop, searchVars, TypeOK, Searching
  <2>2. WindowInv' BY <1>3 DEF Stop, TypeOK, WindowInv, Vacant, ActiveIsMining
  <2>3. LaterInv' BY <1>3 DEF Stop, LaterInv
  <2>4. SearchInv' BY <1>3 DEF Stop, SearchInv, Live
  <2>5. LateInv' BY <1>3 DEF Stop, LateInv
  <2> QED BY <2>1, <2>2, <2>3, <2>4, <2>5
<1>4. CASE EndSession
  <2>1. session_id + 1 \in Session BY <1>4 DEF EndSession, TypeOK, WindowInv
  <2>2. TypeOK' BY <1>4, <2>1 DEF EndSession, searchVars, TypeOK, Searching
  <2>3. WindowInv' BY <1>4, <2>1
        DEF EndSession, TypeOK, WindowInv, Vacant, ActiveIsMining, LaterInv
  <2>4. LaterInv' BY <1>4 DEF EndSession, TypeOK, LaterInv
  <2>5. SearchInv' BY <1>4 DEF EndSession, WindowInv, SearchInv, Live
  <2>6. LateInv' BY <1>4 DEF EndSession, TypeOK, LateInv
  <2> QED BY <2>2, <2>3, <2>4, <2>5, <2>6
<1> QED BY <1>1, <1>2, <1>3, <1>4

-----------------------------------------------------------------------------
\* A controller that moves on was spawned, and it ends only when its session
\* is over: this is what its moves have to keep of the window's part.
LEMMA ControllerMoves ==
    ASSUME MinerInv, NEW c \in Session, NEW next,
           controller[c] \notin {"none", "ended"},
           next \in Searching \cup {"looping", "template", "submitting", "ended"},
           next = "ended" => ~Live(c),
           controller' = [ controller EXCEPT ![c] = next ],
           UNCHANGED <<running, session_id, window>>
    PROVE  WindowInv' /\ LaterInv'
<1> USE DEF MinerInv, TypeOK
<1>1. WindowInv' BY DEF WindowInv, Vacant, ActiveIsMining, Live, Searching
<1>2. LaterInv' BY DEF LaterInv
<1> QED BY <1>1, <1>2

\* A session's controller keeps the invariant.
LEMMA ControllerSteps ==
    ASSUME MinerInv, NEW c \in Session, ControllerStep(c)
    PROVE  MinerInv'
<1> USE DEF MinerInv, searchVars
<1>1. CASE Loop(c)
  <2>1. TypeOK' BY <1>1 DEF Loop, TypeOK, Searching
  <2>2. WindowInv' /\ LaterInv'
    <3> DEFINE next == IF Live(c) THEN "template" ELSE "ended"
    <3>1. /\ next \in {"template", "ended"}
          /\ next = "ended" => ~Live(c)
      OBVIOUS
    <3> HIDE DEF next
    <3>2. /\ controller' = [ controller EXCEPT ![c] = next ]
          /\ controller[c] \notin {"none", "ended"}
          /\ UNCHANGED <<running, session_id, window>>
      BY <1>1 DEF Loop, next
    <3> QED BY <3>1, <3>2, ControllerMoves
  <2>3. SearchInv' BY <1>1 DEF Loop, TypeOK, SearchInv, Live
  <2>4. LateInv' BY <1>1 DEF Loop, TypeOK, LateInv, Live, Session
  <2> QED BY <2>1, <2>2, <2>3, <2>4
<1>2. CASE SkipTemplate(c)
  <2>1. TypeOK' BY <1>2 DEF SkipTemplate, TypeOK, Searching
  <2>2. WindowInv' /\ LaterInv' BY <1>2, ControllerMoves DEF SkipTemplate
  <2>3. SearchInv' BY <1>2 DEF SkipTemplate, TypeOK, SearchInv, Live
  <2>4. LateInv' BY <1>2 DEF SkipTemplate, TypeOK, LateInv
  <2> QED BY <2>1, <2>2, <2>3, <2>4
<1>3. CASE BeginSearch(c)
  <2>1. TypeOK' BY <1>3 DEF BeginSearch, TypeOK, Searching
  <2>2. WindowInv' /\ LaterInv' BY <1>3, ControllerMoves DEF BeginSearch, Searching
  <2>3. SearchInv' BY <1>3, WorkerAssumption DEF BeginSearch, TypeOK, SearchInv, Live
  <2>4. LateInv' BY <1>3 DEF BeginSearch, TypeOK, LateInv
  <2> QED BY <2>1, <2>2, <2>3, <2>4
<1>4. CASE AwaitBlock(c)
  <2>1. TypeOK' BY <1>4 DEF AwaitBlock, TypeOK, Searching
  <2>2. WindowInv' /\ LaterInv' BY <1>4, ControllerMoves DEF AwaitBlock, Searching
  <2>3. SearchInv' BY <1>4 DEF AwaitBlock, TypeOK, SearchInv, Live
  <2>4. LateInv' BY <1>4 DEF AwaitBlock, TypeOK, LateInv
  <2> QED BY <2>1, <2>2, <2>3, <2>4
<1>5. CASE NoticeStop(c)
  <2>1. TypeOK' BY <1>5 DEF NoticeStop, EndSearch, TypeOK, Searching
  <2>2. WindowInv' /\ LaterInv'
        BY <1>5, ControllerMoves DEF NoticeStop, EndSearch, Searching
  <2>3. SearchInv' BY <1>5 DEF NoticeStop, EndSearch, TypeOK, SearchInv, Live
  <2>4. LateInv' BY <1>5 DEF NoticeStop, EndSearch, TypeOK, LateInv
  <2> QED BY <2>1, <2>2, <2>3, <2>4
<1>6. CASE TakeBlock(c)
  <2>1. TypeOK' BY <1>6 DEF TakeBlock, EndSearch, TypeOK, Searching
  <2>2. WindowInv' /\ LaterInv'
        BY <1>6, ControllerMoves DEF TakeBlock, EndSearch, Searching
  <2>3. SearchInv' BY <1>6 DEF TakeBlock, EndSearch, TypeOK, SearchInv, Live
  <2>4. LateInv' BY <1>6 DEF TakeBlock, EndSearch, TypeOK, LateInv
  <2> QED BY <2>1, <2>2, <2>3, <2>4
<1>7. CASE Timeout(c)
  <2>1. TypeOK' BY <1>7 DEF Timeout, TypeOK, Searching
  <2>2. WindowInv' /\ LaterInv' BY <1>7, ControllerMoves DEF Timeout, Searching
  <2>3. SearchInv' BY <1>7 DEF Timeout, TypeOK, SearchInv, Live
  <2>4. LateInv' BY <1>7 DEF Timeout, TypeOK, LateInv
  <2> QED BY <2>1, <2>2, <2>3, <2>4
<1>8. CASE Disconnected(c)
  <2>1. TypeOK' BY <1>8 DEF Disconnected, EndSearch, TypeOK, Searching
  <2>2. WindowInv' /\ LaterInv'
        BY <1>8, ControllerMoves DEF Disconnected, EndSearch, Searching
  \* the search cannot be left without a block while its session goes on
  <2>3. ~Live(c) BY <1>8 DEF Disconnected, SearchInv
  <2>4. SearchInv' BY <1>8, <2>3 DEF Disconnected, EndSearch, TypeOK, SearchInv, Live
  <2>5. LateInv' BY <1>8 DEF Disconnected, EndSearch, TypeOK, LateInv
  <2> QED BY <2>1, <2>2, <2>4, <2>5
<1>9. CASE Join(c)
  <2>1. TypeOK' BY <1>9 DEF Join, TypeOK, Searching
  <2>2. result[c] # "Block" => ~Live(c) BY <1>9 DEF Join, SearchInv
  <2>3. WindowInv' /\ LaterInv'
        BY <1>9, <2>2, ControllerMoves DEF Join, Searching
  <2>4. SearchInv' BY <1>9 DEF Join, TypeOK, SearchInv, Live
  <2>5. LateInv' BY <1>9 DEF Join, TypeOK, LateInv
  <2> QED BY <2>1, <2>3, <2>4, <2>5
<1>10. CASE Submit(c)
  <2>1. TypeOK' BY <1>10 DEF Submit, Submitted, TypeOK, Searching
  <2>2. WindowInv' /\ LaterInv' BY <1>10, ControllerMoves DEF Submit
  <2>3. SearchInv' BY <1>10 DEF Submit, TypeOK, SearchInv, Live
  <2>4. LateInv'
        BY <1>10 DEF Submit, Submitted, TypeOK, LateInv, LaterInv, Session
  <2> QED BY <2>1, <2>2, <2>3, <2>4
<1> QED BY <1>1, <1>2, <1>3, <1>4, <1>5, <1>6, <1>7, <1>8, <1>9, <1>10 DEF ControllerStep

-----------------------------------------------------------------------------
\* A worker goes only while its controller is in the search it belongs to.
LEMMA WorkerSteps ==
    ASSUME MinerInv, NEW c \in Session, NEW w \in Worker, WorkerStep(c, w)
    PROVE  MinerInv'
<1> USE DEF MinerInv
<1>1. PICK next \in {"checking", "hashing", "sending", "done"} :
          /\ worker[c][w] # "done"
          /\ UNCHANGED <<running, session_id, window, controller, result, late>>
          /\ worker' = [ worker EXCEPT ![c][w] = next ]
          /\ found' \in [ Session -> BOOLEAN ]
          /\ channel' \in [ Session -> SUBSET Worker ]
  <2>1. CASE CheckStop(c, w)
    <3> DEFINE next == IF ~Live(c) \/ found[c] THEN "done" ELSE "hashing"
    <3>1. next \in {"done", "hashing"} OBVIOUS
    <3>2. worker' = [ worker EXCEPT ![c][w] = next ] BY <2>1 DEF CheckStop
    <3> QED BY <2>1, <3>1, <3>2 DEF CheckStop, TypeOK
  <2>2. CASE TryNonce(c, w) BY <2>2 DEF TryNonce, TypeOK
  <2>3. CASE FindNonce(c, w) BY <2>3 DEF FindNonce, TypeOK
  <2>4. CASE Send(c, w) BY <2>4 DEF Send, TypeOK
  <2> QED BY <2>1, <2>2, <2>3, <2>4 DEF WorkerStep
<1>2. WindowInv' /\ LaterInv' /\ LateInv'
  BY <1>1 DEF WindowInv, Vacant, ActiveIsMining, LaterInv, LateInv
<1>3. TypeOK'
  <2>1. controller[c] \in Searching BY <1>1 DEF TypeOK
  <2>2. worker' \in [ Session -> [ Worker -> {"checking", "hashing", "sending", "done"} ] ]
    <3>1. [ worker[c] EXCEPT ![w] = next ] \in
              [ Worker -> {"checking", "hashing", "sending", "done"} ]
      BY DEF TypeOK
    <3> QED BY <1>1, <3>1 DEF TypeOK
  <2>3. \A d \in Session : d # c => worker'[d] = worker[d] BY <1>1 DEF TypeOK
  <2> QED BY <1>1, <2>1, <2>2, <2>3 DEF TypeOK
<1>4. SearchInv'
  <2>1. CASE CheckStop(c, w)
    <3>1. CASE ~Live(c) \/ found[c]
      BY <1>1, <2>1, <3>1 DEF CheckStop, TypeOK, SearchInv, Live
    <3>2. CASE Live(c) /\ ~found[c]
      <4>1. worker' = [ worker EXCEPT ![c][w] = "hashing" ] BY <2>1, <3>2 DEF CheckStop
      <4>2. worker'[c][w] # "done" BY <4>1 DEF TypeOK
      <4> QED BY <1>1, <2>1, <3>2, <4>1, <4>2 DEF CheckStop, TypeOK, SearchInv, Live
    <3> QED BY <3>1, <3>2
  <2>2. CASE TryNonce(c, w) BY <1>1, <2>2 DEF TryNonce, TypeOK, SearchInv, Live
  <2>3. CASE FindNonce(c, w) BY <1>1, <2>3 DEF FindNonce, TypeOK, SearchInv, Live
  <2>4. CASE Send(c, w)
    \* the block that is sent takes the place of its sender
    <3>1. channel'[c] # {} BY <2>4 DEF Send, TypeOK
    <3>2. Live(c) /\ controller[c] \in {"searching", "receiving"} => found[c]
      BY <2>4 DEF Send, SearchInv
    <3> QED BY <1>1, <2>4, <3>1, <3>2 DEF Send, TypeOK, SearchInv, Live
  <2> QED BY <2>1, <2>2, <2>3, <2>4 DEF WorkerStep
<1> QED BY <1>2, <1>3, <1>4

\* So does a step that changes nothing.
LEMMA Stutter == MinerInv /\ UNCHANGED vars => MinerInv'
BY DEF MinerInv, TypeOK, WindowInv, LaterInv, SearchInv, LateInv, Vacant,
       ActiveIsMining, Live, vars

\* The inductive invariant is one.
LEMMA Inductive == Spec => []MinerInv
<1>1. MinerInv /\ [Next]_vars => MinerInv'
  BY WindowSteps, ControllerSteps, WorkerSteps, Stutter DEF Next
<1> QED BY <1>1, InitMiner, PTL DEF Spec

-----------------------------------------------------------------------------
\* Types, and no controller outside a search has workers left: mine_template_parallel
\* joins them all before it returns.
THEOREM TypeCorrect == Spec => []TypeOK
BY Inductive, PTL DEF MinerInv

\* While the window shows that it mines, it does (mining.rs:213): start_continuous,
\* stop_mining and the controllers of earlier sessions never leave `running`
\* set without the controller of the current session.
THEOREM RunningIsMining == Spec => []ActiveIsMining
<1>1. MinerInv => ActiveIsMining BY DEF MinerInv, WindowInv
<1> QED BY <1>1, Inductive, PTL

\* A controller whose session is over submits at most the block its search
\* was about to return: it is at the end of its last round then.
THEOREM AtMostOneLate == Spec => []OneLateBlock
<1>1. MinerInv => OneLateBlock BY DEF MinerInv, LateInv, OneLateBlock
<1> QED BY <1>1, Inductive, PTL
=============================================================================
