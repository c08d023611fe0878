----------------------------- MODULE Storage_proofs -----------------------------
(***************************************************************************)
(* What the data directory keeps, for every set of payments, keys,         *)
(* passwords and threads, and any number of starts, commands and crashes.  *)
(*                                                                         *)
(* A copy of the node is of one moment because the block store's lock is   *)
(* kept from the copy of the chain to that of the mempool: while a save is *)
(* between the two, no thread of its process changes the chain.  One       *)
(* thread of one process writes what its node is, and so all that was      *)
(* answered with Ok and not thrown out since.                              *)
(***************************************************************************)
EXTENDS Storage, TLAPS

\* A submission, reset or save is of a process that runs; between its two
\* copies a save holds the lock, and the first is still true.
Sound(t) ==
    saver[t].at # "idle" =>
        /\ phase[Of(t)] # "down"
        /\ saver[t].at = "mempool" =>
              lock[Of(t)] = t /\ saver[t].chain = memory[Of(t)].chain

\* One thread: its copies are its node, which has all that was acknowledged,
\* as has the file, which is cut short only while it writes.
OneWriter ==
    /\ phase["command"] = "down"
    /\ \A t \in Thread \ {"main"} : saver[t].at = "idle"
    /\ state_file = Torn => saver["main"].at = "truncated"
    /\ saver["main"].at \in {"taken", "truncated"} =>
          memory["window"] =
              [ chain |-> saver["main"].chain, mempool |-> saver["main"].mempool ]
    /\ state_file = Absent => acked = {}
    /\ state_file \in State => acked \subseteq Payments(state_file)
    /\ phase["window"] # "down" => acked \subseteq Payments(memory["window"])

\* The inductive invariant.
StorageInv ==
    /\ TypeOK
    /\ commands \in Nat
    /\ \A t \in Thread : Sound(t)
    /\ Alone => OneWriter
    /\ FileIsTheWindows

\* Nothing is saved and nothing runs.
LEMMA InitEstablishesStorage == Init => StorageInv
<1> SUFFICES ASSUME Init PROVE StorageInv
  OBVIOUS
<1>1. TypeOK
  BY StorageAssumption DEF Init, TypeOK, Process, Thread, Resting, State
<1> QED
  BY <1>1, StorageAssumption DEF Init, StorageInv, Sound, OneWriter, FileIsTheWindows,
     Resting, Thread, Process

-----------------------------------------------------------------------------
(* Types. *)

\* A thread is of a process, whose main thread is one.
LEMMA ThreadsOf == \A t \in Thread : Of(t) \in Process /\ Main(Of(t)) \in Thread
BY DEF Of, Main, Thread, Process

Stage == {"idle", "checked", "reset", "chain", "mempool", "taken", "truncated"}
Save == [ at : Stage, chain : SUBSET Payment, mempool : SUBSET Payment,
          adds : SUBSET Payment ]

\* A save begins.
LEMMA BeginTypes ==
    ASSUME TypeOK, NEW t \in Thread, NEW adds \in SUBSET Payment, Begin(t, adds)
    PROVE  /\ saver' \in [ Thread -> Save ]
           /\ saver'[t].at = "chain"
           /\ \A u \in Thread \ {t} : saver'[u] = saver[u]
BY DEF TypeOK, Begin, Resting, Save, Stage

\* A submission is checked, or refused; nothing else of the node's changes.
LEMMA CheckTypes ==
    ASSUME TypeOK, NEW t \in Thread, CheckPayment(t) \/ RefusePayment(t)
    PROVE  /\ UNCHANGED <<state_file, memory, phase, lock, acked>>
           /\ saver[t].at = "checked" \/ Free(t)
           /\ saver'[t].at \in {"checked", "idle"}
           /\ \A u \in Thread \ {t} : saver'[u] = saver[u]
<1>1. CASE CheckPayment(t)
  <2>1. PICK pay \in scenario.payments :
          saver' = [ saver EXCEPT ![t] = [ Resting EXCEPT !.at = "checked", !.adds = {pay} ] ]
    BY <1>1 DEF CheckPayment
  <2>2. saver'[t].at = "checked" /\ \A u \in Thread \ {t} : saver'[u] = saver[u]
    BY <2>1 DEF TypeOK, Resting
  <2> QED BY <1>1, <2>2 DEF CheckPayment
<1>2. CASE RefusePayment(t)
  BY <1>2 DEF RefusePayment, TypeOK, Resting
<1> QED BY <1>1, <1>2

\* A node changes.
LEMMA ChangeTypes ==
    ASSUME TypeOK, NEW p \in Process, phase[p] # "down", NEW state \in State, Change(p, state)
    PROVE  /\ memory' \in [ Process -> State \cup {Down} ]
           /\ \A q \in Process : memory'[q] = Down <=> phase[q] = "down"
           /\ memory'[p] = state
           /\ \A q \in Process \ {p} : memory'[q] = memory[q]
           /\ acked' \subseteq acked
<1>1. state # Down
  BY StorageAssumption
<1> QED BY <1>1 DEF TypeOK, Change

\* What a block makes of a node is a node.
LEMMA AdoptChanges ==
    ASSUME TypeOK, NEW t \in Thread, Adopt(t)
    PROVE  \E state \in State : Change(Of(t), state)
<1> DEFINE p == Of(t)
<1>1. memory[p] \in State
  BY ThreadsOf DEF TypeOK, Adopt, Free
<1>2. PICK out \in SUBSET memory[p].chain :
        \E in \in SUBSET (scenario.payments \ (memory[p].chain \ out)) :
        \E last \in SUBSET in :
          Change(p, [ chain |-> (memory[p].chain \ out) \cup in,
                      mempool |-> { pay \in memory[p].mempool : ~Hindered(pay, last) } ])
  BY DEF Adopt
<1>i. PICK in \in SUBSET (scenario.payments \ (memory[p].chain \ out)) :
        \E last \in SUBSET in :
          Change(p, [ chain |-> (memory[p].chain \ out) \cup in,
                      mempool |-> { pay \in memory[p].mempool : ~Hindered(pay, last) } ])
  BY <1>2
<1>l. PICK last \in SUBSET in :
          Change(p, [ chain |-> (memory[p].chain \ out) \cup in,
                      mempool |-> { pay \in memory[p].mempool : ~Hindered(pay, last) } ])
  BY <1>i
<1>3. scenario.payments \subseteq Payment
  BY StorageAssumption DEF TypeOK
<1>4. /\ (memory[p].chain \ out) \cup in \in SUBSET Payment
      /\ { pay \in memory[p].mempool : ~Hindered(pay, last) } \in SUBSET Payment
  BY <1>1, <1>3 DEF State
<1>5. [ chain |-> (memory[p].chain \ out) \cup in,
        mempool |-> { pay \in memory[p].mempool : ~Hindered(pay, last) } ] \in State
  BY <1>4 DEF State
<1> QED BY <1>l, <1>5

\* A process ends or is killed.
LEMMA EndTypes ==
    ASSUME TypeOK, NEW p \in Process, End(p)
    PROVE  /\ saver' \in [ Thread -> Save ]
           /\ phase' \in [ Process -> {"down", "starting", "opening", "open", "leaving"} ]
           /\ memory' \in [ Process -> State \cup {Down} ]
           /\ lock' \in [ Process -> Thread \cup {Nobody} ]
           /\ \A q \in Process : memory'[q] = Down <=> phase'[q] = "down"
           /\ phase'["window"] = "open" <=> p # "window" /\ phase["window"] = "open"
BY DEF TypeOK, End, Resting, Save, Stage, Process

\* Steps on the node state file keep the types, ...
LEMMA NodeStepTypes ==
    ASSUME TypeOK, \A t \in Thread : Sound(t), NodeFileStep
    PROVE  TypeOK'
<1>e. {} \in SUBSET Payment /\ Empty \in State
  BY DEF Empty, State
<1>d. \A s \in State : s # Down
  BY StorageAssumption
<1>1. ASSUME NEW p \in Process, Load(p) PROVE TypeOK'
  <2>1. CASE state_file = Torn
    <3>1. /\ p = "window"
          /\ memory' = [ memory EXCEPT ![p] = Empty ] /\ phase' = [ phase EXCEPT ![p] = "opening" ]
          /\ UNCHANGED <<scenario, state_file, saver, lock, acked, walletFiles>>
      BY <1>1, <2>1 DEF Load
    <3> QED BY <1>1, <1>e, <1>d, <3>1 DEF Load, TypeOK, walletFiles
  <2>2. CASE state_file # Torn
    <3> DEFINE state == IF state_file = Absent THEN Empty ELSE state_file
    <3>1. state \in State
      BY <1>e, <2>2 DEF TypeOK
    <3> HIDE DEF state
    <3>2. Begin(Main(p), {}) /\ Main(p) \in Thread
      BY <1>1, <2>2, StorageAssumption DEF Load, Main, Thread
    <3>3. saver' \in [ Thread -> Save ]
      BY <1>e, <3>2, BeginTypes
    <3>4. memory' = [ memory EXCEPT ![p] = state ] /\ phase' = [ phase EXCEPT ![p] = "starting" ]
      BY <1>1, <2>2, StorageAssumption DEF Load, state
    <3> QED BY <1>1, <1>d, <3>1, <3>3, <3>4 DEF Load, TypeOK, Process, walletFiles, Save, Stage
  <2> QED BY <2>1, <2>2
<1>2. ASSUME NEW t \in Thread, CheckPayment(t) \/ RefusePayment(t) PROVE TypeOK'
  <2>1. CASE CheckPayment(t)
    <3>1. PICK pay \in scenario.payments :
            saver' = [ saver EXCEPT ![t] = [ Resting EXCEPT !.at = "checked", !.adds = {pay} ] ]
      BY <2>1 DEF CheckPayment
    <3>2. pay \in Payment
      BY StorageAssumption DEF TypeOK
    <3>3. saver' \in [ Thread -> Save ]
      BY <3>1, <3>2 DEF TypeOK, Resting, Save, Stage
    <3> QED BY <2>1, <3>3 DEF CheckPayment, TypeOK, walletFiles, Save, Stage
  <2>2. CASE RefusePayment(t)
    <3>1. saver' \in [ Thread -> Save ]
      BY <2>2 DEF RefusePayment, TypeOK, Resting, Save, Stage
    <3> QED BY <2>2, <3>1 DEF RefusePayment, TypeOK, walletFiles, Save, Stage
  <2> QED BY <1>2, <2>1, <2>2
<1>a. ASSUME NEW t \in Thread, AdmitPayment(t) PROVE TypeOK'
  <2> DEFINE p == Of(t)
  <2>1. p \in Process /\ saver[t].adds \in SUBSET Payment
    BY ThreadsOf DEF TypeOK
  <2> HIDE DEF p
  <2>2. /\ memory' = [ memory EXCEPT ![p].mempool = memory[p].mempool \cup saver[t].adds ]
        /\ Begin(t, saver[t].adds)
    BY <1>a, <2>1 DEF AdmitPayment, p, TypeOK
  <2>3. memory[p] \in State
    BY <1>a, <2>1 DEF TypeOK, AdmitPayment, Sound, p
  <2>4. memory'[p] \in State /\ memory' \in [ Process -> State \cup {Down} ]
    BY <2>1, <2>2, <2>3 DEF TypeOK, State
  <2>5. saver' \in [ Thread -> Save ]
    BY <2>1, <2>2, BeginTypes
  <2>6. \A q \in Process : memory'[q] = Down <=> phase[q] = "down"
    BY <1>d, <2>1, <2>2, <2>3, <2>4 DEF TypeOK
  <2> QED BY <1>a, <2>4, <2>5, <2>6 DEF AdmitPayment, TypeOK, walletFiles, Save, Stage
<1>3. ASSUME NEW t \in Thread, Adopt(t) PROVE TypeOK'
  <2>1. Of(t) \in Process /\ phase[Of(t)] # "down" /\ Begin(t, {})
    BY <1>3, ThreadsOf DEF Adopt, Free
  <2>2. PICK state \in State : Change(Of(t), state)
    BY <1>3, AdoptChanges
  <2>3. saver' \in [ Thread -> Save ]
    BY <1>e, <2>1, BeginTypes
  <2> QED BY <1>3, <2>1, <2>2, <2>3, ChangeTypes DEF Adopt, TypeOK, walletFiles, Save, Stage
<1>r. CASE ResetChain \/ ResetMempool
  <2>1. "window" \in Process /\ "main" \in Thread /\ Of("main") = "window"
    BY DEF Process, Thread, Of
  <2>2. phase["window"] # "down" /\ memory["window"] \in State
    BY <1>r, <2>1 DEF ResetChain, ResetMempool, Press, TypeOK, Sound
  <2>3. \E state \in State : Change("window", state)
    <3>1. /\ [ memory["window"] EXCEPT !.chain = {} ] \in State
          /\ [ memory["window"] EXCEPT !.mempool = {} ] \in State
      BY <2>2 DEF State
    <3> QED BY <1>r, <3>1 DEF ResetChain, ResetMempool
  <2>4. saver' \in [ Thread -> Save ]
    <3>1. CASE ResetChain
      BY <3>1, <2>1 DEF ResetChain, TypeOK, Resting, Save, Stage
    <3>2. CASE ResetMempool
      BY <3>2, <1>e, <2>1, BeginTypes DEF ResetMempool
    <3> QED BY <1>r, <3>1, <3>2
  <2> QED BY <1>r, <2>1, <2>2, <2>3, <2>4, ChangeTypes
          DEF ResetChain, ResetMempool, Press, TypeOK, walletFiles, Save, Stage
<1>4. ASSUME NEW t \in Thread, SaveChain(t) PROVE TypeOK'
  <2>1. memory[Of(t)].chain \in SUBSET Payment
    BY <1>4, ThreadsOf DEF TypeOK, SaveChain, State
  <2>2. /\ saver \in [ Thread -> Save ]
        /\ saver' = [ saver EXCEPT ![t] =
              [ saver[t] EXCEPT !.at = "mempool", !.chain = memory[Of(t)].chain ] ]
    BY <1>4 DEF SaveChain, TypeOK, Save, Stage
  <2>3. saver' \in [ Thread -> Save ]
    BY <2>1, <2>2 DEF Save, Stage
  <2>4. lock' \in [ Process -> Thread \cup {Nobody} ]
    BY <1>4, ThreadsOf DEF SaveChain, TypeOK
  <2> QED BY <1>4, <2>3, <2>4 DEF SaveChain, TypeOK, walletFiles, Save, Stage
<1>5. ASSUME NEW t \in Thread, SaveMempool(t) PROVE TypeOK'
  <2>1. memory[Of(t)].mempool \in SUBSET Payment
    BY <1>5, ThreadsOf DEF TypeOK, SaveMempool, State
  <2>2. /\ saver \in [ Thread -> Save ]
        /\ saver' = [ saver EXCEPT ![t] =
              [ saver[t] EXCEPT !.at = "taken", !.mempool = memory[Of(t)].mempool ] ]
    BY <1>5 DEF SaveMempool, TypeOK, Save, Stage
  <2>3. saver' \in [ Thread -> Save ]
    BY <2>1, <2>2 DEF Save, Stage
  <2>4. lock' \in [ Process -> Thread \cup {Nobody} ]
    BY <1>5, ThreadsOf DEF SaveMempool, TypeOK
  <2> QED BY <1>5, <2>3, <2>4 DEF SaveMempool, TypeOK, walletFiles, Save, Stage
<1>6. ASSUME NEW t \in Thread, Truncate(t) PROVE TypeOK'
  BY <1>6 DEF Truncate, TypeOK, walletFiles
<1>7. ASSUME NEW t \in Thread, Write(t) PROVE TypeOK'
  <2>1. state_file' \in State /\ acked' \subseteq Payment
    BY <1>7 DEF Write, TypeOK, State
  <2>2. Of(t) \in Process
    BY ThreadsOf
  <2>3. CASE End(Of(t)) /\ phase[Of(t)] = "leaving"
    <3>1. wallet # Down <=> phase'["window"] = "open"
      BY <2>2, <2>3, EndTypes DEF TypeOK
    <3> QED BY <1>7, <2>1, <2>2, <2>3, <3>1, EndTypes DEF Write, TypeOK, walletFiles, Save, Stage
  <2>4. CASE /\ saver' = [ saver EXCEPT ![t] = Resting ]
             /\ phase' = IF t = Main(Of(t)) /\ phase[Of(t)] = "starting"
                         THEN [ phase EXCEPT ![Of(t)] = IF Of(t) = "window" THEN "opening" ELSE "open" ]
                         ELSE phase
             /\ UNCHANGED <<memory, lock>>
    <3>1. saver' \in [ Thread -> Save ]
      BY <2>4 DEF TypeOK, Resting, Save, Stage
    <3> QED BY <1>7, <2>1, <2>2, <2>4, <3>1 DEF Write, TypeOK, walletFiles, Process, Save, Stage
  <2> QED BY <1>7, <2>3, <2>4 DEF Write
<1>8. ASSUME NEW p \in Process, Crash(p) PROVE TypeOK'
  <2>1. wallet' # Down <=> phase'["window"] = "open"
    BY <1>8, EndTypes DEF TypeOK, Crash
  <2> QED BY <1>8, <2>1, EndTypes DEF Crash, TypeOK, Save, Stage
<1>9. CASE EndCommand
  <2>1. "command" \in Process /\ End("command")
    BY <1>9 DEF EndCommand, Process
  <2> QED BY <1>9, <2>1, EndTypes DEF EndCommand, TypeOK, walletFiles, Save, Stage
<1> QED
  BY <1>1, <1>2, <1>a, <1>3, <1>r, <1>4, <1>5, <1>6, <1>7, <1>8, <1>9
  DEF NodeFileStep, StartWindow, StartCommand, Process

\* ... and so do steps on the wallet file.
LEMMA WalletStepTypes ==
    ASSUME TypeOK, WalletFileStep
    PROVE  TypeOK'
<1>w. \A w \in WalletState : w # Down /\ w # Absent
  BY StorageAssumption
<1>p. \A password \in scenario.passwords : password \in Password
  BY StorageAssumption DEF TypeOK
<1>k. \A key \in Key, password \in Password : Wallet(key, password) \in WalletState
  BY DEF Wallet, WalletState
<1>b. ASSUME Button PROVE /\ wallet \in WalletState /\ phase["window"] = "open"
                          /\ UNCHANGED <<scenario, nodeFile>>
  BY <1>b DEF Button, Press, TypeOK
<1>n. \A key : wallet \in WalletState /\ key \in Key => [ wallet EXCEPT !.key = key ] \in WalletState
  BY DEF WalletState
<1>f. \A w \in WalletState : w.key \in Key /\ w.password \in Password
  BY DEF WalletState
<1> USE DEF nodeFile, TypeOK
<1>1. CASE OpenWallet
  <2>1. wallet' \in WalletState /\ made' \subseteq Key
    <3>1. CASE Opens(wallet_file, "")
      BY <1>1, <3>1 DEF OpenWallet, Opens
    <3>2. CASE ~Opens(wallet_file, "")
      BY <1>1, <1>k, <3>2, StorageAssumption DEF OpenWallet, Fresh
    <3> QED BY <3>1, <3>2
  <2>2. wallet_file' \in WalletState \cup {Absent} /\ dialog' \in BOOLEAN
    BY <1>1, <2>1 DEF OpenWallet
  <2> QED BY <1>1, <1>w, <2>1, <2>2 DEF OpenWallet, Process
<1>2. CASE Exit
  <2>1. wallet \in WalletState /\ memory["window"] \in State /\ "main" \in Thread
    BY <1>2 DEF Exit, Process, Thread
  <2>2. saver' \in [ Thread -> Save ]
    <3>1. Begin("main", {}) /\ {} \in SUBSET Payment
      BY <1>2 DEF Exit
    <3> QED BY <2>1, <3>1, BeginTypes
  <2> QED BY <1>2, <2>1, <2>2 DEF Exit, Process, Save, Stage
<1>3. CASE CreateWallet
  <2>1. PICK password \in scenario.passwords : wallet' = Wallet(wallet.key, password)
    BY <1>3 DEF CreateWallet
  <2>2. wallet' \in WalletState
    BY <1>3, <1>b, <1>f, <1>k, <1>p, <2>1 DEF CreateWallet
  <2> QED BY <1>3, <1>b, <1>w, <2>2 DEF CreateWallet
<1>4. CASE CloseDialog
  BY <1>4, <1>b DEF CloseDialog
<1>5. CASE NewWallet
  <2>1. wallet' \in WalletState /\ made' \subseteq Key
    BY <1>5, <1>b, <1>n DEF NewWallet, Fresh
  <2> QED BY <1>5, <1>b, <1>w, <2>1 DEF NewWallet
<1>6. CASE ImportSeed
  <2>1. wallet' \in WalletState
    BY <1>6, <1>b, <1>n DEF ImportSeed
  <2> QED BY <1>6, <1>b, <1>w, <2>1 DEF ImportSeed
<1>7. CASE SaveWallet
  BY <1>7, <1>b DEF SaveWallet
<1>8. CASE BackupWallet
  BY <1>8, <1>b DEF BackupWallet
<1>9. CASE RestoreBackup
  <2>1. wallet' \in WalletState
    BY <1>9, <1>b, <1>f, <1>n DEF RestoreBackup, Opens
  <2> QED BY <1>9, <1>b, <1>w, <2>1 DEF RestoreBackup
<1>10. CASE CommandNew
  <2>1. wallet_file' \in WalletState /\ made' \subseteq Key
    BY <1>10, <1>k, <1>p DEF CommandNew
  <2> QED BY <1>10, <2>1 DEF CommandNew, Command
<1>11. CASE CommandCreate
  <2>1. wallet_file' \in WalletState /\ made' \subseteq Key
    BY <1>11, <1>k, <1>p DEF CommandCreate, Fresh
  <2> QED BY <1>11, <2>1 DEF CommandCreate, Command
<1>12. CASE CommandBackup
  BY <1>12 DEF CommandBackup, Command
<1>13. CASE CommandRestore
  <2>1. wallet_file' \in WalletState
    BY <1>13, <1>f, <1>k, <1>p DEF CommandRestore
  <2> QED BY <1>13, <2>1 DEF CommandRestore, Command
<1> QED BY <1>1, <1>2, <1>3, <1>4, <1>5, <1>6, <1>7, <1>8, <1>9, <1>10, <1>11, <1>12, <1>13
        DEF WalletFileStep

-----------------------------------------------------------------------------
(* Copies. *)

\* A thread that does nothing is not disturbed while its process runs and,
\* when it holds the lock, leaves the chain alone.
LEMMA OthersSound ==
    ASSUME NEW u \in Thread, Sound(u), saver'[u] = saver[u],
           saver[u].at # "idle" => phase'[Of(u)] # "down",
           saver[u].at = "mempool" =>
              lock'[Of(u)] = lock[Of(u)] /\ memory'[Of(u)].chain = memory[Of(u)].chain
    PROVE  Sound(u)'
BY DEF Sound

\* Who finds the lock free finds no save of the process between its copies.
LEMMA FreeLock ==
    ASSUME NEW u \in Thread, Sound(u), lock[Of(u)] = Nobody
    PROVE  saver[u].at # "mempool"
BY StorageAssumption DEF Sound, Thread

\* The end of a process ends its saves and no others.
LEMMA EndSound ==
    ASSUME TypeOK, \A t \in Thread : Sound(t), NEW p \in Process, End(p)
    PROVE  \A t \in Thread : Sound(t)'
<1> SUFFICES ASSUME NEW u \in Thread PROVE Sound(u)'
  OBVIOUS
<1>1. CASE Of(u) = p
  BY <1>1 DEF End, Resting, Sound
<1>2. CASE Of(u) # p
  <2>1. Of(u) \in Process
    BY ThreadsOf
  <2>2. /\ saver'[u] = saver[u] /\ memory'[Of(u)] = memory[Of(u)]
        /\ phase'[Of(u)] = phase[Of(u)] /\ lock'[Of(u)] = lock[Of(u)]
    BY <1>2, <2>1 DEF End, TypeOK
  <2> QED BY <2>2, OthersSound DEF Sound
<1> QED BY <1>1, <1>2

\* Every step leaves the saves sound.
LEMMA NodeStepSound ==
    ASSUME TypeOK, TypeOK', \A t \in Thread : Sound(t), NodeFileStep
    PROVE  \A t \in Thread : Sound(t)'
<1> DEFINE Goal == \A t \in Thread : Sound(t)'
<1>t. \A t \in Thread : Of(t) \in Process
  BY ThreadsOf
<1>s. \A u \in Thread : Sound(u) /\ (saver[u].at # "idle" => phase[Of(u)] # "down")
  BY DEF Sound
\* One thread changes what it is at, with its process running.
<1>u. ASSUME NEW t \in Thread, \A u \in Thread \ {t} : saver'[u] = saver[u],
             saver'[t].at # "mempool", saver'[t].at # "idle" => phase'[Of(t)] # "down",
             \A u \in Thread \ {t} : saver[u].at # "idle" => phase'[Of(u)] # "down",
             \A u \in Thread \ {t} : saver[u].at = "mempool" =>
                lock'[Of(u)] = lock[Of(u)] /\ memory'[Of(u)].chain = memory[Of(u)].chain
      PROVE  Goal
  <2> SUFFICES ASSUME NEW u \in Thread PROVE Sound(u)'
    OBVIOUS
  <2>1. CASE u = t
    BY <1>u, <2>1 DEF Sound
  <2>2. CASE u # t
    BY <1>s, <1>u, <2>2, OthersSound
  <2> QED BY <2>1, <2>2
<1>1. ASSUME NEW p \in Process, Load(p) PROVE Goal
  <2>1. phase[p] = "down" /\ phase'[p] # "down" /\ UNCHANGED lock
    BY <1>1 DEF Load, TypeOK
  <2>2. \A q \in Process \ {p} : phase'[q] = phase[q] /\ memory'[q] = memory[q]
    BY <1>1 DEF Load, TypeOK
  <2>3. \A u \in Thread : saver[u].at # "idle" => Of(u) # p /\ phase'[Of(u)] # "down"
    BY <1>s, <1>t, <2>1, <2>2
  <2>4. CASE state_file = Torn
    <3>1. saver' = saver
      BY <1>1, <2>4 DEF Load
    <3> QED BY <1>s, <1>t, <2>1, <2>2, <2>3, <3>1 DEF Sound
  <2>5. CASE state_file # Torn
    <3>1. Begin(Main(p), {}) /\ Main(p) \in Thread /\ Of(Main(p)) = p /\ {} \in SUBSET Payment
      BY <1>1, <2>5, StorageAssumption DEF Load, Main, Thread, Of, Process
    <3>2. /\ saver'[Main(p)].at = "chain"
          /\ \A u \in Thread \ {Main(p)} : saver'[u] = saver[u]
      BY <3>1, BeginTypes
    <3> QED BY <1>t, <1>u, <2>1, <2>2, <2>3, <3>1, <3>2
  <2> QED BY <2>4, <2>5
<1>2. ASSUME NEW t \in Thread, CheckPayment(t) \/ RefusePayment(t) PROVE Goal
  <2>1. /\ UNCHANGED <<memory, phase, lock>> /\ phase[Of(t)] # "down"
        /\ \A u \in Thread \ {t} : saver'[u] = saver[u]
        /\ saver'[t].at \in {"checked", "idle"}
    BY <1>2, <1>s, CheckTypes DEF Free
  <2> QED BY <1>s, <1>u, <2>1
<1>3. ASSUME NEW t \in Thread, AdmitPayment(t) PROVE Goal
  <2>1. /\ UNCHANGED <<phase, lock>> /\ phase[Of(t)] # "down" /\ saver[t].adds \in SUBSET Payment
        /\ memory' = [ memory EXCEPT ![Of(t)].mempool = @ \cup saver[t].adds ]
        /\ Begin(t, saver[t].adds)
    BY <1>3, <1>s DEF AdmitPayment, TypeOK
  <2>2. saver'[t].at = "chain" /\ \A u \in Thread \ {t} : saver'[u] = saver[u]
    BY <2>1, BeginTypes
  <2>3. memory[Of(t)] \in State
    BY <1>t, <2>1 DEF TypeOK
  <2>4. \A q \in Process : memory'[q].chain = memory[q].chain
    BY <1>t, <2>1, <2>3 DEF TypeOK, State
  <2> QED BY <1>s, <1>t, <1>u, <2>1, <2>2, <2>4
<1>4. ASSUME NEW t \in Thread, Adopt(t) PROVE Goal
  <2>1. /\ UNCHANGED <<phase, lock>> /\ phase[Of(t)] # "down" /\ lock[Of(t)] = Nobody
        /\ Begin(t, {}) /\ {} \in SUBSET Payment
    BY <1>4 DEF Adopt, Free
  <2>2. saver'[t].at = "chain" /\ \A u \in Thread \ {t} : saver'[u] = saver[u]
    BY <2>1, BeginTypes
  <2>3. \A q \in Process \ {Of(t)} : memory'[q] = memory[q]
    <3>1. PICK state \in State : Change(Of(t), state)
      BY <1>4, AdoptChanges
    <3> QED BY <1>t, <2>1, <3>1, ChangeTypes
  <2>4. \A u \in Thread : saver[u].at = "mempool" => Of(u) # Of(t)
    BY <1>s, <2>1, FreeLock
  <2> QED BY <1>s, <1>t, <1>u, <2>1, <2>2, <2>3, <2>4
<1>r. ASSUME ResetChain \/ ResetMempool PROVE Goal
  <2>1. "window" \in Process /\ "main" \in Thread /\ Of("main") = "window"
    BY DEF Process, Thread, Of
  <2>2. phase["window"] # "down" /\ memory["window"] \in State /\ UNCHANGED <<phase, lock>>
    BY <1>r, <1>s, <2>1 DEF ResetChain, ResetMempool, Press, TypeOK
  <2>3. CASE ResetChain
    <3>1. saver'["main"].at = "reset" /\ \A u \in Thread \ {"main"} : saver'[u] = saver[u]
      BY <2>1, <2>3 DEF ResetChain, TypeOK, Resting
    <3>2. memory' = [ memory EXCEPT !["window"] = [ memory["window"] EXCEPT !.chain = {} ] ]
      BY <2>3 DEF ResetChain, Change
    <3>3. \A q \in Process \ {"window"} : memory'[q] = memory[q]
      BY <3>2 DEF TypeOK
    <3>4. \A u \in Thread : saver[u].at = "mempool" => Of(u) # "window"
      BY <1>s, <2>3, FreeLock DEF ResetChain
    <3> QED BY <1>s, <1>t, <1>u, <2>1, <2>2, <3>1, <3>3, <3>4
  <2>4. CASE ResetMempool
    <3>1. saver'["main"].at = "chain" /\ \A u \in Thread \ {"main"} : saver'[u] = saver[u]
      <4>1. {} \in SUBSET Payment /\ Begin("main", {})
        BY <2>4 DEF ResetMempool
      <4> QED BY <2>1, <4>1, BeginTypes
    <3>2. memory' = [ memory EXCEPT !["window"] = [ memory["window"] EXCEPT !.mempool = {} ] ]
      BY <2>4 DEF ResetMempool, Change
    <3>3. \A q \in Process : memory'[q].chain = memory[q].chain
      BY <2>1, <2>2, <3>2 DEF TypeOK, State
    <3> QED BY <1>s, <1>t, <1>u, <2>1, <2>2, <3>1, <3>3
  <2> QED BY <1>r, <2>3, <2>4
<1>5. ASSUME NEW t \in Thread, SaveChain(t) PROVE Goal
  <2>1. /\ saver[t].at = "chain" /\ lock[Of(t)] = Nobody /\ UNCHANGED <<memory, phase>>
        /\ lock' = [ lock EXCEPT ![Of(t)] = t ]
        /\ saver' = [ saver EXCEPT ![t].at = "mempool", ![t].chain = memory[Of(t)].chain ]
    BY <1>5 DEF SaveChain
  <2>2. /\ saver'[t].at = "mempool" /\ saver'[t].chain = memory[Of(t)].chain
        /\ lock'[Of(t)] = t
    BY <1>t, <2>1 DEF TypeOK
  <2>3. Sound(t)'
    BY <1>s, <2>1, <2>2 DEF Sound
  <2>4. ASSUME NEW u \in Thread \ {t} PROVE Sound(u)'
    <3>1. saver'[u] = saver[u]
      BY <2>1 DEF TypeOK
    <3>2. saver[u].at = "mempool" => Of(u) # Of(t)
      BY <1>s, <2>1, FreeLock
    <3>3. saver[u].at = "mempool" => lock'[Of(u)] = lock[Of(u)]
      BY <1>t, <2>1, <3>2 DEF TypeOK
    <3> QED BY <1>s, <2>1, <3>1, <3>3, OthersSound
  <2> QED BY <2>3, <2>4
<1>6. ASSUME NEW t \in Thread, SaveMempool(t) PROVE Goal
  <2>1. /\ saver[t].at = "mempool" /\ UNCHANGED <<memory, phase>>
        /\ lock' = [ lock EXCEPT ![Of(t)] = Nobody ]
        /\ saver' = [ saver EXCEPT ![t].at = "taken", ![t].mempool = memory[Of(t)].mempool ]
    BY <1>6 DEF SaveMempool
  <2>2. saver'[t].at = "taken" /\ \A u \in Thread \ {t} : saver'[u] = saver[u]
    BY <2>1 DEF TypeOK
  <2>3. \A u \in Thread \ {t} : saver[u].at = "mempool" => lock'[Of(u)] = lock[Of(u)]
    <3>1. \A u \in Thread : saver[u].at = "mempool" => lock[Of(u)] = u
      BY <1>s DEF Sound
    <3> QED BY <1>t, <2>1, <3>1 DEF TypeOK
  <2> QED BY <1>s, <1>u, <2>1, <2>2, <2>3
<1>7. ASSUME NEW t \in Thread, Truncate(t) PROVE Goal
  <2>1. /\ saver[t].at = "taken" /\ UNCHANGED <<memory, phase, lock>>
        /\ saver' = [ saver EXCEPT ![t].at = "truncated" ]
    BY <1>7 DEF Truncate
  <2>2. saver'[t].at = "truncated" /\ \A u \in Thread \ {t} : saver'[u] = saver[u]
    BY <2>1 DEF TypeOK
  <2> QED BY <1>s, <1>u, <2>1, <2>2
<1>8. ASSUME NEW t \in Thread, Write(t) PROVE Goal
  <2>1. CASE End(Of(t))
    BY <1>t, <2>1, EndSound
  <2>2. CASE /\ saver' = [ saver EXCEPT ![t] = Resting ]
             /\ phase' = IF t = Main(Of(t)) /\ phase[Of(t)] = "starting"
                         THEN [ phase EXCEPT ![Of(t)] = IF Of(t) = "window" THEN "opening" ELSE "open" ]
                         ELSE phase
             /\ UNCHANGED <<memory, lock>>
    <3>1. saver'[t].at = "idle" /\ \A u \in Thread \ {t} : saver'[u] = saver[u]
      BY <2>2 DEF TypeOK, Resting
    <3>2. \A q \in Process : phase'[q] = "down" <=> phase[q] = "down"
      BY <2>2 DEF TypeOK
    <3> QED BY <1>s, <1>t, <1>u, <2>2, <3>1, <3>2
  <2> QED BY <1>8, <2>1, <2>2 DEF Write
<1>9. ASSUME NEW p \in Process, Crash(p) PROVE Goal
  BY <1>9, EndSound DEF Crash
<1>10. ASSUME EndCommand PROVE Goal
  <2>1. End("command") /\ "command" \in Process
    BY <1>10 DEF EndCommand, Process
  <2> QED BY <2>1, EndSound
<1>11. Goal
  <2> HIDE DEF Goal
  <2> QED
    BY <1>1, <1>2, <1>3, <1>4, <1>r, <1>5, <1>6, <1>7, <1>8, <1>9, <1>10
    DEF NodeFileStep, StartWindow, StartCommand, Process
<1> QED BY <1>11

-----------------------------------------------------------------------------
(* One writer. *)

\* The steps of the window alone, and what they leave alone.
LEMMA NodeStepAlone ==
    ASSUME StorageInv, NodeFileStep, Alone
    PROVE  OneWriter'
<1> DEFINE Goal == OneWriter'
<1>o. OneWriter /\ (state_file = Absent => acked = {})
  BY DEF StorageInv, OneWriter
<1>t. "main" \in Thread /\ "command" \in Thread \ {"main"} /\ "window" \in Process
      /\ Of("main") = "window"
  BY DEF Thread, Process, Of
<1>s. \A t \in Thread : Sound(t)
  BY DEF StorageInv
<1>m. \A t \in Thread : saver[t].at # "idle" => t = "main" /\ Of(t) = "window"
  BY <1>o DEF OneWriter, Of
<1>f. \A t \in Thread : Free(t) => t = "main" /\ Of(t) = "window"
  BY <1>o, StorageAssumption DEF OneWriter, Of, Free, Thread, Alone
<1>a. saver["main"].adds \in SUBSET Payment /\ {} \in SUBSET Payment
  BY <1>t DEF StorageInv, TypeOK
\* The main thread goes on to something else than copies, and the rest follows.
<1>n. ASSUME UNCHANGED <<phase, state_file>>, \A u \in Thread \ {"main"} : saver'[u] = saver[u],
             saver'["main"].at \notin {"taken", "truncated"},
             saver["main"].at # "truncated",
             acked' \subseteq acked,
             phase["window"] # "down" => acked' \subseteq Payments(memory'["window"])
      PROVE  Goal
  <2>1. state_file # Torn
    BY <1>n, <1>o DEF OneWriter
  <2> QED BY <1>n, <1>o, <2>1 DEF OneWriter, Payments
<1>e. ASSUME End("window") \/ End("command"), state_file \in State \cup {Absent},
             UNCHANGED <<state_file, acked>>
      PROVE  Goal
  <2>1. \A t \in Thread \ {"main"} : saver'[t].at = "idle"
    BY <1>e, <1>o DEF End, OneWriter, Resting
  <2>2. phase'["command"] = "down"
    BY <1>e, <1>o DEF End, OneWriter, StorageInv, TypeOK, Process
  <2>3. CASE End("window")
    <3>1. saver'["main"].at = "idle" /\ phase'["window"] = "down"
      BY <1>t, <2>3 DEF End, Resting, Of, StorageInv, TypeOK
    <3> QED BY <1>e, <1>o, <2>1, <2>2, <3>1, StorageAssumption DEF OneWriter, State, Payments
  <2>4. CASE End("command")
    <3>1. /\ saver'["main"] = saver["main"] /\ phase'["window"] = phase["window"]
          /\ memory'["window"] = memory["window"]
      BY <1>t, <2>4 DEF End, Of, StorageInv, TypeOK
    <3> QED BY <1>e, <1>o, <2>1, <2>2, <3>1 DEF OneWriter, State, Payments
  <2> QED BY <1>e, <2>3, <2>4
<1>1. ASSUME Load("window") PROVE Goal
  <2>1. /\ phase["window"] = "down" /\ UNCHANGED <<state_file, acked>>
        /\ phase'["command"] = phase["command"]
    BY <1>1 DEF Load, StorageInv, TypeOK, Process
  <2>2. saver["main"].at = "idle"
    BY <1>t, <2>1 DEF StorageInv, Sound
  <2>3. state_file # Torn
    BY <1>o, <2>2 DEF OneWriter
  <2> DEFINE state == IF state_file = Absent THEN Empty ELSE state_file
  <2>4. memory'["window"] = state /\ Begin("main", {})
    BY <1>1, <2>3, StorageAssumption DEF Load, StorageInv, TypeOK, Process, Main
  <2>5. acked \subseteq Payments(state)
    BY <1>o, <2>3 DEF OneWriter, StorageInv, TypeOK
  <2>6. /\ saver'["main"].at = "chain"
        /\ \A u \in Thread \ {"main"} : saver'[u] = saver[u]
    BY <1>a, <1>t, <2>4, BeginTypes DEF StorageInv
  <2> HIDE DEF state
  <2> QED BY <1>o, <2>1, <2>3, <2>4, <2>5, <2>6 DEF OneWriter, Payments
<1>2. ASSUME Load("command"), StartCommand PROVE Goal
  BY <1>2 DEF StartCommand, Alone, StorageInv
<1>3. ASSUME NEW t \in Thread, CheckPayment(t) \/ RefusePayment(t) PROVE Goal
  <2>1. /\ t = "main" /\ saver["main"].at \in {"idle", "checked"}
        /\ UNCHANGED <<memory, phase, state_file, acked>>
        /\ \A u \in Thread \ {t} : saver'[u] = saver[u]
        /\ saver'[t].at \in {"checked", "idle"}
    BY <1>3, <1>f, <1>m, CheckTypes DEF Free, StorageInv
  <2>2. phase["window"] # "down" => acked \subseteq Payments(memory["window"])
    BY <1>o DEF OneWriter
  <2> QED BY <1>n, <2>1, <2>2 DEF Payments
<1>a1. ASSUME NEW t \in Thread, AdmitPayment(t) PROVE Goal
  <2>1. /\ t = "main" /\ Of(t) = "window" /\ saver["main"].at = "checked"
        /\ UNCHANGED <<phase, state_file, acked>>
        /\ memory' = [ memory EXCEPT !["window"].mempool = @ \cup saver["main"].adds ]
        /\ Begin("main", saver["main"].adds)
    BY <1>a1, <1>m DEF AdmitPayment
  <2>2. phase["window"] # "down" /\ memory["window"] \in State
    BY <1>s, <1>t, <2>1 DEF Sound, StorageInv, TypeOK
  <2>3. Payments(memory["window"]) \subseteq Payments(memory'["window"])
    BY <1>t, <2>1, <2>2 DEF StorageInv, TypeOK, State, Payments
  <2>4. /\ saver'["main"].at = "chain"
        /\ \A u \in Thread \ {"main"} : saver'[u] = saver[u]
    BY <1>a, <1>t, <2>1, BeginTypes DEF StorageInv
  <2>5. acked \subseteq Payments(memory'["window"])
    BY <1>o, <2>2, <2>3 DEF OneWriter
  <2> QED BY <1>n, <2>1, <2>4, <2>5
<1>c. ASSUME NEW state \in State, Change("window", state), phase["window"] # "down"
      PROVE  acked' \subseteq acked /\ acked' \subseteq Payments(memory'["window"])
  <2>1. acked \subseteq Payments(memory["window"])
    BY <1>c, <1>o DEF OneWriter
  <2>2. memory'["window"] = state
    BY <1>c, <1>t, ChangeTypes DEF StorageInv
  <2> QED BY <1>c, <2>1, <2>2 DEF Change
<1>4. ASSUME NEW t \in Thread, Adopt(t) PROVE Goal
  <2>1. /\ t = "main" /\ Of(t) = "window" /\ saver["main"].at = "idle"
        /\ UNCHANGED <<phase, state_file>> /\ Begin("main", {}) /\ phase["window"] # "down"
    BY <1>4, <1>f DEF Adopt, Free
  <2>2. PICK state \in State : Change("window", state)
    BY <1>4, <2>1, AdoptChanges DEF StorageInv
  <2>3. /\ saver'["main"].at = "chain"
        /\ \A u \in Thread \ {"main"} : saver'[u] = saver[u]
    BY <1>a, <1>t, <2>1, BeginTypes DEF StorageInv
  <2> QED BY <1>c, <1>n, <2>1, <2>2, <2>3
<1>r. ASSUME ResetChain \/ ResetMempool PROVE Goal
  <2>1. /\ UNCHANGED <<phase, state_file>> /\ saver["main"].at \in {"idle", "reset"}
        /\ phase["window"] # "down" /\ memory["window"] \in State
    BY <1>r, <1>s, <1>t DEF ResetChain, ResetMempool, Press, Sound, StorageInv, TypeOK
  <2>2. \E state \in State : Change("window", state)
    <3>1. /\ [ memory["window"] EXCEPT !.chain = {} ] \in State
          /\ [ memory["window"] EXCEPT !.mempool = {} ] \in State
      BY <2>1 DEF State
    <3> QED BY <1>r, <3>1 DEF ResetChain, ResetMempool
  <2>3. /\ saver'["main"].at \in {"reset", "chain"}
        /\ \A u \in Thread \ {"main"} : saver'[u] = saver[u]
    <3>1. CASE ResetChain
      BY <1>t, <3>1 DEF ResetChain, StorageInv, TypeOK, Resting
    <3>2. CASE ResetMempool
      BY <1>a, <1>t, <3>2, BeginTypes DEF ResetMempool, StorageInv
    <3> QED BY <1>r, <3>1, <3>2
  <2> QED BY <1>c, <1>n, <2>1, <2>2, <2>3
<1>5. ASSUME NEW t \in Thread, SaveChain(t) PROVE Goal
  <2>1. t = "main" /\ saver["main"].at = "chain"
    BY <1>5, <1>m DEF SaveChain
  <2>2. /\ saver'["main"].at = "mempool"
        /\ \A u \in Thread \ {"main"} : saver'[u] = saver[u]
        /\ UNCHANGED <<memory, phase, state_file, acked>>
    BY <1>5, <1>t, <2>1 DEF SaveChain, StorageInv, TypeOK
  <2>3. phase["window"] # "down" => acked \subseteq Payments(memory["window"])
    BY <1>o DEF OneWriter
  <2> QED BY <1>n, <2>1, <2>2, <2>3 DEF Payments
<1>p. ASSUME NEW t \in Thread, SaveMempool(t) PROVE Goal
  <2>1. t = "main" /\ Of(t) = "window" /\ saver["main"].at = "mempool"
    BY <1>p, <1>m DEF SaveMempool
  <2>2. /\ saver'["main"].at = "taken" /\ saver'["main"].mempool = memory["window"].mempool
        /\ saver'["main"].chain = saver["main"].chain
        /\ \A u \in Thread \ {"main"} : saver'[u] = saver[u]
        /\ UNCHANGED <<memory, phase, state_file, acked>>
    BY <1>p, <1>t, <2>1 DEF SaveMempool, StorageInv, TypeOK
  <2>3. phase["window"] # "down" /\ saver["main"].chain = memory["window"].chain
    BY <1>s, <1>t, <2>1 DEF Sound
  <2>4. memory["window"] \in State
    BY <1>t, <2>3 DEF StorageInv, TypeOK
  <2>5. memory["window"] = [ chain |-> saver'["main"].chain, mempool |-> saver'["main"].mempool ]
    BY <2>2, <2>3, <2>4 DEF State
  <2> QED BY <1>o, <2>1, <2>2, <2>5 DEF OneWriter, Payments
<1>6. ASSUME NEW t \in Thread, Truncate(t) PROVE Goal
  <2>1. t = "main" /\ saver["main"].at = "taken"
    BY <1>6, <1>m DEF Truncate
  <2>2. /\ saver'["main"].at = "truncated" /\ saver'["main"].mempool = saver["main"].mempool
        /\ saver'["main"].chain = saver["main"].chain
        /\ \A u \in Thread \ {"main"} : saver'[u] = saver[u]
        /\ UNCHANGED <<memory, phase, acked>> /\ state_file' = Torn
    BY <1>6, <1>t, <2>1 DEF Truncate, StorageInv, TypeOK
  <2> QED BY <1>o, <2>1, <2>2, StorageAssumption DEF OneWriter, Payments
<1>7. ASSUME NEW t \in Thread, Write(t) PROVE Goal
  <2>1. /\ t = "main" /\ Of(t) = "window" /\ saver["main"].at = "truncated"
        /\ state_file' = [ chain |-> saver["main"].chain, mempool |-> saver["main"].mempool ]
        /\ acked' = acked \cup (saver["main"].adds \cap Payments(memory["window"]))
    BY <1>7, <1>m DEF Write
  <2>2. state_file' = memory["window"] /\ phase["window"] # "down"
    BY <1>o, <1>s, <1>t, <2>1 DEF OneWriter, Sound
  <2>3. acked' \subseteq Payments(memory["window"]) /\ state_file' \in State
    BY <1>o, <1>t, <2>1, <2>2 DEF OneWriter, StorageInv, TypeOK
  <2>4. state_file' # Torn /\ state_file' # Absent
    BY <2>3, StorageAssumption
  <2>5. CASE End("window")
    <3>1. \A u \in Thread \ {"main"} : saver'[u].at = "idle"
      BY <1>o, <2>5 DEF End, OneWriter, Resting
    <3>2. phase'["command"] = "down" /\ phase'["window"] = "down"
      BY <1>o, <2>5 DEF End, OneWriter, StorageInv, TypeOK, Process
    <3>3. saver'["main"].at = "idle"
      BY <1>t, <2>5 DEF End, Resting, StorageInv, TypeOK
    <3> QED BY <2>2, <2>3, <2>4, <3>1, <3>2, <3>3 DEF OneWriter, Payments
  <2>6. CASE /\ saver' = [ saver EXCEPT !["main"] = Resting ]
             /\ phase' = IF "main" = Main("window") /\ phase["window"] = "starting"
                         THEN [ phase EXCEPT !["window"] = IF "window" = "window" THEN "opening" ELSE "open" ]
                         ELSE phase
             /\ UNCHANGED <<memory, lock>>
    <3>1. /\ saver'["main"].at = "idle"
          /\ \A u \in Thread \ {"main"} : saver'[u] = saver[u]
      BY <1>t, <2>6 DEF Resting, StorageInv, TypeOK
    <3>2. phase'["command"] = "down"
      BY <1>o, <2>6 DEF OneWriter, StorageInv, TypeOK, Process
    <3> QED BY <1>o, <2>2, <2>3, <2>4, <2>6, <3>1, <3>2 DEF OneWriter, Payments
  <2> QED BY <1>7, <2>1, <2>5, <2>6 DEF Write
<1>8. ASSUME NEW p \in Process, Crash(p) PROVE Goal
  <2>1. phase[p] # "down" /\ End(p) /\ UNCHANGED <<state_file, acked>>
    BY <1>8 DEF Crash
  <2>2. p = "window"
    BY <1>o, <2>1 DEF OneWriter, Process
  <2>3. \A t \in Writers : Of(t) # "window"
    BY <1>8, <2>2 DEF Crash, Alone
  <2>4. saver["main"].at # "truncated"
    BY <1>t, <2>3 DEF Writers, Of
  <2> QED BY <1>e, <1>o, <2>1, <2>2, <2>4 DEF OneWriter, StorageInv, TypeOK
<1>9. CASE EndCommand
  BY <1>9, <1>f, <1>t DEF EndCommand
<1> QED
  BY <1>1, <1>2, <1>3, <1>a1, <1>4, <1>r, <1>5, <1>p, <1>6, <1>7, <1>8, <1>9
  DEF NodeFileStep, StartWindow, StartCommand, Process

-----------------------------------------------------------------------------
(* The wallet file, and the whole. *)

\* With one process, the wallet file is what its window holds.
LEMMA WalletStepKeepsFile ==
    ASSUME StorageInv, WalletFileStep
    PROVE  FileIsTheWindows'
<1> SUFFICES ASSUME scenario'.commands = 0, wallet' # Down
             PROVE  wallet_file' = Absent \/ wallet_file' = wallet'
  BY DEF FileIsTheWindows
<1>1. scenario' = scenario
  BY DEF WalletFileStep, OpenWallet, Exit, CreateWallet, CloseDialog, NewWallet, ImportSeed,
     SaveWallet, BackupWallet, RestoreBackup, CommandNew, CommandCreate, CommandBackup,
     CommandRestore, Command, Button, Press
<1>2. ~Command
  BY <1>1 DEF Command, StorageInv
<1>3. CASE OpenWallet \/ CreateWallet \/ NewWallet \/ ImportSeed \/ SaveWallet \/ RestoreBackup
  BY <1>3 DEF OpenWallet, CreateWallet, NewWallet, ImportSeed, SaveWallet, RestoreBackup
<1>4. CASE CloseDialog \/ BackupWallet
  BY <1>1, <1>4 DEF CloseDialog, BackupWallet, StorageInv, FileIsTheWindows
<1>5. CASE Exit
  BY <1>5 DEF Exit
<1> QED
  BY <1>2, <1>3, <1>4, <1>5
  DEF WalletFileStep, CommandNew, CommandCreate, CommandBackup, CommandRestore

\* Opening and leaving the window is all that the wallet's steps do to a node.
LEMMA WalletStepSound ==
    ASSUME StorageInv, TypeOK', WalletFileStep
    PROVE  (\A t \in Thread : Sound(t)') /\ (Alone => OneWriter')
<1>t. "window" \in Process /\ "command" \in Process /\ "main" \in Thread /\ Of("main") = "window"
  BY DEF Process, Thread, Of
<1>s. /\ Alone => OneWriter
      /\ \A u \in Thread : Sound(u) /\ Of(u) \in Process
  BY ThreadsOf DEF StorageInv
<1>1. CASE OpenWallet
  <2>1. /\ phase["window"] = "opening" /\ phase' = [ phase EXCEPT !["window"] = "open" ]
        /\ UNCHANGED <<scenario, state_file, memory, saver, lock, acked>>
    BY <1>1 DEF OpenWallet
  <2>2. \A q \in Process : phase'[q] = "down" <=> phase[q] = "down"
    BY <2>1 DEF StorageInv, TypeOK
  <2>3. \A u \in Thread : Sound(u)'
    BY <1>s, <2>1, <2>2 DEF Sound
  <2>4. Alone => OneWriter'
    BY <1>s, <1>t, <2>1, <2>2 DEF OneWriter, Payments
  <2> QED BY <2>3, <2>4
<1>2. CASE Exit
  <2>1. /\ phase["window"] = "open" /\ phase' = [ phase EXCEPT !["window"] = "leaving" ]
        /\ saver["main"].at = "idle" /\ Begin("main", {}) /\ {} \in SUBSET Payment
        /\ UNCHANGED <<scenario, state_file, memory, lock, acked>>
    BY <1>2 DEF Exit, Free
  <2>2. \A q \in Process : phase'[q] = "down" <=> phase[q] = "down"
    BY <1>t, <2>1 DEF StorageInv, TypeOK
  <2>3. saver'["main"].at = "chain" /\ \A u \in Thread \ {"main"} : saver'[u] = saver[u]
    BY <1>t, <2>1, BeginTypes DEF StorageInv
  <2>4. ASSUME NEW u \in Thread PROVE Sound(u)'
    <3>1. CASE u = "main"
      BY <1>t, <2>1, <2>2, <2>3, <3>1 DEF Sound
    <3>2. CASE u # "main"
      <4>1. saver[u].at # "idle" => phase'[Of(u)] # "down"
        BY <1>s, <2>2 DEF Sound
      <4> QED BY <1>s, <2>1, <2>3, <3>2, <4>1, OthersSound
    <3> QED BY <3>1, <3>2
  <2>5. Alone => OneWriter'
    <3>1. Alone => state_file # Torn
      BY <1>s, <2>1 DEF OneWriter
    <3> QED BY <1>s, <1>t, <2>1, <2>2, <2>3, <3>1 DEF OneWriter, Payments
  <2> QED BY <2>4, <2>5
<1>3. ASSUME UNCHANGED <<scenario, nodeFile>>
      PROVE  (\A t \in Thread : Sound(t)') /\ (Alone => OneWriter')
  BY <1>3, <1>s DEF nodeFile, Sound, OneWriter, Payments
<1> QED
  BY <1>1, <1>2, <1>3
  DEF WalletFileStep, CreateWallet, CloseDialog, NewWallet, ImportSeed, SaveWallet,
      BackupWallet, RestoreBackup, CommandNew, CommandCreate, CommandBackup, CommandRestore,
      Command, Button, Press

\* Every step keeps the invariant.
LEMMA NextKeepsStorage == StorageInv /\ [Next]_vars => StorageInv'
<1> SUFFICES ASSUME StorageInv, [Next]_vars PROVE StorageInv'
  OBVIOUS
<1>1. CASE NodeFileStep
  <2>1. TypeOK' /\ \A t \in Thread : Sound(t)'
    BY <1>1, NodeStepTypes, NodeStepSound DEF StorageInv
  <2>2. commands' \in Nat /\ scenario' = scenario
    <3>1. commands' = commands \/ commands' = commands + 1
      BY <1>1 DEF NodeFileStep, StartWindow, StartCommand, EndCommand, CheckPayment,
         AdmitPayment, RefusePayment, Adopt, Press, ResetChain, ResetMempool,
         SaveChain, SaveMempool, Truncate, Write, Crash, counters
    <3>2. scenario' = scenario
      BY <1>1 DEF NodeFileStep, StartWindow, StartCommand, Load, EndCommand, CheckPayment,
         AdmitPayment, RefusePayment, Adopt, Press, ResetChain, ResetMempool,
         SaveChain, SaveMempool, Truncate, Write, Crash
    <3> QED BY <3>1, <3>2 DEF StorageInv
  <2>3. Alone' => OneWriter'
    BY <1>1, <2>2, NodeStepAlone DEF Alone
  <2>4. FileIsTheWindows'
    BY <1>1, <2>2 DEF StorageInv, FileIsTheWindows, NodeFileStep, StartWindow, StartCommand,
       Load, EndCommand, CheckPayment, AdmitPayment, RefusePayment, Adopt, Press, ResetChain,
       ResetMempool, SaveChain, SaveMempool, Truncate, Write, Crash, walletFiles
  <2> QED BY <2>1, <2>2, <2>3, <2>4 DEF StorageInv
<1>2. CASE WalletFileStep
  <2>1. TypeOK'
    BY <1>2, WalletStepTypes DEF StorageInv
  <2>2. commands' \in Nat /\ scenario' = scenario
    <3>1. commands' = commands \/ commands' = commands + 1
      BY <1>2 DEF WalletFileStep, OpenWallet, Exit, CreateWallet, CloseDialog, NewWallet,
         ImportSeed, SaveWallet, BackupWallet, RestoreBackup, CommandNew, CommandCreate,
         CommandBackup, CommandRestore, Command, Button, Press, counters
    <3>2. scenario' = scenario
      BY <1>2 DEF WalletFileStep, OpenWallet, Exit, CreateWallet, CloseDialog, NewWallet,
         ImportSeed, SaveWallet, BackupWallet, RestoreBackup, CommandNew, CommandCreate,
         CommandBackup, CommandRestore, Command, Button, Press
    <3> QED BY <3>1, <3>2 DEF StorageInv
  <2>3. (\A t \in Thread : Sound(t)') /\ (Alone => OneWriter')
    BY <1>2, <2>1, WalletStepSound
  <2>4. FileIsTheWindows'
    BY <1>2, WalletStepKeepsFile
  <2> QED BY <2>1, <2>2, <2>3, <2>4 DEF StorageInv, Alone
<1>3. CASE UNCHANGED vars
  BY <1>3 DEF vars, nodeFile, walletFiles, counters, StorageInv, TypeOK, Sound,
     Payments, Alone, OneWriter, FileIsTheWindows
<1> QED BY <1>1, <1>2, <1>3 DEF Next

\* The inductive invariant is one.
LEMMA StorageInvariant == Spec => []StorageInv
BY InitEstablishesStorage, NextKeepsStorage, PTL DEF Spec

\* Files, memories and saves are of their types: a node's state is torn, absent
\* or whole, a process that does not run has no memory, a wallet is open
\* exactly while the window is.
THEOREM StorageTypes == Spec => []TypeOK
<1>1. StorageInv => TypeOK
  BY DEF StorageInv
<1> QED BY <1>1, StorageInvariant, PTL

\* A step that completes a save's copies leaves them equal to the node.
LEMMA CopyCompletes ==
    ASSUME StorageInv, NodeFileStep, NEW t \in Thread,
           saver'[t].at = "taken", saver[t].at # "taken"
    PROVE  memory[Of(t)] = [ chain |-> saver'[t].chain, mempool |-> saver'[t].mempool ]
<1>t. TypeOK /\ \A u \in Thread : Sound(u) /\ Of(u) \in Process
  BY ThreadsOf DEF StorageInv
<1>e. {} \in SUBSET Payment
  OBVIOUS
<1>b. ASSUME NEW u \in Thread, NEW adds \in SUBSET Payment, Begin(u, adds) PROVE FALSE
  BY <1>b, <1>t, BeginTypes
<1>n. \A p \in Process : ~End(p)
  BY DEF End, Resting
<1>1. PICK u \in Thread : SaveMempool(u)
  <2>1. ASSUME NEW p \in Process, Load(p) PROVE FALSE
    <3>1. Main(p) \in Thread
      BY DEF Main, Process, Thread
    <3> QED BY <1>b, <1>e, <2>1, <3>1 DEF Load
  <2>2. ASSUME NEW u \in Thread, CheckPayment(u) \/ RefusePayment(u) PROVE FALSE
    BY <1>t, <2>2, CheckTypes
  <2>7. ASSUME NEW u \in Thread, SaveChain(u) \/ Truncate(u) PROVE FALSE
    BY <1>t, <2>7 DEF SaveChain, Truncate, TypeOK
  <2>3. ASSUME NEW u \in Thread, AdmitPayment(u) \/ Adopt(u) PROVE FALSE
    <3>1. saver[u].adds \in SUBSET Payment
      BY <1>t DEF TypeOK
    <3> QED BY <1>b, <1>e, <2>3, <3>1 DEF AdmitPayment, Adopt
  <2>4. ASSUME NEW u \in Thread, Write(u) PROVE FALSE
    BY <1>n, <1>t, <2>4 DEF Write, TypeOK, Resting
  <2>5. ~ResetChain /\ ~ResetMempool
    <3>1. "main" \in Thread
      BY DEF Thread
    <3> QED BY <1>b, <1>e, <1>t, <3>1 DEF ResetChain, ResetMempool, TypeOK, Resting
  <2>6. ~EndCommand /\ \A p \in Process : ~Crash(p)
    BY <1>n DEF EndCommand, Crash, Process
  <2> QED BY <2>1, <2>2, <2>3, <2>4, <2>5, <2>6, <2>7
          DEF NodeFileStep, StartWindow, StartCommand, Process
<1>2. /\ u = t /\ saver[t].at = "mempool"
      /\ saver'[t].mempool = memory[Of(t)].mempool /\ saver'[t].chain = saver[t].chain
  BY <1>1, <1>t DEF SaveMempool, TypeOK
<1>3. saver[t].chain = memory[Of(t)].chain /\ memory[Of(t)] \in State
  BY <1>2, <1>t DEF Sound, TypeOK
<1> QED BY <1>2, <1>3 DEF State

\* save_state's copies of the chain and of the mempool are of one moment,
\* however many threads save, submit, adopt blocks and reset meanwhile: when
\* the second is taken, the node is what the two say.
THEOREM CopiesAreWhole == Spec => CopyIsWhole
<1> DEFINE Whole == \A t \in Thread : saver'[t].at = "taken" /\ saver[t].at # "taken" =>
                memory[Of(t)] = [ chain |-> saver'[t].chain, mempool |-> saver'[t].mempool ]
<1>1. StorageInv /\ [Next]_vars => [Whole]_vars
  <2> SUFFICES ASSUME StorageInv, Next, NEW t \in Thread,
                      saver'[t].at = "taken", saver[t].at # "taken"
               PROVE  memory[Of(t)] = [ chain |-> saver'[t].chain, mempool |-> saver'[t].mempool ]
    OBVIOUS
  <2>1. CASE NodeFileStep
    BY <2>1, CopyCompletes
  <2>2. CASE WalletFileStep
    <3>1. CASE Exit
      <4>1. Begin("main", {}) /\ "main" \in Thread /\ {} \in SUBSET Payment
        BY <3>1 DEF Exit, Thread
      <4> QED BY <4>1, BeginTypes DEF StorageInv
    <3>2. CASE saver' = saver
      BY <3>2
    <3> QED BY <2>2, <3>1, <3>2
            DEF WalletFileStep, OpenWallet, CreateWallet, CloseDialog, NewWallet, ImportSeed,
                SaveWallet, BackupWallet, RestoreBackup, CommandNew, CommandCreate,
                CommandBackup, CommandRestore, Command, Button, nodeFile
  <2> QED BY <2>1, <2>2 DEF Next
<1> QED BY <1>1, StorageInvariant, PTL DEF Spec, CopyIsWhole

\* A payment whose submission returned Ok is in the file whenever it is not
\* being written, and in the node that is loaded from it, if one thread of one
\* process saves and is never killed within a write, until a block displaces
\* it, a reorganisation drops it or the node is reset.
THEOREM AcknowledgedIsKept == Spec => []AcknowledgedIsSaved
<1>1. StorageInv => AcknowledgedIsSaved
  <2> SUFFICES ASSUME StorageInv, Alone
               PROVE  /\ Writers = {} /\ state_file # Absent => acked \subseteq Payments(state_file)
                      /\ phase["window"] # "down" => acked \subseteq Payments(memory["window"])
    BY DEF AcknowledgedIsSaved
  <2>1. Writers = {} => state_file # Torn
    BY DEF StorageInv, OneWriter, Writers, Thread
  <2> QED BY <2>1 DEF StorageInv, OneWriter, TypeOK
<1> QED BY <1>1, StorageInvariant, PTL

\* Without commands beside it, the wallet file holds the window's wallet under
\* the window's password, or nothing yet, whatever buttons were pressed.
THEOREM WindowOwnsTheFile == Spec => []FileIsTheWindows
<1>1. StorageInv => FileIsTheWindows
  BY DEF StorageInv
<1> QED BY <1>1, StorageInvariant, PTL
================================================================================
