-------------------------------- MODULE Storage --------------------------------
(***************************************************************************)
(* The data directory: the file of the node's state, the wallet file and   *)
(* its backup, and who reads and writes them.  That is the window, whose   *)
(* main thread and whose helpers (peers, mining controller, RPC clients)   *)
(* save the node after every change, and a command of the command line,    *)
(* which loads and saves the same files in a process of its own.           *)
(*                                                                         *)
(* Of the node's memory only the payments are kept: those that wait and    *)
(* those the best chain confirms.  They pay enough, do not spend one       *)
(* another's outputs, and may spend the same one.  Of a wallet, its key is *)
(* kept.  A file that is cut short reads as an error.  Failing writes are  *)
(* left out.                                                               *)
(***************************************************************************)
EXTENDS Naturals, FiniteSets

CONSTANTS Payment, Key,
          Password,    \* what users protect a wallet with; "" is none
          Helper,      \* the window's threads besides "main"; without one,
                       \* "main" does what they do, one thing after another
          Scenarios,   \* bounds: how often the window starts, processes crash,
                       \* commands run, buttons are pressed; who takes part and
                       \* which payments spend the same output
          Down,        \* the memory of a process that does not run
          Absent, Torn, \* a file that does not exist, one that was cut short
          Nobody

VARIABLES scenario,     \* one of Scenarios, throughout
          state_file,   \* the node's: [chain, mempool], Torn or Absent
          memory,       \* process -> [chain, mempool]
          phase,        \* process -> where it is
          saver,        \* thread -> its call of submit_transaction, of
                        \* reset_to_genesis, or of save_state
          lock,         \* process -> the thread that holds its block store
          acked,        \* payments whose submission returned Ok and which no
                        \* block and no reset has thrown out since
          wallet_file, backup_file,  \* [key, password] or Absent
          wallet,       \* the window's: wallet and wallet_password
          dialog,       \* show_password_dialog
          made,         \* the keys there are
          starts, crashes, commands, changes

nodeFile == <<state_file, memory, phase, saver, lock, acked>>
walletFiles == <<wallet_file, backup_file, wallet, dialog, made>>
counters == <<starts, crashes, commands, changes>>
vars == <<scenario, nodeFile, walletFiles, counters>>

State == [ chain : SUBSET Payment, mempool : SUBSET Payment ]
WalletState == [ key : Key, password : Password ]

ASSUME StorageAssumption ==
    /\ {"main", "command"} \cap Helper = {}
    /\ Nobody \notin Helper \cup {"main", "command"}
    /\ "" \in Password
    /\ {Down, Absent, Torn} \cap State = {} /\ {Down, Absent} \cap WalletState = {}
    /\ Absent # Torn
    /\ Scenarios \subseteq [ helpers : SUBSET Helper, payments : SUBSET Payment,
                             conflicts : SUBSET SUBSET Payment,
                             passwords : SUBSET Password, crash_writing : BOOLEAN,
                             starts : Nat, crashes : Nat, commands : Nat, changes : Nat ]

Process == {"window", "command"}
Thread == {"main", "command"} \cup Helper

Of(t) == IF t = "command" THEN "command" ELSE "window"
Main(p) == IF p = "command" THEN "command" ELSE "main"

Empty == [ chain |-> {}, mempool |-> {} ]
Payments(state) == state.chain \cup state.mempool

Conflict(a, b) == a # b /\ {a, b} \in scenario.conflicts

Resting == [ at |-> "idle", chain |-> {}, mempool |-> {}, adds |-> {} ]
Writers == { t \in Thread : saver[t].at = "truncated" }

Init ==
    /\ scenario \in Scenarios
    /\ state_file = Absent
    /\ memory = [ p \in Process |-> Down ]
    /\ phase = [ p \in Process |-> "down" ]
    /\ saver = [ t \in Thread |-> Resting ]
    /\ lock = [ p \in Process |-> Nobody ]
    /\ acked = {}
    /\ wallet_file = Absent /\ backup_file = Absent
    /\ wallet = Down
    /\ dialog = FALSE
    /\ made = {}
    /\ starts = 0 /\ crashes = 0 /\ commands = 0 /\ changes = 0

-----------------------------------------------------------------------------
(* The file of the node's state. *)

\* A thread that changed the node calls save_state with the locks given up.
Begin(t, adds) ==
    saver' = [ saver EXCEPT ![t] = [ Resting EXCEPT !.at = "chain", !.adds = adds ] ]

\* Mutant of Load: the mempool begins empty.
LoadWithoutMempool(p) ==
    /\ phase[p] = "down"
    /\ state_file # Torn
    /\ LET state == IF state_file = Absent THEN Empty
                    ELSE [ state_file EXCEPT !.mempool = {} ]
       IN  memory' = [ memory EXCEPT ![p] = state ]
    /\ Begin(Main(p), {})
    /\ phase' = [ phase EXCEPT ![p] = "starting" ]
    /\ UNCHANGED <<scenario, state_file, lock, acked, walletFiles, crashes, changes>>

\* load_or_create: an unreadable file stops a command; the window begins with
\* an empty node instead, which is not saved yet.
Load(p) ==
    /\ phase[p] = "down"
    /\ \/ /\ state_file = Torn
          /\ p = "window"
          /\ memory' = [ memory EXCEPT ![p] = Empty ]
          /\ phase' = [ phase EXCEPT ![p] = "opening" ]
          /\ UNCHANGED saver
       \/ /\ state_file # Torn
          /\ LET state == IF state_file = Absent THEN Empty ELSE state_file
             IN  memory' = [ memory EXCEPT ![p] = state ]
          /\ Begin(Main(p), {})
          /\ phase' = [ phase EXCEPT ![p] = "starting" ]
    /\ UNCHANGED <<scenario, state_file, lock, acked, walletFiles, crashes, changes>>

StartWindow ==
    /\ starts < scenario.starts
    /\ Load("window")
    /\ starts' = starts + 1
    /\ UNCHANGED commands

StartCommand ==
    /\ commands < scenario.commands
    /\ Load("command")
    /\ commands' = commands + 1
    /\ UNCHANGED starts

\* A thread of an open process that is not saving.
Free(t) ==
    /\ saver[t].at = "idle"
    /\ \/ phase[Of(t)] = "open" /\ t \in scenario.helpers \cup {"main", "command"}
       \/ phase[Of(t)] = "leaving" /\ t \in scenario.helpers

\* submit_transaction, under the block store's lock: the chain neither confirms
\* the payment nor spends its output otherwise.
CheckPayment(t) ==
    LET p == Of(t) IN
    /\ Free(t) /\ lock[p] = Nobody
    /\ \E pay \in scenario.payments \ memory[p].chain :
          /\ \A other \in memory[p].chain : ~Conflict(pay, other)
          /\ saver' = [ saver EXCEPT ![t] = [ Resting EXCEPT !.at = "checked", !.adds = {pay} ] ]
    /\ UNCHANGED <<scenario, state_file, memory, phase, lock, acked, walletFiles, counters>>

\* What keeps a payment out of the mempool.
Hindered(pay, mempool) == pay \in mempool \/ \E other \in mempool : Conflict(pay, other)

\* Then, under the mempool's: it joins, though the chain may have changed, ...
AdmitPayment(t) ==
    LET p == Of(t) IN
    /\ saver[t].at = "checked"
    /\ \A pay \in saver[t].adds : ~Hindered(pay, memory[p].mempool)
    /\ memory' = [ memory EXCEPT ![p].mempool = @ \cup saver[t].adds ]
    /\ Begin(t, saver[t].adds)
    /\ UNCHANGED <<scenario, state_file, phase, lock, acked, walletFiles, counters>>

\* ... or is refused.
RefusePayment(t) ==
    /\ saver[t].at = "checked"
    /\ \E pay \in saver[t].adds : Hindered(pay, memory[Of(t)].mempool)
    /\ saver' = [ saver EXCEPT ![t] = Resting ]
    /\ UNCHANGED <<scenario, state_file, memory, phase, lock, acked, walletFiles, counters>>

\* The node of p becomes this one; what it loses by that need not be kept.
Change(p, state) ==
    /\ memory' = [ memory EXCEPT ![p] = state ]
    /\ acked' = acked \ (Payments(memory[p]) \ Payments(state))

\* submit_block, under both locks.  The block extends the best chain, stays
\* beside it or makes another branch the best one: payments "out" are no longer
\* confirmed and do not come back to the mempool, "in" are now, and what the
\* last block confirms or conflicts with leaves the mempool.
Adopt(t) ==
    LET p == Of(t)
        node == memory[p]
    IN  /\ Free(t) /\ lock[p] = Nobody
        /\ \E out \in SUBSET node.chain :
           \E in \in SUBSET (scenario.payments \ (node.chain \ out)) :
           \E last \in SUBSET in :
              LET chain == (node.chain \ out) \cup in IN
              /\ \A a, b \in chain : ~Conflict(a, b)
              /\ Change(p, [ chain |-> chain,
                             mempool |-> { pay \in node.mempool : ~Hindered(pay, last) } ])
        /\ Begin(t, {})
        /\ UNCHANGED <<scenario, state_file, phase, lock, walletFiles, counters>>

\* Mutant of SaveChain: the block store is given up before the mempool is taken.
SaveChainUnlocked(t) ==
    LET p == Of(t) IN
    /\ saver[t].at = "chain" /\ lock[p] = Nobody
    /\ saver' = [ saver EXCEPT ![t].at = "mempool", ![t].chain = memory[p].chain ]
    /\ UNCHANGED <<scenario, state_file, memory, phase, lock, acked, walletFiles, counters>>

\* save_state copies the block store, whose guard lives on ...
SaveChain(t) ==
    LET p == Of(t) IN
    /\ saver[t].at = "chain" /\ lock[p] = Nobody
    /\ saver' = [ saver EXCEPT ![t].at = "mempool", ![t].chain = memory[p].chain ]
    /\ lock' = [ lock EXCEPT ![p] = t ]
    /\ UNCHANGED <<scenario, state_file, memory, phase, acked, walletFiles, counters>>

\* ... until the mempool is copied.
SaveMempool(t) ==
    LET p == Of(t) IN
    /\ saver[t].at = "mempool"
    /\ saver' = [ saver EXCEPT ![t].at = "taken", ![t].mempool = memory[p].mempool ]
    /\ lock' = [ lock EXCEPT ![p] = Nobody ]
    /\ UNCHANGED <<scenario, state_file, memory, phase, acked, walletFiles, counters>>

\* fs::write, without any lock: the file is cut ...
Truncate(t) ==
    /\ saver[t].at = "taken"
    /\ saver' = [ saver EXCEPT ![t].at = "truncated" ]
    /\ state_file' = Torn
    /\ UNCHANGED <<scenario, memory, phase, lock, acked, walletFiles, counters>>

\* The window's threads end with it, wherever they are.
End(p) ==
    /\ memory' = [ memory EXCEPT ![p] = Down ]
    /\ phase' = [ phase EXCEPT ![p] = "down" ]
    /\ lock' = [ lock EXCEPT ![p] = Nobody ]
    /\ saver' = [ t \in Thread |-> IF Of(t) = p THEN Resting ELSE saver[t] ]

\* ... and written, and the caller goes on: it answers the submission, or the
\* process is started, or it ends.
Write(t) ==
    LET p == Of(t) IN
    /\ saver[t].at = "truncated"
    /\ state_file' = [ chain |-> saver[t].chain, mempool |-> saver[t].mempool ]
    /\ acked' = acked \cup (saver[t].adds \cap Payments(memory[p]))
    /\ IF t = Main(p) /\ phase[p] = "leaving"
       THEN End(p)
       ELSE /\ saver' = [ saver EXCEPT ![t] = Resting ]
            /\ phase' = IF t = Main(p) /\ phase[p] = "starting"
                        THEN [ phase EXCEPT ![p] = IF p = "window" THEN "opening" ELSE "open" ]
                        ELSE phase
            /\ UNCHANGED <<memory, lock>>
    /\ UNCHANGED <<scenario, walletFiles, counters>>

\* A button of the window; its dialog does not keep from using the others.
Press ==
    /\ phase["window"] = "open" /\ saver["main"].at = "idle"
    /\ changes < scenario.changes
    /\ changes' = changes + 1
    /\ UNCHANGED <<scenario, starts, crashes, commands>>

\* reset_to_genesis: the block store is replaced ...
ResetChain ==
    /\ Press /\ lock["window"] = Nobody
    /\ Change("window", [ memory["window"] EXCEPT !.chain = {} ])
    /\ saver' = [ saver EXCEPT !["main"] = [ Resting EXCEPT !.at = "reset" ] ]
    /\ UNCHANGED <<state_file, phase, lock, walletFiles>>

\* ... and the mempool, each under its own lock.
ResetMempool ==
    /\ saver["main"].at = "reset"
    /\ Change("window", [ memory["window"] EXCEPT !.mempool = {} ])
    /\ Begin("main", {})
    /\ UNCHANGED <<scenario, state_file, phase, lock, walletFiles, counters>>

\* A command is done, or interrupted between two saves.
EndCommand ==
    /\ Free("command")
    /\ End("command")
    /\ UNCHANGED <<scenario, state_file, acked, walletFiles, counters>>

\* A process is killed; crash_writing: even while it writes.
Crash(p) ==
    /\ phase[p] # "down"
    /\ crashes < scenario.crashes
    /\ crashes' = crashes + 1
    /\ scenario.crash_writing \/ \A t \in Writers : Of(t) # p
    /\ End(p)
    /\ wallet' = IF p = "window" THEN Down ELSE wallet
    /\ dialog' = (dialog /\ p # "window")
    /\ UNCHANGED <<scenario, state_file, acked, wallet_file, backup_file, made,
                   starts, commands, changes>>

-----------------------------------------------------------------------------
(* The wallet file. *)

Wallet(key, password) == [ key |-> key, password |-> password ]

\* Wallet::new.
Fresh(key) == key \in Key \ made /\ made' = made \cup {key}

\* load_from_file, which needs the password the file was saved with.
Opens(file, password) == file # Absent /\ file.password = password

\* Mutant of OpenWallet: a wallet that does not open is left closed.
OpenWalletOrNone ==
    /\ phase["window"] = "opening"
    /\ phase' = [ phase EXCEPT !["window"] = "open" ]
    /\ CASE Opens(wallet_file, "") -> wallet' = wallet_file /\ UNCHANGED made
         [] wallet_file = Absent -> \E key \in Key : Fresh(key) /\ wallet' = Wallet(key, "")
         [] OTHER -> UNCHANGED <<wallet, made>>
    /\ dialog' = (wallet_file = Absent)
    /\ UNCHANGED <<scenario, state_file, memory, saver, lock, acked, wallet_file,
                   backup_file, counters>>

\* WalletApp::default: the file is tried without a password, and saved again;
\* a new wallet replaces one that does not open.  Without a file, a dialog asks
\* for the password of a new wallet.
OpenWallet ==
    /\ phase["window"] = "opening"
    /\ phase' = [ phase EXCEPT !["window"] = "open" ]
    /\ IF Opens(wallet_file, "")
       THEN wallet' = wallet_file /\ UNCHANGED made
       ELSE \E key \in Key : Fresh(key) /\ wallet' = Wallet(key, "")
    /\ dialog' = (wallet_file = Absent)
    /\ wallet_file' = IF wallet_file = Absent THEN Absent ELSE wallet'
    /\ UNCHANGED <<scenario, state_file, memory, saver, lock, acked, backup_file, counters>>

\* A button for the wallet.
Button == Press /\ UNCHANGED nodeFile

\* The dialog's "Create Wallet", and its closing without.
CreateWallet ==
    /\ Button /\ dialog
    /\ \E password \in scenario.passwords \ {""} :
          wallet' = Wallet(wallet.key, password)
    /\ wallet_file' = wallet'
    /\ dialog' = FALSE
    /\ UNCHANGED <<backup_file, made>>

CloseDialog ==
    /\ Button /\ dialog
    /\ dialog' = FALSE
    /\ UNCHANGED <<wallet_file, backup_file, wallet, made>>

\* "Generate New Wallet" and "Import Seed Phrase".
NewWallet ==
    /\ Button
    /\ \E key \in Key : Fresh(key) /\ wallet' = [ wallet EXCEPT !.key = key ]
    /\ wallet_file' = wallet'
    /\ UNCHANGED <<backup_file, dialog>>

ImportSeed ==
    /\ Button
    /\ \E key \in made : wallet' = [ wallet EXCEPT !.key = key ]
    /\ wallet_file' = wallet'
    /\ UNCHANGED <<backup_file, dialog, made>>

SaveWallet ==
    /\ Button
    /\ wallet_file' = wallet
    /\ UNCHANGED <<backup_file, wallet, dialog, made>>

BackupWallet ==
    /\ Button
    /\ backup_file' = wallet
    /\ UNCHANGED <<wallet_file, wallet, dialog, made>>

\* Mutant of RestoreBackup: the restored wallet is not saved.
RestoreBackupUnsaved ==
    /\ Button
    /\ Opens(backup_file, wallet.password)
    /\ wallet' = [ wallet EXCEPT !.key = backup_file.key ]
    /\ UNCHANGED <<wallet_file, backup_file, dialog, made>>

\* "Restore Backup", under the window's own password.
RestoreBackup ==
    /\ Button
    /\ Opens(backup_file, wallet.password)
    /\ wallet' = [ wallet EXCEPT !.key = backup_file.key ]
    /\ wallet_file' = wallet'
    /\ UNCHANGED <<backup_file, dialog, made>>

\* Drop: the wallet is saved, then the node.
Exit ==
    /\ Free("main") /\ phase["window"] = "open"
    /\ phase' = [ phase EXCEPT !["window"] = "leaving" ]
    /\ wallet_file' = wallet
    /\ wallet' = Down
    /\ dialog' = FALSE
    /\ Begin("main", {})
    /\ UNCHANGED <<scenario, state_file, memory, lock, acked, backup_file, made, counters>>

\* A command on the wallet.
Command ==
    /\ commands < scenario.commands
    /\ commands' = commands + 1
    /\ UNCHANGED <<scenario, nodeFile, wallet, dialog, starts, crashes, changes>>

\* wallet new, and wallet import-seed.
CommandNew ==
    /\ Command
    /\ \E key \in Key, password \in scenario.passwords :
          /\ wallet_file' = Wallet(key, password)
          /\ made' = made \cup {key}
    /\ UNCHANGED backup_file

\* load_or_create_state, as every other command does it; with the right
\* password it changes nothing, with a wrong one it fails.
CommandCreate ==
    /\ Command
    /\ wallet_file = Absent
    /\ \E key \in Key, password \in scenario.passwords :
          Fresh(key) /\ wallet_file' = Wallet(key, password)
    /\ UNCHANGED backup_file

\* wallet backup of a file that exists, and wallet restore.
CommandBackup ==
    /\ Command
    /\ wallet_file # Absent
    /\ backup_file' = wallet_file
    /\ UNCHANGED <<wallet_file, made>>

CommandRestore ==
    /\ Command
    /\ backup_file # Absent
    /\ \E password \in scenario.passwords :
          wallet_file' = Wallet(backup_file.key, password)
    /\ UNCHANGED <<backup_file, made>>

-----------------------------------------------------------------------------
NodeFileStep ==
    \/ StartWindow \/ StartCommand \/ EndCommand
    \/ ResetChain \/ ResetMempool
    \/ \E t \in Thread : \/ CheckPayment(t) \/ AdmitPayment(t) \/ RefusePayment(t) \/ Adopt(t)
                         \/ SaveChain(t) \/ SaveMempool(t) \/ Truncate(t) \/ Write(t)
    \/ \E p \in Process : Crash(p)

WalletFileStep ==
    \/ OpenWallet \/ Exit
    \/ CreateWallet \/ CloseDialog \/ NewWallet \/ ImportSeed
    \/ SaveWallet \/ BackupWallet \/ RestoreBackup
    \/ CommandNew \/ CommandCreate \/ CommandBackup \/ CommandRestore

Next == NodeFileStep \/ WalletFileStep

Spec == Init /\ [][Next]_vars

-----------------------------------------------------------------------------
TypeOK ==
    /\ scenario \in Scenarios
    /\ state_file \in State \cup {Torn, Absent}
    /\ phase \in [ Process -> {"down", "starting", "opening", "open", "leaving"} ]
    /\ memory \in [ Process -> State \cup {Down} ]
    /\ \A p \in Process : memory[p] = Down <=> phase[p] = "down"
    /\ lock \in [ Process -> Thread \cup {Nobody} ]
    /\ saver \in [ Thread -> [ at : {"idle", "checked", "reset",
                                     "chain", "mempool", "taken", "truncated"},
                               chain : SUBSET Payment, mempool : SUBSET Payment,
                               adds : SUBSET Payment ] ]
    /\ acked \subseteq Payment
    /\ wallet_file \in WalletState \cup {Absent}
    /\ backup_file \in WalletState \cup {Absent}
    /\ wallet \in WalletState \cup {Down}
    /\ wallet # Down <=> phase["window"] = "open"
    /\ dialog \in BOOLEAN /\ made \subseteq Key

\* A copy of the node is of one moment, though it is taken in two steps while
\* other threads confirm, displace and admit payments and reset the node: when
\* it is complete, it is the node.
CopyIsWhole ==
    [][ \A t \in Thread : saver'[t].at = "taken" /\ saver[t].at # "taken" =>
          memory[Of(t)] = [ chain |-> saver'[t].chain, mempool |-> saver'[t].mempool ] ]_vars

\* One process, one thread at a time: a payment that was answered with Ok is
\* in the file whenever it is not being written, and in every node that is
\* loaded from it, through exits, restarts and crashes between two writes,
\* until a block displaces it, a reorganisation drops it or the user resets.
Alone == scenario.helpers = {} /\ scenario.commands = 0 /\ ~scenario.crash_writing

AcknowledgedIsSaved ==
    Alone =>
        /\ Writers = {} /\ state_file # Absent => acked \subseteq Payments(state_file)
        /\ phase["window"] # "down" => acked \subseteq Payments(memory["window"])

\* A window that is the only one to write the wallet file: it holds the wallet
\* of the window, under its password, whatever buttons were pressed, or none
\* was saved yet.
FileIsTheWindows ==
    scenario.commands = 0 /\ wallet # Down =>
        wallet_file = Absent \/ wallet_file = wallet

\* "Persistent BEC wallet" (main.rs:1063): the key in the wallet file changes
\* when the user asks for another wallet.
KeyChanges == wallet_file # Absent /\ wallet_file'.key # wallet_file.key

WalletIsPersistent ==
    [][ KeyChanges => NewWallet \/ ImportSeed \/ RestoreBackup
                        \/ CommandNew \/ CommandRestore ]_vars
===============================================================================
