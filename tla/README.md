# A verification of BlindEye-Cash in TLA+

BlindEye-Cash is a proof-of-work currency node with a desktop wallet, written in
Rust. This directory holds TLA+ modules translated from its source, the TLC
configurations that check them on small instances, and proofs for TLAPS. Paths
such as `blockchain.rs` are below `src/src/`; `PROJECT.json` maps each definition
to its lines.

## 1. The system

| Part | State it keeps | Operations | Talks to |
|---|---|---|---|
| Emission schedule (`protocol.rs`) | constants | `block_reward`, `issued_through` | called by block validation and templates |
| Transactions (`transaction.rs`) | none | `txid`, `validate`, sums | everything |
| Blocks and proof of work (`block.rs`, `pow.rs`) | none | `validate` against a parent, hash, target from compact bits | block store, miner |
| Block store (`blockchain.rs`) | `blocks`, `best_chain`, `current_height`, `utxo_set`, `bootstrap_utxos` | `add_block`, fees, balances, history, `next_work_bits` | owned by the node behind a mutex |
| Mempool (`mempool.rs`) | entries with fee, rate and time | add, select for a block, prune, reservations | owned by the node behind a second mutex |
| Node (`node.rs`) | the two above, the peer list, the state file | `submit_transaction`, `create_block_template`, `submit_block`, `reset_to_genesis`, `save_state`, `load_or_create` | called by window, peers, RPC, miner |
| Miner (`mining.rs`) | `running`, `session_id`, controller thread, counters | start, stop, the loop template → search → submit | calls the node through two closures |
| P2P (`p2p.rs`, `network.rs`) | peer table, peer list | listen, connect, handshake, keepalive, exchange of addresses, expiry after 300 s, relay, `synchronize_blocks` | node |
| RPC server (`rpc.rs`) | `running`, addresses, its thread | start, stop, answer | node |
| Registry (`website/rpc-registry.php`) and its client (`rpc_registry.rs`) | a JSON file of endpoints | publish, status with probes, list, expire | windows, RPC servers |
| Wallet (`wallet.rs`) | keys, balance, history, the wallet file and its backup | coin selection, fee estimate, signing, save, backup, restore | block store, mempool reservations |
| Window and CLI (`main.rs`) | what is shown, background receivers, a node and a wallet per process | poll, refresh, mine, reset, sync, publish, wallet buttons, commands | everything |
| Shielded transfers (`privacy.rs`) | none | a shape check without callers | nobody |

The parts meet in `Node`. The threads that submit transactions (peers, RPC clients,
commands), those that submit blocks (peers, synchronisation) and the mining
controller share the block store and the mempool. Each is behind its own mutex,
always taken in the order peer table, block store, mempool, peer list, with one
exception (section 4). Only `create_block_template`, the end of `submit_block`,
the snapshot of `save_state` and the window's previews hold more than one. Two
processes, the window and a command, share the data directory.

What is hard here, and what would make each part correct:

- **Emission.** One schedule is computed twice, per height and by a loop over
  epochs. They must agree, and stay below the cap.
- **Block store.** Blocks arrive in any order and on any branch. `add_block`
  stores a block *before* it knows whether its branch replays, and returns an
  error afterwards; a block of height 0 it stores without its parent, and a list with
  transactions repeated under the hash of the list without. The best chain must
  nevertheless be linked and as long as any that was stored properly, the
  unspent outputs must be those of that chain alone, no coin may be created
  or spent twice over any sequence of reorganisations, and a wallet's history must
  add up to its balance.
- **Mempool and node.** `submit_transaction` gives up the block store before it
  takes the mempool. Submissions race with each other, with blocks and with the
  two-step reset. Entries must stay free of conflicts, leave only for a reason, and
  eventually be confirmed.
- **Window.** It reads reservations, balances, height and mempool size under one
  lock after the other. A change in between must be noticed by the next poll.
- **Miner.** The template is built, hashed and submitted at three different
  moments; the tip moves in between. The miner must never refuse its own block
  for a reason of its own making, and must go on finding blocks. A stopped
  controller is not waited for: it runs on beside the next one, both reading one
  flag and one counter, while workers race to find, to leave and to report.
- **Locks.** Peers, RPC clients, the controller and the window call operations that
  take up to three locks. Nobody may wait for a lock that cannot be given up; the Send tab does.
- **Peers.** Several connections share one entry, any end may go silent, fail on a read or
  on a write, or leave what it is sent unread while it relays, and clocks step back. A connection
  that works must stay known, a dead one must not take a place, and hosts that know a third one
  must find each other.
- **Synchronisation.** Announcements are lost or overtake each other, two nodes mine
  on two branches, a button resets a node beside its connections, and the heights peers are
  believed to have grow old. Blocks must not circulate, what is counted as imported must have
  been, and a node that knows it is behind must catch up.
- **Data directory.** `save_state` copies under two locks and writes without any, by
  truncating; the window and commands write the same files. A copy must be of one moment, what was
  answered with Ok must survive a restart, and the wallet file must be the user's wallet.
- **RPC and registry.** The thread of a stopped server stores its addresses once more; the
  registry's file is read without the lock it is written under, sorted by heights that change with
  every publication and probe, and cut. What is advertised must be served, and what is served must be listed.

## 2. The modules

`Protocol` ← `Emission`, `Ledger` ← `Blockchain` (implements `LongestChain`) and
`Mempool` ← `Node` ← `Window`; `Miner`, `Locks`, `Sync`, `PeerTable`, `Storage` and `Registry`
on their own; `MCX` holds the small instances of `X` and `X_proofs` the proofs about it, `Blockchain_proofs`
those about `Emission` too and `Node_proofs` those about `Window`, because they use the same lemmas.

**`Protocol`** is the arithmetic of `protocol.rs`. **`Emission`** makes the loop of
`issued_through` a state machine (one step per iteration; the variables are the
loop's) so that it can be compared with the formula at every exit and its bound
proved as an invariant.

**`Ledger`** has transactions and unspent outputs as operators. A transaction is a
record of inputs and outputs and stands for its own id, because the id hashes
all of it; so two coinbases with equal contents are one transaction, as in the
code. An output is named by `<<transaction, position>>`, and `utxo_set` is the set
of such names. `ValidSpend`, `ValidBlock`, `ValidChain` are the functions that return
`Result`, true on `Ok`. Checked sums fail at `U64`; `total_output_value`, unchecked in
the code, is taken modulo `U64`.

**`Blockchain`** is `add_block`. `StoreBlock` is every path that stores a block and
leaves the chain alone (unknown path, failed replay, branch not longer); `AdoptBlock`
is the path that switches. Calls that return before storing change nothing. A
block is its hash; `BlockOf` gives its contents and `ancestry` the walk back from
it, which a hash fixes (`BlockAssumption` says no more than that). Time stamps, heights and
links are compared as in `Block::validate`; hash and target are the flag `sealed`.
Two things a hash does *not* fix are in the model. A `Stray` is a block of height 0 above the
genesis block: `add_block` checks nothing about its parent (`blockchain.rs:96`), which may arrive
later and put it into the middle of a chain, where heights begin again. And
`calculate_merkle_root` pairs an odd last hash with itself (`block.rs:78`), so most lists
share their hash with a longer one that repeats transactions (`HasTwin`): `StoreTwin` stores that one,
`spoiled` are the hashes stored so, and no chain with one of them replays.
`HistoryLine` is a line of `transaction_history`: amounts in and out, the fee, mined or not.

**`LongestChain`** is what this store promises, in two variables: known chains
and a head that is replaced only by a longer valid chain, the one just learned. Chains that
extend it and only waited for it become known with it, too late to be looked at: these are the
chains of strays. `Blockchain` implements it: `known` is the set of ancestries of stored blocks that reach
the genesis block by blocks stored as they were built, `head` is `best_chain`.

**`Mempool`** has the fee rates, the conditions for admission, the selection for a
block and the pruning. **`Node`** composes it with `Blockchain`. An action is one critical section:

| Action | Code |
|---|---|
| `CheckTransaction` | `submit_transaction` under the block store's lock |
| `AdmitTransaction`, `RefuseTransaction` | the same call under the mempool's lock |
| `ReceiveBlock` | `submit_block` from a peer, prune included |
| `CreateTemplate` | the controller calls `create_block_template` |
| `FindBlock` | `mine_template_parallel` returns a block |
| `SubmitMined` | the controller submits it, whatever the answer |
| `ResetChain`, `ResetMempool` | the two critical sections of `reset_to_genesis` |
| `StartMining` | `start_continuous` |
| `Tick` | the clock that `received_at` and eligibility read |

`pending` is what a submitting thread carries from the first lock to the second;
`miner` and `template` are the controller's place and the block it works on.
A block the model mines is one of `Block` with the template's parent, height and
transactions: its nonce and time are whatever seals it.

**`Window`** puts the wallet window on top. `at` is where its thread is: polling
(`PollHeight`, `PollSize` are the two halves of `get_status`), refreshing (`ReadReserved`,
`ReadBalance`, `ReadHeight`, `ReadSize`; `back` is where `refresh_wallet_state` returns to), at the end
of a frame, or in a reset. The reset and start buttons are the node's actions, taken by the window
alone. `Window` implements `Node` (`WindowImplementsNode`).

**`Miner`** opens what `Node` has as one controller. `window` is the one thread that calls
`start_continuous` and `stop_mining` (mining buttons, reset, a new or imported wallet, exit: all in the
window's thread), each in two steps, because controllers and workers read the flag and the counter in
between. Sessions are numbers, and each started one has its controller, its search, the flag and
channel of that search, and its workers:

| Action | Code |
|---|---|
| `Start`, `Spawn`; `Stop`, `EndSession` | the two atomic writes of `start_continuous`, with the controller it spawns, and of `stop_mining` |
| `Loop`, `SkipTemplate`, `BeginSearch` | the controller's loop up to `mine_template_parallel` |
| `CheckStop`, `TryNonce`, `FindNonce`, `Send` | a worker: its condition, a hash that misses or meets the target, and after that `send` |
| `AwaitBlock`, `NoticeStop`, `TakeBlock`, `Timeout`, `Disconnected` | the receiving loop |
| `Join`, `Submit` | workers joined; `submit_block`, accepted or refused |

**`Locks`** leaves the data out and keeps the mutexes. Each operation is the
sequence of guards it takes and drops, composed the way the functions call each
other (`Hold(l, body)` is a scope); a `Check` is a `?` or an early return, after which
`Fail` drops every guard. Guards in the struct literal of `save_state` live to
the end of its statement, so its three locks are held together. `SendTab` is a frame of the Send tab
with recipient and amount filled in: the preview, the suggested fee, which reads the status with the
block store locked, the status of the line below it, and the Send button. Threads run any
operation of `Calls`, again and again. Locks under which no other is taken (logs,
counters, join handles, readers of the peer table) are left out.

**`PeerTable`** is who a host is connected to. A connection (`conns`) has two ends with a phase
each, a flag whether it still works, and the pings each end has not read yet; `table` is the map `peers` of
each host, keyed as the code keys it: by the dialled address at the dialler, by the connection's own port at the
acceptor. An entry has an address and an age by its host's clock, negative when `last_seen` is in the future.
`list` is the node's copy of the addresses, at first the one saved by an earlier run; `todo` are the `connect_peer` calls spawned
for addresses a host was told of, `asked` the ends with an unanswered `GetPeers`, `relays` the readers that wait
for a host they pass something on to.

| Action | Code |
|---|---|
| `ConnectPeer`, `Visit` | `connect_peer` up to the connection; a connection for one message or request |
| `Accept`, `Greet`, `GreetNobody`, `Welcome`, `LeaveEarly` | the listener with `max_peers`; the handshakes of both ends, with the errors in between |
| `TellPeers`, `Hear` | `GetPeers` with its answer; a `Ping` is read: `note_peer_activity` |
| `Relay` | a block or transaction is new: `handle_message` awaits `broadcast_message` before the reader reads on |
| `Break`, `Notice`, `NoticeWriting`, `Close` | a failure; an end that reads it (`remove_peer`) or meets it in a write (`?`, the entry stays) |
| `Tick`, `ClockBack`, `Expire`, `ResetPeers` | a minute, in which each end pings; a clock that is set back; the timer that prunes (`unwrap_or(300)`); `reset_to_genesis` of the list |

**`Sync`** has what travels on the connections. A block is the sequence of the marks of its miners, a mark being a node and how
often it was reset; the store of a node does what `LongestChain` promises, all blocks being valid. `table` is the `peers`
map of each node: an entry per connection with an address and a height. A connection
stays (`links`) or serves one message or one synchronisation; its entry appears with
the handshake and goes some time after the connection (`Forget`; the ways are `PeerTable`'s).
`outbox` and `relays` are broadcasts before and after their handshake, `session` the locals of
`synchronize_blocks`. `peak` and `grown` are history: how high a node ever was, and how many heights it has gained.

| Action | Code |
|---|---|
| `Connect`, `Disconnect`, `Forget` | `connect_peer` with both handshakes; a lost connection; the end of its entry |
| `Mine`, `Announce` | the miner sets `last_block_hash`; a frame that has not notified of it broadcasts it |
| `Reset` | the button's `reset_to_genesis`, beside the P2P threads, their table and their calls |
| `OpenRelay`, `AcceptBlock`, `RefuseBlock`, `LoseRelay` | one `broadcast_message` and `handle_message` at its end |
| `StartSync`, `AskPeer`, `ServeHeaders` | `synchronize_blocks` up to `GetHeaders`, and its answer |
| `ReceiveBlock`, `AddReceived`, `SkipReceived`, `CountImported` | the loop: height read, block added or refused, height read again |
| `LosePeer`, `AbortSync`, `EndSync` | the ways out |

**`Storage`** has the node's file, the wallet file and its backup, a window with several threads
and a command in a process of its own. Of a node only its payments are kept, waiting or confirmed; of a
wallet its key and password. Payments may conflict. A file is absent, whole, or cut short. `acked` are the payments whose
submission was answered with Ok and which nothing has thrown out since.

| Action | Code |
|---|---|
| `StartWindow`, `StartCommand`, `Load`, `OpenWallet` | `load_or_create` with the save at its end; `WalletApp::default` |
| `CheckPayment`; `AdmitPayment`, `RefusePayment` | `submit_transaction` under the block store's lock, and under the mempool's |
| `Adopt` | `submit_block`: an extension, a block beside the chain or a reorganisation, with what it confirms, displaces and drops |
| `ResetChain`, `ResetMempool` | the two critical sections of `reset_to_genesis` |
| `SaveChain`, `SaveMempool`, `Truncate`, `Write` | `save_state`: a copy of each part, then `fs::write` |
| `CreateWallet`, `CloseDialog`, `NewWallet`, `ImportSeed`, `SaveWallet`, `BackupWallet`, `RestoreBackup` | the buttons |
| `CommandNew`, `CommandCreate`, `CommandBackup`, `CommandRestore`, `EndCommand` | the command line |
| `Exit`, `Crash` | `Drop`; a process is killed |

**`Registry`** has windows that start and stop their RPC server, and the script they publish to.
`threads` are the server threads of a window from spawn to return, `gui` what the window's own thread is
doing (it waits for requests and for the join of the server), `request` the script's run for it. An entry is when it was last
seen and how high it was then; every publication and every probe may bring another height. `Leading` is the cut of the sorted
list: which of several entries of one height comes first is left open.

| Action | Code |
|---|---|
| `Start`, `Stop`, `Join` | `RpcServer::start`; `stop` up to and after `join` |
| `Bind`, `FailToBind`, `Leave`, `Return` | the server's thread |
| `Publish`, `Refresh`, `Fail`, `Published`, `StatusReported`, `ListReported` | the window and the registry's client |
| `LoadToPublish`, `LoadToProbe`, `LoadToList`, `Probe`, `Truncate`, `Write` | the script: `load_registry`, `live_registry_status`, `save_registry` |

## 3. The runs

| Run | Checks | Instance |
|---|---|---|
| `emission` | loop = formula, cap | 48 schedules, heights 0..20; the caps divide evenly or not, rewards reach zero before the last halving or not |
| `forks` | chain linked, longest valid, outputs unspent, supply, history = balance, refinement of `LongestChain` | 23 blocks in every order: two branches of three and four blocks with a double spend across them, every way to be invalid on arrival or on replay, blocks of height 0 on each branch with two blocks on top of one of them, and a list that can be stored with transactions repeated |
| `node` | no conflicts waiting, templates connect, entries leave only when displaced, extensions leave nothing unspendable | two submitters with conflicting payments of a coinbase that another node's branch creates and a payment on top, the miner, that branch (which may come with transactions repeated), one reset, clock 0..1 and delay 1, so that payments become eligible, between any two steps |
| `confirm` | what was admitted with enough fee is confirmed or forestalled, unless something unspendable is ever selected | two payments, one per fee lane, a block of another node that confirms one of them or a conflicting one, clock 0..2, delay 1, fair scheduling |
| `window` | what a poll shows is current | one submitter, payments of mined coins, a mempool of one, blocks of another node, a stray among them, a reset |
| `miner` | who runs mines; a stopped session has one more block at most and ends | two workers, four starts and stops, so that two sessions overlap |
| `locks` | locks taken in one order; no cycle of waiting threads; the Send tab's frame excepted | window (Send tab included), peer, controller and a background task, each with its operations, any error return |
| `sync` | heights believed are or were real, imported blocks counted right, no circulating blocks, a height heard of is reached | a line of three nodes with one block; two nodes with two blocks on two branches, three on one, two and a failure, one and a reset of its miner, two and a reset of the other; requests of two blocks |
| `peers` | working connections stay known, the list follows the table, dead entries go, hosts find each other | three hosts around one, of which one has a saved list, with a reset; two that listen anywhere; two that dial each other with a failure and time passing; two with one place and a visit; two whose clocks step back, with a failure and a reset; three of which one relays; two that relay to each other while time passes |
| `storage` | copies are of one moment, acknowledged payments survive, the wallet file is the window's | a window with a helper thread, over payments that go together, and over conflicting ones with a reset; one alone with two crashes, likewise; one beside two commands with a crash in a write; a wallet through three starts and four buttons |
| `wallet` | (violated, section 4) | the last of these without crashes |
| `registry` | a server is its thread, entries are lost only in a race, what stayed listed is shown, what is served is listed again | a window that serves at two addresses and keeps mining, one that only fetches, two endpoints that no longer answer, heights 1 and 2 for everybody, room for two entries, clock 0..1 |

The type invariants of `Emission`, `Blockchain`, `Miner`, `Locks` and `PeerTable` are only proved (section 6); those of the
other modules are in their runs too.

The bounds are small but let the interesting cases happen. In `forks` both branches
lead at some time and orders exist in which each of them is adopted and displaced, and in which a stray's parent comes
after the stray and a chain through it is adopted or is longer and is not.
Rewards halve within the instance (4, 4, 2, 2, 1). In `node` the
other node's branch overtakes the miner's and a payment becomes possible, and impossible again by a
reset, between any two steps of the miner and of both submitters; two fees wait for the clock and are then selected, so templates
with up to two payments are built. In `confirm` a block that arrives between the two halves of a submission lets the confirmed
payment in, which is the condition of its property. In `window` the limit binds, and the
reset brings height and size back to what an earlier poll saw. In `peers` a tick stands for the minute between two pings, and the five
minutes to the expiry are scaled down to two ticks (`Expiry`), a step of the clock to one (`Back`). In `registry` heights tie and change
while a request has its copy, so that a full registry cuts off the endpoint that serves, or keeps it.
`MaxHeight`, `MaxAway`, `MaxSubmissions`, `MaxNow`, `MaxResets`, `MaxSession`, `MaxBlocks`, `MaxCopies` and the fields of
`Networks` and `Scenarios` are the bounds, in the configurations and MC modules; `SYMMETRY` is used only in `node`, for the
two submitters, where only safety is checked. Deadlock is checked in `registry`; the other runs end with
their blocks, their heights or their submissions, or, in `locks`, with a window that waits for itself.

`LeavesOnlyWhenDisplaced` and `ExtensionKeepsSpendable` are about steps. The first
is the promise to the sender; the second says that pruning by id and by conflict is
enough for a block on top of the tip, although nothing checks the outputs of
waiting transactions again. `TemplateConnects` says that the order of selection,
the fees and the reward are never why the node refuses its own block.

Several properties are as strong as the code allows and no stronger. Their conditions say where the code does less:

- `LongestValidChain` compares with chains without strays whose blocks are stored as they were built. When the missing parent of a
  stray arrives, the chain through the stray may be longer and valid, but `add_block` only looks at the block that arrived; and a
  block whose hash is stored with transactions repeated is answered with "already known" for ever.
- `BestChainLinked` excepts strays from the comparison with their parents, and `SupplyWithinSubsidies` counts the subsidies of the
  heights that blocks *claim*: with a stray on the best chain both begin again, and the maximum supply can be exceeded
  (`SupplyIsCapped` has `NoStray` as a hypothesis).
- `AdmittedIsConfirmed` asks for a fee rate that suffices in a full mempool. An entry counts as
  congestion itself, so a transaction that pays just the rate an empty mempool asks for is
  below the standard rate as soon as it is in, and waits until others leave, or forever. And it asks for runs in which no
  entry whose output is spent is ever selected (`[]SelectionIsUnspent`): a block adopted between the two halves of a submission
  (`node.rs:148`) lets a confirmed transaction in, every template selects it and is refused, and nothing is confirmed any more.
- `TemplateConnects` excepts templates that select such an entry, and says that there is no other reason for a refusal. When the
  schedule is over and no fee is collected, the coinbase pays zero, and
  `Transaction::validate` refuses it; the runs' rewards are positive.
- `HistoryAddsUp` excepts equal coinbases of one address: `create_coinbase_transaction` ignores the height
  (`mining.rs:346`), so two equal rewards are one transaction and one output.
- `ExtensionKeepsSpendable` is about extensions. After a reorganisation over two blocks the payments
  that the first of them confirms stay in the mempool, and so do entries it makes unspendable
  (`node.rs:271` prunes by the last block only; compare `node_flow.rs:35`).
- `PolledIsCurrent` is about polls. A refresh for another reason (a mined block `main.rs:1005`, the buttons `main.rs:1268`,
  `main.rs:1777`) takes the height and the size it reads *last* as observed, so a block in between is not seen. And a chain with
  a stray may have the height of the shorter one it replaced, so the poll sees no difference.
- `LocksInOrder` and `NoWaitCycle` except exactly one wait: that of the Send tab's frame for the block store it holds (section 4).
- `HeardIsHeld` is about the greatest height a peer has had: an entry is never lowered, so a peer that was reset stays listed as
  high as before, and "Blocks to sync" stays, until its connection ends. `handle_message` notes the height of a header before the
  block is checked; in the model as in an honest network it is the block's.
- `HeardIsReached` is about peers on one branch, because requests start above the own height (`p2p.rs:697`), and about
  heights heard of: the height of a lasting connection is the one of its handshake (`p2p.rs:677`), so a node that
  missed one announcement stays behind, although automatic synchronisation runs (`main.rs:2010`).
- `WorkingStaysKnown` says in which two ways the timer prunes the entry of a connection that works: its own reader is an expiry time
  behind with its pings, as when it waits in `broadcast_message`, which has no timeout, for a host that does not answer
  (`p2p.rs:463`, `p2p.rs:607`); or the clock stepped back, and an entry of the future counts as 300 seconds old (`p2p.rs:249`).
- `MeshForms` needs neither failures nor visits, and no entry that expires meanwhile. The number of entries is not bounded by `max_peers`: outgoing connections
  are not counted, and several are accepted before the first has an entry (`p2p.rs:263`). A host that listens on 0.0.0.0 does
  not recognise its own address and connects to itself when it is told of it; no property forbids it.
- `AcknowledgedIsSaved` is about one thread and crashes between writes, and about payments that nothing has thrown out: a block that
  confirms a conflicting payment evicts the waiting one (`mempool.rs:156`), and a reorganisation drops confirmed payments without
  returning them to the mempool (`node.rs:265`). With more threads an older snapshot can be written
  after a newer one (`node.rs:134`), and a write that is cut short leaves a file the window answers with an empty node.
- `CopyIsWhole` compares the copy with the node, not with what the node should be: a payment can be in chain and mempool at once,
  in the node and in its copy, since `submit_transaction` has two critical sections.
- `FileIsTheWindows` is about a window without commands: its `Drop` saves its wallet over what a command wrote.
- `ServerIsItsThread` and `LostOnlyInARace` say nothing of a publication whose bind fails afterwards; nothing takes it back.

## 4. Where the code and its documents disagree

One run, `wallet`, is expected to end in a counterexample. The window calls the wallet persistent
(`main.rs:1063`). A wallet created in the password dialog is saved with its password; at the next start
`WalletApp::default` opens the file with an empty one, takes `Wallet::new()` when that fails, and
saves it over the file at once (`main.rs:507`, `main.rs:576`). The key of the file changes without anybody asking for it.

Other disagreements need no run.

- `suggested_fee_for_priority` takes the block store's mutex and then the status, which takes it again (`main.rs:1224` to `main.rs:1226`),
  in every frame of the Send tab that has a recipient and an amount (`main.rs:1388`). So the tab that asks to "Enter a destination and amount
  to get a suggested fee" (`main.rs:1431`) never answers once they are entered, its block store stays locked for everybody, and only
  the command line sends (`SendTabWaitsForItself` in `Locks_proofs`).
- `Block::validate` refuses a block with "Block height does not follow previous block", `add_block` calls it without the parent for a
  block of height 0 that is unknown (`blockchain.rs:96`). Where such a block gets into the best chain, heights, subsidies
  and `current_height` begin again, and `blocks_from_height`, which filters by height, answers with other blocks than were asked for.
- A block can be refused as "already known" that nobody has: `blocks` is keyed by a hash that lists with repeated transactions share.
- `contains_transaction` searches every stored block, so a
  payment in a displaced or invalid block is refused as "already confirmed on the chain" (`node.rs:143`).
- The command `node peers` (`main.rs:278`) reports the saved list of a node that is connected to nobody.
- `design.md:16` has the branch of highest cumulative work win, `add_block` counts blocks.

## 5. Fairness

Liveness is asked of `confirm`, `miner`, `sync`, `peers` and `registry`.

- `NodeFairness` has weak fairness for the second half of a submission, for the
  three steps of the controller and for the clock: they are threads in a loop or in a straight line, no lock is
  held while waiting for something else, and a search at the model's difficulty finds a nonce. Nothing is
  assumed of senders, peers, the reset button or the start button. `AdmittedIsConfirmed` is asked within the model's clock.
- In `Miner` each controller and each worker is weakly fair, the window is not; a nonce need never be found.
- In `Sync` the steps of a synchronisation, its timer, the frames and some broadcast step
  are weakly fair; mining, connecting and failing are not, and failures are counted.
- In `PeerTable` some step of dialling, handshakes and answers to `GetPeers`, the ticks, and each host's timer are weakly fair. Visits,
  relays, failures, clock steps and resets are not; neither is reading a ping, because a reader may wait for a host it relays to, nor noticing
  a dead connection, because a handler that only writes may never read again. So `DeadIsForgotten` holds by the timer alone.
- In `Registry` the script and the window's thread are weakly fair. `Truncate` is strongly fair, since the file lock is granted to whoever
  waits, and so is `Publish`, but only of `Miners`: windows with auto-publish on that keep finding blocks, which publish after each of them
  when their thread is free (`main.rs:1000` to `main.rs:1020`). No other window has to publish, and starting,
  stopping and refreshing are not fair. `Fail` shares the fairness of the other answers, so answers may all be lost;
  what was written stays written.

## 6. What is proved

Every invariant and every action property of a passing run is a theorem, for every value of the constants that satisfies
the named `ASSUME`s of the modules (TLC evaluates each of them in a run), and `Blockchain` is proved to implement
`LongestChain`. Liveness and the violated statement are TLC's.

- **Emission** (`Blockchain_proofs`). `SupplyCap`: `CapInv` adds `total + 2 * interval * reward <= maximum_supply`, what
  was issued plus twice what the next epoch can issue; `total` alone below the cap is not inductive. `IssuesTheRewards`
  (`IssuedMatchesRewards`): `IssuedInv` says that `total` is the sum of `block_reward` over the heights done so far. An iteration
  adds an interval on which the reward is constant; when the loop stops early, what is left is worth zero, because a
  reward halved to zero stays zero.
- **Block store** (`Blockchain_proofs`). `TypeCorrect`, `ChainIsLinked`, `LongestValid`, `OnlyLonger`, `Refinement`.
  `StoreInv` relates the store to the walks: every stored block but the genesis block and strays follows a stored one, so that a walk
  without strays is stored to its end, with heights and times in order; the best chain is the ancestry of a stored block, its outputs are
  those of its replay, and no stored valid ancestry without strays is longer. The last part needs the first: without knowing that parents
  are stored before children, a later block could make an older, longer walk
  reach the genesis block, which is what strays do. The refinement maps each step to `Learn` of that
  block's ancestry, with the chains that waited for it late, or to a stutter, when the ancestry does not reach the genesis block
  or the block is spoiled.
- **Coins** (`Blockchain_proofs`). What holds of every replay is shown along the replay, transaction by transaction and block by
  block, and carried over to the store by `StoreInv`. `SupplyIsSubsidised` (and `SupplyIsCapped`, the cap itself): a payment lowers the
  worth of the unspent outputs by its fee, a coinbase raises it by at most the subsidy of the height its block claims and the fees
  (`PaymentWorth`); without strays the heights claimed are 1, 2, 3 and so on.
  `UnspentIsUnspent`: the running set is what was created less what was spent (`Accounts`); a repeated
  transaction would create what exists or revive what was spent. `HistoryIsBalance`: the line of each transaction is the change it
  makes to the balance.
- **Node** (`Node_proofs`). `EntriesDisjoint` for any number of threads, `NodeChainIsLinked` and
  `NodeLongestValid` where the chain is also reset (`NodeInv`). Each node action is a step of the store, a reset, or leaves
  it alone (`StepsOfTheNode`), so the store's lemmas carry over. `NoneDroppedInVain` (`LeavesOnlyWhenDisplaced`) takes from them
  that the tip after an adoption is the block that was submitted. `ExtensionsSpareTheMempool`: on an extension the outputs
  that go are those its transactions spend, and who spends one of them is pruned. `NodeTypesCorrect` and
  `TemplatesConnect` rest on `PoolInv`: whatever waits, or is about to, passed the check of its form and signatures and pays the fee
  its entry says. So the selection has no conflicts, its fees add up to what validation recomputes, and each selected transaction
  is still valid after the ones before it.
- **Window** (`Node_proofs`). `WindowImplementsNode`, so that what holds of a node holds under a window
  (`WindowChainIsLinked`), and `PollsAreCurrent`. The argument of the last: outside a
  reset, which is the window's own, the chain only changes to a longer one, which without strays is a higher one, and while it does not
  change the mempool only grows. So what was polled is a lower bound of what there is, and as long as it is all there is, everything
  read since was read from one and the same node (`PollInv`).
- **Miner** (`Miner_proofs`). `TypeCorrect`, `RunningIsMining` and `AtMostOneLate`, for any number of workers (one at
  least: without any, a search is disconnected at once) and of sessions. `ActiveIsMining` needs to know that a search
  of the current session is never left without a block, hence `SearchInv`: somebody works or raised the
  flag, and whoever raised it sent a block or is about to. That holds only while
  the session goes on, and a session that is over must not come back: `WindowInv`
  has the current session vacant whenever `running` is about to be set again.
- **Locks** (`Locks_proofs`). `TypeCorrect`, `TakenInOrder` and `NoDeadlock`, for any threads and any
  operations that are `Ordered` and `ReturnsClean`, where `Ordered` lets the Send tab's frame ask for the block store twice. The run `locks`
  shows that the operations of the node are: each is run there to its end and again, and `LocksInOrder` would fail. The invariant
  is that a held lock is among those its holder's program has taken and not dropped. From
  it, each thread of a waiting cycle would wait for a greater lock than the one before, unless it waits for itself.
  `SendTabWaitsForItself` proves that one that does never stops: it is a lemma about every step of anybody.
- **Peer table** (`PeerTable_proofs`). `TypeCorrect`, and `ListIsOfTheTable`, for any hosts, connections, saved lists and bounds: whatever the
  node reports as its peers is in the table, or is what it was saved with. It rests on what each way of changing an entry does to its address
  (`NotedIsTable`, `AgeingKeepsTables`). `WorkingIsNeverPruned` (`WorkingStaysKnown`) needs one
  invariant more, `TimelyInv`: the entry of an open end of a connection that works is no older than its unread pings are many, since each tick
  adds a ping and each ping read makes the entry young. Time passes in the model whatever the readers do. So what expires
  has an expiry time of pings unread, or lies in the future. That a connection's end removes only an entry of that end rests on the
  keys: dialers' are hosts and acceptors' are connections, which `PeerTableAssumption` keeps apart.
- **Synchronisation** (`Sync_proofs`). `SyncTypes`, `HeardHeightsAreHeld`, `ImportsAreGrowth`, `SendsNewBlocks`, for any nodes, networks
  and bounds, resets among them. `SyncInv`: a node's best chain is the highest block it has; what travels was held by its sender, which has
  been that high; the entry of a connection opened for one message is of that message's sender, whose greatest height grows before
  the entry is raised to it; and what a synchronisation has counted is covered by the heights gained since it began, between any
  resets, because a reset lowers the height and not what was gained.
- **Data directory** (`Storage_proofs`). `StorageTypes`, `CopiesAreWhole`, `AcknowledgedIsKept`, `WindowOwnsTheFile`, for any threads,
  payments, conflicts and scenarios. `StorageInv`: a save between its two copies holds the block store's lock, and whoever changes the
  chain needs it, so what it copied first is still true when the second is copied (`Sound`); and, for one thread, what was acknowledged
  and not thrown out since is in memory, in a save under way, and in the file unless that save has it open (`OneWriter`).
- **RPC and registry** (`Registry_proofs`). `ActiveServerIsItsThread`, for any windows and offers. `ServerIsItsThread` is not inductive: the
  invariant adds that the thread of an active server is not about to store its addresses, that a
  window that joins has stopped its server, and that one that waits for an answer does not join. `StayedEndpointsAreShown`: a status that is
  answered was written by its own request, so what it lacks is not in the file any more, and did not stay (`ShownInv`).
  `TypeCorrect` and `OnlyARaceLoses`: what a request leaves out of what it read is stale (`Faithful`), only the holder of the file writes
  (`Writing`), and the cut leaves out an entry only when as many as fit that are as high are kept (`RegistryInv`).

What the theorems assume of the constants, beyond types:

- transactions have a `u64` in each output, there are finitely many bootstrap outputs and each exists in its transaction;
  the genesis block is valid and its coinbase pays nothing, as `create_genesis_block` builds it;
- the minimum fee rate is 1 at least (`Mempool::new` is called with 1); ids are ordered (`Rank` is injective);
- the registry is finite and within its limit when the runs begin.

Some theorems have a hypothesis on the state, each of them what the code leaves unchecked:

- `NoSumWraps`, of `SupplyIsSubsidised`, `SupplyIsCapped` and `HistoryIsBalance`: the outputs of no transaction on the
  chain add up to 2^64 or more. `total_output_value` (`transaction.rs:87`) sums without a check, so a release build wraps and accepts a
  transaction that creates coins; the model wraps too, and without the hypothesis the statement is false. The runs stay far below.
- `NoStray(best_chain)`, of `SupplyIsCapped`: no block of height 0 is on the best chain above the genesis block.
- `CoinbaseFits`, of `TemplatesConnect`: the reward with the selected fees is a `u64` and not zero (`transaction.rs:79`, section 3).
- `OneSource`, in `HistoryAddsUp` itself: a transaction's inputs are of one address, as a wallet builds them, and bootstrap outputs or
  none: the history replays blocks and does not know bootstrap outputs, which only `fund_address_for_testing` makes.

How the proofs get at data. An operator such as a replay, a sum or a selection is a recursive function or a fold. Its defining
equation is proved by showing that the function exists, by induction on an interval or on a finite set; induction itself is
taken from the library's fact that strict inclusion on finite sets is well-founded, with the property given as the set of arguments
that have it, since theorems with an operator parameter cannot be used (`SetInduction`, `IntervalInduction`). From
the equation everything else follows step by step.

Left to TLC: liveness under fairness (`AdmittedIsConfirmed`, `StoppedEnds`, `HeardIsReached`, `ListCatchesUp`, `DeadIsForgotten`,
`MeshForms`, `ServedIsListedAgain`), because it is about `ENABLED`, and `WalletIsPersistent`, which does not hold. That the operations of
`Locks` are in order is a fact about given programs and is checked by running them.

## 7. Abstractions, and what is not modelled

Signatures are the address a public key hashes to. Mined blocks have
one time stamp per position, and `UTXO.block_height` and `is_coinbase`, which
decide no validity, are left out. `total_output_value` never wraps in the runs. `Node` has one controller; several are `Miner`'s subject;
a template is mined to its end or not at all. Sends from the window are left out of `Window`, because its frame never ends. The two
handshakes of a connection are one step in `Sync` and several in `PeerTable`. In `PeerTable` a host has one address, a visit stands
for the relays to all other hosts, the reader of any connection may relay, and a `Pong`, which only makes
an entry younger, is left out. Heights of headers are those of their blocks in `Sync`. Writes do not fail in `Storage`. An entry of
the registry is the time it was last seen and its height, and the order of equal heights is open.

Not modelled:

- `next_work_bits`, `pow.rs`: 256-bit arithmetic beyond TLC's integers, on which no check depends, because `Block::validate` takes a
  block's own bits.
- Coin selection and the fee estimate of `wallet.rs`: computations on bytes without state. The estimate iterates at most
  four times and can return a fee that is too low; the refusal that follows is `Admissible`'s.
- Key derivation and encryption: cryptography. Formats of amounts, the network and files: functions a test reaches.
- The registry's proxy, which changes no state, its owners, the verified flag and the rewriting of addresses: they decide
  what is displayed, not what is listed.
- `privacy.rs`, which nothing calls; `paths.rs`; the layout of the window; packaging.

## 8. Running it

    tlc -config MCBlockchain.cfg MCBlockchain      # and the other .cfg files
    tlapm Blockchain_proofs.tla                    # and the other *_proofs modules
