# A TLA+ model of Shulcrum

Shulcrum is a Fulcrum-derived Electrum server: it follows a bitcoind, keeps an
index of blocks, unspent outputs and script histories in RocksDB, keeps a copy
of the mempool, and answers and notifies clients.  This directory holds a
specification of its core logic: TLA+ modules, the TLC runs that check them on
small instances and TLAPS proofs of the results that hold for every instance.
Paths below are relative to the repository.

## 1. Inventory

| Component | State it keeps | Operations that change it | Hard behaviour |
|---|---|---|---|
| Storage, block index (`src/Storage.cpp`) | column families headers/blkinfo/utxoset/shunspent/shist/undo/meta, record array of tx hashes, and the copies `headerVerifier`, `blkInfos`, `txNumNext`, `earliestUndoHeight`, `utxoCt` | `addBlock`, `undoLatestBlock`, `startup` with its load checks, `cleanup` | power loss between two writes, restart with another `max_reorg`, reorg after reorg |
| Storage, query caches | `lruNum2Hash`, `lruHeight2Hashes_BitcoindMemOrder`, `blake2bActivationHeightCache`, merkle cache | filled by client threads, invalidated by undo | fill racing with invalidation |
| Controller (`src/Controller.cpp`) | `StateMachine`, `tasks`, timers, `lostConn` | `process` (16 states), `on_Poll`, `on_putBlock`, task signals | answers of tasks that an earlier StateMachine started, a bitcoind that reorganises between two requests, timers that must be armed again |
| SynchMempoolTask, SynchDSPsTask | the txs being downloaded | rounds of getrawmempool and getrawtransaction | a block arriving in the middle, conflicting txs |
| Mempool | txs, `hashXTxs`, dsps | `addNewTxs`, `dropTxs`, `confirmedInBlock`, `clear` | parents dropped or confirmed before children |
| Subscriptions (`SubsMgr`) | subscriptions by key, pending notifications, cached statuses | `subscribe`, `enqueueNotifications`, `doNotifyAllPending`, zombie removal | status read outside the lock, notification racing with a subscription |
| BlockProc | none (pure) | `PreProcessedBlock::fill` | outputs spent inside the same block |
| BitcoinDMgr (`src/BitcoinD.cpp`) | pool of connections, `goodSet`, `reqContextTable`, request contexts, cached results | `submitRequest`, replies, timeouts, disconnects | an answer, a timeout and a lost connection racing for one request; a connection that changes under the manager's feet; a sender that is deleted |
| RPC, connections | outstanding ids, batches, read pauses, buffers | message handlers, timers | answers to a batch that is gone, a batch that is paused |
| Servers, SrvMgr | clients, per-ip counters, throttles | connect, disconnect, request, reply | counters on every path out, with callbacks that do not run |
| PeerMgr | queue, clients, bad and failed peers | timers, verification | retry of peers already known |
| Merkle::Cache | levels of hashes | `initialize`, `truncate`, `branchAndRoot` | truncate during a read |
| DBRecordArray, RecordFile | record count, buckets | append, truncate | partial last bucket |
| Threading (CoTask, ThreadPool) | one job slot, job counter | submit, run, reject, complete | lost wake-up, the limit of jobs with several submitters |
| App, Options, formats, I/O | configuration; latch file | | latch file against abrupt exits |

Interactions: the Controller's thread is the only caller of `addBlock` and
`undoLatestBlock`; its tasks run in threads of their own and reach it by queued
signals; BitcoinDMgr signals connection loss and return; Storage enqueues
notifications at the SubsMgr objects; client threads read Storage under shared
locks.  What makes each part correct is stated with the properties in section 3
for what is modelled, and in section 5 for what is not.

The hazards (what could go wrong in a way a unit test would hardly reach) are
listed line by line in `PROJECT.json`.

## 2. Modules

| Module | Models | Variables and what they stand for |
|---|---|---|
| `ChainStore` | Storage's database and memory copies | `db` (the columns), `durable` (states a power loss may bring back), `mem` (memory copies), `phase`, `latch` (the file `datadir/latch`), `unclean` (the latch file was there at the start), `announced`, `rewind` (history) |
| `HeaderChain` | what Storage promises the Controller: an abstraction of `ChainStore` | `chain`, `undoHts`, `earliest`, `depth`, `up` |
| `Controller` | the synchronisation state machine, EXTENDS `HeaderChain` | `best` (bitcoind's best block), `conn`, `sm` (the StateMachine), `tasks` (CtlTask objects by slot), `again` (queued `process()` calls), `poll`, `kick` (timers), `zmq`, `serving`, `fatal`, `owed`, `cut`, `bare` (history), `faults` (bound) |
| `TxHashCaches` | the caches of transaction hashes, filled by client threads while blocks are added and undone | `blkInfos`, `txNums`, `nRecs` (what is read), `num2Hash`, `height2Hashes` (the two caches), `ctl`, `rd` (where the threads are, and what they have read) |
| `ActivationCache` | `blake2bActivationHeight` and the atomic it caches its answer in | `hdrs` (v1 or v2, by height), `cache`, `wr`, `rd`, `moved`, `overtaken` (history) |
| `MerkleCache` | the merkle tree functions and `Merkle::Cache` | `db`, `nRecs` (headers), `cache` (`length`, `depthHigher`, `level`, `initialized`), `lock`, `ctl`, `rd` |
| `Subs` | the subscriptions manager of script hashes and the requests that use it | `hist` (statuses of the followed script hash by version), `affected` (changed, not enqueued yet), `pending`, `armings`, `timer` (notification queue, its queued signals, its timer), `subs`, `obj` (the table's entry, Subscription objects), `nt` (doNotifyAllPending), `cl` (requests), `gone`, `told` (the last status sent to or queued for a client), `crossed`, `taken` (history) |
| `Mempool` | the mempool structure and its operations, as operators on a value | none; a mempool is a record of `txs` (spends, unspent outputs, parents and children), `hx` (vectors by script hash) and `dsps` |
| `MempoolSync` | SynchMempoolTask, SynchDSPsTask and the block updates, against a bitcoind that moves on, EXTENDS `Mempool` | `chain`, `pool`, `proofs` (bitcoind), `db`, `mp` (ours), `stage`, `task`, `dsp` (the running task), `owed`, `lost`, `evicted`, `fresh` (history), `events` (bound) |
| `BitcoinDMgr` | connections to bitcoind, the manager and the contexts of requests | `connected`, `hooked`, `needAuth`, `sendQ`, `asked` (a connection and its thread), `mgrQ`, `goodSet`, `reqContextTable`, `timedOut`, `bd` (the manager), `owner`, `attached`, `replied`, `inbox` (contexts and the event queues of their senders), `losses` (bound) |
| `ClientRequests` | the requests of clients, single and in batches, EXTENDS `BitcoinDMgr` | `life`, `batch`, `items`, `next`, `again`, `processingPaused`, `inactivity`, `killed`, `responses` (a client and its BatchProcessor), `nExtantBatchRequests`, `perIP`, `bdReqCtr`, `readPaused`, `decayTimer` (limits and throttle), `cached`, `job`, `extant` (thread pool), `route`, `calls`, `replies` (history) |
| `ChainStoreProofs` | TLAPS proofs about `ChainStore`: its invariants; what a crash can take, the saved counter, and the refinement of `HeaderChain` | |
| `ControllerProofs`, `TxHashProofs`, `ActivationProofs`, `MerkleProofs`, `SubsProofs`, `RequestsProofs`, `MempoolProofs` | TLAPS proofs about `Controller`, `TxHashCaches`, `ActivationCache`, `MerkleCache`, `Subs`, `ClientRequests` and `MempoolSync` | |
| `MCChainStore`, `MCController`, `MCMempoolSync`, `MCClientRequests` | block trees, transactions and bitcoind behaviours for TLC | |

How they fit: `ChainStore` is proved to implement `HeaderChain` (property
`ImplementsHeaderChain`, refinement mapping at the end of the module);
`Controller` uses the actions of `HeaderChain` for its calls of Storage.  So the
Controller is checked against exactly the interface the database is shown to
provide.  The three cache modules stand beside them: each has the Controller's
thread adding and undoing blocks in the steps that matter for the cache (counts
in memory change before the batch is written), and client threads that take one
step per lock or read.  `Subs` stands beside them too: a change of a history is any
finished change of Storage, seen by the manager as a set of script hashes.  They
are run as they are, their cfgs give the constants.  `MempoolSync` composes the
mempool, the two tasks and what `addBlock` and `undoLatestBlock` do to it: the
stages of the Controller in which these run exclude each other.  What it owes to
subscribers (`owed`) is what `Subs` takes as `affected`.  `ClientRequests` composes
the servers' side of a request with the manager's: a client is the sender of its
requests, and both see the same event queues.

### Abstractions

* A block is a member of a tree given by constants.  Its tx count, the outputs
  it spends and creates and the histories it touches are constant functions;
  `UtxoAt`, `HistAt` and `TxNum0` are what replaying its ancestry yields, tied
  together by the assumption `LedgerTruth`.
* `addBlock` and `undoLatestBlock` issue one RocksDB WriteBatch each, all columns
  included, so each is one atomic database step.  The dirty flag is set and
  cleared within the same batch and is therefore never seen set; it is left out.
  A batch is behind a `SyncWAL()` at once when subscribers are notified or in an
  undo; otherwise it may be lost.  RocksDB recovers a prefix of the batches: that
  is `durable`.
* The latch file is looked for, removed and created in steps of their own, as the
  constructor of `LatchFile` does it, and closing the database and removing the
  file are two steps at the end; a crash may come between any of them.  Each file
  operation is taken as durable at once and in order (the program does not sync
  the directory).  A start that removed the file and cannot create it again throws;
  that is a stop in the gap named in section 3.
* `loadCheckUTXOsInDB` and `loadCheckShunspentInDB` only run with `-C`; RPA is off;
  the Fulcrum 1.x upgrade is not modelled.
* The Controller's handlers are atomic (one thread); the loop that drains
  downloaded blocks is one step per block, and no other handler runs meanwhile
  (`Draining`).  The process ends in an orderly way (`Stop`) or by a crash, which
  may take blocks from the end of the list: those that were not synced, and those
  that the rewind after an unclean stop undoes at the next start.  A download
  task's two requests getblockhash and getblock are one step: the hash fixes the
  block.
* `max_reorg` is at least 100 in the program and 1 to 3 in the runs; block trees
  are scaled accordingly.
* A hash is modelled by what it is the hash of (`MerkleCache`), a transaction hash
  by block and position (`TxHashCaches`), a header by its version
  (`ActivationCache`).  The order in which CostCache purges is left open.
* In `MerkleCache` the shift `1 << k` is `Pow2[k]`.  The refusal of trees deeper
  than `MaxDepth` (2^28 leaves) is left out: there are fewer than 2^20 headers,
  and a shift by at most half the depth does not overflow.
* `Subs` follows one script hash, which is the only one in the run; others, which
  nobody subscribes to, only share the notification queue.  A status is the
  version of the history it was computed from, and versions alternate between two
  values, so that every second one is a return to an earlier status.  `told` is
  the last status among the messages of a client, in the order in which its thread
  sends them: a notification is queued for that thread, a cached status is sent at
  once, so that what was queued before may come after it.  A client has one
  request under way.  The ages of zombies are left open.  Clients are symmetric.
  getFullStatus does not throw, and no job is refused by the thread pool.
* `Mempool` keeps what an entry says of spends, outputs, families and order.
  Amounts, fees, sizes, the fee histogram and the rpa prefix table are left out.
  The loops that grow sets of descendants are the least closed set; `std::sort`
  puts the k-th smallest in the k-th place (`InOrder`).  Outputs have one creator,
  every transaction spends something (coinbases are left out), and none spends
  from itself, directly or around a circle: a hash covers what is spent
  (`MempoolConstants`).
* In `MempoolSync` a transaction is a number in the order of hashes; the precache
  thread, which the task waits for before it uses a result, is one step with it.
  What it has cached is read afresh in a redone round, where the code keeps it: no
  block is added or undone in between, so that the answers are the same.
  bitcoind accepts, replaces, evicts, mines and reorganises as its rules allow;
  its mempool never holds a conflict.
* In `BitcoinDMgr` time is left open: any request in the table may be overdue, and
  any connection may be the one round robin would choose.  A result and an error
  are both a `reply`.  Ids come from `newId`, so the branch for an id that is in the
  table already is not reached.  A context lives as long as a lambda holds it, as
  `shared_ptr` has it; `deleteLater` queues its end.  Reading the status of a
  connection from the manager's thread gives its value at that moment.  The
  manager's two slots for a lost connection are one step: both are queued by the
  same signal to the same thread, one behind the other.  Authentication failures
  are left out.
* In `ClientRequests` two queued calls of `process()` of a batch are one, as the
  second finds what the first left and does nothing else.  A batch item that
  needs no answer (a notification) is left out.  Any response may exceed the
  cost limit of the address.  Batches of clients that are not modelled take any
  share of the batch limit.  The pool is not shut down.  A request has one route:
  handlers that do part of their work in the pool and then ask bitcoind
  (`Servers.cpp:2215`, `2270`) are counted as requests to bitcoind.  A callback
  always delivers: replies that a handler sends itself, later and from another
  callback (`DontAutoSendReply`, `Servers.cpp:906-914`), count as delivered there.
  A client has at most one batch, where the program lets it have several, up to
  the batch limit.
* zmq hashblock: a notification is on its way after every change of bitcoind's
  best block once the servers run; hashtx only shortens the poll interval.

## 3. Runs

Bounds are the constants named Max*, and the size of the block tree.

| Run | Checks | Instance |
|---|---|---|
| `chainstore` | `TypeOK`, `IndexIsReplay`, `UndoMatchesChain`, `NeverCorrupt`, `CopiesMatchDatabase`, `EveryUndoWillExpire`, `UtxoCtIsExact`, `AnnouncedIsDurable`, `UncleanStopIsRewound`, `ImplementsHeaderChain` | a forked tree, every order of add and undo, every choice of saving undo records and notifying, crashes in every phase, of the start-up and of the shutdown too, failed starts, and restarts with three values of `max_reorg` |
| `controller` | `CtlTypeOK`, `AppendsAtTip`, `NeverStalls`, `UndoWindowIsExact`, `Converges` | bitcoind syncs up, reporting its initial download as over three blocks below its headers (with `max_reorg` 2), reorganises to a longer branch and gets shorter at last; one fault, stop or crash, zmq, dsproof phase, up to 3 tasks alive at once, 2 per download, under fairness |
| `controller_announce` (violated) | `UpToDateFollowsSynchronizing` | growing chain, one fault, zmq |
| `controller_stale` (violated) | `ReorgWithinMaxReorgSurvives` | two one-block reorgs, no fault |
| `txhash_num` | `NumCacheIsRight`, `PosAnswersAreRight` | two client threads, 4 blocks of 1 or 2 transactions up to height 2, caches of 2 and 1 entries |
| `txhash_height` (violated) | `HeightCacheIsRight` | the same |
| `activation` | `SearchIsRight`, `CacheIsRight` | two searching threads, up to 5 headers, started with 0 to 2 of them, reorgs across the first v2 header |
| `merkle_serve` | `LevelIsRight`, `AnswersAreRight` | up to 8 headers, cache initialised with 0, 1, 3 or 6 of them (segments of 1, 2 and 4), two blocks undone |
| `subs` | `SubsTypeOK`, `PendingWillBeTaken`, `LastToldIsCurrent` | one script hash, two clients, up to 2 Subscription objects (one in the table and one that was taken out of it), 3 versions of the history, the last of which may have the status of the first |
| `mempool` | `TypeOK`, `MempoolIsExact`, `SyncedIsConsistent`, `NobodyMissesAChange`, `DspsCoverDescendants`, `CatchesUp` | 5 transactions: a parent with two outputs, a child, a grandchild that spends both, its own child, and a double spend of the parent; one proof; 4 events at bitcoind or failed requests; a task redone once; under fairness |
| `requests` | `TypeOK`, `AnsweredOnce`, `BatchIsWhole`, `PendingWillEnd`, `ContextsAreReleased`, `CountersAreExact`, `WaitersWillBeWoken` | a client, two requests (alone or as a batch), one connection that breaks once, a throttle that pauses at one request, a pool of one job |
| `merkle_throws` (violated) | `ThrowsOnlyAfterReorg` | 5 headers at startup |

The trees are deep enough for every interesting case: a reorg that is longer
than the window of undo records, one that ends below a gap, records expired by
the block that replaces an undone one, and for the Controller a download task
that outlives the StateMachine that started it by a whole round.

The five transactions of `mempool` have a child whose parents are confirmed in
different blocks, in both orders, and a subtree that a double spend removes;
four events suffice to accept a family and to mine, replace or evict a part of
it in the middle of a task.  In `requests` the second item of a batch has to wait
for the first one when that goes to bitcoind, so that a pause, a timeout, a kill,
a lost connection and a disconnect can meet in one batch.  The run has been made
with two connections as well (4.8 million states, no error); it is kept at one
for the time it takes.  With two clients the state space is out of reach; what
two clients share is the pool's counter and the per-ip counters, which the step
between counting and rejecting (`JobRejected`, `BatchDestroyed`) and the other
clients' share of the batch limit stand for.  For any number of clients there is
the proof (section 4).

`CHECK_DEADLOCK FALSE` is used in the Controller's runs because the program
really ends: after `Fatal()` nothing more happens; and in `requests` because the
number of requests is bounded, and after the last one nothing is left to do.

### Fairness

`FairSpec` assumes weak fairness of the Controller's event loop (queued calls,
expired timers), of the task threads (a request is answered, or fails), of the
reconnection of BitcoinDMgr (a timer retries for ever) and of a start after a
stop.  No fairness is assumed of bitcoind's best chain, of faults or of stops.
Faults are bounded, so `Converges` speaks of what happens after the last one.

`MempoolSync` assumes that its own steps, as opposed to bitcoind's, go on: the
Controller's thread and the tasks do not stop.  Some such step is always enabled
(deadlock is checked), so `[]<><<Step>>_vars` is weak fairness of their disjunction.
Events at bitcoind and failed requests are bounded, and `CatchesUp` speaks of what
follows the last one.

`requests` has no fairness and no temporal property: with 1.9 million states they
cannot be checked in reasonable time.  That something ends is stated as an
invariant instead, namely that what will end it is always there: a queued event, a
running timer, or an entry in the table the timeout checker goes through
(`PendingWillEnd`, `WaitersWillBeWoken`).

### What the violated runs show

* `controller_announce`: when getblockchaininfo fails between the last added block
  and the round that would announce it - or a zmq hashblock notification starts
  that round - the next round is silent, finds everything up to date and emits
  neither `upToDate` nor `newHeader`, against the comment in `Controller.h`.
* `controller_stale`: a block put by a task of an earlier round, on a branch that
  bitcoind has left, is added at a height below the undo window of the present
  round; the rewind then fails although bitcoind replaced no more than `max_reorg`
  blocks.
* `txhash_height`: the guard of `blocksLock` in
  `txHashesForBlockInBitcoindMemoryOrder` is a temporary.  A thread that read the
  hashes of a block inserts them after the block was undone; the entry is then
  answered for the block that took its place.
* `merkle_throws`: for a `cp_height + 1` that is a multiple of the segment length
  and below the cached length, `levelFor` asks for an empty range of headers,
  which is an error.  No wrong proof is ever answered (`merkle_serve`).

`CacheIsRight` has a condition: no thread has stored the result of a search that a
block overtook.  It is needed, since `blake2bActivationHeight` searches and
stores with no lock over both: with an empty cache (after a reorg across the
first v2 header, or with a new database) a thread may find no v2 header, the
first one is added, and the thread stores "none".

`LastToldIsCurrent` compares the last status a client was sent with the present one,
as a client believes its last message.  It has three conditions; the model
reaches each case, and TLC finds a violation without either of the first two.

* `crossed`: a notification may reach the client's thread while its subscribe
  request is still being answered, with a status that was read before (the race
  that a comment at `Servers.cpp:1957` describes); or the cached status is
  answered at once while an older notification is still queued.  The client may
  be left with the older one.
* `overtaken`: a pool thread may store, in a Subscription whose clients have all
  left, a status computed before a change that `doNotifyAllPending` has handled by
  then.  The next client is answered with it.
* A client that attaches to a Subscription which `removeZombies` took out of the
  table after `getOrMakeSubRef` had found it is told nothing any more; the property
  speaks of the Subscription in the table.

In the first two cases the next change whose status differs from the last one
notified puts things right, which is what `SubsMgr.h:70-72` counts on; without such
a change the client keeps the old status.

`UncleanStopIsRewound` has one gap, named `rewind = "lost"`: the constructor of
`LatchFile` removes the file it found before it creates it anew
(`App.cpp:361-365`).  A start that follows an unclean stop and is stopped between
the two leaves no file, and the start after it does not undo any block.

Facts that came out of `MempoolSync`, each of which a property allows for by name:

* `NobodyMissesAChange` has `lost`.  A `ConsistencyError` clears the mempool
  (`SynchMempoolTask.cpp:275`) and with it what was there before the task, whose
  script hashes are not among the affected ones; comments at lines 80 and 108
  count on the set being complete.  It is reachable: transactions that the same
  reply dropped are still in the set the precache consults, so that the child of a
  transaction which was just mined passes there and fails in `addNewTxs`.  And
  `addBlock` takes the confirmed transactions out of the mempool before it
  verifies the header (`Storage.cpp:3681`); when it throws, nobody is told.
* `DspsCoverDescendants` has `evicted`.  A descendant that bitcoind evicted when it
  answered getdsproof and accepted again before its next mempool list is taken
  stays in our mempool all the time, and is never linked to the proof.

Facts that came out of `ClientRequests`:

* The promise of `BitcoinD.h:100-112` holds: one callback, once, and everything is
  cleaned up.  It rests on the timeout checker more than the comments say.  A
  socket that is connected again has the status Connected, and the `needAuth` of
  the session before, until `on_connected` runs.  In that window `getBitcoinD` may
  choose it, and `sendRequest` has no receiver.  A socket lost in that window
  sends no `lostConnection`, so that it stays in `goodSet`; `isGood` keeps it from
  being used.
* `PerIPData::bdReqCtr` is commented as the requests "active right now"
  (`Servers.h:697`).  It is lowered in the callbacks, which do not run for a client
  that is gone, so the count of an address keeps the requests of such clients
  for as long as another client holds on to its `PerIPData`.  `CountersAreExact`
  says that it is exact until a client leaves with a request at bitcoind
  (`LeftBehind`), and never too low after that; that it is not exact then is a
  disagreement with the comment.
* An error that drops the client is sent at once, past the batch it belongs to: the
  only way an item of a batch is answered alone (`BatchIsWhole`).

Two further facts came out of the Controller's model.  Catching up over more
than `max_reorg` blocks leaves undo records below and above unsaved heights for
a while, which a comment in `loadCheckEarliestUndo` calls impossible; the
start-up code copes (`ContiguousUndos`), and `UndoWindowIsExact` shows that a
finished round is not affected.  And a finished round does not always have
`max_reorg` records.  Records are not saved while bitcoind reports its initial
download and the headers are far ahead (`Controller.cpp:1214-1216`).  A round that
brings us to the tip bitcoind had then leaves no record at all, and bitcoind ends
that report at a tip less than a day old, some 144 blocks below its headers: the
rounds that follow end with a short window until `max_reorg` more blocks were
added.  `bare` is the last height without a record for that reason, and
`UndoWindowIsExact` says that the window is exact above it.  After bitcoind's chain
got shorter, or a crash took blocks back, the window is shorter too until it has
grown again: the records that expired are gone (`cut`).

`merkle_serve` has one client thread: calls hold the cache's lock exclusively
from the first read to the answer, so that a second thread adds only calls
before and after, which one thread makes too.  The properties compare the cache
with `Tree`, a definition of the merkle tree that knows nothing of rows, segments
or vectors: `Tree(leaves)[k][s]` is the hash of the 2^k leaves from `s` on.
`LevelIsRight` holds at every moment, also while a block is half added or undone:
the records that the cache has in excess are still in the database until the
batch is written, which is after `truncate`.

## 4. Proofs

`ChainStoreProofs` proves, for every block tree satisfying the assumptions
`BlockTree`, `LedgerTruth` and `Limits`, every set of undo depths and every bound:
`TypeOK`, `IndexIsReplay`, `UndoMatchesChain`, `NeverCorrupt` and
`CopiesMatchDatabase` are invariants of `Spec`.  The copies are the header
verifier's tip and height, `blkInfos`, `txNumNext` and `utxoCt`.
`earliestUndoHeight` is not one of them: after a gap in the undo records a restart
drops the records below the gap and loads a larger value.  What it is for is
stated separately (`EveryUndoWillExpire`).

None of them is inductive by itself.  `IndexIsReplay` needs the undo records to
be right (an undo restores what the record says), `UndoMatchesChain` needs the
memory copies (`txNumNext` goes into the record), and `NeverCorrupt` needs all
of them.  The inductive invariant `IInv` is their conjunction; the proof has one
step per action, with lemmas for what appending a block and applying an undo
record do to a database that is a replay (`AddedDb`, `UndoneDb`), and for what
startup's trimming keeps.  The key fact is in `LedgerTruth`: a block spends only
what its parent left and creates what its parent did not have, so that
`(U \ Spends) \cup Creates` is undone by `(U' \cup Spends) \ Creates`.

The second half of `ChainStoreProofs` builds on `IInv`, under the same assumptions:

- `AnnouncedIsDurable`, from the invariant `DInv`.  It is not inductive, because a
  crash replaces `db` by any member of `durable`: `DInv` adds that the present
  database is one of these states, and that each of them has a prefix of the
  present chain (only addBlock may leave writes unsynced; an undo always syncs).
  addBlock extends the present chain and keeps every prefix a prefix; an undo, a
  notified block, the closing of the database and a crash leave one state, and it
  stays the only one until the database is open again.
- `UncleanStopIsRewound`, from `LInv`: the file is there whenever the database may
  be open, and a rewind that is owed is remembered by the file while no process
  runs, and by the flag that was read from it while a start is under way.  A start
  that fails must leave the file if it was there (`suppressFileDeletion`).
- `EveryUndoWillExpire`, from `EInv`.  A record that is older than the window (one
  that addBlock has not deleted, as the window moved past it without expiring it)
  could come back into the window by undos.  It does not, because a block without
  a record lies between, and no undo goes below it (`Sheltered`).
- `UtxoCtIsExact`, from `CInv`, which adds that the sets counted are finite.  It
  needs `IInv`: a block's outputs are new to the set and the spent ones are in it
  only because the set is the replay of the chain, and an undo gives back the
  right number only because its record describes the tip.
- `ImplementsHeaderChain`: the initial states map to initial states, and under
  `IInv` and `DInv` each step maps to a step or a stutter.  addBlock is `Extend`,
  both undos are `Retract`, a start is `Open`, a crash is `Lose(n)` with `n` the
  length of the prefix that `DInv` provides.  The lemmas `AddedUndoHeights` and
  `TrimmedHeights` show that expiring and trimming records does to their heights
  what the abstract actions say.  So what is checked of the Controller is checked
  against an interface that the database provably has.

`ControllerProofs` has, for every block tree, every behaviour of bitcoind, every
number of tasks, faults and headers: `CtlTypeOK`, `AppendsAtTip` and
`NeverStalls`. `IInv` joins them to what they need: a task's record fits its kind
(`TasksAreKept`), a download begins past the tip and ends where it was told to
(`Targets`), and `Moves`, which is `NeverStalls` state by state with the slots
made explicit.  The one lengthy step is the start of a download: that the parts
given to the tasks cover all missing heights rests on the slots being numbered
without gaps (`RanksAreFilled`), proved by a least counterexample.
`UndoWindowIsExact` is proved under one hypothesis: `max_reorg` has one value (a
restart with a larger one leaves a window that cannot be full).  Its invariant
`WInv` says that some height `T` bounds all downloads so far, that bitcoind has
not been reported below `T`, and that heights above `bare` and within `max_reorg`
of `T` have their records (`NothingMissing`); and that while records are
suppressed there are none at all, so that every record lies above `bare`
(`Bareness`).

`TxHashProofs` has `NumCacheIsRight` and `PosAnswersAreRight` for every set of
blocks, any number of threads and every cache size.  The invariant says what a
thread knows at each program point: with `blocksLock` held, the counts it has read
are those of the database, and what it is about to insert is what the database
has.  The entries of both caches have to be followed together, because the cache
by height (which may be wrong, see `txhash_height`) is filled under the same
locks.

`ActivationProofs` has `SearchIsRight` and `CacheIsRight` for any number of
threads and headers.  The invariant of the search is the usual one, v1 below the
interval and v2 at its end, for searches that no block overtook
(`SearchesAreOnTrack`); the cache needs that v1 headers come before v2 headers
through every undo (`Monotone`), and what a writer between two steps has already
done (`CacheFollows`).

`MerkleProofs` has `LevelIsRight` and `AnswersAreRight` for any number of headers,
of client threads, of blocks added and undone.  It has two parts:

- The pure functions.  `Pow2`, `Tree`, the vector of the loop in branchAndRoot
  (`Turns`) and what a client computes (`RootFromBranch`) are recursive functions
  on the naturals; that they have the values their equations say, and what these
  values are, is shown by induction in the form "a set that has 0, and n + 1 with
  n, is `Nat`" (`Induction`, from the least element of a set of numbers). After i
  turns the vector is row i of the tree, its last hash repeated when their number
  is odd (`TurnsAreRows`); the length of the branch is the least depth that covers
  the leaves.  So `BranchAndRootIsProof`: branch and root are a proof.  The lemma
  behind everything about segments is `NodesOfWindows`: two lists that agree on a
  window of 2^k leaves, and in where they end inside it, have the same node over
  it.  From it, Merkle::level gives the row of a list (`LevelOfIsRow`), the tree
  over a row is the upper part of the tree over the leaves (`TreeOverRow`), and
  the branch within a segment followed by the branch in the row is the branch in
  the tree (`BranchAndRootFromLevelIsProof`).
- The cache.  `LevelIsRight` is not inductive.  `IInv` adds how far the record
  array and the database may differ in each step of addBlock and undoLatestBlock
  (`HeadersOK`); that the cache knows no more headers than the record array except
  between the shortening of the array and `truncate` (`CacheOK`); that a client
  thread past the lock holds it; and that the leaves it has read are those of its
  segment and will outlive an undo that has passed `truncate` (`Fetched`).
  Extending the cache replaces the level from the last whole segment on by the
  level of what was read (`RowExtended`); truncating cuts it at a whole segment
  (`RowTruncated`), which is why the length is rounded down there: an entry of the
  level that stands for a part of a segment is right for one length only.  An
  answer then comes from a right row and the right leaves, either those of a tree
  smaller than a segment, or of the cached level, or of the level that levelFor
  computes for a shorter tree.

`SubsProofs` has `SubsTypeOK`, `PendingWillBeTaken` and `LastToldIsCurrent` for any
number of script hashes, of clients, of Subscription objects and of changes,
provided there are two statuses.  `PendingWillBeTaken` is nearly inductive.  `LastToldIsCurrent` is a
statement about quiet states only, and says nothing while something is going on;
the invariant follows each change from `affected` to `pending` to the notifier
(`ChangesAreKept`), the status a request has read but not stored
(`RequestsAreKept`), the cached and the last notified status of an object
(`CacheFollows`), and the last message of each client (`ClientsFollow`): after a
notification it is what that said, and no answer is to come (`Notified`); before
the first one it is, or is about to be, the status of a version that is not
older than what the notifier has taken (`UpToDate`).

`RequestsProofs` has all invariants of `requests`, for any number of clients, of
connections and of requests, batches of every size and all limits: `TypeOK`,
`AnsweredOnce`, `BatchIsWhole`, `PendingWillEnd`, `ContextsAreReleased`,
`CountersAreExact` and `WaitersWillBeWoken`.  TLC cannot check two clients; the
proof closes that gap, above all for the counters clients share.  It has three
layers:

- `Way` says where a request may be: which events for it can be queued, for its
  owner only and how often, when its context is attached, in the table, released
  (`Path`).  It is inductive by itself, but for an item of a batch having no route
  before it is taken.  `PendingWillEnd` and `ContextsAreReleased` are parts of it.
- `Answers` adds `Owed`: the answer to a request is still to come.  What is owed
  has not been given to anybody; each `Deliver` takes the debt away and no step
  restores it.  That gives one answer at most, and with it that a batch which has
  as many responses as items has the response of each item (a count, by
  `MembersAreCounted`), so that a batch is sent whole.
- `CountersAreExact` is a consequence of `Counts`, where the counter of the
  address counts what clients left behind as well; each step keeps it by adding or
  removing one element of a finite set; that `nExtantBatchRequests` comes down by
  the size of the batch needs that the batches of two clients share no request,
  and that it holds no request twice.  `WaitersWillBeWoken` is inductive by
  itself.

`MempoolProofs` has all invariants of `mempool`, for any set of transactions and
outputs, any number of proofs and redone rounds, and a bitcoind that moves on
without end: `TypeOK`, `MempoolIsExact`, `SyncedIsConsistent`, `NobodyMissesAChange`
and `DspsCoverDescendants`.

- The vectors.  A sequence that has the members of a set once each, ordered by a
  relation that never holds both ways, is the only one (`OneOrder`).  `Sorted` is
  such a sequence for `Tx::operator<`, and so is what `Filtered` leaves of it:
  taking elements out of a vector gives the vector that sorting would, as long as
  nobody who stays changes its place.
- The operations.  `Exact(m)` is `MempoolIsExact` of a value.  addNewTxs keeps it
  when nothing that was there spends from what is new; dropTxs when there is no
  conflict, since an output is given back to its parent only if nobody else spends
  it; confirmedInBlock when nothing in the block spends from what stays, whose
  children it would have to lose.
- These conditions are facts about the tasks, and need the invariant.  A block
  spends from blocks below it and from itself, and our mempool shares nothing with
  our blocks, so the third holds.  For the first, what a task adds must not be
  confirmed in our blocks.  No step of the task looks that up as such: it holds
  because a confirmed transaction would spend what is no longer unspent in the
  database, so that the precache finds it missing, unless its parent is new and
  confirmed as well; and since transactions do not spend in a circle, one of them
  has no such parent.
- `SyncedIsConsistent` needs that bitcoind's pool fits its chain and our blocks are
  the beginning of that chain when the list is made: then what stays in our mempool
  spends nothing that our blocks spend.  Nothing of ours changes until the
  task ends.
- `NobodyMissesAChange` follows from the vectors: for a script hash that an
  operation does not report, vector and unconfirmed parents stay what they were.
- `DspsCoverDescendants` is not inductive.  `Covers` is: a linked transaction's
  child in the mempool is linked or was evicted.  That what is linked descends
  within our mempool follows from the mempool being fed by itself and by our
  blocks only.

Constants have only the assumptions named in their modules.  Those that were added
for the proofs state what the program's types and constants give: a block has a
largest size, undo depths and header bounds are natural numbers, the ids of
requests that occur are finitely many, no client is called `None`, an output is
created once, and no transactions spend from each other in a circle.

Only model-checked: liveness under fairness (`Converges`, `CatchesUp`), which this
prover does not do.

## 5. Not modelled, and the plan

Not modelled in what exists: the RPA index and its download, the slow checks
(`-C`), the upgrade of Fulcrum 1.x databases, throttling and statistics of the
Controller, the managers of double spend proof and transaction subscriptions,
ignored MWEB transactions of Litecoin, two mempool tasks at the same time (one
may survive its StateMachine), authentication failures and shutdown of
BitcoinDMgr, the method handlers of the servers (they parse arguments and query
Storage), connection limits, the shutdown of the thread pool, formats and
parsing, sockets, logging, configuration.  Vendored code (`src/bitcoin`,
`src/ankerl`, `src/zmq`, `src/Json/simdjson`, `staticlibs`), which is most of the
lines of the repository, is taken as given.

Left for later, in order of importance:

1. `CoTask`: the hand-over of a job between two threads; no lost wake-up, no job
   executed twice.
2. `Peers`: the queue, the bad and the failed peers, the retry timers.
3. `RecordArray`: buckets, truncation inside a bucket, what a reopened array
   accepts; refines the record count that the other modules use.
4. `BlockProc`: `PreProcessedBlock::fill` as an operator against a reference
   definition of the outputs a block spends and creates.
5. The subscriptions of double spend proofs and transactions, which unsubscribe
   their clients themselves.

Theorems: every safety invariant, every action property and the refinement that a
passing run checks is proved.  What is left to TLC is liveness.
