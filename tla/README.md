# FASIMITO-BCOS: TLA+ verification project

FASIMITO-BCOS is a permissioned block chain node derived from FISCO-BCOS. The
heart of a node is its consensus layer, PBFT or Raft: an engine thread, a sealer
thread, and a block chain they append to. Beside it a sync thread downloads blocks
and exchanges transactions, a pool keeps transactions and their nonces, a block
verifier executes a block in parallel, and a write-behind storage keeps the result.
This directory holds TLA+ models of these parts, the TLC runs that check them on
small instances, and TLAPS proofs of the main results for all instances.

## 1. Inventory of the system

| Component | State | Operations | Interaction | What makes it correct |
|---|---|---|---|---|
| `libconsensus/pbft/PBFTEngine` | `m_view`, `m_toView`, `m_leaderFailed`, `m_consensusBlockNumber`, `m_highestBlock`, the backup database | handlers of prepare, sign, commit and view change requests, `checkTimeout`, `handleFutureBlock`, `collectGarbage`, `reportBlock`, `shouldSeal`, `generatePrepare` | called by the engine thread, the sealer thread (`reportBlock`, `generatePrepare`) and P2P callbacks; calls block chain, block sync, transaction pool | no fork; a commit vote binds across crashes; progress past a silent leader |
| `libconsensus/pbft/PBFTReqCache` | raw, executed and committed prepare, sign, commit, view change and future prepare caches | add, size, garbage collection, `triggerViewChange`, `canTriggerViewChange` | owned by the engine | quorums of one view and one block; bounded caches |
| `libconsensus/Sealer`, `pbft/PBFTSealer` | `m_sealing`, `m_syncBlock`, `m_maxBlockCanSeal`, `m_lastTimeoutTx`, `m_maxNoTimeoutTx` | `doWork`, `reportNewBlock`, `handleBlock`, resets on view change and for the next leader, adaptive block size | locks `x_sealing` around calls into the engine; called back by the engine | one block per height and view; no deadlock with the engine; block size recovers |
| `libconsensus/raft` | role, term, `m_firstVote`, `m_vote`, uncommitted block, acknowledgements | elections with a first-vote round, heartbeats, commit through a condition variable | engine thread and sealer thread share `m_commitMutex` | terms never fall behind the last leader, a leader yields only upwards, a thread that waits for a commit has a block, committed blocks on a majority |
| `libblockchain/BlockChainImp` | chain, `m_blockNumber`, block cache | `commitBlock`, `number`, `numberHash` | called by consensus and sync threads | only children of the tip are appended |
| `libsync` (blocks) | peers' status, `m_maxRequestNumber`, request time, downloading queue and its buffer | `maintainPeersStatus`, `maintainDownloadingQueue`, answers to requests | P2P callbacks fill the buffer, the sync thread drains it and commits blocks | a node that is behind catches up; queues stay bounded |
| `libsync` (transactions) | transaction buffer, known-by sets | `maintainTransactions`, `maintainDownloadingTransactions` | P2P callbacks, transaction pool | what was sent stays marked as sent |
| `libtxpool` | queue, hash index, dropped set, nonce caches | `import`, `drop`, `dropBlockTrans`, `topTransactions`, nonce windows | RPC, sync, sealer and consensus threads | no transaction is executed twice; bounds hold |
| `libblockverifier` | dependency graph, in-degrees, ready queue | `TxDAG::init`, `executeUnit`, `DAG::consume` | a pool of threads | the result equals serial execution |
| `libstorage` | `CachedStorage` caches and commit queue, tables, back ends | select, commit, flush, LRU eviction | execution, block chain, flush thread | a read sees the last commit; a crash loses a suffix only |
| `libnetwork`, `libp2p` | sessions, sequence callbacks | connect, send, receive, timeouts | everything above | to the layers above: an unreliable network |
| `libchannelserver`, `librpc`, `libledger`, `libinitializer` | sessions, configuration | requests, start-up | transaction pool, chain | I/O and wiring |
| `libexecutive`, `libevm`, `libinterpreter`, `libprecompiled`, `libstoragestate`, `libmptstate` | world state | transaction execution | block verifier | determinism |
| `libdevcore`, `libdevcrypto`, `libethcore`, `libsecurity`, `evmc`, tools | - | utilities, encodings, cryptography | - | - |

What is hard here: the threads of a node move the same chain, pool and caches, with
a lock for each and none for all; requests are lost, repeated and come out of order, before the prepare they
belong to and in views the receiver has left or not yet reached; a process may die
between writing its lock and voting; the leader may be off; a faulty sealer may
vote for everything. `PROJECT.json` lists these hazards line by line.

## 2. Modules

| Module | Models | Extends |
|---|---|---|
| `SealerGroup` | sealers, `m_f`, `minValidNodes`, blocks | - |
| `BlockAgreement` | what consensus promises: votes and decisions | `SealerGroup` |
| `PBFTReqCache` | `PBFTReqCache.h/.cpp`, operator by operator | `SealerGroup` |
| `PBFTEngine` | `PBFTEngine.h/.cpp` for a whole group, with the parts of `Sealer`, `BlockChainImp` and `SyncMaster` that drive it | `PBFTReqCache`; instantiates `BlockAgreement` |
| `PBFTSealer` | `Sealer.cpp`, `PBFTSealer.h/.cpp`: the threads of one node and their locks | - |
| `RaftEngine` | `RaftEngine.cpp`, `RaftSealer.cpp` for a whole group | - |
| `BlockSync` | `SyncMaster.cpp`, `SyncMsgEngine.cpp`, `DownloadingBlockQueue.cpp`, `RspBlockReq.cpp`, `SyncStatus.cpp` | - |
| `TxPool` | `TxPool.cpp`, both nonce checks, `DownloadingTxsQueue.cpp`, the transaction part of `SyncMaster.cpp` | - |
| `OrderedExecution` | what the execution of a block promises: conflicting transactions in order, each once | - |
| `TxDAG` | `DAG.h/.cpp`, `TxDAG.h/.cpp`, the loop of `BlockVerifier::parallelExecuteBlock` | `OrderedExecution`, which it also instantiates |
| `CachedStorage` | `CachedStorage.cpp` and what `RocksDBStorage.cpp` reads and writes | - |
| `MemoryTable` | `MemoryTable2.cpp`, `MemoryTableFactory2.cpp` on top of the storage | `CachedStorage` |
| `MCPBFTEngine`, `MCPBFTSealer`, `MCRaftEngine`, `MCBlockSync`, `MCTxPool`, `MCTxDAG`, `MCMemoryTable` | concrete blocks, transactions, topologies and faulty behaviours for TLC | the module they check |
| `BlockAgreementProofs` | quorum lemmas; the abstract specification has no forks | `BlockAgreement` |
| `PBFTEngineProofs` | types, agreement, durability of votes, refinement, and what votes, blocks, locks and views rest on | `PBFTEngine`, `BlockAgreementProofs` |
| `PBFTSealerProofs` | types, no lock cycle, nothing sealed or proposed twice | `PBFTSealer` |
| `RaftEngineProofs` | terms, roles and the waiting thread | `RaftEngine` |
| `BlockSyncProofs` | the chain a node downloads, types, the bound of the queue, what a response keeps | `BlockSync` |
| `TxPoolProofs` | types, transactions stored once, nonces of the pool, marks of sent transactions | `TxPool` |
| `TxDAGProofs` | order, completeness and refinement of parallel execution | `TxDAG` |
| `MemoryTableProofs` | types, what a crash can lose, what a select shows, the order of rows, what a rollback restores | `MemoryTable` |

### State and actions of `PBFTEngine`

`node[n]` is the process of sealer `n`: a record with the engine's members
(`view`, `toView`, `leaderFailed`, `consNum`, `highest`, `cache`), the sealing
block (`sealed`, `sealNum`), what is on disk (`tip`, `chain`, `backup`) and what
the node has sent (`sent`). The network is the set of everything sent: a request
in it may be delivered any number of times, at any time, to anyone, or never.

| Action | Code |
|---|---|
| `HandlePrepare`, `HandleSign`, `HandleCommit`, `HandleViewChange` | `handleMsg` and the handler, with everything the handler calls: `execBlock`, `notifySealing`, `broadcastSignReq`, `checkAndCommit`, `backupMsg`, `broadcastCommitReq`, `checkAndSave`, `commitBlock` |
| `Timeout` | `checkTimeout` and the `onViewChange` callback |
| `HandleFuture`, `CollectGarbage` | `handleFutureBlock`, `collectGarbage` |
| `ReportBlock` | `Sealer::reportNewBlock` with `reportBlock` |
| `Seal` | `Sealer::doWork`, `PBFTSealer::handleBlock`, `generatePrepare` |
| `RehandleCommitted` | `shouldSeal` with `rehandleCommitedPrepareCache` |
| `SyncBlock` | `maintainDownloadingQueue`: `checkBlock`, `commitBlock` |
| `Crash`, `CrashInCheckAndCommit` | the process dies, also between `backupMsg` and `broadcastCommitReq`, and restarts with `initBackupDB`, `reloadMsg` |

Each handler runs under `m_mutex`, so it is one action. `commitBlock` by the
engine and `reportBlock` by the sealer thread are separate actions: between them
the engine works with a stale `m_highestBlock`, as in the code.

### State and actions of `TxDAG`

`tx[i]` is what `getTxCriticals` returns for transaction `i` (nothing: a normal
transaction, or a list of critical fields), `status[i]` whether it waits, runs, is
done or has thrown. `latest` and `latestAll` are `CriticalField`, `edges`,
`inDegree` and `topLevel` the graph and its queue, `thread[t]` the place and the
locals of a thread of `tbb::parallel_for`.

| Action | Code |
|---|---|
| `AddTx` | one turn of the loop of `TxDAG::init`: `getTxCriticals`, `addEdge`, `update` or `setCriticalAll` |
| `ScanVertex` | one turn of the loop of `DAG::generate` |
| `CheckFinished` | `while (!hasFinished())` |
| `WaitPop`, `WaitPopTimeout` | `waitPop` with and without a result |
| `StartTx`, `FinishTx`, `ThrowTx` | `executeUnit`: the counter, `f_executeTx` and its two ends |
| `ReleaseEdge`, `FinishConsume` | one turn of the loop of `consume`, and its return |

`fetch_sub` and the push that follows it are one step: after the last `fetch_sub`
nobody else touches that vertex, and a queue that is filled later is a step taken
later. `hasFinished` reads `m_exeCnt` without its lock; the read is of an aligned
word, and as the counter only grows an old value only means another turn.
`m_totalConsume` and the condition variable shorten the wait of `waitPop` and leave
no trace. Threads of `parallel_for` that start late are threads that step late.

### State and actions of `PBFTSealer`

One node; the other sealers are the environment. `sealing` is `m_sealing`, `engine`
the engine's members and caches the sealer meets, `mutex` and `xsealing` the two
locks, `pc` and `local` the place and the locals of the three threads. `prepares`,
`again` (blocks that were reported twice) and `ahead` (blocks begun while the chain was
ahead of the engine) are history.

| Action | Code |
|---|---|
| `reportNewBlock`, `reportBlock`, `resetSealing` | `Sealer::reportNewBlock` up to the engine's lock, `reportBlock` under it, `resetSealing` after it |
| `checkShouldSeal`, `doWork`, `handleBlock` | the rest of `Sealer::doWork`, with `loadTransactions` |
| `rehandleCommitedPrepareCache`, `generatePrepare` | the sealer thread inside the engine |
| `handlePrepareMsg`, `resetBlockForNextLeader`, `checkAndCommit`, `checkAndSave` | the engine's worker on a prepare and its quorums, with `notifySealing` |
| `checkTimeout`, `fastViewChange`, `checkAndChangeView`, `resetBlockForViewChange` | view changes and their callback |
| `onBlockChanged`, `dropHandledTransactions` | what follows a stored block, on the thread that stored it |
| `Download`, `commitDownloaded`, `dropDownloaded` | the sync thread |

`PBFTEngine` takes these sequences as atomic; `PBFTSealer` is what justifies that, for
the order of prepares and for the locks.

### State and actions of `RaftEngine`

`node[n]` holds the members of `RaftEngine` (role, terms, first vote, votes,
uncommitted block, acknowledgements), the sealer thread's place in `commit()` and the
chain on disk. `net` is the set of packets under way; a packet is delivered at most
once, may be overtaken, and without `KeepLate` is lost when a newer one takes its link (bound).

| Action | Code |
|---|---|
| `HandleVoteRequest`, `HandleVoteResponse`, `RunAsCandidate` | `handleVoteRequest`, `handleVoteResponse`, the start of `runAsCandidate` |
| `FollowerTimeout`, `CandidateTimeout`, `HeartbeatTimeout` | the timeouts of the three loops, with `m_term--` of the candidate |
| `RunAsLeader`, `BroadcastHeartbeat`, `HandleHeartbeat`, `HandleHeartbeatResp`, `IgnoreResponse` | the leader's loop and both ends of a heartbeat, with `tryCommitUncommitedBlock` up to `ul.unlock()` |
| `ReportHighest`, `ReportBlock` | the `reportBlock(m_uncommittedBlock)` that follows the unlock: under `m_mutex`, then under `m_commitMutex` |
| `Seal`, `Commit`, `Wake`, `StoreSealed`, `ReportNewBlock`, `ForgetReported` | the sealer thread: `commit()` up to the condition variable, after it, the block it stores, and its own `reportBlock` in the same two halves |
| `SyncBlock`, `SyncPause`, `Restart` | a block from sync, a pause of the loop while syncing, the end of the process |

### State and actions of `BlockSync`

`node[n]` holds the chain, the peers' status, the request queues, the downloading
queue and its buffer, and `pc`, the call of `doWork` that comes next; `net` is a bag
of packets.

| Action | Code |
|---|---|
| `DoWork` | one call of the loop: `maintainPeersConnection`, `maintainDownloadingQueue` (top, execution and commit apart), `maintainPeersStatus`, `maintainBlocks`, `maintainBlockRequest` (one range at a time; after `enablePush` the push back of the rest, `PushBack`, is a step of its own) |
| `Deliver` | the handler of a status, request or blocks packet |
| `ExecBlock`, `StoreBlock`, `GiveUpBlock` | the consensus thread stores a block, or gives it up |
| `StatusTimeout`, `RequestTimeout`, `LateTimeout` | the timers; `LateTimeout` comes before the answer |
| `Lose`, `Leave` | a packet is lost, a node goes off |

### State and actions of `TxPool`

`pool` is the queue, the dropped set, the pool's nonces and the known-by marks,
`check` the window of the chain's nonces, `thread` the place of the engine and sync
threads between the locks of `dropBlockTrans`, `sent` history.

| Action | Code |
|---|---|
| `Submit`, `onPeerTransactions`, `Pop2TxPool`, `ImportNext`, `setTransactionsAreKnownBy` | a transaction of a client, a packet of a peer, its way through the buffer into the pool |
| `FetchUnsent`, `maintainTransactions` | choice and sending of transactions, in two steps as the locks are |
| `Seal` | `topTransactions` for a block |
| `commitBlock`, `UpdateCache`, `dropTransactions`, `removeBlockKnowTrans`, `delCache` | a stored block and the steps of `dropBlockTrans`, on either thread |
| `Download`, `Restart` | the sync state, the end of the process |

### State and actions of `CachedStorage` and `MemoryTable`

`caches` maps keys to cache objects, `obj` holds the objects (a thread may hold one
that is no longer in `caches`), `queue` the tasks of the flush thread, `backend` what
is on disk, `table` and `log` the dirty rows, new rows and change log of the block that
is executed. `blocks` and `tainted` are history: `blocks` the rows after each committed
block, `tainted` the keys that one of the races and crashes of section 3 has reached. For the
latter `backend.ahead` keeps, per key, the last block whose changes the rows on disk may
already have; it stays until that block is on disk itself, since with `m_maxForwardBlock` of
two or more several blocks may be flushed in between.

| Action | Code |
|---|---|
| `insert`, `insertForced`, `update`, `remove`, `rollback`, `commitTransaction` | `MemoryTable2` and the factory's change log |
| `DropBlock`, `commitDB` | a block that is not committed, `commitDB` |
| `TouchRow`, `WriteDirty`, `WriteNew`, `SubmitTask`, `CommitReturns` | `CachedStorage::commit`, row by row: look up, lock and write; the task; the wait |
| `SelectTouch`, `SelectRows` | a reader looks its object up, then locks and reads or loads it |
| `commitBackend`, `checkAndClear` | the flush thread and the clear thread |
| `Restart` | the end of the process and `init()` |

### Abstractions

* Time: a timeout may come at any moment. `TimeManager`'s back-off and
  `changeViewForFastViewChange`, which makes a timeout due at once, leave no trace.
* A block is a model value with a number and a parent. Raw and executed block are
  the same value, since execution is deterministic; a block that `checkBlockValid`
  refuses is modelled, other exceptions of the execution are not.
* A signature is a pair of its signer and a number below `SigNum`: `dev::verify` takes any
  valid signature, so a signer may have several of one block, and the caches keep and count
  entries by signature (`sigHex`), as the code does. Correct sealers sign with `dev::sign`,
  which always gives the same one. (Guomi builds sign with random nonces; that a correct
  sealer has several signatures of a block is not covered.)
* Faulty sealers: `FaultyMessage` is any set of requests, in any sealer's name. The code ties
  neither the packet type nor the claimed index to what is signed (`Common.h:237-242`), and
  `checkBlock` (`PBFTEngine.cpp:579-607`) checks each signature of a list but not that the
  signers differ. That no sealer counts twice is therefore an assumption with a name,
  `OneSignatureEach`: requests that no correct sealer sent are in the name of a faulty one and
  carry one signature per sealer. What rests on it says so; what does not counts signatures.
* Requests dropped while `isSyncingHigherBlock`, by the TTL or by a failed
  broadcast are messages that are lost. The unicast answer of `catchupView` may be
  delivered to anybody, which allows more behaviours than the code.
* Blocks reach a node by sync only from chains of correct peers, and pass `checkBlock`.
* The sealer list is fixed. The start-up window before the first `reportBlock`, the
  view map, `m_broadCastCache` and `m_notifyNextLeaderSeal` (which lets the next
  leader collect transactions early; only the number of the sealing block is kept)
  are left out.
* Raft: timers have no length; `m_leader` and `m_vote` are written and never read.
* `BlockSync`: the RLP of a block is its `weight`; `fp_isConsensusOk` is membership in
  `Sealed`. The heaps are sequences in order; which of two blocks of one number is on top is
  left open (`Tops`). That there is one such block per height is what the PBFT modules show.
* `TxPool`: blocks of other nodes (`ForeignBlock`) hold no transaction that is already stored
  with a new nonce and respect the block limits, which is what this node promises of its own;
  `commitBlock` and `checkAndSave` do not check it. So `NoTransactionTwice` speaks of what
  this node seals. `import` is one step, although the block number, the chain's nonces and the
  pool have locks of their own: what a block changes in between it could change right after.
* `TxPool`: a block is the set of followed transactions in it; a percentage of peers is
  any non-empty choice of them. Signature checks and the order by import time are left out.
* Storage: a row is an id, a value and a status; a condition is a set of accepted
  values; hashes, authority checks, offsets, counts and capacities are left out. With the
  hashes goes `m_isDirty`, which `MemoryTable2::rollback` does not set, so that a `dump` after
  `hash()` may be the one from before the rollback (`MemoryTable2.cpp:285,351,357`). The dirty
  rows that `tbb::parallel_for` writes come one at a time, in any order. The write of the flush
  thread is taken to succeed: `RocksDBStorage.cpp:149` ignores its status, and
  `CachedStorage.cpp:753` moves `m_syncNum` in any case, so `LossBounded` is about a store
  that writes what it is given.

## 3. TLC runs

| Run | Instance | Properties | What it shows |
|---|---|---|---|
| `two_sealers` | 2 sealers, rivals, two heights, an empty block, a view change, 1 crash | `TypeOK`, `CommitVoteLocked`, `ViewNeedsRequests`, `Agreement`, `LockNeverReplaced`, `ImplementsAgreement`, `ChainNeedsCommitQuorum` | no fork, blocks rest on commit requests of one view, votes are durable, the lock holds across views and crashes, views rest on current requests, refinement of `BlockAgreement` |
| `stray_votes` | 4 sealers, faulty sealer with requests of three views, two signatures of one block and an orphan block, view change | `CommitNeedsSignQuorum`, `SignedBlockIsLeaders`, `LockExtendsChain`, `SignQuorumIsActedOn` | early and stray requests never build a quorum of signatures that did not exist, and the exact-count test misses none |
| `silent_leader` | leader off, fairness | `EveryoneStores` | progress without the leader |
| `sealer` | node 1 of 4, 2 transactions, 2 blocks, views up to 2, deadlock checked | `TypeOK`, `AgreedOnce`, `OnePrepare`, `NoLockCycle` | the threads never block each other for ever; filter and resets do their job |
| `raft_terms` | 3 nodes, two without a session, terms up to 2, 1 restart | `TypeOK`, `TermAheadOfLastLeader`, `LeaderYieldsUpward`, `LastLeaderTermGrows` | term roll-back, restarts and stale packets keep terms and roles in order |
| `raft_commit` | 2 nodes with rival blocks, leadership that comes back | `NoStrandedFollower`, `StrandedByReport` | a waiting sealer thread loses its block only in the second half of `reportBlock`, and is woken when the leader steps down |
| `raft_acks` | 3 nodes, all connected, no fault | `ReadyNeedsMajority` (violated) | the finding below |
| `sync_download` | a new node and one with 3 blocks, a forged block, a late timeout, a consensus thread | `TypeOK`, `ChainIsSealed`, `RangesLostOnlyWhenFull` | only sealed blocks in order, a range lost only when the request queue is filled before the push back |
| `sync_catch_up` | 3 nodes one block apart, 1 loss, the highest may go off, fairness | `CatchesUp` | a lagging node catches up |
| `txpool` | 3 transactions of one nonce, 6 blocks, window of 3, 1 packet, 1 restart | `TypeOK`, `NoTransactionTwice`, `PooledNoncesDiffer`, `SentStaysMarked` | window, order of clean-up and marks are right |
| `txdag_order` | all blocks of 4 transactions, 2 fields, 2 threads, 1 exception, fairness | `TypeOK`, `ConflictsInOrder`, `AllRunWhenLeft`, `ImplementsOrder`, `ExecutionReturns` | order, completeness, refinement of `OrderedExecution`, and the end of every execution without an exception |
| `storage` | 1 key, 2 rows, 2 operations, 3 blocks, 1 reader beside the executor, 1 restart | `TypeOK`, `SelectsCommittedUnlessTainted`, `RowsInIdOrderUnlessTainted`, `LossBounded`, `RollbackRestores` | reads, ids, losses and rollbacks |

Bounds: `MaxView` (timeouts stop there), `MaxCrash` and `Unstable` (how often and
who crashes), `Awake` (correct sealers that take steps; the others are slow),
`MaxEarly` (early requests delivered to a node), `FutureLimit` (20, as in the
code). One view change, one crash and two rival blocks are what it takes to make
two quorums meet at a sealer that has forgotten or changed its vote; the mutants in
`PROJECT.json` show that each property is violated within these bounds when the
code is wrong in a plausible way. For the properties that are also proved, the
bounds do not matter.

`two_sealers` has no faulty sealer: a group of four with a leader that equivocates and
a crash is too large for TLC together with two heights, and what it would show is the
theorem `NodesAgree`, which holds for every group size and all requests of faulty sealers
that satisfy `OneSignatureEach`. `stray_votes` does not satisfy it, and checks no property
that needs it. `AgreementSafe` likewise stands in for a run of `BlockAgreement`.

`PBFTSealer`: two blocks and two views are what the race of a timeout with a report
needs, and as node 1 of 4 the node is next leader, leader, and leader after a view
change; `TxLimits` lets `tx_count_limit` change. `RaftEngine`: `MaxTerm[n]` (node 0 may lead
term 1, node 1 term 2, which is one take-over; in `raft_commit` node 0 may lead again, so that
it stores a block it took over while its sealer thread comes with its own), `MaxFlight`,
`MaxRestart`, `KeepLate` (`FALSE` in `raft_terms` and `raft_commit`: a packet is lost when a newer
one takes its link; `raft_acks` keeps all, and the theorems hold either way). `BlockSync`:
the second block is larger than a packet, requests are for two blocks and there are
three, so ranges are cut, pushed back and asked again; `MaxLate`, `MaxLoss`, `MaxExec`,
`Stray`, `Leaving`. `TxPool`: six blocks and a window of three let
a nonce leave the window while another transaction with that nonce is still valid and pooled. Storage: `MaxForwardBlock = 1` and three
blocks let commits run ahead of the flush; seven objects are more than can be held at once.
`RaftEngine`, `TxPool` and the storage stop at their bounds, so deadlock is not checked there.

For `TxDAG`: `TxNum`, `FieldNum`, `Criticals` (the lists of fields that occur),
`MaxThrow`. Four transactions are enough for a transaction with two predecessors
and two successors and for a chain through a normal transaction; a list that names
a field twice gives two edges between the same transactions. A run may end when all
threads have left, or be stuck after an exception (below), so deadlock is not
checked; `ExecutionReturns` says what deadlock freedom would.

Symmetry is used only for transactions and table values, in runs without liveness.

Fairness (`FairSpec`): weak fairness of each node's engine thread and of its
sealer thread. Both are `Worker` loops that keep running while the node is up and
that take the next message, or time out, when there is something to do. Nobody is
obliged to crash, to sync or to collect garbage. `MaxView = 1` stands for the
back-off of `TimeManager`: once the timeouts are long enough, views stop changing.

In `TxDAG` the fairness is weak fairness of the thread that builds the graph and of
every thread of `parallel_for`: none of them waits for more than 10 ms, so each one
steps as long as it has not left. It includes that a transaction that runs ends.

In `BlockSync` the fairness is weak fairness of the sync thread, of the delivery of
packets that are not lost and of the timers, and strong fairness of the choice of the
client a node answers (`foreachPeerRandom`), which leaves nobody out for ever.

### Finding

`raft_acks`: `tryCommitUncommitedBlock` reads an answer with an empty block hash as "I'm
the only one in sealer list, commit block without any ack" (`RaftEngine.cpp:354`). A
follower sends the same empty hash when the heartbeat it answers carried no block. If
the sealer thread hands its block over between that heartbeat and its answer, the leader
commits the block although no other node has it; the branch above is there to "ensure
that the block has been transfered to most of followers" (`:323`). In the same function
the leader's own index may be among the acknowledgements (`:825`) and is counted once
more by the `+ 1` (`:325`), so one follower fewer than a majority needs is enough.

### Behaviours to know of

The configurations named here are not in the list of runs; each gives TLC a property
that a comment suggests and that the code does not have, and yields the behaviour.

* `PBFTEarlyLost.cfg` (`EarlySignsSurvive`): `isFutureBlock` lets a signature for a coming
  view into the cache "to ensure that the signReq can reach to consensus even if the view
  has been changed" (`PBFTEngine.h:487`), but `triggerViewChange` (`PBFTReqCache.h:197`)
  clears the whole sign cache when the node enters that view. Safety is not affected; the
  node has to rely on other signatures, another view change or sync.
* `TxDAGNormal.cfg` (`NormalConflictsWithAll`): "Normal transaction: Conflict with all
  transaction" (`TxDAG.cpp:75`) does not hold for transactions with an empty critical
  list, which `DagTransferPrecompiled::getParallelTag` returns for `userBalance`: they get
  no edge and may run before or after a normal transaction of the same block.
  `OrderedExecution` takes an empty list to mean "conflicts with nothing".
* After an exception in `f_executeTx` (outside the `try` of `BlockVerifier::execute`) the
  successors of that transaction are never released and the other threads poll for
  ever: "// 30 timeout" (`BlockVerifier.cpp:223`) is only logged, the throw at the
  deadline is compiled out (`:239`). `ExecutionReturns` excludes this case.
* `SealerSecondPrepare.cfg` (`NoSecondPrepare`): the sealer thread may read the number of
  a new block before the callback that sets `m_syncBlock` for it (`BlockChainImp.cpp:1119`,
  `Sealer.cpp:72`). It then reports that block, seals and sends the next one; the late
  flag reports the same block again, `shouldResetSealing` drops the sealed block and a
  second prepare of the same height and view goes out, which is what the comment of
  `resetBlockForViewChange` wants to exclude. `OnePrepare` exempts exactly the heights
  above a block that was reported twice.
* `SealerTwice.cfg` (`NoTransactionTwice` of `PBFTSealer`): the next leader fills block
  n+2 with the filter of a prepare; another block of height n+1 is agreed on in another view
  and downloaded. The next leader keeps its block, which may hold a transaction of the
  downloaded one. `AgreedOnce` is what holds for blocks the node agreed on itself; the
  nonce check of the executing nodes is not part of this module.
* The next leader's block and a chain that is ahead of the engine: sync may store a block
  between `handlePrepareMsg` and `resetBlockForNextLeader`, which numbers the next block by
  the chain (`m_blockChain->number() + 2`) and filters it by the prepare. After two such
  blocks the sealer fills a block with transactions of a prepare that is still being voted
  on. TLC finds it in a group of three with four blocks, more than the run has; `ahead`
  records such blocks and `AgreedOnce` exempts exactly them.
* `TxPoolStaleNonce.cfg` (`SealedNoncesFresh`): "check block limit and nonce again when
  obtain transactions" (`TxPool.cpp:429`) is followed by the check of the block limit only.
  A transaction whose nonce a block took to the chain after it was pooled is sealed all the
  same. When it is stored, its nonce is forgotten with the earlier block that held it, so
  that this transaction, and only such a one, can be stored a second time within its block
  limit: `NoTransactionTwice` is about transactions whose nonce was new (`Fresh`).
* `StorageLost.cfg` (`SelectsCommitted`): a commit and a reader wait for the lock of an
  object the clear thread removes. The reader comes first, reloads the object and marks
  it not empty; the commit then takes it for a live one, skips `restoreCache` (which is
  there because "the data will lost", `CachedStorage.cpp:699`) and writes into an object
  no longer in `m_caches`: until it is flushed and loaded again, selects show old rows.
* Raft, a sealer thread left waiting: when the leader stores a block it took over from an
  earlier leader, `tryCommitUncommitedBlock` unlocks `m_commitMutex` and only then calls
  `reportBlock(m_uncommittedBlock)` (`RaftEngine.cpp:344-346`, `:371-373`). A sealer thread
  that waits at `:1438` may publish its block in between; `reportBlock`, whose reference is
  now to that block and is read without `m_commitMutex`, clears it (`:158-167`) and the thread
  waits on `m_commitCV` for an answer nobody will give. `raft_commit` reaches this state.
  `StrandedByReport` says that nothing else leads there, `NoStrandedFollower` that the
  thread is woken when the node steps down; as long as it leads it seals nothing.
* Sync, a range that is lost: `maintainBlockRequest` calls `enablePush` before it pushes the
  rest of a range back (`SyncMaster.cpp:717`, `:722`). When P2P threads fill the queue in
  between (`RspBlockReq.cpp:42`), the rest is dropped and the peer has to ask again.
  `RangesLostOnlyWhenFull` says that a number is lost in no other way.
* The other rows of a changed key go into the flush task as pointers
  (`CachedStorage.cpp:318-324`): the flush of block n may write values of block n+1, and a
  crash then leaves the store ahead of its block number; two changed rows of one key put
  rows into the task twice, so that an id comes twice on disk. These two and the case of
  `StorageLost.cfg` are what `tainted` records. `SelectsCommittedUnlessTainted` and
  `RowsInIdOrderUnlessTainted` leave such keys out, and `RollbackRestores` leaves out what
  was loaded of them after the savepoint.
* A row removed by a block is still returned by its later selects when it comes from the
  store, and a second remove that is rolled back brings it back; `RollbackRestores` says so.
* Sync: a node at block 0 never deletes a peer that is gone (`SyncMaster.cpp:602-617`), so
  a new node whose highest peer leaves keeps asking it; `clearFullQueueIfNotHas`
  (`DownloadingBlockQueue.cpp:190`) tests for equality with a limit that can be passed;
  `maintainTransactions` returns at the first transaction nobody needs
  (`SyncMaster.cpp:257`), after marking earlier ones as sent and before sending them.
* Pool: `topTransactions` checks only the block limit again; a pool nonce is taken before
  the check of chain and group, so a refused transaction blocks its nonce.

## 4. Proofs

For PBFT, all for every number of sealers, every set of at most `(N-1)/3` faulty sealers,
every set of blocks and every bound. The assumptions are the named `ASSUME`s of
`SealerGroup`, `PBFTReqCache` and `PBFTEngine`, which leave `FaultyMessage` free; `NodesAgree`
and `EngineImplementsAgreement` also assume `OneSignatureEach` (section 2), in their
statements.

* The group (`BlockAgreementProofs`): two quorums of `N - F` sealers meet in a correct one
  (`QuorumsIntersect`), hence at most one block of a height is chosen
  (`ChosenUnique`) and a chosen block stays chosen (`ChosenStable`).
* `AgreementSafe`: `AbstractSpec => []NoFork`, from the inductive invariant
  `AbstractInv` (nobody votes twice at a height, what is stored was chosen).
* `TypeCorrect`: `Spec => []TypeOK`, one lemma per operator of the cache and of the
  engine that returns a state.
* `NodesAgree`: `Spec => []Agreement`, under `OneSignatureEach`. `Agreement` is not inductive: it says nothing
  of the votes that are under way. The strengthening is `EngineInv`, the conjunction
  of `TypeOK` and, for every correct node,
  - `HeightsInv`: `consNum` is one above the number of `highest`, `highest` is not
    above the tip, and genesis is on the chain;
  - `LockInv`: the committed prepare in memory is the backup on disk, the executed
    prepare is the raw one, the raw prepare and the lock are at or below `consNum`,
    and when both are at `consNum` they are the same block;
  - `VoteInv`: what a node sent carries its name, a commit vote is for a height
    below `consNum` or for the lock, and there is one block per height;
  - `CommitCacheInv` and `Known`: the commit cache holds at most one request per
    block and signature, and only requests that were sent;
  - every block above genesis on a chain is chosen by the votes sent, if `OneSignatureEach`.
  The argument: `isHashSavedAfterCommit` and `consNum` keep a node from voting for a
  rival of its lock; `backupMsg` before `broadcastCommitReq` keeps that across a
  crash; `checkAndSave` counts a quorum of different signatures, which under
  `OneSignatureEach` are of different sealers, so what is stored is chosen; two chosen blocks of a height are equal by quorum intersection.
  Handlers are composed of a few kinds of steps (one that touches no vote, lock or
  chain; one that votes; one that stores), and each handler is shown to be one of
  them.
* `CommitVotesAreDurable`: `Spec => []CommitVoteLocked`, and `LockIsNeverReplaced`:
  `Spec => LockNeverReplaced`, from the same invariant.
* `EngineImplementsAgreement`: `Spec => ImplementsAgreement`, under `OneSignatureEach`: with commit votes as
  `voted` and stored blocks as `decided`, every step of the engine is a `Vote`, a
  `Decide`, a `VoteAndDecide` or a stutter of `BlockAgreement`.

* `CommitsNeedSigns`, `BlocksNeedCommits`, `SignedBlocksAreLeaders`, `LockExtendsTip`,
  `QuorumsAreActedOn`, `ViewsNeedRequests`: what a node does is backed by requests that
  are on the network, whoever sent them: the first two speak of `minValidNodes` different
  signatures, not of as many sealers. None of these is inductive; the strengthening is `WorkInv` of every
  correct node, on top of `EngineInv`:
  - `ChainInv`, `ExtendsInv`: the tip is the highest block of the chain; the prepare and
    the lock, when they are above it, are its children;
  - `PrepInv`, `VotesInv`: the prepare of the current height is of the current view, and
    the cached signatures and commit requests for it are of its view, one per signature, and
    were sent. This is why requests that came early cannot mix views: `addPrepareReq`
    drops those of other views, and entering a view drops all;
  - `FutureInv`, `AskedInv`, `ViewInv`: the same for waiting prepares and for view change
    requests, which are of peers not behind the node;
  - `ActedInv`: a block whose signatures are a quorum is below the current height or was
    answered with a commit request. `checkAndCommit` tests for equality, so the count may
    not step over the quorum; early signatures are limited to one below it.
  `SteadyInv` is `WorkInv` without `ActedInv`: it holds in the middle of a handler, and
  `checkAndCommit` restores the rest at its end.

For `TxDAG`, for every number of transactions, fields and threads, every critical
list and every bound on exceptions:

* `ConflictsRunInOrder`: `Spec => []ConflictsInOrder`, and `DAGTypeCorrect`:
  `Spec => []TypeOK`. The inductive invariant is `DAGInv`:
  - `LatestInv`: `CriticalField` knows the last user of each field since the last
    normal transaction, and that one;
  - `CoverInv`: whenever `i` precedes and conflicts with `j`, some edge ends at `j`
    and starts at `i` or at a later transaction that itself conflicts with `i`. This
    is why edges to the last user suffice;
  - `DegreeInv`: `inDegree[i]` is the number of edges to `i` that are not released,
    and is zero once `i` has started;
  - `QueueInv`, `ThreadInv`, `OwnerInv`: what is queued or held by a thread is free
    and waiting, and is in one place only.
  A transaction that starts is free, so the source of its covering edge is done, and
  by the order that already holds so is everything before that source.
* `DAGImplementsOrder`: `Spec => ImplementsOrder`; starts and ends map to `Start`
  and `Finish`, everything else stutters.
* `NothingIsLeftOut`: `Spec => []AllRunWhenLeft`, with `CountInv`: `m_exeCnt` is the
  number of transactions that have started, and a thread leaves only when that is
  all of them or after an exception.

For `RaftEngine`, for every group of at least two nodes, every topology, all terms and
any number of restarts:

* `RaftTypeCorrect`, `RaftTermsOrdered`, `RaftNoStrandedFollower`: `Spec => []TypeOK`,
  `[]TermAheadOfLastLeader`, `[]NoStrandedFollower`; `RaftStrandedByReport`, `RaftLeaderYields`,
  `RaftLastLeaderGrows`: `Spec => StrandedByReport`, `LeaderYieldsUpward` and
  `LastLeaderTermGrows`. The
  inductive invariant `EngineInv` adds to them what holds of each node's sealing
  (`SealInv`) and of the packets (`PacketInv`): a vote request's `lastLeaderTerm` is below
  its term, and nobody sends `leaderReject`. The order of terms is what makes `m_term--`
  safe: a candidate is strictly ahead of its last leader, so a step back stays at or
  above it, and a term never goes below zero. For the waiting thread `SealInv` says that
  outside of `reportBlock` the uncommitted block is of the height the node works on, so that
  `tryCommitUncommitedBlock` does not take it away as one of another height.

For `PBFTSealer`, for every group size and index and all bounds:

* `SealerTypeCorrect`: `Spec => []TypeOK`, and `SealerNoLockCycle`: `Spec => []NoLockCycle`,
  from `SealerInv`, the conjunction of `TypeInv`, `BoundInv` (the engine's block and the
  number the sealer thread read are on the chain, the view is not above the one asked
  for) and `LockInv`. The argument: the engine takes `x_sealing` under `m_mutex` only as
  the next leader of another one's block, the sealer thread takes `m_mutex` under
  `x_sealing` only as leader; `LockInv` says that the leader does not change in between,
  unless the engine goes on to the callback of a timeout, which waits without `m_mutex`.

* `AgreedIsSealedOnce`: `Spec => []AgreedOnce`, and `PreparesOnce`: `Spec => []OnePrepare`,
  from `OnceInv`. What it adds to `SealerInv`: a pooled transaction of an agreed block is
  about to be dropped by the engine's thread; a prepare for the next height holds no
  agreed transaction, nor does a block being filled, and the next leader's block also has
  nothing of the prepare its filter comes from, unless they were begun with the chain
  ahead of the engine (`CleanInv`, `FillInv`, `NotifyInv`, `HandleInv`); the prepares sent
  are of no later height or view than the engine's, and a node that has sent the one of
  the current height and view holds its sealed block or a committed prepare, so that it
  neither fills nor sends another (`PastInv`, `SentInv`).

For `TxPool`, for every set of transactions, nonces and block limits, every window, pool
limit and bound:

* `PoolTypes`, `StoredOnce`, `PoolKeepsNoncesApart`, `SentIsMarked`: `Spec => []TypeOK`,
  `[]NoTransactionTwice`, `[]PooledNoncesDiffer`, `[]SentStaysMarked`. The inductive
  invariant is `PoolInv`: the nonces of all blocks the nonce check knows are remembered,
  but for those `updateCache` erased with a block that left the window; a block it does
  not know is in the hands of a thread about to tell it; a pooled transaction was not
  stored with a new nonce, unless a thread is about to drop it; its nonce is in the pool's
  cache, or in the chain's, or left the window. `StoredOnce` then rests on arithmetic: a
  transaction is stored at most `MaxBlockLimit` below its block limit, and the window is
  as long as that.
  The walk of `topTransactions` and `removeTrans` over the queue is a recursive function
  (`Only`); what it returns is proved by induction over the positions.

For the storage and the tables, for every finite set of keys, all threads, objects, values,
conditions and genesis rows in the order of their ids, every `m_maxForwardBlock` and any
number of operations, blocks and restarts:

* `CrashLosesLittle`: `Spec => []LossBounded`, from `CountInv`: the tasks in the queue are
  the blocks between the one on disk and the last committed one, in order; `m_syncNum` is
  never ahead of the disk, and `m_commitNum` is the last block while there are tasks.
* `StorageTypeCorrect`: `Spec => []TypeOK`, from `BasicInv`, which adds to `CountInv`
  - `StorageInv`: row ids grow from task to task; each block of the history is what its task
    makes of the one before; a task points at the first rows of an object, and these are still
    the rows up to the ids of its block; an object belongs to one key, whoever holds it;
  - `TableInv`: the table names only rows that are on disk or in the queue, the change log
    only rows of the table, and while a block is committed both are empty.
* `SelectsShowCommitted`: `Spec => []SelectsCommittedUnlessTainted`, and
  `UntaintedRowsStayInOrder`: `Spec => []RowsInIdOrderUnlessTainted`, from `CleanInv`, which says of every key that is not tainted:
  - whoever works on it has the object that is in `m_caches` (`CleanUse`), and that object is
    loaded and recent while a task for the key is in the queue (`CleanTasks`), so that it
    cannot be cleared before the flush;
  - a task changes at most one row of those before it, and forces rows only where there were
    none (`CleanData`, with `CleanTable` and `CleanRows` for rows still on their way to it);
  - a loaded object shows the last block with what the commit under way has written
    (`CleanCache`); a row that no later task touches is in each block of the queue as in the
    last one (`CleanBlocks`); the disk shows its own block, but for rows that a task in the queue or
    the commit under way still changes (`CleanStore`).
  The last one is what makes a reload right: a key without an object has no task in the queue,
  so disk, block on disk and last block show the same. Rows are compared by what a select
  shows of them (`Has`); rows in the order of their ids that show the same are equal
  (`SameNormal`), which is where the two theorems need each other.
* `RollbackIsExact`: `Spec => RollbackRestores`, from `LogInv`: undoing the change log down to
  a change restores the table that change was made in. A new change keeps this since undoing
  it restores the table before it (`InsertReversible`, `ChangeReversible`), undoing one more
  change in two tables keeps one restored to the other (`RestoredUndo`), and restoring is
  transitive (`RestoredTrans`). That rows of untainted keys loaded since are left as committed
  rests on `CleanInv`: what the executor selected is what the last block wrote.

For `BlockSync`, for every group, all limits, faults and forged packets:

* `SyncChainIsSealed`: `Spec => []ChainIsSealed`, from `ChainInv`: every chain is linked,
  numbers follow positions, and a block being committed is one that passed `isNewBlock`;
  `commitBlock` checks number and parent again, since consensus may have stored a block
  while this one was executed.
* `SyncTypes`: `Spec => []TypeOK`, and `SyncQueueIsBounded`: `Spec => []QueueBounded`, from
  `SizeInv`: no batch weighs more than `c_maxPayload` and every block weighs something, so a
  packet, and a shard in the buffer, has at most `MaxShard` blocks; a shard is flushed only
  into a queue below its limit. That a block being stored is there and a response has a
  request are parts of `SizeInv` too.
* `RangesAreKept`: `Spec => RangesLostOnlyWhenFull`, from `SizeInv` and `ChainInv`: request
  queues are sorted and within their length. So the end that `topAndPop` computes is not
  below the end of any request it pops (`MergedEnd`), what is pushed back is kept unless the
  queue was filled in between, and the blocks sent have the numbers asked for. The property speaks of
  clients with a session: to others nothing is sent, and nothing is kept either.

`flushBufferToQueue`, `topAndPop` and `batchAndSend` are loops; the model writes them as
recursive functions over positions, and `Recursion` and `Induction` (from the
well-foundedness of `<`) show what they compute. For the storage the same lemmas show what
`Normal`, the sort by id of a flush and the undoing of the change log return.

Only model-checked:

* `EveryoneStores`, `CatchesUp`, `ExecutionReturns`: liveness under fairness, which the
  installed prover does not do.

Every other property of a passing run is stated by a theorem. `QueueBounded` is the other way round:
it is proved and no run checks it.

## 5. Plan

Done: all modules of section 2 with their runs, and the proofs of section 4. Left:

1. Dynamic sealer lists, in `SealerGroup` and both engines.
2. Two locks and a permanently failed sealer under fairness (liveness of locked views).
3. The adaptive block size of `PBFTSealer`, once it is settled what its ratio is meant to be.

## 6. Not modelled

* Execution (`libexecutive`, `libevm`, `libinterpreter`, `libprecompiled`,
  `libstoragestate`, `libmptstate`): deterministic and single-threaded; a model would be
  an EVM semantics.
* `libnetwork`, `libp2p`: asio and TLS connection handling. The models above it assume
  that packets may be lost, late and reordered; PBFT requests may also be repeated any number
  of times. In the two passing Raft runs only the newest packet on a link is kept (a bound).
* `libchannelserver`, `librpc`, `libledger`, `libinitializer`: I/O, formatting, wiring.
* `libdevcore`, `libdevcrypto`, `libethcore`: utilities, much of it vendored
  (`easylogging++`, `http_parser`), encodings and cryptography.
* Within modelled components: changes of the sealer list; `PBFTMsgCache` and TTL; the
  adaptive block size of `PBFTSealer` (its growth ratio passes through a `bool` parameter
  of `setBlockSizeIncreaseRatio`, so what runs is not what its comments describe); Raft's
  timers and a group of one; capacities of `CachedStorage`; the older `MemoryTable.h` and the
  LevelDB, SQL and Zdb back ends; `verifyAndSetSenderForBlock`, whose iterator outlives its lock
  (`TxPool.cpp:168`).
