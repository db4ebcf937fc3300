----------------------------- MODULE PBFTSealer -----------------------------
(***************************************************************************)
(* The threads of one sealer: the sealer thread (libconsensus/Sealer.cpp,  *)
(* pbft/PBFTSealer.cpp and .h), the worker thread of the PBFT engine as    *)
(* far as it meets the sealer (pbft/PBFTEngine.cpp), and the sync thread   *)
(* when it stores downloaded blocks.  They share the block being sealed    *)
(* (under x_sealing), the engine's state (under m_mutex, and read without  *)
(* it), the chain and the transaction pool.                                *)
(*                                                                         *)
(* The other sealers are the environment: they propose blocks when they    *)
(* lead, their votes make a quorum or do not, and blocks they agreed on    *)
(* are downloaded.  The pool is the set of waiting transactions; TxPool    *)
(* models what is in it.                                                   *)
(***************************************************************************)
EXTENDS Integers, Sequences, FiniteSets, SequencesExt

CONSTANTS
    Tx,
    NodeNum,       \* m_nodeNum
    Me,            \* nodeIdx()
    MaxSeal,       \* m_maxBlockCanSeal
    TxLimits,      \* values of tx_count_limit
    MaxBlocks,     \* bound on the chain
    MaxView        \* bound on m_toView

ASSUME NodeAssumption == NodeNum \in Nat \ {0} /\ Me \in 0 .. NodeNum - 1
ASSUME SealerBoundAssumption == {MaxBlocks, MaxView} \subseteq Nat

NoLeader == -1
NoPrepare == [height |-> 0, view |-> 0, txs |-> {}]

\* A prepare request, as far as the threads tell them apart.
Prepare(h, v, b) == [height |-> h, view |-> v, txs |-> b]

VARIABLES
    blocks,       \* the chain: the transactions of each block, and who stored it
    pool,         \* transactions waiting in the pool
    sealing,      \* m_sealing: number, txs, sealed, filter
    engine,       \* the engine's state: highest, view, toView, leaderFailed, notify,
                  \* raw, prepare and committed (the caches), limit
    mutex,        \* who holds the engine's m_mutex
    xsealing,     \* who holds x_sealing
    pc,           \* where each thread is
    local,        \* the block a thread works on
    syncBlock,    \* m_syncBlock: a block was stored since the last report
    downloading,  \* the sync state is Downloading
    prepares,     \* history: heights and views of the prepares this node sent and handled
    again,        \* history: the numbers of blocks that were reported a second time
    ahead         \* history: the numbers of blocks begun when the chain was ahead of the engine

vars == <<blocks, pool, sealing, engine, mutex, xsealing, pc, local, syncBlock,
          downloading, prepares, again, ahead>>

----------------------------------------------------------------------------
number == Len(blocks)
OnChain == UNION {b.txs : b \in Range(blocks)}

\* PBFTEngine::getLeader and getNextLeader, on the engine's highest block.
getLeader == IF engine.leaderFailed THEN NoLeader
             ELSE (engine.view + engine.highest) % NodeNum
getNextLeader == (engine.highest + 1) % NodeNum

\* Sealer::resetBlock and resetSealingBlock, for the current leader and the next one.
resetSealingBlock(filter, k) ==
    [number |-> number + k, txs |-> {}, sealed |-> FALSE, filter |-> filter]

\* The block being sealed is begun anew; ahead remembers a begin that met a chain longer
\* than the engine knows of.
beginBlock(filter, k) ==
    /\ sealing' = resetSealingBlock(filter, k)
    /\ ahead' = IF number = engine.highest THEN ahead ELSE ahead \cup {number + k}

\* PBFTSealer::shouldHandleBlock.
shouldHandleBlock == sealing.number = number + 1 /\ getLeader = Me

\* PBFTSealer::shouldResetSealing.
shouldResetSealing == (sealing.sealed \/ sealing.number <= number) /\ getLeader = Me

\* The engine's lock is on a block of the height agreed on now (m_consensusBlockNumber).
Locked == engine.committed.height = engine.highest + 1

\* PBFTEngine::shouldSeal and Sealer::shouldSeal.
shouldSeal ==
    /\ ~sealing.sealed
    /\ ~downloading
    /\ \/ getLeader = Me /\ ~Locked
       \/ getLeader \notin {NoLeader, Me} /\ engine.notify /\ getNextLeader = Me

\* The committed block has to be proposed again in this view.
shouldRehandle ==
    /\ ~sealing.sealed
    /\ ~downloading
    /\ getLeader = Me /\ Locked /\ engine.raw /= engine.highest + 1

\* PBFTEngine::canHandleBlockForNextLeader.
canHandleBlockForNextLeader ==
    getLeader /= NoLeader /\ (getLeader = Me \/ ~(engine.notify /\ getNextLeader = Me))

Goto(th, to) == pc' = [pc EXCEPT ![th] = to]

Init ==
    /\ blocks = <<>>
    /\ pool = {}
    /\ sealing = resetSealingBlock({}, 1)
    /\ engine = [highest |-> 0, view |-> 0, toView |-> 0, leaderFailed |-> FALSE,
                 notify |-> FALSE, raw |-> 0, prepare |-> NoPrepare,
                 committed |-> NoPrepare, limit |-> MaxSeal]
    /\ mutex = "free"
    /\ xsealing = "free"
    /\ pc = [sealer |-> "begin", engine |-> "free", sync |-> "free"]
    /\ local = [sealer |-> 0, engine |-> {}, sync |-> {}]
    /\ syncBlock = FALSE
    /\ downloading = FALSE
    /\ prepares = <<>>
    /\ again = {}
    /\ ahead = {}

\* A transaction enters the pool; the nonce checks keep out those of the chain.
Import(t) ==
    /\ t \notin pool \cup OnChain
    /\ pool' = pool \cup {t}
    /\ UNCHANGED <<blocks, sealing, engine, mutex, xsealing, pc, local, syncBlock,
                   downloading, prepares, again, ahead>>

----------------------------------------------------------------------------
(* The sealer thread *)

\* Sealer::reportNewBlock clears m_syncBlock and reads the highest block.
reportNewBlock ==
    /\ pc.sealer = "begin"
    /\ IF syncBlock
       THEN /\ syncBlock' = FALSE
            /\ local' = [local EXCEPT !.sealer = number]
            /\ Goto("sealer", "report")
       ELSE Goto("sealer", "check") /\ UNCHANGED <<syncBlock, local>>
    /\ UNCHANGED <<blocks, pool, sealing, engine, mutex, xsealing, downloading, prepares,
                   again, ahead>>

\* Mistake to detect: a new block resets m_toView and leaves m_view.
reportBlockKeepingView ==
    /\ pc.sealer = "report"
    /\ mutex = "free"
    /\ engine' = IF engine.highest < local.sealer
                 THEN [engine EXCEPT !.highest = local.sealer, !.toView = 0,
                                     !.leaderFailed = FALSE]
                 ELSE engine
    /\ again' = IF engine.highest < local.sealer THEN again ELSE again \cup {local.sealer}
    /\ Goto("sealer", "reset")
    /\ UNCHANGED <<blocks, pool, sealing, mutex, xsealing, local, syncBlock, downloading,
                   prepares, ahead>>

\* PBFTEngine::reportBlock, under m_mutex; tx_count_limit is read again, and the prepare
\* cache forgets the stored block (delCache).
reportBlock ==
    /\ pc.sealer = "report"
    /\ mutex = "free"
    /\ engine' \in IF engine.highest < local.sealer
                   THEN {[engine EXCEPT !.highest = local.sealer, !.view = 0, !.toView = 0,
                                        !.leaderFailed = FALSE, !.limit = l,
                                        !.prepare = IF @.txs = blocks[local.sealer].txs
                                                    THEN NoPrepare ELSE @] : l \in TxLimits}
                   ELSE {engine}
    /\ again' = IF engine.highest < local.sealer THEN again ELSE again \cup {local.sealer}
    /\ Goto("sealer", "reset")
    /\ UNCHANGED <<blocks, pool, sealing, mutex, xsealing, local, syncBlock, downloading,
                   prepares, ahead>>

\* The end of reportNewBlock, under x_sealing.
resetSealing ==
    /\ pc.sealer = "reset"
    /\ xsealing = "free"
    /\ IF shouldResetSealing THEN beginBlock({}, 1) ELSE UNCHANGED <<sealing, ahead>>
    /\ Goto("sealer", "check")
    /\ UNCHANGED <<blocks, pool, engine, mutex, xsealing, local, syncBlock, downloading,
                   prepares, again>>

checkShouldSeal ==
    /\ pc.sealer = "check"
    /\ Goto("sealer", CASE shouldSeal -> "load"
                       [] shouldRehandle -> "rehandle"
                       [] OTHER -> "begin")
    /\ UNCHANGED <<blocks, pool, sealing, engine, mutex, xsealing, local, syncBlock,
                   downloading, prepares, again, ahead>>

\* Sealer::doWork under x_sealing up to the decision to handle the block: interval and
\* late say whether the block interval is over before and after the load.
doWork(interval, late) ==
    LET room == MaxSeal - Cardinality(sealing.txs)
        new == pool \ sealing.filter
        size == IF room < Cardinality(new) THEN room ELSE Cardinality(new)
    IN
    /\ pc.sealer = "load"
    /\ xsealing = "free"
    /\ interval => late
    /\ \E load \in SUBSET new :
          /\ Cardinality(load) = IF interval \/ room <= 0 THEN 0 ELSE size
          /\ sealing' = [sealing EXCEPT !.txs = @ \cup load, !.filter = @ \cup load]
    /\ IF /\ canHandleBlockForNextLeader
          /\ late \/ Cardinality(sealing'.txs) >= MaxSeal
          /\ shouldHandleBlock
       THEN xsealing' = "sealer" /\ Goto("sealer", "handle")
       ELSE Goto("sealer", "begin") /\ UNCHANGED xsealing
    /\ UNCHANGED <<blocks, pool, engine, mutex, local, syncBlock, downloading, prepares,
                   again, ahead>>

\* PBFTSealer::handleBlock with x_sealing held: a block over the limit is dropped,
\* otherwise setBlock takes its number from the chain.
handleBlock ==
    /\ pc.sealer = "handle"
    /\ IF Cardinality(sealing.txs) > engine.limit
       THEN /\ beginBlock({}, 1)
            /\ xsealing' = "free"
            /\ Goto("sealer", "begin")
       ELSE /\ sealing' = [sealing EXCEPT !.number = number + 1, !.sealed = TRUE]
            /\ Goto("sealer", "prepare")
            /\ UNCHANGED <<xsealing, ahead>>
    /\ UNCHANGED <<blocks, pool, engine, mutex, local, syncBlock, downloading, prepares, again>>

\* handlePrepareMsg of this node's own prepare, of block b: isValidPrepare refuses the one
\* of a node that no longer leads, of another height or against the lock, and may refuse
\* any while blocks are downloaded.
handleOwnPrepare(e, h, b, refused) ==
    IF \/ refused
       \/ h /= engine.highest + 1 \/ h /= number + 1
       \/ getLeader /= Me
       \/ engine.committed.height = h /\ engine.committed.txs /= b
    THEN engine' = e /\ UNCHANGED prepares
    ELSE /\ engine' = [e EXCEPT !.raw = h, !.prepare = Prepare(h, e.view, b)]
         /\ prepares' = Append(prepares, <<h, e.view>>)

\* PBFTEngine::rehandleCommitedPrepareCache, under m_mutex.
rehandleCommitedPrepareCache(refused) ==
    /\ pc.sealer = "rehandle"
    /\ mutex = "free"
    /\ handleOwnPrepare(engine, engine.committed.height, engine.committed.txs, refused)
    /\ Goto("sealer", "begin")
    /\ UNCHANGED <<blocks, pool, sealing, mutex, xsealing, local, syncBlock, downloading,
                   again, ahead>>

\* PBFTEngine::generatePrepare, under m_mutex and x_sealing: the prepare is broadcast;
\* an empty block starts a view change, another one is handled by the engine.
generatePrepare(refused) ==
    LET e == [engine EXCEPT !.notify = FALSE] IN
    /\ pc.sealer = "prepare"
    /\ mutex = "free"
    /\ IF sealing.txs = {}
       THEN /\ engine' = [e EXCEPT !.leaderFailed = TRUE]
            /\ beginBlock({}, 1)
            /\ UNCHANGED prepares
       ELSE /\ handleOwnPrepare(e, sealing.number, sealing.txs, refused)
            /\ UNCHANGED <<sealing, ahead>>
    /\ xsealing' = "free"
    /\ Goto("sealer", "begin")
    /\ UNCHANGED <<blocks, pool, mutex, local, syncBlock, downloading, again>>

----------------------------------------------------------------------------
(* The engine's worker thread *)

\* handlePrepareMsg of another leader's block, up to notifySealing: m_mutex is held, and
\* the next leader has to reset the block it seals.  isExistPrepare refuses the block of the
\* raw prepare only, so that a second one of the same view takes its place.
handlePrepareMsg(b) ==
    /\ pc.engine = "free"
    /\ mutex = "free"
    /\ engine.highest = number
    /\ number < MaxBlocks
    /\ getLeader \notin {NoLeader, Me}
    /\ engine.raw /= number + 1 \/ engine.prepare.txs /= b
    /\ b /= {} /\ b \cap OnChain = {}
    /\ Locked => b = engine.committed.txs
    /\ LET e == [engine EXCEPT !.raw = number + 1,
                               !.prepare = Prepare(number + 1, engine.view, b)] IN
       IF getNextLeader = Me
       THEN /\ engine' = [e EXCEPT !.notify = TRUE]
            /\ mutex' = "engine"
            /\ local' = [local EXCEPT !.engine = b]
            /\ Goto("engine", "notify")
       ELSE /\ engine' = e
            /\ UNCHANGED <<mutex, local, pc>>
    /\ UNCHANGED <<blocks, pool, sealing, xsealing, syncBlock, downloading, prepares, again, ahead>>

\* Mistake to detect: the next leader does not skip the transactions being agreed on.
resetBlockForNextLeaderUnfiltered ==
    /\ pc.engine = "notify"
    /\ xsealing = "free"
    /\ beginBlock({}, 2)
    /\ mutex' = "free"
    /\ local' = [local EXCEPT !.engine = {}]
    /\ Goto("engine", "free")
    /\ UNCHANGED <<blocks, pool, engine, xsealing, syncBlock, downloading, prepares, again>>

\* PBFTSealer::resetBlockForNextLeader: x_sealing is taken while m_mutex is held.
resetBlockForNextLeader ==
    /\ pc.engine = "notify"
    /\ xsealing = "free"
    /\ beginBlock(local.engine, 2)
    /\ mutex' = "free"
    /\ local' = [local EXCEPT !.engine = {}]
    /\ Goto("engine", "free")
    /\ UNCHANGED <<blocks, pool, engine, xsealing, syncBlock, downloading, prepares, again>>

\* checkAndCommit once the sign requests are complete: the prepare is locked.
checkAndCommit ==
    LET p == engine.prepare IN
    /\ pc.engine = "free"
    /\ mutex = "free"
    /\ p /= NoPrepare /\ p.view = engine.view /\ p /= engine.committed
    /\ engine' = [engine EXCEPT !.committed = p]
    /\ UNCHANGED <<blocks, pool, sealing, mutex, xsealing, pc, local, syncBlock,
                   downloading, prepares, again, ahead>>

\* checkAndSave once the votes are complete: commitBlock up to the new m_blockNumber;
\* m_mutex stays held until the pool is cleaned.
checkAndSave ==
    LET p == engine.prepare IN
    /\ pc.engine = "free"
    /\ mutex = "free"
    /\ p.height > engine.highest /\ p.view = engine.view
    /\ p.height = number + 1
    /\ blocks' = Append(blocks, [txs |-> p.txs, by |-> "engine"])
    /\ mutex' = "engine"
    /\ local' = [local EXCEPT !.engine = p.txs]
    /\ Goto("engine", "stored")
    /\ UNCHANGED <<pool, sealing, engine, xsealing, syncBlock, downloading, prepares, again, ahead>>

\* The end of commitBlock on thread th tells the sealer, which may already have seen the
\* new number (m_onReady, Sealer::onBlockChanged).
onBlockChanged(th) ==
    /\ pc[th] = "stored"
    /\ syncBlock' = TRUE
    /\ Goto(th, "drop")
    /\ UNCHANGED <<blocks, pool, sealing, engine, mutex, xsealing, local, downloading,
                   prepares, again, ahead>>

\* dropHandledTransactions, and the end of checkAndSave.
dropHandledTransactions ==
    /\ pc.engine = "drop"
    /\ pool' = pool \ local.engine
    /\ mutex' = "free"
    /\ engine' = [engine EXCEPT !.prepare = NoPrepare]
    /\ local' = [local EXCEPT !.engine = {}]
    /\ Goto("engine", "free")
    /\ UNCHANGED <<blocks, sealing, xsealing, syncBlock, downloading, prepares, again, ahead>>

\* What checkAndChangeView does once there are enough requests for m_toView: the caches
\* of prepares are cleared (triggerViewChange).
changedView(e) ==
    [e EXCEPT !.view = e.toView, !.leaderFailed = FALSE, !.notify = FALSE, !.raw = 0,
              !.prepare = NoPrepare]

\* handleViewChangeMsg: f + 1 sealers ask for views beyond m_toView; the timer is set to
\* run out, so that checkTimeout comes next in workLoop.
fastViewChange(view) ==
    /\ pc.engine = "free"
    /\ mutex = "free"
    /\ view > engine.toView /\ view <= MaxView
    /\ engine' = [engine EXCEPT !.toView = view - 1]
    /\ Goto("engine", "timeout")
    /\ UNCHANGED <<blocks, pool, sealing, mutex, xsealing, local, syncBlock, downloading,
                   prepares, again, ahead>>

\* Mistake to detect: a time-out without the callback to the sealer.
checkTimeoutUntold(quorum) ==
    LET e == [engine EXCEPT !.toView = @ + 1, !.leaderFailed = TRUE] IN
    /\ pc.engine \in {"free", "timeout"}
    /\ mutex = "free"
    /\ engine.toView < MaxView
    /\ engine' = IF quorum THEN changedView(e) ELSE e
    /\ Goto("engine", "free")
    /\ UNCHANGED <<blocks, pool, sealing, mutex, xsealing, local, syncBlock, downloading,
                   prepares, again, ahead>>

\* checkTimeout: with enough requests the view changes at once; the callback follows
\* after m_mutex is released.
checkTimeout(quorum) ==
    LET e == [engine EXCEPT !.toView = @ + 1, !.leaderFailed = TRUE] IN
    /\ pc.engine \in {"free", "timeout"}
    /\ mutex = "free"
    /\ engine.toView < MaxView
    /\ engine' = IF quorum THEN changedView(e) ELSE e
    /\ Goto("engine", "viewChange")
    /\ UNCHANGED <<blocks, pool, sealing, mutex, xsealing, local, syncBlock, downloading,
                   prepares, again, ahead>>

\* handleViewChangeMsg completes the requests for m_toView (checkAndChangeView).
checkAndChangeView ==
    /\ pc.engine = "free"
    /\ mutex = "free"
    /\ engine.toView > engine.view
    /\ engine' = changedView(engine)
    /\ UNCHANGED <<blocks, pool, sealing, mutex, xsealing, pc, local, syncBlock,
                   downloading, prepares, again, ahead>>

\* Mistake to detect: the callback also resets a sealed block of the next height.
resetBlockForViewChangeAlways ==
    /\ pc.engine = "viewChange"
    /\ xsealing = "free"
    /\ beginBlock({}, 1)
    /\ Goto("engine", "free")
    /\ UNCHANGED <<blocks, pool, engine, mutex, xsealing, local, syncBlock, downloading,
                   prepares, again>>

\* PBFTSealer::resetBlockForViewChange, the callback of checkTimeout.
resetBlockForViewChange ==
    /\ pc.engine = "viewChange"
    /\ xsealing = "free"
    /\ IF sealing.sealed /\ shouldHandleBlock
       THEN UNCHANGED <<sealing, ahead>>
       ELSE beginBlock({}, 1)
    /\ Goto("engine", "free")
    /\ UNCHANGED <<blocks, pool, engine, mutex, xsealing, local, syncBlock, downloading,
                   prepares, again>>

----------------------------------------------------------------------------
(* The sync thread *)

Download ==
    /\ pc.sync = "free"
    /\ downloading' = ~downloading
    /\ UNCHANGED <<blocks, pool, sealing, engine, mutex, xsealing, pc, local, syncBlock,
                   prepares, again, ahead>>

\* SyncMaster::maintainDownloadingQueue stores a downloaded block, without m_mutex, and
\* cleans the pool.
commitDownloaded(b) ==
    /\ pc.sync = "free"
    /\ downloading
    /\ number < MaxBlocks
    /\ b /= {} /\ b \cap OnChain = {}
    /\ blocks' = Append(blocks, [txs |-> b, by |-> "sync"])
    /\ local' = [local EXCEPT !.sync = b]
    /\ Goto("sync", "stored")
    /\ UNCHANGED <<pool, sealing, engine, mutex, xsealing, syncBlock, downloading, prepares,
                   again, ahead>>

dropDownloaded ==
    /\ pc.sync = "drop"
    /\ pool' = pool \ local.sync
    /\ local' = [local EXCEPT !.sync = {}]
    /\ Goto("sync", "free")
    /\ UNCHANGED <<blocks, sealing, engine, mutex, xsealing, syncBlock, downloading,
                   prepares, again, ahead>>

Next ==
    \/ \E t \in Tx : Import(t)
    \/ reportNewBlock
    \/ reportBlock
    \/ resetSealing
    \/ checkShouldSeal
    \/ \E interval, late \in BOOLEAN : doWork(interval, late)
    \/ handleBlock
    \/ \E refused \in {FALSE, downloading} : rehandleCommitedPrepareCache(refused)
    \/ \E refused \in {FALSE, downloading} : generatePrepare(refused)
    \/ \E b \in SUBSET Tx : handlePrepareMsg(b)
    \/ resetBlockForNextLeader
    \/ checkAndCommit
    \/ checkAndSave
    \/ \E th \in {"engine", "sync"} : onBlockChanged(th)
    \/ dropHandledTransactions
    \/ \E view \in 1 .. MaxView : fastViewChange(view)
    \/ \E quorum \in BOOLEAN : checkTimeout(quorum)
    \/ checkAndChangeView
    \/ resetBlockForViewChange
    \/ Download
    \/ \E b \in SUBSET Tx : commitDownloaded(b)
    \/ dropDownloaded

Spec == Init /\ [][Next]_vars

----------------------------------------------------------------------------
(* Properties *)

TypeOK ==
    /\ blocks \in Seq([txs : SUBSET Tx, by : {"engine", "sync"}])
    /\ pool \subseteq Tx
    /\ sealing \in [number : Nat, txs : SUBSET Tx, sealed : BOOLEAN, filter : SUBSET Tx]
    /\ engine.highest \in 0 .. number /\ engine.view \in 0 .. engine.toView
    /\ mutex \in {"free", "engine"} /\ xsealing \in {"free", "sealer"}

Twice(i, j) == blocks[i].txs \cap blocks[j].txs /= {}

\* A transaction of a block this node agreed on is in no later block, although the next
\* leader fills its block before that one is stored: the filter of
\* resetBlockForNextLeader, the reset after a view change and the order of commit,
\* report and seal keep them apart (PBFTEngine::notifySealing, Sealer::reportNewBlock).
\* The one exception is a block begun when the chain was ahead of the engine: its filter
\* or the pool it was filled from belongs to an earlier height.
AgreedOnce ==
    \A i, j \in 1 .. number :
        i < j /\ blocks[i].by = "engine" /\ Twice(i, j) => j \in ahead

\* No transaction at all is stored twice, also when blocks are downloaded: those of the
\* filter "should't be packeted into sealing block" (Sealer.cpp).
NoTransactionTwice ==
    \A i, j \in 1 .. number : i < j => ~Twice(i, j)

SamePrepare(i, j) == i /= j /\ prepares[i] = prepares[j]

\* This node broadcasts at most one prepare for a height and view, also when the callback
\* of a time-out meets a sealer thread that has already sealed the next block
\* (PBFTSealer.h, the comment of resetBlockForViewChange).  The one exception is a block
\* above one whose number the sealer thread read before it was told of it: that block is
\* reported again, and shouldResetSealing drops the block sealed in between.
OnePrepare ==
    \A i, j \in DOMAIN prepares : SamePrepare(i, j) => prepares[i][1] - 1 \in again

\* "The result is: generate two block with the same block in a period" (PBFTSealer.h):
\* never, whatever the order of the callbacks.
NoSecondPrepare == \A i, j \in DOMAIN prepares : ~SamePrepare(i, j)

\* The sealer thread, which takes x_sealing and then m_mutex, and the engine's, which
\* takes m_mutex and then x_sealing, never wait for each other ("in case of dead-lock",
\* PBFTEngine::execBlock).
NoLockCycle ==
    ~(xsealing = "sealer" /\ pc.sealer \in {"report", "prepare"}
        /\ mutex = "engine" /\ pc.engine = "notify")
=============================================================================
