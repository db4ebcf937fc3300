------------------------------- MODULE TxPool -------------------------------
(***************************************************************************)
(* The transaction pool of one node (libtxpool/TxPool.cpp), the check of   *)
(* nonces and block limits against the chain (TransactionNonceCheck.cpp),  *)
(* the check of nonces inside the pool (CommonTransactionNonceCheck.cpp)   *)
(* and the exchange of transactions with the peers (SyncMaster.cpp,        *)
(* DownloadingTxsQueue.cpp).                                               *)
(*                                                                         *)
(* RPC threads submit transactions, the network thread buffers those of    *)
(* peers, the sealer takes transactions for a block, and two threads store *)
(* blocks and then clean the pool: the consensus engine and the sync       *)
(* thread, which also imports and sends transactions.  An operation under  *)
(* one lock is one action; between the locks of one handler the other      *)
(* threads run.                                                            *)
(*                                                                         *)
(* A block is the set of the transactions of Tx it holds: it may hold      *)
(* others, which the model does not follow, so a block may be empty here.  *)
(***************************************************************************)
EXTENDS Integers, Sequences, FiniteSets, SequencesExt

CONSTANTS
    Tx,             \* transactions, told apart by their hash
    Nonce,
    nonce,          \* the nonce of a transaction
    blockLimit,     \* the last height at which it may wait for its block
    OtherGroup,     \* transactions of another chain or group
    Self,
    Sealers,        \* the peers that are sealers
    Observers,      \* the peers that are not
    Limit,          \* m_limit, the capacity of the pool
    MaxBlockLimit,  \* m_maxBlockLimit
    MaxSend,        \* c_maxSendTransactions
    MaxSeal,        \* transactions a sealer asks for
    MaxBlocks,      \* bound on the chain
    MaxPackets,     \* bound on packets from peers
    MaxPacket,      \* bound on the transactions of a packet
    MaxRestart      \* bound on restarts

Peers == Sealers \cup Observers
NoBlock == [height |-> 0, txs |-> {}]

ASSUME SelfIsNoPeer == Self \notin Peers
ASSUME NonceType == nonce \in [Tx -> Nonce]
ASSUME LimitType == /\ blockLimit \in [Tx -> Nat]
                    /\ MaxBlockLimit \in Nat \ {0}
ASSUME BoundType == /\ MaxSeal \in Nat \ {0} /\ MaxSend \in Nat
                    /\ MaxPacket \in Nat

VARIABLES
    blocks,       \* the chain: block n is blocks[n], block 0 the genesis block
    pool,         \* queue, dropped, nonces, known
    check,        \* m_txNonceCheck: number, start, end, cache
    proposal,     \* the block this node seals
    thread,       \* where the engine and the sync thread are
    buffer,       \* m_buffer of the downloading queue: packets of peers
    downloading,  \* the sync state is Downloading
    sent,         \* transactions sent since the last start, and to whom
    faults        \* packets and restarts so far

vars == <<blocks, pool, check, proposal, thread, buffer, downloading, sent, faults>>

----------------------------------------------------------------------------
number == Len(blocks)
OnChain == UNION Range(blocks)
noncesOf(txs) == {nonce[t] : t \in txs}

\* No block before block i holds the nonce of t.
Fresh(i, t) == \A k \in 1 .. i - 1 : nonce[t] \notin noncesOf(blocks[k])

\* The transactions whose nonce was new when they were stored.
Settled == {t \in OnChain : \E i \in 1 .. number : t \in blocks[i] /\ Fresh(i, t)}

\* The transactions of q that are in S, in the order of q.
Only(q, S) ==
    LET upTo[i \in 0 .. Len(q)] ==
            IF i = 0 THEN <<>>
            ELSE IF q[i] \in S THEN Append(upTo[i - 1], q[i]) ELSE upTo[i - 1]
    IN  upTo[Len(q)]

\* A mutant of isBlockLimitOk without the upper bound.
isBlockLimitOkUnbounded(c, t) == c.number < blockLimit[t]

\* TransactionNonceCheck::isBlockLimitOk, at the number the check knows.
isBlockLimitOk(c, t) == c.number < blockLimit[t] /\ blockLimit[t] <= c.number + MaxBlockLimit

\* CommonTransactionNonceCheck::isNonceOk.
isNonceOk(cache, t) == nonce[t] \notin cache

\* The nonces of the blocks from first to last, block 0 holds none.
NoncesBetween(first, last) ==
    UNION {noncesOf(blocks[n]) : n \in {i \in 1 .. number : first <= i /\ i <= last}}

\* A mutant of updateCache whose window may start below block 0.
updateCacheUnclamped(c, rebuild) ==
    LET start == number - MaxBlockLimit
        kept == IF rebuild THEN {} ELSE c.cache \ NoncesBetween(c.start, start - 1)
        first == IF rebuild THEN 1 ELSE c.end + 1
    IN  [number |-> number, start |-> start, end |-> number,
         cache |-> kept \cup NoncesBetween(first, number)]

\* TransactionNonceCheck::updateCache: the window moves to the last MaxBlockLimit
\* blocks; nonces of the blocks that leave it are erased, then those of the new blocks
\* are inserted.
updateCache(c, rebuild) ==
    LET start == IF number > MaxBlockLimit THEN number - MaxBlockLimit ELSE 0
        kept == IF rebuild THEN {} ELSE c.cache \ NoncesBetween(c.start, start - 1)
        first == IF rebuild THEN 1 ELSE c.end + 1
        from == IF first > start THEN first ELSE start
    IN  [number |-> number, start |-> start, end |-> number,
         cache |-> kept \cup NoncesBetween(from, number)]

isFull(p) == Len(p.queue) >= Limit

\* TxPool::verify.
isKnown(p, t) == t \in Range(p.queue) \/ t \in p.dropped
isBlockLimitOrNonceOk(t) == isBlockLimitOk(check, t) /\ isNonceOk(check.cache, t)

\* TxPool::import: the pool's own nonce check records the nonce before the group is
\* checked.  One step, although m_blockNumber and the chain's nonces are read under another
\* lock than m_lock: what a block changes in between it changes the same way right after.
import(p, t) ==
    IF isFull(p) \/ isKnown(p, t) \/ ~isBlockLimitOrNonceOk(t) \/ ~isNonceOk(p.nonces, t)
    THEN p
    ELSE [p EXCEPT !.nonces = @ \cup {nonce[t]},
                   !.queue = IF t \in OtherGroup THEN @ ELSE Append(@, t)]

\* TxPool::removeTrans for each of txs.
removeTrans(p, txs) == [p EXCEPT !.queue = Only(@, Tx \ txs)]

\* TxPool::removeTransactionKnowBy for each of txs.
removeKnown(p, txs) ==
    [p EXCEPT !.known = [t \in Tx |-> IF t \in txs THEN {} ELSE @[t]]]

\* TxPool::topTransactions: walks the queue until it has MaxSeal transactions;
\* those it passes whose block limit is over are thrown out.
Taken(p, avoid) ==
    LET ok == Only(p.queue, {t \in Tx \ avoid : isBlockLimitOk(check, t)})
    IN  SubSeq(ok, 1, IF Len(ok) < MaxSeal THEN Len(ok) ELSE MaxSeal)
Visited(p, avoid) ==
    LET got == Taken(p, avoid)
        last == IF Len(got) < MaxSeal THEN Len(p.queue)
                ELSE CHOOSE i \in DOMAIN p.queue : p.queue[i] = got[Len(got)]
    IN  {p.queue[i] : i \in 1 .. last}

\* A mutant of topTransactions that also frees the nonces of the transactions it takes.
topTransactionsFreeing(p, avoid) ==
    LET expired == {t \in Visited(p, avoid) : ~isBlockLimitOk(check, t)}
        q == removeKnown(removeTrans(p, expired), expired)
    IN  [q EXCEPT !.dropped = @ \cup expired,
                  !.nonces = @ \ noncesOf(expired \cup Range(Taken(p, avoid)))]

topTransactions(p, avoid) ==
    LET expired == {t \in Visited(p, avoid) : ~isBlockLimitOk(check, t)}
        q == removeKnown(removeTrans(p, expired), expired)
    IN  [q EXCEPT !.dropped = @ \cup expired, !.nonces = @ \ noncesOf(expired)]

\* TxPool::topTransactionsCondition: transactions this node has not sent yet.
topTransactionsCondition(p) ==
    LET unsent == Only(p.queue, {t \in Tx : Self \notin p.known[t]})
    IN  SubSeq(unsent, 1, IF Len(unsent) < MaxSend THEN Len(unsent) ELSE MaxSend)

----------------------------------------------------------------------------
Idle == [pc |-> "free", block |-> {}, shards |-> <<>>, txs |-> <<>>]
Goto(th, pc) == thread' = [thread EXCEPT ![th].pc = pc]

Init ==
    /\ blocks = <<>>
    /\ pool = [queue |-> <<>>, dropped |-> {}, nonces |-> {}, known |-> [t \in Tx |-> {}]]
    /\ check = [number |-> 0, start |-> 0, end |-> 0, cache |-> {}]
    /\ proposal = NoBlock
    /\ thread = [th \in {"engine", "sync"} |-> Idle]
    /\ buffer = <<>>
    /\ downloading = FALSE
    /\ sent = {}
    /\ faults = [packet |-> 0, restart |-> 0]

\* TxPool::submit, on an RPC thread.
Submit(t) ==
    /\ pool' = import(pool, t)
    /\ pool' /= pool
    /\ UNCHANGED <<blocks, check, proposal, thread, buffer, downloading, sent, faults>>

\* SyncMsgEngine::onPeerTransactions: packets are dropped while blocks are downloaded.
onPeerTransactions(p, txs) ==
    /\ faults.packet < MaxPackets
    /\ faults' = [faults EXCEPT !.packet = @ + 1]
    /\ buffer' = IF downloading THEN buffer ELSE Append(buffer, [from |-> p, txs |-> txs])
    /\ UNCHANGED <<blocks, pool, check, proposal, thread, downloading, sent>>

\* DownloadingTxsQueue::pop2TxPool takes the buffer, and forgets it when the pool is
\* full.
Pop2TxPool ==
    /\ thread["sync"].pc = "free"
    /\ buffer /= <<>>
    /\ buffer' = <<>>
    /\ thread' = IF isFull(pool) THEN thread
                 ELSE [thread EXCEPT !["sync"] =
                          [@ EXCEPT !.pc = "import", !.shards = buffer,
                                    !.txs = Head(buffer).txs]]
    /\ UNCHANGED <<blocks, pool, check, proposal, downloading, sent, faults>>

\* The next transaction of the packet in hand is imported.
ImportNext ==
    LET me == thread["sync"] IN
    /\ me.pc = "import" /\ me.txs /= <<>>
    /\ pool' = import(pool, Head(me.txs))
    /\ thread' = [thread EXCEPT !["sync"].txs = Tail(@)]
    /\ UNCHANGED <<blocks, check, proposal, buffer, downloading, sent, faults>>

\* All transactions of the packet, imported or refused, are known by its sender.
setTransactionsAreKnownBy ==
    LET me == thread["sync"]
        shard == Head(me.shards)
        rest == Tail(me.shards)
    IN
    /\ me.pc = "import" /\ me.txs = <<>>
    /\ pool' = [pool EXCEPT !.known = [t \in Tx |->
                    IF t \in Range(shard.txs) THEN @[t] \cup {shard.from} ELSE @[t]]]
    /\ thread' = [thread EXCEPT !["sync"] =
                    IF rest = <<>> THEN Idle
                    ELSE [@ EXCEPT !.shards = rest, !.txs = Head(rest).txs]]
    /\ UNCHANGED <<blocks, check, proposal, buffer, downloading, sent, faults>>

\* SyncMaster::maintainTransactions, first half: the transactions to send.
FetchUnsent ==
    /\ thread["sync"].pc = "free"
    /\ ~downloading
    /\ topTransactionsCondition(pool) /= <<>>
    /\ thread' = [thread EXCEPT !["sync"] =
                     [@ EXCEPT !.pc = "send", !.txs = topTransactionsCondition(pool)]]
    /\ UNCHANGED <<blocks, pool, check, proposal, buffer, downloading, sent, faults>>

\* The peers a transaction may go to, and the random choices among them: all of them,
\* or a quarter of the peers when somebody is known to have it
\* (SyncMasterStatus::randomSelection).
Allowed(t) == {p \in Sealers : p \notin pool.known[t]}
chosenSize(t) == (Cardinality(Peers) * (IF pool.known[t] /= {} THEN 25 ELSE 100) + 99) \div 100
randomSelection(t) ==
    {s \in SUBSET Allowed(t) :
        Cardinality(s) = IF chosenSize(t) < Cardinality(Allowed(t))
                         THEN chosenSize(t) ELSE Cardinality(Allowed(t))}

\* The loop ends at the first transaction that has no peer to go to; then nothing is
\* sent, and those before it stay marked.
Marked(ts) ==
    LET alone == {i \in DOMAIN ts : Allowed(ts[i]) = {}}
    IN  {i \in DOMAIN ts : \A j \in alone : i < j}

\* A mutant of maintainTransactions that marks the receivers and not this node.
maintainTransactionsUnmarked ==
    LET ts == thread["sync"].txs IN
    /\ thread["sync"].pc = "send"
    /\ \E to \in [Marked(ts) -> SUBSET Sealers] :
          /\ \A i \in Marked(ts) : to[i] \in randomSelection(ts[i])
          /\ pool' = [pool EXCEPT !.known = [t \in Tx |->
                        @[t] \cup UNION {to[i] : i \in {j \in Marked(ts) : ts[j] = t}}]]
          /\ sent' = IF Marked(ts) = DOMAIN ts
                     THEN sent \cup UNION {{ts[i]} \X to[i] : i \in DOMAIN ts}
                     ELSE sent
    /\ thread' = [thread EXCEPT !["sync"] = Idle]
    /\ UNCHANGED <<blocks, check, proposal, buffer, downloading, faults>>

\* Second half of maintainTransactions, under x_transactionKnownBy, and the packets.
maintainTransactions ==
    LET ts == thread["sync"].txs IN
    /\ thread["sync"].pc = "send"
    /\ \E to \in [Marked(ts) -> SUBSET Sealers] :
          /\ \A i \in Marked(ts) : to[i] \in randomSelection(ts[i])
          /\ pool' = [pool EXCEPT !.known = [t \in Tx |->
                        @[t] \cup UNION {to[i] \cup {Self} : i \in {j \in Marked(ts) : ts[j] = t}}]]
          /\ sent' = IF Marked(ts) = DOMAIN ts
                     THEN sent \cup UNION {{ts[i]} \X to[i] : i \in DOMAIN ts}
                     ELSE sent
    /\ thread' = [thread EXCEPT !["sync"] = Idle]
    /\ UNCHANGED <<blocks, check, proposal, buffer, downloading, faults>>

----------------------------------------------------------------------------
\* The sealer takes transactions for the next block (Sealer::loadTransactions).  It
\* does so only when no thread is between storing a block and cleaning the pool:
\* reportBlock waits for the engine's lock, shouldSeal for the end of a download.
Seal ==
    /\ thread["engine"].pc = "free"
    /\ ~downloading
    /\ number < MaxBlocks
    /\ proposal' = [height |-> number + 1, txs |-> Range(Taken(pool, {}))]
    /\ pool' = topTransactions(pool, {})
    /\ <<proposal, pool>>' /= <<proposal, pool>>
    /\ UNCHANGED <<blocks, check, thread, buffer, downloading, sent, faults>>

\* Blocks other nodes may have sealed: the leader of the next height may have taken its
\* transactions one block earlier, and keeps what NoTransactionTwice promises.
ForeignBlock ==
    {b \in SUBSET (Tx \ (OtherGroup \cup Settled)) :
        \A t \in b : number <= blockLimit[t] /\ blockLimit[t] <= number + MaxBlockLimit}

\* BlockChainImp::commitBlock of this node's block or of another's, by the engine
\* (checkAndSave) or by the sync thread (maintainDownloadingQueue).
commitBlock(th, b) ==
    /\ number < MaxBlocks
    /\ thread[th].pc = "free"
    /\ \/ th = "engine" /\ proposal.height = number + 1 /\ b = proposal.txs
       \/ th = "engine" /\ b \in ForeignBlock
       \/ th = "sync" /\ downloading /\ b \in ForeignBlock
    /\ blocks' = Append(blocks, b)
    /\ thread' = [thread EXCEPT ![th] = [@ EXCEPT !.pc = "updateCache", !.block = b]]
    /\ UNCHANGED <<pool, check, proposal, buffer, downloading, sent, faults>>

\* TxPool::dropBlockTrans after the commit: four locks one after the other.
UpdateCache(th) ==
    /\ thread[th].pc = "updateCache"
    /\ check' = updateCache(check, FALSE)
    /\ Goto(th, "dropTransactions")
    /\ UNCHANGED <<blocks, pool, proposal, buffer, downloading, sent, faults>>

dropTransactions(th) ==
    /\ thread[th].pc = "dropTransactions"
    /\ pool' = removeTrans(pool, thread[th].block)
    /\ Goto(th, "removeBlockKnowTrans")
    /\ UNCHANGED <<blocks, check, proposal, buffer, downloading, sent, faults>>

removeBlockKnowTrans(th) ==
    /\ thread[th].pc = "removeBlockKnowTrans"
    /\ pool' = removeKnown(pool, thread[th].block)
    /\ Goto(th, "delCache")
    /\ UNCHANGED <<blocks, check, proposal, buffer, downloading, sent, faults>>

delCache(th) ==
    /\ thread[th].pc = "delCache"
    /\ pool' = [pool EXCEPT !.nonces = @ \ noncesOf(thread[th].block)]
    /\ thread' = [thread EXCEPT ![th] = Idle]
    /\ UNCHANGED <<blocks, check, proposal, buffer, downloading, sent, faults>>

\* The sync state turns to Downloading and back (noteDownloadingBegin and Finish).
Download ==
    /\ thread["sync"].pc = "free"
    /\ downloading' = ~downloading
    /\ UNCHANGED <<blocks, pool, check, proposal, thread, buffer, sent, faults>>

\* The process ends and starts again: the chain is all that is left, and
\* TransactionNonceCheck::init rebuilds its cache from it.
Restart ==
    /\ faults.restart < MaxRestart
    /\ faults' = [faults EXCEPT !.restart = @ + 1]
    /\ check' = updateCache(check, TRUE)
    /\ pool' = [queue |-> <<>>, dropped |-> {}, nonces |-> {}, known |-> [t \in Tx |-> {}]]
    /\ proposal' = NoBlock
    /\ thread' = [th \in {"engine", "sync"} |-> Idle]
    /\ buffer' = <<>>
    /\ downloading' = FALSE
    /\ sent' = {}
    /\ UNCHANGED blocks

Packets == {txs \in SeqOf(Tx, MaxPacket) : txs /= <<>>}

Next ==
    \/ \E t \in Tx : Submit(t)
    \/ \E p \in Peers, txs \in Packets : onPeerTransactions(p, txs)
    \/ Pop2TxPool
    \/ ImportNext
    \/ setTransactionsAreKnownBy
    \/ FetchUnsent
    \/ maintainTransactions
    \/ Seal
    \/ \E th \in {"engine", "sync"} :
          \/ \E b \in SUBSET Tx : commitBlock(th, b)
          \/ UpdateCache(th)
          \/ dropTransactions(th)
          \/ removeBlockKnowTrans(th)
          \/ delCache(th)
    \/ Download
    \/ Restart

Spec == Init /\ [][Next]_vars

----------------------------------------------------------------------------
(* Properties *)

Pcs == {"free", "import", "send", "updateCache", "dropTransactions",
        "removeBlockKnowTrans", "delCache"}
Packet == [from : Peers, txs : Seq(Tx)]

TypeOK ==
    /\ blocks \in Seq(SUBSET Tx)
    /\ pool \in [queue : Seq(Tx), dropped : SUBSET Tx, nonces : SUBSET Nonce,
                 known : [Tx -> SUBSET (Peers \cup {Self})]]
    /\ check \in [number : Nat, start : Nat, end : Nat, cache : SUBSET Nonce]
    /\ check.start <= check.end /\ check.end <= number
    /\ proposal \in [height : Nat, txs : SUBSET Tx]
    /\ thread \in [{"engine", "sync"} ->
                     [pc : Pcs, block : SUBSET Tx, shards : Seq(Packet), txs : Seq(Tx)]]
    /\ buffer \in Seq(Packet)
    /\ downloading \in BOOLEAN
    /\ sent \subseteq Tx \X Sealers
    /\ faults \in [packet : Nat, restart : Nat]
    /\ IsInjective(pool.queue)

\* A transaction whose nonce was new when it was stored is never stored again, although
\* it may be submitted again after its block, come from a peer, or return after a
\* restart: the window of remembered nonces outlives the block limit
\* (TransactionNonceCheck.cpp updateCache, isBlockLimitOk) and the pool is cleaned in
\* the right order (dropBlockTrans).  Only a transaction whose nonce an earlier block
\* held already may come twice: updateCache forgets the nonce with that earlier block.
NoTransactionTwice ==
    \A i, j \in 1 .. number : i < j => \A t \in blocks[i] \cap blocks[j] : ~ Fresh(i, t)

\* Two transactions of the pool have different nonces, also while a block takes a nonce
\* from the pool's cache to the chain's, unless a block that has left the window held
\* that nonce (TxPool.cpp verify, topTransactions, dropBlockTrans;
\* CommonTransactionNonceCheck::delCache).
PooledNoncesDiffer ==
    \A t, u \in Range(pool.queue) :
        t /= u /\ nonce[t] = nonce[u] => nonce[t] \in NoncesBetween(1, check.start - 1)

\* A transaction that was sent to a peer and still waits in the pool is known by that
\* peer and marked as sent, so that it is not sent again, whatever commits and imports
\* did to the marks in between (SyncMaster::maintainTransactions, removeBlockKnowTrans);
\* one that returned after its block, as NoTransactionTwice allows, starts anew.
SentStaysMarked ==
    \A t \in Range(pool.queue), p \in Sealers :
        <<t, p>> \in sent =>
            \/ {p, Self} \subseteq pool.known[t]
            \/ \E i \in 1 .. number : t \in blocks[i] /\ ~ Fresh(i, t)

\* "check block limit and nonce again when obtain transactions" (TxPool.cpp:429): the
\* nonces of the transactions the sealer takes are not in the window of the chain.
SealedNoncesFresh ==
    proposal.height = number + 1 => noncesOf(proposal.txs) \cap check.cache = {}
=============================================================================
