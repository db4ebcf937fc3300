----------------------------- MODULE PBFTEngine -----------------------------
(***************************************************************************)
(* libconsensus/pbft/PBFTEngine with the callers that drive it: the engine *)
(* thread (workLoop: handleMsg, checkTimeout, handleFutureBlock,           *)
(* collectGarbage), the sealer thread (reportNewBlock, shouldSeal,         *)
(* handleBlock) and the block sync thread that stores blocks of peers.     *)
(* Every handler runs under m_mutex and is one action.                     *)
(*                                                                         *)
(* Time is abstracted: a timeout may come at any moment, so m_timeManager  *)
(* and changeViewForFastViewChange, which makes one due at once, leave no  *)
(* trace in the state.                                                     *)
(***************************************************************************)
EXTENDS PBFTReqCache

CONSTANTS
    Genesis,        \* block number 0
    parent,         \* parent[b]: the parent hash in the header of block b
    EmptyBlock,     \* the blocks without transactions (m_omitEmptyBlock is set)
    FaultyMessage,  \* requests on the network that no correct sealer has sent
    MaxView,        \* bound: timeouts stop when m_toView reaches it
    MaxCrash,       \* bound: how many crashes a behaviour has
    Awake,          \* bound: the correct sealers that take steps (the others are just slow)
    Unstable,       \* bound: the sealers whose process may crash
    MaxEarly        \* bound: early sign and commit requests delivered to one node

ASSUME GenesisAssumption == Genesis \in Block /\ number[Genesis] = 0
ASSUME ParentAssumption == parent \in [Block -> Block]
ASSUME EmptyBlockAssumption == EmptyBlock \subseteq Block \ {Genesis}
ASSUME FaultyMessageAssumption == FaultyMessage \subseteq Message
ASSUME BoundAssumption == MaxView \in Nat /\ MaxCrash \in Nat /\ MaxEarly \in Nat
                          /\ Awake \subseteq Correct /\ Unstable \subseteq Awake

VARIABLES
    node,       \* node[n]: the state of the process of sealer n
    crashes     \* how many crashes have happened (bounded by MaxCrash)

vars == <<node, crashes>>

NodeState ==
    [view : Nat,                        \* m_view
     toView : Nat,                      \* m_toView
     leaderFailed : BOOLEAN,            \* m_leaderFailed
     consNum : Nat,                     \* m_consensusBlockNumber
     highest : Block,                   \* m_highestBlock
     cache : Cache,                     \* m_reqCache
     sealed : BOOLEAN,                  \* m_sealing.block.isSealed()
     sealNum : Nat,                     \* m_sealing.block.blockHeader().number()
     tip : Block,                       \* on disk: the block m_blockChain->number() names
     chain : SUBSET Block,              \* on disk: the blocks of the chain
     backup : Block \cup {NoBlock},     \* on disk: m_backupDB, key "committed"
     sent : SUBSET Message]             \* what the node has put on the network

TypeOK ==
    /\ node \in [Correct -> NodeState]
    /\ crashes \in Nat

(***************************************************************************)
(* The network.  Requests are flooded with a TTL, may be lost, delayed,    *)
(* reordered and delivered again, so a request once sent stays deliverable *)
(* and need never be delivered.  A node is never sent its own request back *)
(* (broadcastMsg filters the generating node).                             *)
(***************************************************************************)
Network == FaultyMessage \cup UNION {node[n].sent : n \in Correct}
Incoming(n, t) == {m \in Network : m.type = t /\ m.idx # n}

Msg(t, b, v, n) == [type |-> t, b |-> b, view |-> v, idx |-> n, sig |-> 0]
Send(s, m) == [s EXCEPT !.sent = @ \cup {m}]

-----------------------------------------------------------------------------
(* Leader election.                                                        *)

hasLeader(s) == ~ s.leaderFailed
getLeader(s) == (s.view + number[s.highest]) % NodeNum
getNextLeader(s) == (number[s.highest] + 1) % NodeNum
IsLeader(n, s) == hasLeader(s) /\ getLeader(s) = n

-----------------------------------------------------------------------------
(* The block chain and the sealing block.                                  *)

\* BlockChainImp::commitBlock accepts only a child of the current tip.
CanCommitBlock(s, b) == number[b] = number[s.tip] + 1 /\ parent[b] = s.tip
commitBlock(s, b) == [s EXCEPT !.tip = b, !.chain = @ \cup {b}]

\* Mistake to detect: the parent of a proposed block is not looked up.
checkBlockValidByNumber(s, b) == number[b] > number[s.tip]

\* ConsensusEngineBase::checkBlockValid; numberHash(h) is the chain's block of height h.
checkBlockValid(s, b) ==
    /\ number[b] > number[s.tip]
    /\ parent[b] \in s.chain
    /\ number[b] > 1 => number[parent[b]] = number[b] - 1

\* Mistake to detect: the sealing block is numbered below the tip.
resetSealingBlockBehind(s) == [s EXCEPT !.sealed = FALSE, !.sealNum = number[s.tip] - 1]

resetSealingBlock(s) == [s EXCEPT !.sealed = FALSE, !.sealNum = number[s.tip] + 1]
resetBlockForNextLeader(s) == [s EXCEPT !.sealed = FALSE, !.sealNum = number[s.tip] + 2]

shouldHandleBlock(n, s) == s.sealNum = number[s.tip] + 1 /\ IsLeader(n, s)

\* The callback of checkTimeout: a block sealed for the coming height is kept.
resetBlockForViewChange(n, s) ==
    IF s.sealed /\ shouldHandleBlock(n, s) THEN s ELSE resetSealingBlock(s)

notifySealing(n, s, m) ==
    IF m.idx # n /\ hasLeader(s) /\ getLeader(s) # n /\ n = getNextLeader(s)
    THEN resetBlockForNextLeader(s)
    ELSE s

-----------------------------------------------------------------------------
(* Checks on received requests.                                            *)

hasConsensused(s, m) ==
    height(m) < s.consNum \/ (height(m) = s.consNum /\ m.view < s.view)
isFuturePrepare(s, m) ==
    height(m) > s.consNum \/ (height(m) = s.consNum /\ m.view > s.view)
isFutureBlock(s, m) == height(m) >= s.consNum \/ m.view > s.view

\* Mistake to detect: any sealer may propose.
isValidLeaderAnyone(s, m) == hasLeader(s)

isValidLeader(s, m) == hasLeader(s) /\ m.idx = getLeader(s)

\* Mistake to detect: the lock on the committed prepare is ignored.
isHashSavedAfterCommitUnlocked(s, m) == m.b # NoBlock

isHashSavedAfterCommit(s, m) ==
    height(m) = Height(s.cache.committed) => m.b = s.cache.committed

isValidPrepare(s, m) ==
    IF isExistPrepare(s.cache, m) \/ hasConsensused(s, m) THEN "INVALID"
    ELSE IF isFuturePrepare(s, m) THEN "FUTURE"
    ELSE IF isValidLeader(s, m) /\ isHashSavedAfterCommit(s, m) THEN "VALID"
    ELSE "INVALID"

checkReq(s, n, m) ==
    IF s.cache.prep # m.b
    THEN IF isFutureBlock(s, m) THEN "FUTURE" ELSE "INVALID"
    ELSE IF m.idx # n /\ m.view = s.cache.prepView THEN "VALID" ELSE "INVALID"

isValidSignReq(s, n, m) ==
    IF isExistSign(s.cache, m) \/ hasConsensused(s, m) THEN "INVALID" ELSE checkReq(s, n, m)
isValidCommitReq(s, n, m) ==
    IF isExistCommit(s.cache, m) \/ hasConsensused(s, m) THEN "INVALID" ELSE checkReq(s, n, m)

-----------------------------------------------------------------------------
(* The three phases.                                                       *)

\* A commitBlock that is refused leaves the caches as they are.
checkAndSave(s) ==
    LET b == s.cache.prep
    IN  IF /\ b # NoBlock
           /\ getSigCacheSize(s.cache, b) >= minValidNodes
           /\ getCommitCacheSize(s.cache, b) >= minValidNodes
           /\ s.cache.prepView = s.view
           /\ number[b] > number[s.highest]
           /\ CanCommitBlock(s, b)
        THEN [commitBlock(s, b) EXCEPT
                !.cache = removeInvalidFutureCache(delCache(@, b), s.highest)]
        ELSE s

\* Exactly minValidNodes signatures: the commit phase starts once per prepare.
SignQuorumReached(s) ==
    /\ s.cache.prep # NoBlock
    /\ getSigCacheSize(s.cache, s.cache.prep) = minValidNodes
    /\ s.cache.prepView = s.view

\* Mistake to detect: the committed prepare is not written to disk.
backupCommittedInMemory(s) == [s EXCEPT !.cache = updateCommittedPrepare(@)]

backupCommitted(s) ==
    [s EXCEPT !.cache = updateCommittedPrepare(@), !.backup = s.cache.raw]

broadcastCommitReq(n, s) ==
    LET m == Msg("commit", s.cache.prep, s.cache.prepView, n)
    IN  [Send(s, m) EXCEPT !.cache = addCommitReq(@, m)]

checkAndCommit(n, s) ==
    IF SignQuorumReached(s)
    THEN checkAndSave(broadcastCommitReq(n, backupCommitted(s)))
    ELSE s

broadcastSignReq(n, s, p) ==
    LET m == Msg("sign", p.b, p.view, n)
    IN  [Send(s, m) EXCEPT !.cache = addSignReq(@, m)]

\* The prepare is cached as raw even when the block is empty or does not execute.
handleValidPrepare(n, s, m) ==
    LET s1 == [s EXCEPT !.cache = addRawPrepare(@, m)]
        s2 == [notifySealing(n, s1, m) EXCEPT !.cache = addPrepareReq(@, m)]
    IN  IF m.b \in EmptyBlock \/ ~ checkBlockValid(s, m.b)
        THEN s1
        ELSE checkAndCommit(n, broadcastSignReq(n, s2, m))

handlePrepareMsg(n, s, m) ==
    CASE isValidPrepare(s, m) = "VALID"  -> handleValidPrepare(n, s, m)
      [] isValidPrepare(s, m) = "FUTURE" -> [s EXCEPT !.cache = addFuturePrepareCache(@, m)]
      [] OTHER                           -> s

\* Mistake to detect: early signatures are not limited.
addFutureSignUnlimited(s, m) == [s EXCEPT !.cache = addSignReq(@, m)]

\* Early signatures stop one short of a quorum, so that the own one completes it.
addFutureSign(s, m) ==
    IF getSigCacheSize(s.cache, m.b) < minValidNodes - 1
    THEN [s EXCEPT !.cache = addSignReq(@, m)]
    ELSE s

handleSignMsg(n, s, m) ==
    CASE isValidSignReq(s, n, m) = "VALID"  -> checkAndCommit(n, [s EXCEPT !.cache = addSignReq(@, m)])
      [] isValidSignReq(s, n, m) = "FUTURE" -> addFutureSign(s, m)
      [] OTHER                              -> s

handleCommitMsg(n, s, m) ==
    CASE isValidCommitReq(s, n, m) = "VALID"  -> checkAndSave([s EXCEPT !.cache = addCommitReq(@, m)])
      [] isValidCommitReq(s, n, m) = "FUTURE" -> [s EXCEPT !.cache = addCommitReq(@, m)]
      [] OTHER                                -> s

-----------------------------------------------------------------------------
(* View changes.                                                           *)

broadcastViewChangeReq(n, s) == Send(s, Msg("viewchange", s.highest, s.toView, n))

\* Mistake to detect: the own request is not counted.
checkAndChangeViewLate(s) ==
    IF getViewChangeSize(s.cache, s.toView) >= minValidNodes
    THEN [s EXCEPT !.view = s.toView,
                   !.leaderFailed = FALSE,
                   !.cache = triggerViewChange(@, s.toView)]
    ELSE s

checkAndChangeView(s) ==
    IF getViewChangeSize(s.cache, s.toView) >= minValidNodes - 1
    THEN [s EXCEPT !.view = s.toView,
                   !.leaderFailed = FALSE,
                   !.cache = triggerViewChange(@, s.toView)]
    ELSE s

\* A peer that is two views behind is answered, if it sent the request itself.
catchupView(n, s, m, direct) ==
    IF m.view + 1 < s.toView /\ direct THEN broadcastViewChangeReq(n, s) ELSE s

isValidViewChangeReq(s, m) ==
    /\ height(m) >= number[s.highest]
    /\ m.view > s.view
    /\ height(m) = number[s.highest] => m.b = s.highest
    /\ m.b \in s.chain

\* More than F sealers ask for higher views: m_toView goes just below the lowest of
\* them and the next timeout is due.  The walk order is any.
fastViewChange(s) ==
    LET Asked == {x.view : x \in s.cache.vc}
        Triggered(rank) ==
            {v \in Asked : canTriggerViewChange(s.cache, s.toView, s.highest, s.consNum, rank, v)}
        Outcome(rank) ==
            IF Triggered(rank) = {} THEN {s} ELSE {[s EXCEPT !.toView = v - 1] : v \in Triggered(rank)}
    IN  UNION {Outcome(rank) : rank \in WalkOrders(s.cache)}

\* The states the handler may leave.  A duplicate is dropped before anything else;
\* catchupView comes before the other checks.
handleViewChangeMsg(n, s, m, direct) ==
    LET s0 == catchupView(n, s, m, direct)
        s1 == [s0 EXCEPT !.cache = addViewChangeReq(@, m)]
    IN  IF isExistViewChange(s.cache, m) THEN {s}
        ELSE IF ~ isValidViewChangeReq(s0, m) THEN {s0}
        ELSE IF m.view = s1.toView THEN {checkAndChangeView(s1)}
        ELSE fastViewChange(s1)

-----------------------------------------------------------------------------
Start(tip, chain, backup, sent) ==
    [view |-> 0, toView |-> 0, leaderFailed |-> FALSE, consNum |-> number[tip] + 1,
     highest |-> tip, cache |-> EmptyCache(backup), sealed |-> FALSE,
     sealNum |-> number[tip] + 1, tip |-> tip, chain |-> chain, backup |-> backup,
     sent |-> sent]

Init ==
    /\ node = [n \in Correct |-> Start(Genesis, {Genesis}, NoBlock, {})]
    /\ crashes = 0

\* Node n moves to state s and nobody else moves.
Become(n, s) == node' = [node EXCEPT ![n] = s] /\ UNCHANGED crashes

HandlePrepare(n) ==
    \E m \in Incoming(n, "prepare") : Become(n, handlePrepareMsg(n, node[n], m))

\* The bound: a request that comes before its prepare is late instead when MaxEarly wait.
EarlyRoom(c) == Cardinality({x \in c.sign \cup c.commit : x.b # c.prep}) < MaxEarly

HandleSign(n) ==
    \E m \in Incoming(n, "sign") :
        /\ isValidSignReq(node[n], n, m) = "FUTURE" => EarlyRoom(node[n].cache)
        /\ Become(n, handleSignMsg(n, node[n], m))

HandleCommit(n) ==
    \E m \in Incoming(n, "commit") :
        /\ isValidCommitReq(node[n], n, m) = "FUTURE" => EarlyRoom(node[n].cache)
        /\ Become(n, handleCommitMsg(n, node[n], m))

HandleViewChange(n) ==
    \E m \in Incoming(n, "viewchange"), direct \in BOOLEAN :
        \E s \in handleViewChangeMsg(n, node[n], m, direct) : Become(n, s)

\* checkTimeout and the onViewChange callback that follows it.
Timeout(n) ==
    LET s1 == [node[n] EXCEPT !.toView = @ + 1, !.leaderFailed = TRUE]
        s2 == [s1 EXCEPT !.cache = removeInvalidViewChange(@, s1.toView, s1.highest)]
    IN  /\ node[n].toView < MaxView
        /\ Become(n, resetBlockForViewChange(n,
                        checkAndChangeView(broadcastViewChangeReq(n, s2))))

HandleFuture(n) ==
    \E m \in node[n].cache.future :
        /\ height(m) = node[n].consNum
        /\ m.view = node[n].view
        /\ Become(n, [handlePrepareMsg(n, node[n], m) EXCEPT
                        !.cache = eraseHandledFutureReq(@, height(m))])

CollectGarbage(n) ==
    Become(n, [node[n] EXCEPT !.cache = collectGarbage(@, node[n].highest)])

-----------------------------------------------------------------------------
(* The sealer thread and the sync thread.                                  *)

\* Mistake to detect: the view of the previous height is kept.
reportBlockKeepingView(s) ==
    [s EXCEPT !.cache = delCache(delInvalidViewChange(@, s.tip), s.tip),
              !.highest = s.tip, !.consNum = number[s.tip] + 1, !.leaderFailed = FALSE]

\* reportBlockWithoutLock followed by the reset of the sealing block in reportNewBlock.
reportBlock(s) ==
    LET s1 == [s EXCEPT !.cache = removeInvalidFutureCache(@, s.highest), !.highest = s.tip]
        s2 == IF number[s.tip] >= s.consNum
              THEN [s1 EXCEPT !.view = 0, !.toView = 0, !.leaderFailed = FALSE,
                              !.consNum = number[s.tip] + 1,
                              !.cache = delInvalidViewChange(@, s.tip)]
              ELSE s1
    IN  [s2 EXCEPT !.cache = delCache(@, s.tip)]

shouldResetSealing(n, s) ==
    (s.sealed \/ s.sealNum <= number[s.tip]) /\ IsLeader(n, s)

ReportBlock(n) ==
    LET s == reportBlock(node[n])
    IN  /\ number[node[n].highest] < number[node[n].tip]
        /\ Become(n, IF shouldResetSealing(n, s) THEN resetSealingBlock(s) ELSE s)

Proposed(b) == \E m \in Network : m.type = "prepare" /\ m.b = b

\* doWork: shouldSeal, shouldHandleBlock, handleBlock with generatePrepare.
Seal(n) ==
    LET s == node[n]
    IN  \E b \in Block :
            LET m  == Msg("prepare", b, s.view, n)
                s1 == Send([s EXCEPT !.sealed = TRUE], m)
            IN  /\ ~ s.sealed
                /\ Height(s.cache.committed) # s.consNum
                /\ shouldHandleBlock(n, s)
                /\ CanCommitBlock(s, b)
                /\ ~ Proposed(b)
                /\ Become(n, IF b \in EmptyBlock
                             THEN resetSealingBlock([s1 EXCEPT !.leaderFailed = TRUE])
                             ELSE handlePrepareMsg(n, s1, m))

\* shouldSeal: the leader proposes its unsubmitted committed block again.
RehandleCommitted(n) ==
    LET s == node[n]
        m == Msg("prepare", s.cache.committed, s.view, n)
    IN  /\ ~ s.sealed
        /\ IsLeader(n, s)
        /\ Height(s.cache.committed) = s.consNum
        /\ Height(s.cache.raw) # s.consNum
        /\ Become(n, handlePrepareMsg(n, Send(s, m), m))

\* The signatures a stored block may carry: those of the commit requests for it.
\* checkBlock counts them and does not look whether their signers differ.
SigList(b) == {sigHex(m) : m \in {x \in Network : x.type = "commit" /\ x.b = b}}
checkBlock(b) == Cardinality(SigList(b)) >= minValidNodes

\* Block sync stores the next block of a peer's chain.
SyncBlock(n) ==
    \E p \in Correct \ {n} : \E b \in node[p].chain :
        /\ CanCommitBlock(node[n], b)
        /\ checkBlock(b)
        /\ Become(n, commitBlock(node[n], b))

-----------------------------------------------------------------------------
(* Crashes.  The process restarts at once from what is on disk.            *)

\* Mistake to detect: the committed prepare is not reloaded after a restart.
RestartUnlocked(s) == Start(s.tip, s.chain, NoBlock, s.sent)

Restart(s) == Start(s.tip, s.chain, s.backup, s.sent)

Fail(n, s) ==
    /\ crashes < MaxCrash /\ n \in Unstable
    /\ crashes' = crashes + 1
    /\ node' = [node EXCEPT ![n] = Restart(s)]

Crash(n) == Fail(n, node[n])

\* The process dies after backupMsg and before broadcastCommitReq.
CrashInCheckAndCommit(n) ==
    \E m \in Incoming(n, "sign") :
        LET s == [node[n] EXCEPT !.cache = addSignReq(@, m)]
        IN  /\ isValidSignReq(node[n], n, m) = "VALID"
            /\ SignQuorumReached(s)
            /\ Fail(n, backupCommitted(s))

-----------------------------------------------------------------------------
Next ==
    \E n \in Awake :
        \/ HandlePrepare(n)
        \/ HandleSign(n)
        \/ HandleCommit(n)
        \/ HandleViewChange(n)
        \/ Timeout(n)
        \/ HandleFuture(n)
        \/ CollectGarbage(n)
        \/ ReportBlock(n)
        \/ Seal(n)
        \/ RehandleCommitted(n)
        \/ SyncBlock(n)
        \/ Crash(n)
        \/ CrashInCheckAndCommit(n)

Spec == Init /\ [][Next]_vars

(***************************************************************************)
(* The two threads of a node keep running while they have something to do  *)
(* and its peers stay connected; nobody is obliged to crash, to sync or to *)
(* collect garbage.                                                        *)
(***************************************************************************)
EngineThread(n) ==
    \/ HandlePrepare(n)
    \/ HandleSign(n)
    \/ HandleCommit(n)
    \/ HandleViewChange(n)
    \/ Timeout(n)
    \/ HandleFuture(n)
SealerThread(n) == ReportBlock(n) \/ Seal(n) \/ RehandleCommitted(n)

Fairness == \A n \in Awake : WF_vars(EngineThread(n)) /\ WF_vars(SealerThread(n))

FairSpec == Spec /\ Fairness
-----------------------------------------------------------------------------
CommitVotes(n) == {m \in node[n].sent : m.type = "commit"}
Requests(t, b, v) == {x \in Network : x.type = t /\ x.b = b /\ x.view = v}
Senders(t, b, v) == {m.idx : m \in Requests(t, b, v)}
Signatures(t, b, v) == {sigHex(m) : m \in Requests(t, b, v)}

(***************************************************************************)
(* The faults under which quorums of signatures are quorums of signers: a  *)
(* faulty sealer may be off, restart without its disk and propose, sign,   *)
(* commit and ask for anything, in any view, but it signs with dev::sign   *)
(* and in its own name, and a request of a correct sealer is on the        *)
(* network only as that sealer sent it.  The code relies on this and does  *)
(* not check it: it counts signatures, and neither of a request's two      *)
(* signatures covers the packet type (Common.h:237-242).                   *)
(***************************************************************************)
OneSignatureEach == \A m \in FaultyMessage : m.idx \in Faulty /\ m.sig = 0

(***************************************************************************)
(* No two correct nodes hold different blocks of one height, whatever the  *)
(* views, crashes and sync deliveries in which checkAndSave and block sync *)
(* stored them.  Under OneSignatureEach.                                   *)
(***************************************************************************)
Agreement ==
    \A n1, n2 \in Correct : \A b1 \in node[n1].chain, b2 \in node[n2].chain :
        number[b1] = number[b2] => b1 = b2

(***************************************************************************)
(* A commit request is a durable promise: once checkAndCommit has sent     *)
(* one, the block stays in m_backupDB, across restarts, until the node's   *)
(* own chain has reached that height.                                      *)
(***************************************************************************)
CommitVoteLocked ==
    \A n \in Correct : \A m \in CommitVotes(n) :
        node[n].backup = m.b \/ height(m) <= number[node[n].tip]

(***************************************************************************)
(* checkAndCommit votes only on minValidNodes different signatures of sign *)
(* requests of ONE view: the early signatures isFutureBlock lets into      *)
(* m_signCache never mix views.                                            *)
(***************************************************************************)
CommitNeedsSignQuorum ==
    \A n \in Correct : \A m \in CommitVotes(n) :
        Cardinality(Signatures("sign", m.b, m.view)) >= minValidNodes

(***************************************************************************)
(* For every block on a chain there are minValidNodes different signatures *)
(* of commit requests of one view (generateAndSetSigList; checkBlock for a *)
(* synced block).                                                          *)
(***************************************************************************)
ChainNeedsCommitQuorum ==
    \A n \in Correct : \A b \in node[n].chain \ {Genesis} :
        \E v \in {m.view : m \in Network} :
            Cardinality(Signatures("commit", b, v)) >= minValidNodes

(***************************************************************************)
(* A node is in a view above 0 only when minValidNodes - 1 peers that are  *)
(* not behind its highest block asked for that view (checkAndChangeView    *)
(* after removeInvalidViewChange and delInvalidViewChange).                *)
(***************************************************************************)
ViewNeedsRequests ==
    \A n \in Correct : node[n].view > 0 =>
        Cardinality({m.idx : m \in {x \in Incoming(n, "viewchange") :
                        /\ x.view = node[n].view
                        /\ height(x) >= number[node[n].highest]}}) >= minValidNodes - 1

(***************************************************************************)
(* The lock on disk only moves up: no step, crash or restart replaces it   *)
(* by another block of the same height or by a lower one.                  *)
(***************************************************************************)
LockMovesUp ==
    \A n \in Correct :
        \/ node'[n].backup = node[n].backup
        \/ Height(node'[n].backup) > Height(node[n].backup)
LockNeverReplaced == [][LockMovesUp]_vars

(***************************************************************************)
(* No quorum goes unnoticed: checkAndCommit acts when the number of        *)
(* signatures EQUALS minValidNodes, so a count that jumped past it would   *)
(* leave the node silent.                                                  *)
(***************************************************************************)
SignQuorumIsActedOn ==
    \A n \in Correct :
        LET c == node[n].cache
        IN  (/\ c.prep # NoBlock
             /\ c.prepView = node[n].view
             /\ getSigCacheSize(c, c.prep) >= minValidNodes)
            => \E m \in CommitVotes(n) : m.b = c.prep /\ m.view = c.prepView

(***************************************************************************)
(* "to ensure that the signReq can reach to consensus even if the view has *)
(* been changed" (PBFTEngine.h:487): an early signature for a view is      *)
(* there when the node enters that view.                                   *)
(***************************************************************************)
EarlySignsKept ==
    \A n \in Correct : node'[n].view > node[n].view =>
        \A m \in node[n].cache.sign : m.view = node'[n].view => m \in node'[n].cache.sign
EarlySignsSurvive == [][EarlySignsKept]_vars

(***************************************************************************)
(* Whatever a correct node signs was proposed, in that view, by the leader *)
(* of the view for that height, also when the prepare waited in the future *)
(* cache while views and heights moved.                                    *)
(***************************************************************************)
SignedBlockIsLeaders ==
    \A n \in Correct : \A m \in {x \in node[n].sent : x.type = "sign"} :
        (m.view + height(m) - 1) % NodeNum \in Senders("prepare", m.b, m.view)

(***************************************************************************)
(* Every correct node stores a block of height 1 itself, by checkAndSave,  *)
(* although the leader may be silent and requests come early, late and     *)
(* more than once.                                                         *)
(***************************************************************************)
EveryoneStores == <>(\A n \in Awake : number[node[n].tip] >= 1)

(***************************************************************************)
(* The lock never strands a node: while the locked block is above the      *)
(* chain it extends the chain's tip, so that rehandleCommitedPrepareCache  *)
(* proposes something that can be executed and stored.                     *)
(***************************************************************************)
LockExtendsChain ==
    \A n \in Correct :
        Height(node[n].backup) > number[node[n].tip] => CanCommitBlock(node[n], node[n].backup)

(***************************************************************************)
(* The engine implements the abstract agreement: a commit request is a     *)
(* vote, a stored block is a decision.  Under OneSignatureEach.            *)
(***************************************************************************)
Abstract == INSTANCE BlockAgreement WITH
    voted <- [n \in Correct |-> {m.b : m \in CommitVotes(n)}],
    decided <- [n \in Correct |-> node[n].chain \ {Genesis}]
ImplementsAgreement == Abstract!AbstractSpec
=============================================================================
