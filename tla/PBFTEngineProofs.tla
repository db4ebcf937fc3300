-------------------------- MODULE PBFTEngineProofs --------------------------
(***************************************************************************)
(* Theorems about PBFTEngine, for every number of sealers, every set of    *)
(* blocks, every set of foreign requests and every bound: it keeps its     *)
(* types, what a node signs, commits, stores and moves to is backed by     *)
(* what is on the network, and, when OneSignatureEach holds, it never      *)
(* forks and implements BlockAgreement.                                    *)
(*                                                                         *)
(* NodeInv is what one node keeps by itself: the lock on disk, the cached  *)
(* prepare and the commit requests it has sent agree.  EngineInv adds what *)
(* relates nodes: a commit request in a cache is on the network, and under *)
(* OneSignatureEach every stored block has the votes of a quorum.          *)
(*                                                                         *)
(* WorkInv relates a node to the requests on the network: what its caches  *)
(* hold, what its chain, its lock and its view rest on, and that a quorum  *)
(* of signatures has been answered.  GroupWork is EngineInv with WorkInv   *)
(* of every correct node.                                                  *)
(*                                                                         *)
(* The facts about the sealer group come from BlockAgreementProofs; its    *)
(* variables voted and decided come along and play no part here.           *)
(***************************************************************************)
EXTENDS PBFTEngine, BlockAgreementProofs

-----------------------------------------------------------------------------
(* The operations of PBFTReqCache return a cache.                          *)

LEMMA CacheUpdateTypes ==
    ASSUME NEW c \in Cache, NEW m \in Message
    PROVE  /\ addRawPrepare(c, m) \in Cache
           /\ addPrepareReq(c, m) \in Cache
           /\ addSignReq(c, m) \in Cache
           /\ addCommitReq(c, m) \in Cache
           /\ addViewChangeReq(c, m) \in Cache
           /\ addFuturePrepareCache(c, m) \in Cache
           /\ updateCommittedPrepare(c) \in Cache
<1> m.b \in Block /\ m.view \in Nat
  BY DEF Message
<1>1. addRawPrepare(c, m) \in Cache
  BY DEF Cache, addRawPrepare
<1>2. addPrepareReq(c, m) \in Cache
  BY DEF Cache, addPrepareReq
<1>3. addSignReq(c, m) \in Cache
  BY DEF Cache, addSignReq
<1>4. addCommitReq(c, m) \in Cache
  BY DEF Cache, addCommitReq
<1>5. addViewChangeReq(c, m) \in Cache
  BY DEF Cache, addViewChangeReq
<1>6. addFuturePrepareCache(c, m) \in Cache
  BY DEF Cache, addFuturePrepareCache
<1>7. updateCommittedPrepare(c) \in Cache
  BY DEF Cache, updateCommittedPrepare
<1> QED
  BY <1>1, <1>2, <1>3, <1>4, <1>5, <1>6, <1>7

LEMMA CacheCleanTypes ==
    ASSUME NEW c \in Cache, NEW b \in Block, NEW v \in Nat, NEW h
    PROVE  /\ delCache(c, b) \in Cache
           /\ eraseHandledFutureReq(c, h) \in Cache
           /\ removeInvalidFutureCache(c, b) \in Cache
           /\ delInvalidViewChange(c, b) \in Cache
           /\ removeInvalidViewChange(c, v, b) \in Cache
           /\ collectGarbage(c, b) \in Cache
           /\ triggerViewChange(c, v) \in Cache
<1>1. delCache(c, b) \in Cache
  BY DEF Cache, delCache
<1>2. eraseHandledFutureReq(c, h) \in Cache
  BY DEF Cache, eraseHandledFutureReq
<1>3. removeInvalidFutureCache(c, b) \in Cache
  BY DEF Cache, removeInvalidFutureCache
<1>4. delInvalidViewChange(c, b) \in Cache
  BY DEF Cache, delInvalidViewChange, removeInvalidEntryFromCache
<1>5. removeInvalidViewChange(c, v, b) \in Cache
  BY DEF Cache, removeInvalidViewChange
<1>6. collectGarbage(c, b) \in Cache
  BY DEF Cache, collectGarbage, removeInvalidEntryFromCache
<1>7. triggerViewChange(c, v) \in Cache
  BY DEF Cache, triggerViewChange
<1> QED
  BY <1>1, <1>2, <1>3, <1>4, <1>5, <1>6, <1>7

-----------------------------------------------------------------------------
(* The operations of the engine return a node state.                       *)

LEMMA StateUpdateTypes ==
    ASSUME NEW s \in NodeState
    PROVE  /\ \A c \in Cache : [s EXCEPT !.cache = c] \in NodeState
           /\ \A m \in Message : Send(s, m) \in NodeState
           /\ \A b \in Block : commitBlock(s, b) \in NodeState
           /\ resetSealingBlock(s) \in NodeState
           /\ resetBlockForNextLeader(s) \in NodeState
           /\ backupCommitted(s) \in NodeState
<1>1. \A c \in Cache : [s EXCEPT !.cache = c] \in NodeState
  BY DEF NodeState
<1>2. \A m \in Message : Send(s, m) \in NodeState
  BY DEF NodeState, Send
<1>3. \A b \in Block : commitBlock(s, b) \in NodeState
  BY DEF NodeState, commitBlock
<1>4. number[s.tip] + 1 \in Nat /\ number[s.tip] + 2 \in Nat
  BY NumberAssumption DEF NodeState
<1> DEFINE unsealed(k) == [s EXCEPT !.sealed = FALSE, !.sealNum = k]
<1>5. \A k \in Nat : unsealed(k) \in NodeState
  BY DEF NodeState
<1>6. /\ resetSealingBlock(s) \in NodeState
      /\ resetBlockForNextLeader(s) \in NodeState
  BY <1>4, <1>5 DEF resetSealingBlock, resetBlockForNextLeader
<1>7. backupCommitted(s) \in NodeState
  <2>1. updateCommittedPrepare(s.cache) \in Cache /\ s.cache.raw \in Block \cup {NoBlock}
    BY DEF NodeState, Cache, updateCommittedPrepare
  <2> QED
    BY <2>1 DEF NodeState, backupCommitted
<1> QED
  BY <1>1, <1>2, <1>3, <1>5, <1>6, <1>7

LEMMA StateFields ==
    ASSUME NEW s \in NodeState
    PROVE  /\ s.view \in Nat /\ s.toView \in Nat /\ s.consNum \in Nat
           /\ s.highest \in Block /\ s.tip \in Block /\ s.chain \in SUBSET Block
           /\ s.backup \in Block \cup {NoBlock}
           /\ s.sent \in SUBSET Message
           /\ s.cache \in Cache
           /\ s.cache.raw \in Block \cup {NoBlock} /\ s.cache.prep \in Block \cup {NoBlock}
           /\ s.cache.committed \in Block \cup {NoBlock}
           /\ s.cache.prepView \in Nat
           /\ s.cache.future \in SUBSET Message /\ s.cache.vc \in SUBSET Message
BY DEF NodeState, Cache

LEMMA MsgType1 ==
    ASSUME NEW t \in MsgType, NEW b \in Block, NEW v \in Nat, NEW n \in Node
    PROVE  Msg(t, b, v, n) \in Message
BY SigNumAssumption DEF Msg, Message

LEMMA CheckAndSaveType ==
    ASSUME NEW s \in NodeState
    PROVE  checkAndSave(s) \in NodeState
<1> DEFINE b == s.cache.prep
           t == commitBlock(s, b)
           c == removeInvalidFutureCache(delCache(t.cache, b), s.highest)
<1>1. CASE b = NoBlock
  BY <1>1 DEF checkAndSave
<1>2. CASE b # NoBlock
  <2>1. b \in Block /\ s.highest \in Block
    BY <1>2, StateFields
  <2>2. t \in NodeState
    BY <2>1, StateUpdateTypes
  <2>3. t.cache \in Cache
    BY <2>2, StateFields
  <2>4. c \in Cache
    BY <2>1, <2>3, CacheCleanTypes
  <2>5. [t EXCEPT !.cache = c] \in NodeState
    BY <2>2, <2>4, StateUpdateTypes
  <2> QED
    BY <2>5 DEF checkAndSave
<1> QED
  BY <1>1, <1>2

LEMMA CheckAndCommitType ==
    ASSUME NEW n \in Correct, NEW s \in NodeState
    PROVE  checkAndCommit(n, s) \in NodeState
<1> DEFINE s1 == backupCommitted(s)
           m == Msg("commit", s1.cache.prep, s1.cache.prepView, n)
           s2 == Send(s1, m)
           s3 == [s2 EXCEPT !.cache = addCommitReq(s2.cache, m)]
<1>1. CASE ~ SignQuorumReached(s)
  BY <1>1 DEF checkAndCommit
<1>2. CASE SignQuorumReached(s)
  <2>1. s1 \in NodeState
    BY StateUpdateTypes
  <2>2. s1.cache.prep \in Block
    <3>1. s1.cache.prep = s.cache.prep
      BY DEF backupCommitted, updateCommittedPrepare, NodeState, Cache
    <3> QED
      BY <1>2, <3>1, StateFields DEF SignQuorumReached
  <2>3. m \in Message
    BY <2>1, <2>2, StateFields, MsgType1 DEF Correct, MsgType
  <2>4. s2 \in NodeState
    BY <2>1, <2>3, StateUpdateTypes
  <2>5. s3 \in NodeState
    BY <2>3, <2>4, StateFields, CacheUpdateTypes, StateUpdateTypes
  <2>6. checkAndCommit(n, s) = checkAndSave(s3)
    BY <1>2 DEF checkAndCommit, broadcastCommitReq
  <2> QED
    BY <2>5, <2>6, CheckAndSaveType
<1> QED
  BY <1>1, <1>2

LEMMA HandlePrepareMsgType ==
    ASSUME NEW n \in Correct, NEW s \in NodeState, NEW m \in Message
    PROVE  handlePrepareMsg(n, s, m) \in NodeState
<1> DEFINE s1 == [s EXCEPT !.cache = addRawPrepare(s.cache, m)]
           s2 == notifySealing(n, s1, m)
           s3 == [s2 EXCEPT !.cache = addPrepareReq(s2.cache, m)]
           k == Msg("sign", m.b, m.view, n)
           s4 == Send(s3, k)
           s5 == [s4 EXCEPT !.cache = addSignReq(s4.cache, k)]
<1>1. s1 \in NodeState
  BY StateFields, CacheUpdateTypes, StateUpdateTypes
<1>2. s2 \in NodeState
  BY <1>1, StateUpdateTypes DEF notifySealing
<1>3. s3 \in NodeState
  BY <1>2, StateFields, CacheUpdateTypes, StateUpdateTypes
<1>4. k \in Message
  BY MsgType1 DEF Message, MsgType, Correct
<1>5. s4 \in NodeState
  BY <1>3, <1>4, StateUpdateTypes
<1>6. s5 \in NodeState
  BY <1>4, <1>5, StateFields, CacheUpdateTypes, StateUpdateTypes
<1>7. handleValidPrepare(n, s, m) \in NodeState
  <2>1. handleValidPrepare(n, s, m) \in {s1, checkAndCommit(n, s5)}
    BY DEF handleValidPrepare, broadcastSignReq
  <2> QED
    BY <2>1, <1>1, <1>6, CheckAndCommitType
<1>8. [s EXCEPT !.cache = addFuturePrepareCache(s.cache, m)] \in NodeState
  BY StateFields, CacheUpdateTypes, StateUpdateTypes
<1> QED
  BY <1>7, <1>8 DEF handlePrepareMsg

LEMMA HandleSignMsgType ==
    ASSUME NEW n \in Correct, NEW s \in NodeState, NEW m \in Message
    PROVE  handleSignMsg(n, s, m) \in NodeState
<1>1. [s EXCEPT !.cache = addSignReq(s.cache, m)] \in NodeState
  BY StateFields, CacheUpdateTypes, StateUpdateTypes
<1> QED
  BY <1>1, CheckAndCommitType DEF handleSignMsg, addFutureSign

LEMMA HandleCommitMsgType ==
    ASSUME NEW n \in Correct, NEW s \in NodeState, NEW m \in Message
    PROVE  handleCommitMsg(n, s, m) \in NodeState
<1>1. [s EXCEPT !.cache = addCommitReq(s.cache, m)] \in NodeState
  BY StateFields, CacheUpdateTypes, StateUpdateTypes
<1> QED
  BY <1>1, CheckAndSaveType DEF handleCommitMsg

LEMMA CheckAndChangeViewType ==
    ASSUME NEW s \in NodeState
    PROVE  checkAndChangeView(s) \in NodeState
<1>1. s.toView \in Nat /\ triggerViewChange(s.cache, s.toView) \in Cache
  BY StateFields, CacheCleanTypes
<1> DEFINE entered(c) == [s EXCEPT !.view = s.toView, !.leaderFailed = FALSE, !.cache = c]
<1>2. \A c \in Cache : entered(c) \in NodeState
  BY <1>1 DEF NodeState
<1>3. checkAndChangeView(s) \in {s, entered(triggerViewChange(s.cache, s.toView))}
  BY DEF checkAndChangeView
<1> QED
  BY <1>1, <1>2, <1>3

LEMMA BroadcastViewChangeReqType ==
    ASSUME NEW n \in Correct, NEW s \in NodeState
    PROVE  broadcastViewChangeReq(n, s) \in NodeState
BY StateFields, StateUpdateTypes, MsgType1 DEF broadcastViewChangeReq, MsgType, Correct

LEMMA StartType ==
    ASSUME NEW tip \in Block, NEW chain \in SUBSET Block,
           NEW backup \in Block \cup {NoBlock}, NEW sent \in SUBSET Message
    PROVE  Start(tip, chain, backup, sent) \in NodeState
<1>1. number[tip] + 1 \in Nat
  BY NumberAssumption
<1>2. EmptyCache(backup) \in Cache
  BY DEF EmptyCache, Cache
<1> QED
  BY <1>1, <1>2 DEF Start, NodeState

LEMMA ReportBlockType ==
    ASSUME NEW s \in NodeState
    PROVE  reportBlock(s) \in NodeState
<1> DEFINE c1 == removeInvalidFutureCache(s.cache, s.highest)
           s1 == [s EXCEPT !.cache = c1, !.highest = s.tip]
           s2 == [s1 EXCEPT !.view = 0, !.toView = 0, !.leaderFailed = FALSE,
                            !.consNum = number[s.tip] + 1,
                            !.cache = delInvalidViewChange(s1.cache, s.tip)]
           clean(t) == [t EXCEPT !.cache = delCache(t.cache, s.tip)]
<1>1. s.tip \in Block /\ number[s.tip] + 1 \in Nat /\ c1 \in Cache
  <2>1. s.tip \in Block /\ s.highest \in Block /\ s.cache \in Cache
    BY StateFields
  <2>2. c1 \in Cache
    BY <2>1, CacheCleanTypes
  <2>3. number[s.tip] + 1 \in Nat
    BY <2>1, NumberAssumption
  <2> QED
    BY <2>1, <2>2, <2>3
<1>2. s1 \in NodeState
  BY <1>1 DEF NodeState
<1>3. delInvalidViewChange(s1.cache, s.tip) \in Cache
  <2> HIDE DEF s1
  <2> QED
    BY <1>1, <1>2, StateFields, CacheCleanTypes
<1>4. s2 \in NodeState
  <2> HIDE DEF s1
  <2>1. \A k \in Nat, c \in Cache :
            [s1 EXCEPT !.view = 0, !.toView = 0, !.leaderFailed = FALSE,
                       !.consNum = k, !.cache = c] \in NodeState
    BY <1>2 DEF NodeState
  <2> QED
    BY <1>1, <1>3, <2>1
<1>5. ASSUME NEW t \in NodeState
      PROVE  clean(t) \in NodeState
  BY <1>1, StateFields, CacheCleanTypes, StateUpdateTypes
<1>6. reportBlock(s) \in {clean(s1), clean(s2)}
  BY DEF reportBlock
<1> HIDE DEF s1, s2, clean
<1> QED
  BY <1>2, <1>4, <1>5, <1>6

LEMMA FastViewChangeType ==
    ASSUME NEW s \in NodeState, NEW t \in fastViewChange(s)
    PROVE  t \in NodeState
<1>1. CASE t = s
  BY <1>1
<1>2. CASE t # s
  <2>1. PICK rank \in WalkOrders(s.cache), v \in {x.view : x \in s.cache.vc} :
            /\ canTriggerViewChange(s.cache, s.toView, s.highest, s.consNum, rank, v)
            /\ t = [s EXCEPT !.toView = v - 1]
    BY <1>2 DEF fastViewChange
  <2>2. v \in Nat /\ s.toView \in Nat
    BY StateFields DEF Message
  <2>3. v > s.toView
    BY <2>1 DEF canTriggerViewChange, Counted, Candidates
  <2>4. v - 1 \in Nat
    BY <2>2, <2>3
  <2> QED
    BY <2>1, <2>4 DEF NodeState
<1> QED
  BY <1>1, <1>2

LEMMA HandleViewChangeMsgType ==
    ASSUME NEW n \in Correct, NEW s \in NodeState, NEW m \in Message, NEW direct,
           NEW t \in handleViewChangeMsg(n, s, m, direct)
    PROVE  t \in NodeState
<1> DEFINE s0 == catchupView(n, s, m, direct)
           s1 == [s0 EXCEPT !.cache = addViewChangeReq(s0.cache, m)]
<1>1. s0 \in NodeState
  BY BroadcastViewChangeReqType DEF catchupView
<1>2. s1 \in NodeState
  BY <1>1, StateFields, CacheUpdateTypes, StateUpdateTypes
<1>3. t \in {s, s0, checkAndChangeView(s1)} \cup fastViewChange(s1)
  BY DEF handleViewChangeMsg
<1> HIDE DEF s0, s1
<1> QED
  BY <1>1, <1>2, <1>3, CheckAndChangeViewType, FastViewChangeType

-----------------------------------------------------------------------------
(* Every action keeps the types.                                           *)

LEMMA NetworkType ==
    ASSUME TypeOK
    PROVE  /\ Network \subseteq Message
           /\ \A n \in Correct : node[n] \in NodeState
BY FaultyMessageAssumption, StateFields DEF TypeOK, Network

LEMMA BecomeType ==
    ASSUME TypeOK, NEW n \in Correct, NEW s \in NodeState, Become(n, s)
    PROVE  TypeOK'
BY DEF TypeOK, Become


LEMMA TypeOKInit == Init => TypeOK
<1>1. Start(Genesis, {Genesis}, NoBlock, {}) \in NodeState
  BY GenesisAssumption, StartType
<1> QED
  BY <1>1 DEF Init, TypeOK

LEMMA TypeOKNext == TypeOK /\ [Next]_vars => TypeOK'
<1> SUFFICES ASSUME TypeOK, [Next]_vars
             PROVE  TypeOK'
  OBVIOUS
<1>1. CASE UNCHANGED vars
  BY <1>1 DEF vars, TypeOK
<1>2. ASSUME NEW n \in Awake
      PROVE  n \in Correct /\ n \in Node /\ node[n] \in NodeState
  BY BoundAssumption, NetworkType DEF Correct
<1>3. \A n \in Awake, t \in MsgType : Incoming(n, t) \subseteq Message
  BY NetworkType DEF Incoming
<1>4. ASSUME NEW n \in Awake, HandlePrepare(n)
      PROVE  TypeOK'
  BY <1>2, <1>3, <1>4, HandlePrepareMsgType, BecomeType DEF HandlePrepare, MsgType
<1>5. ASSUME NEW n \in Awake, HandleSign(n)
      PROVE  TypeOK'
  BY <1>2, <1>3, <1>5, HandleSignMsgType, BecomeType DEF HandleSign, MsgType
<1>6. ASSUME NEW n \in Awake, HandleCommit(n)
      PROVE  TypeOK'
  BY <1>2, <1>3, <1>6, HandleCommitMsgType, BecomeType DEF HandleCommit, MsgType
<1>7. ASSUME NEW n \in Awake, HandleViewChange(n)
      PROVE  TypeOK'
  BY <1>2, <1>3, <1>7, HandleViewChangeMsgType, BecomeType DEF HandleViewChange, MsgType
<1>8. ASSUME NEW n \in Awake, Timeout(n)
      PROVE  TypeOK'
  <2> DEFINE s1 == [node[n] EXCEPT !.toView = node[n].toView + 1, !.leaderFailed = TRUE]
             s2 == [s1 EXCEPT !.cache = removeInvalidViewChange(s1.cache, s1.toView, s1.highest)]
             s3 == checkAndChangeView(broadcastViewChangeReq(n, s2))
  <2>1. node[n].toView + 1 \in Nat
    BY <1>2, StateFields
  <2>2. s1 \in NodeState
    BY <1>2, <2>1 DEF NodeState
  <2>3. s2 \in NodeState
    <3> HIDE DEF s1
    <3> QED
      BY <2>2, StateFields, CacheCleanTypes, StateUpdateTypes
  <2>4. s3 \in NodeState
    <3> HIDE DEF s2
    <3> QED
      BY <1>2, <2>3, BroadcastViewChangeReqType, CheckAndChangeViewType
  <2>5. resetBlockForViewChange(n, s3) \in NodeState
    BY <2>4, StateUpdateTypes DEF resetBlockForViewChange
  <2>6. Become(n, resetBlockForViewChange(n, s3))
    BY <1>8 DEF Timeout
  <2> QED
    BY <1>2, <2>5, <2>6, BecomeType
<1>9. ASSUME NEW n \in Awake, HandleFuture(n)
      PROVE  TypeOK'
  <2>1. PICK m \in node[n].cache.future :
            LET s == handlePrepareMsg(n, node[n], m)
            IN  Become(n, [s EXCEPT !.cache = eraseHandledFutureReq(s.cache, height(m))])
    BY <1>9 DEF HandleFuture
  <2> DEFINE s == handlePrepareMsg(n, node[n], m)
  <2>2. s \in NodeState
    BY <1>2, StateFields, HandlePrepareMsgType
  <2> HIDE DEF s
  <2>3. eraseHandledFutureReq(s.cache, height(m)) \in Cache
    BY <2>2, StateFields, CacheCleanTypes
  <2>4. [s EXCEPT !.cache = eraseHandledFutureReq(s.cache, height(m))] \in NodeState
    BY <2>2, <2>3, StateUpdateTypes
  <2> QED
    BY <1>2, <2>1, <2>4, BecomeType DEF s
<1>10. ASSUME NEW n \in Awake, CollectGarbage(n)
       PROVE  TypeOK'
  <2>1. [node[n] EXCEPT !.cache = collectGarbage(node[n].cache, node[n].highest)] \in NodeState
    BY <1>2, StateFields, CacheCleanTypes, StateUpdateTypes
  <2> QED
    BY <1>2, <1>10, <2>1, BecomeType DEF CollectGarbage
<1>11. ASSUME NEW n \in Awake, ReportBlock(n)
       PROVE  TypeOK'
  BY <1>2, <1>11, ReportBlockType, StateUpdateTypes, BecomeType DEF ReportBlock
<1>12. ASSUME NEW n \in Awake, Seal(n)
       PROVE  TypeOK'
  <2> DEFINE s == node[n]
             m(b) == Msg("prepare", b, s.view, n)
             s1(b) == Send([s EXCEPT !.sealed = TRUE], m(b))
             s2(b) == [s1(b) EXCEPT !.leaderFailed = TRUE]
  <2>1. PICK b \in Block :
            Become(n, IF b \in EmptyBlock THEN resetSealingBlock(s2(b))
                                          ELSE handlePrepareMsg(n, s1(b), m(b)))
    BY <1>12 DEF Seal
  <2>2. m(b) \in Message
    BY <1>2, StateFields, MsgType1 DEF MsgType
  <2>3. [s EXCEPT !.sealed = TRUE] \in NodeState
    BY <1>2 DEF NodeState
  <2>4. s1(b) \in NodeState
    <3> HIDE DEF m
    <3> QED
      BY <2>2, <2>3, StateUpdateTypes
  <2> HIDE DEF s1
  <2>5. s2(b) \in NodeState
    BY <2>4 DEF NodeState
  <2> HIDE DEF s2, m
  <2> QED
    BY <1>2, <2>1, <2>2, <2>4, <2>5, HandlePrepareMsgType, StateUpdateTypes, BecomeType
<1>13. ASSUME NEW n \in Awake, RehandleCommitted(n)
       PROVE  TypeOK'
  <2> DEFINE s == node[n]
             m == Msg("prepare", s.cache.committed, s.view, n)
  <2>1. s.cache.committed \in Block
    <3>1. Height(s.cache.committed) = s.consNum
      BY <1>13 DEF RehandleCommitted
    <3>2. s.consNum \in Nat /\ s.cache.committed \in Block \cup {NoBlock}
      BY <1>2, StateFields
    <3> QED
      BY <3>1, <3>2 DEF Height
  <2>2. m \in Message
    BY <1>2, <2>1, StateFields, MsgType1 DEF MsgType
  <2>3. Send(s, m) \in NodeState
    BY <1>2, <2>2, StateUpdateTypes
  <2>4. Become(n, handlePrepareMsg(n, Send(s, m), m))
    BY <1>13 DEF RehandleCommitted
  <2> HIDE DEF m
  <2> QED
    BY <1>2, <2>2, <2>3, <2>4, HandlePrepareMsgType, BecomeType
<1>14. ASSUME NEW n \in Awake, SyncBlock(n)
       PROVE  TypeOK'
  <2>1. PICK p \in Correct : \E b \in node[p].chain : Become(n, commitBlock(node[n], b))
    BY <1>14 DEF SyncBlock
  <2>2. node[p].chain \subseteq Block
    BY NetworkType, StateFields
  <2> QED
    BY <1>2, <2>1, <2>2, StateUpdateTypes, BecomeType
<1>15. ASSUME NEW n \in Awake, NEW s \in NodeState, Fail(n, s)
       PROVE  TypeOK'
  <2>1. Restart(s) \in NodeState
    BY StateFields, StartType DEF Restart
  <2>2. node' = [node EXCEPT ![n] = Restart(s)] /\ crashes' = crashes + 1
    BY <1>15 DEF Fail
  <2>3. crashes' \in Nat
    BY <2>2 DEF TypeOK
  <2>4. node' \in [Correct -> NodeState]
    BY <1>2, <2>1, <2>2 DEF TypeOK
  <2> QED
    BY <2>3, <2>4 DEF TypeOK
<1>16. ASSUME NEW n \in Awake, Crash(n)
       PROVE  TypeOK'
  BY <1>2, <1>15, <1>16 DEF Crash
<1>17. ASSUME NEW n \in Awake, CrashInCheckAndCommit(n)
       PROVE  TypeOK'
  <2>1. PICK m \in Incoming(n, "sign") :
            Fail(n, backupCommitted([node[n] EXCEPT !.cache = addSignReq(node[n].cache, m)]))
    BY <1>17 DEF CrashInCheckAndCommit
  <2>2. m \in Message
    BY <1>3, <2>1 DEF MsgType
  <2>3. [node[n] EXCEPT !.cache = addSignReq(node[n].cache, m)] \in NodeState
    BY <1>2, <2>2, StateFields, CacheUpdateTypes, StateUpdateTypes
  <2> QED
    BY <1>15, <2>1, <2>3, StateUpdateTypes
<1> QED
  BY <1>1, <1>4, <1>5, <1>6, <1>7, <1>8, <1>9, <1>10, <1>11, <1>12, <1>13, <1>14, <1>16,
     <1>17 DEF Next

(***************************************************************************)
(* The caches, counters and disk records of every sealer keep their types  *)
(* in every handler of the engine: no view, height or sealing number goes  *)
(* below zero and no cleared request is ever sent.                         *)
(***************************************************************************)
THEOREM TypeCorrect == Spec => []TypeOK
BY TypeOKInit, TypeOKNext, PTL DEF Spec

-----------------------------------------------------------------------------
(* Agreement, and the refinement of BlockAgreement.                        *)

\* The height a node works on follows the block it has reported; the chain may be ahead.
HeightsInv(s) ==
    /\ s.consNum = number[s.highest] + 1
    /\ number[s.highest] <= number[s.tip]
    /\ Genesis \in s.chain
    /\ \A b \in s.chain \ {Genesis} : number[b] > 0

\* The lock, its copy on disk and the prepare being worked on are compatible.
LockInv(s) ==
    /\ s.cache.committed = s.backup
    /\ s.cache.prep # NoBlock => s.cache.prep = s.cache.raw
    /\ Height(s.cache.raw) <= s.consNum
    /\ Height(s.backup) <= s.consNum
    /\ Height(s.cache.raw) = s.consNum /\ Height(s.backup) = s.consNum
            => s.cache.raw = s.backup

\* A commit request of the current height is the lock, and there is one block per height.
VoteInv(n, s) ==
    /\ \A m \in s.sent : m.idx = n /\ m.sig = 0
    /\ \A m \in s.sent : m.type = "commit" => height(m) < s.consNum \/ s.backup = m.b
    /\ \A m1, m2 \in s.sent :
            m1.type = "commit" /\ m2.type = "commit" /\ height(m1) = height(m2) => m1.b = m2.b

\* m_commitCache holds one request per block and signature.
CommitCacheInv(s) ==
    \A x, y \in s.cache.commit : x.b = y.b /\ sigHex(x) = sigHex(y) => x = y

NodeInv(n, s) == HeightsInv(s) /\ LockInv(s) /\ VoteInv(n, s) /\ CommitCacheInv(s)

\* The blocks a node has given its commit request.
Votes(s) == {m.b : m \in {x \in s.sent : x.type = "commit"}}

\* What n's caches hold of the commit phase was sent by its signers (N is on the network).
Known(s, N) == \A x \in s.cache.commit : x.type = "commit" /\ x \in N \cup s.sent

\* The network and the votes when the nodes are in the states S.
NetworkOf(S) == FaultyMessage \cup UNION {S[n].sent : n \in Correct}
VotedOf(S) == [n \in Correct |-> Votes(S[n])]

GroupInv(S) ==
    /\ S \in [Correct -> NodeState]
    /\ \A n \in Correct : NodeInv(n, S[n]) /\ Known(S[n], NetworkOf(S))
    /\ OneSignatureEach =>
         \A n \in Correct : \A b \in S[n].chain \ {Genesis} : Chosen(VotedOf(S), b)

EngineInv == TypeOK /\ GroupInv(node)

-----------------------------------------------------------------------------
(***************************************************************************)
(* A quiet step of n: it touches neither the lock nor the chain, casts no  *)
(* vote, and forgets at most what it was working on.                       *)
(***************************************************************************)
Kept(c, d) ==
    /\ d.committed = c.committed
    /\ \/ d.raw = c.raw /\ d.prep \in {c.prep, NoBlock}
       \/ d.raw = NoBlock /\ d.prep = NoBlock
    /\ d.commit \subseteq c.commit

Quiet(n, s, t) ==
    /\ t.consNum = s.consNum /\ t.highest = s.highest
    /\ t.tip = s.tip /\ t.chain = s.chain /\ t.backup = s.backup
    /\ Kept(s.cache, t.cache)
    /\ s.sent \subseteq t.sent
    /\ \A m \in t.sent \ s.sent : m.idx = n /\ m.sig = 0 /\ m.type # "commit"

LEMMA QuietTransitive ==
    ASSUME NEW n, NEW s, NEW t, NEW u, Quiet(n, s, t), Quiet(n, t, u)
    PROVE  Quiet(n, s, u)
BY DEF Quiet, Kept

LEMMA HeightType ==
    ASSUME NEW b \in Block \cup {NoBlock}
    PROVE  /\ Height(b) \in Int
           /\ b \in Block => Height(b) = number[b] /\ Height(b) >= 0
           /\ b = NoBlock => Height(b) = -1
BY NumberAssumption, NoBlockAssumption DEF Height

LEMMA QuietKeepsInv ==
    ASSUME NEW n \in Correct, NEW s \in NodeState, NEW t \in NodeState,
           NodeInv(n, s), Quiet(n, s, t)
    PROVE  NodeInv(n, t)
<1>1. HeightsInv(t)
  BY DEF NodeInv, Quiet, HeightsInv
<1>2. LockInv(t)
  <2>1. s.consNum \in Nat /\ NoBlock \in Block \cup {NoBlock}
    BY StateFields
  <2>2. CASE t.cache.raw = s.cache.raw /\ t.cache.prep \in {s.cache.prep, NoBlock}
    BY <2>2 DEF NodeInv, Quiet, Kept, LockInv
  <2>3. CASE t.cache.raw = NoBlock /\ t.cache.prep = NoBlock
    <3>1. Height(t.cache.raw) = -1
      BY <2>3, HeightType
    <3> QED
      BY <2>1, <2>3, <3>1 DEF NodeInv, Quiet, Kept, LockInv
  <2> QED
    BY <2>2, <2>3 DEF Quiet, Kept
<1>3. VoteInv(n, t)
  BY DEF NodeInv, Quiet, VoteInv
<1>4. CommitCacheInv(t)
  BY DEF NodeInv, Quiet, Kept, CommitCacheInv
<1> QED
  BY <1>1, <1>2, <1>3, <1>4 DEF NodeInv

LEMMA KeptByCacheOps ==
    ASSUME NEW c \in Cache, NEW m \in Message, NEW b \in Block, NEW v, NEW h
    PROVE  /\ Kept(c, addSignReq(c, m))
           /\ Kept(c, addViewChangeReq(c, m))
           /\ Kept(c, addFuturePrepareCache(c, m))
           /\ Kept(c, eraseHandledFutureReq(c, h))
           /\ Kept(c, removeInvalidFutureCache(c, b))
           /\ Kept(c, delCache(c, b))
           /\ Kept(c, delInvalidViewChange(c, b))
           /\ Kept(c, removeInvalidViewChange(c, v, b))
           /\ Kept(c, collectGarbage(c, b))
           /\ Kept(c, triggerViewChange(c, v))
<1> USE DEF Cache, Kept
<1>1. Kept(c, addSignReq(c, m))
  BY DEF addSignReq
<1>2. Kept(c, addViewChangeReq(c, m))
  BY DEF addViewChangeReq
<1>3. Kept(c, addFuturePrepareCache(c, m))
  BY DEF addFuturePrepareCache
<1>4. Kept(c, eraseHandledFutureReq(c, h))
  BY DEF eraseHandledFutureReq
<1>5. Kept(c, removeInvalidFutureCache(c, b))
  BY DEF removeInvalidFutureCache
<1>6. Kept(c, delCache(c, b))
  BY DEF delCache
<1>7. Kept(c, delInvalidViewChange(c, b))
  BY DEF delInvalidViewChange
<1>8. Kept(c, removeInvalidViewChange(c, v, b))
  BY DEF removeInvalidViewChange
<1>9. Kept(c, collectGarbage(c, b))
  BY DEF collectGarbage, removeInvalidEntryFromCache
<1>10. Kept(c, triggerViewChange(c, v))
  BY DEF triggerViewChange
<1> QED
  BY <1>1, <1>2, <1>3, <1>4, <1>5, <1>6, <1>7, <1>8, <1>9, <1>10

LEMMA QuietUpdates ==
    ASSUME NEW n \in Correct, NEW s \in NodeState
    PROVE  /\ Quiet(n, s, s)
           /\ \A c \in Cache : Kept(s.cache, c) => Quiet(n, s, [s EXCEPT !.cache = c])
           /\ \A m \in Message :
                    m.idx = n /\ m.sig = 0 /\ m.type # "commit" => Quiet(n, s, Send(s, m))
           /\ \A v \in Nat : Quiet(n, s, [s EXCEPT !.toView = v])
           /\ Quiet(n, s, [s EXCEPT !.sealed = TRUE])
           /\ Quiet(n, s, [s EXCEPT !.leaderFailed = TRUE])
           /\ Quiet(n, s, resetSealingBlock(s))
           /\ Quiet(n, s, resetBlockForNextLeader(s))
<1> USE DEF NodeState, Quiet
<1>0. Kept(s.cache, s.cache)
  BY DEF Kept
<1>1. Quiet(n, s, s)
  BY <1>0
<1>2. \A c \in Cache : Kept(s.cache, c) => Quiet(n, s, [s EXCEPT !.cache = c])
  OBVIOUS
<1>3. \A m \in Message : m.idx = n /\ m.sig = 0 /\ m.type # "commit" => Quiet(n, s, Send(s, m))
  BY <1>0 DEF Send
<1>4. \A v \in Nat : Quiet(n, s, [s EXCEPT !.toView = v])
  BY <1>0
<1>5. /\ Quiet(n, s, [s EXCEPT !.sealed = TRUE])
      /\ Quiet(n, s, [s EXCEPT !.leaderFailed = TRUE])
  BY <1>0
<1>6. /\ Quiet(n, s, resetSealingBlock(s))
      /\ Quiet(n, s, resetBlockForNextLeader(s))
  BY <1>0 DEF resetSealingBlock, resetBlockForNextLeader
<1> QED
  BY <1>1, <1>2, <1>3, <1>4, <1>5, <1>6

LEMMA MsgFields ==
    ASSUME NEW t, NEW b, NEW v, NEW n
    PROVE  /\ Msg(t, b, v, n).type = t /\ Msg(t, b, v, n).b = b
           /\ Msg(t, b, v, n).view = v /\ Msg(t, b, v, n).idx = n /\ Msg(t, b, v, n).sig = 0
BY DEF Msg

LEMMA ViewChangeQuiet ==
    ASSUME NEW n \in Correct, NEW s \in NodeState
    PROVE  /\ Quiet(n, s, broadcastViewChangeReq(n, s))
           /\ Quiet(n, s, checkAndChangeView(s))
           /\ Quiet(n, s, resetBlockForViewChange(n, s))
<1>1. Quiet(n, s, broadcastViewChangeReq(n, s))
  <2> DEFINE m == Msg("viewchange", s.highest, s.toView, n)
  <2>1. m \in Message
    BY StateFields, MsgType1 DEF MsgType, Correct
  <2>2. m.idx = n /\ m.sig = 0 /\ m.type # "commit"
    BY MsgFields
  <2> HIDE DEF m
  <2>3. Quiet(n, s, Send(s, m))
    BY <2>1, <2>2, QuietUpdates
  <2> QED
    BY <2>3 DEF broadcastViewChangeReq, m
<1>2. Quiet(n, s, checkAndChangeView(s))
  <2> DEFINE c == triggerViewChange(s.cache, s.toView)
             t == [s EXCEPT !.view = s.toView, !.leaderFailed = FALSE, !.cache = c]
  <2>1. Kept(s.cache, c)
    BY StateFields, GenesisAssumption, KeptByCacheOps DEF Kept, triggerViewChange, Cache
  <2> HIDE DEF c
  <2>2. Quiet(n, s, t)
    BY <2>1 DEF NodeState, Quiet
  <2>3. checkAndChangeView(s) \in {s, t}
    BY DEF checkAndChangeView, c
  <2> QED
    BY <2>2, <2>3, QuietUpdates
<1>3. Quiet(n, s, resetBlockForViewChange(n, s))
  BY QuietUpdates DEF resetBlockForViewChange
<1> QED
  BY <1>1, <1>2, <1>3

LEMMA HandleViewChangeQuiet ==
    ASSUME NEW n \in Correct, NEW s \in NodeState, NEW m \in Message, NEW direct,
           NEW t \in handleViewChangeMsg(n, s, m, direct)
    PROVE  Quiet(n, s, t)
<1> DEFINE s0 == catchupView(n, s, m, direct)
           s1 == [s0 EXCEPT !.cache = addViewChangeReq(s0.cache, m)]
<1>1. s0 \in NodeState /\ Quiet(n, s, s0)
  BY BroadcastViewChangeReqType, ViewChangeQuiet, QuietUpdates DEF catchupView
<1>2. s1 \in NodeState /\ Quiet(n, s0, s1)
  <2> HIDE DEF s0
  <2>1. addViewChangeReq(s0.cache, m) \in Cache /\ Kept(s0.cache, addViewChangeReq(s0.cache, m))
    BY <1>1, StateFields, CacheUpdateTypes, KeptByCacheOps, GenesisAssumption
  <2> QED
    BY <1>1, <2>1, QuietUpdates, StateUpdateTypes
<1>3. t \in {s, s0, checkAndChangeView(s1)} \cup fastViewChange(s1)
  BY DEF handleViewChangeMsg
<1> HIDE DEF s0, s1
<1>4. ASSUME NEW u \in fastViewChange(s1)
      PROVE  Quiet(n, s1, u)
  <2>1. \E v : u \in {s1, [s1 EXCEPT !.toView = v]}
    BY DEF fastViewChange
  <2>2. \A v : Quiet(n, s1, [s1 EXCEPT !.toView = v])
    BY <1>2 DEF Quiet, NodeState, Kept
  <2> QED
    BY <1>2, <2>1, <2>2, QuietUpdates
<1>5. Quiet(n, s, s1)
  BY <1>1, <1>2, QuietTransitive
<1> QED
  BY <1>1, <1>2, <1>3, <1>4, <1>5, ViewChangeQuiet, QuietUpdates, QuietTransitive

-----------------------------------------------------------------------------
(***************************************************************************)
(* What a step of n may do to its votes and its chain when N is on the     *)
(* network: vote for one block, store that block, or both.                 *)
(***************************************************************************)
CommitQuorum(b, M) ==
    \E C \in SUBSET M :
        /\ \A x \in C : x.type = "commit" /\ x.b = b
        /\ \A x, y \in C : sigHex(x) = sigHex(y) => x = y
        /\ Cardinality(C) >= minValidNodes

Stores(s, t, b, N) ==
    \/ t.chain = s.chain
    \/ b # Genesis /\ t.chain = s.chain \cup {b} /\ CommitQuorum(b, N \cup t.sent)

Advances(n, s, t, N) ==
    /\ NodeInv(n, t)
    /\ Known(t, N)
    /\ s.sent \subseteq t.sent
    /\ t.backup = s.backup \/ Height(t.backup) > Height(s.backup)
    /\ \E b \in Block : Votes(t) \subseteq Votes(s) \cup {b} /\ Stores(s, t, b, N)

LEMMA QuietVotes ==
    ASSUME NEW n, NEW s, NEW t, Quiet(n, s, t)
    PROVE  Votes(t) = Votes(s)
BY DEF Quiet, Votes

LEMMA QuietKnown ==
    ASSUME NEW n, NEW s, NEW t, NEW N, Quiet(n, s, t), Known(s, N)
    PROVE  Known(t, N)
BY DEF Quiet, Kept, Known

LEMMA QuietAdvances ==
    ASSUME NEW n \in Correct, NEW s \in NodeState, NEW t \in NodeState, NEW N,
           NodeInv(n, s), Known(s, N), Quiet(n, s, t)
    PROVE  Advances(n, s, t, N)
<1>1. NodeInv(n, t) /\ Known(t, N) /\ Votes(t) = Votes(s)
  BY QuietKeepsInv, QuietKnown, QuietVotes
<1>2. s.sent \subseteq t.sent /\ t.backup = s.backup /\ Stores(s, t, Genesis, N)
  BY DEF Quiet, Stores
<1> QED
  BY <1>1, <1>2, GenesisAssumption DEF Advances

LEMMA QuietThenAdvances ==
    ASSUME NEW n \in Correct, NEW s \in NodeState, NEW t \in NodeState, NEW u \in NodeState,
           NEW N, Quiet(n, s, t), Advances(n, t, u, N)
    PROVE  Advances(n, s, u, N)
<1>1. Votes(t) = Votes(s)
  BY QuietVotes
<1>2. s.sent \subseteq u.sent
  BY DEF Quiet, Advances
<1>3. t.chain = s.chain /\ t.backup = s.backup
  BY DEF Quiet
<1> QED
  BY <1>1, <1>2, <1>3 DEF Advances, Stores

LEMMA AdvancesThenQuiet ==
    ASSUME NEW n \in Correct, NEW s \in NodeState, NEW t \in NodeState, NEW u \in NodeState,
           NEW N, Advances(n, s, t, N), Quiet(n, t, u)
    PROVE  Advances(n, s, u, N)
<1>1. NodeInv(n, u) /\ Known(u, N) /\ Votes(u) = Votes(t)
  BY QuietKeepsInv, QuietKnown, QuietVotes DEF Advances
<1>2. s.sent \subseteq u.sent /\ t.sent \subseteq u.sent
  BY DEF Quiet, Advances
<1>3. u.chain = t.chain /\ u.backup = t.backup
  BY DEF Quiet
<1>4. \A b \in Block : CommitQuorum(b, N \cup t.sent) => CommitQuorum(b, N \cup u.sent)
  BY <1>2 DEF CommitQuorum
<1>5. \A b \in Block : Stores(s, t, b, N) => Stores(s, u, b, N)
  BY <1>3, <1>4 DEF Stores
<1> QED
  BY <1>1, <1>2, <1>3, <1>5 DEF Advances

-----------------------------------------------------------------------------
(* Storing a block.                                                        *)

LEMMA CommitBlockInv ==
    ASSUME NEW n \in Correct, NEW s \in NodeState, NEW b \in Block,
           NodeInv(n, s), CanCommitBlock(s, b)
    PROVE  NodeInv(n, commitBlock(s, b)) /\ b # Genesis
<1> DEFINE t == commitBlock(s, b)
<1>1. number[b] \in Nat /\ number[s.tip] \in Nat /\ number[s.highest] \in Nat
  BY NumberAssumption, StateFields
<1>2. /\ t.tip = b /\ t.chain = s.chain \cup {b}
      /\ t.consNum = s.consNum /\ t.highest = s.highest /\ t.cache = s.cache
      /\ t.backup = s.backup /\ t.sent = s.sent
  BY DEF commitBlock, NodeState
<1> HIDE DEF t
<1>3. HeightsInv(t)
  BY <1>1, <1>2 DEF NodeInv, HeightsInv, CanCommitBlock
<1>4. LockInv(t) /\ VoteInv(n, t) /\ CommitCacheInv(t)
  BY <1>2 DEF NodeInv, LockInv, VoteInv, CommitCacheInv
<1>5. b # Genesis
  BY <1>1, GenesisAssumption DEF CanCommitBlock
<1> QED
  BY <1>3, <1>4, <1>5 DEF NodeInv, t

LEMMA CheckAndSaveStep ==
    ASSUME NEW n \in Correct, NEW s \in NodeState, NEW N, NodeInv(n, s), Known(s, N)
    PROVE  LET t == checkAndSave(s)
           IN  /\ NodeInv(n, t) /\ Known(t, N)
               /\ t.sent = s.sent /\ t.backup = s.backup
               /\ \/ t.chain = s.chain
                  \/ s.cache.prep \in Block /\ Stores(s, t, s.cache.prep, N)
<1> DEFINE b == s.cache.prep
           t == commitBlock(s, b)
           c == removeInvalidFutureCache(delCache(t.cache, b), s.highest)
           u == [t EXCEPT !.cache = c]
<1>1. CASE checkAndSave(s) = s
  BY <1>1
<1>2. CASE checkAndSave(s) # s
  <2>1. /\ b # NoBlock /\ CanCommitBlock(s, b) /\ checkAndSave(s) = u
        /\ getCommitCacheSize(s.cache, b) >= minValidNodes
    BY <1>2 DEF checkAndSave
  <2>2. b \in Block /\ s.highest \in Block
    BY <2>1, StateFields
  <2>3. t \in NodeState /\ NodeInv(n, t) /\ b # Genesis
    BY <2>1, <2>2, StateUpdateTypes, CommitBlockInv
  <2>4. t.chain = s.chain \cup {b} /\ t.sent = s.sent /\ t.backup = s.backup /\ t.cache = s.cache
    BY DEF commitBlock, NodeState
  <2>5. Known(t, N)
    BY <2>4 DEF Known
  <2>6. c \in Cache /\ Kept(t.cache, c)
    <3> DEFINE d == delCache(t.cache, b)
    <3>1. t.cache \in Cache
      BY <2>3, StateFields
    <3>2. d \in Cache /\ Kept(t.cache, d)
      <4> HIDE DEF t
      <4>1. d \in Cache
        BY <2>2, <3>1, CacheCleanTypes
      <4>2. Kept(t.cache, d)
        BY <3>1 DEF Cache, delCache, Kept
      <4> QED
        BY <4>1, <4>2
    <3> HIDE DEF d
    <3>3. removeInvalidFutureCache(d, s.highest) \in Cache
      BY <2>2, <3>2, CacheCleanTypes
    <3>4. Kept(d, removeInvalidFutureCache(d, s.highest))
      BY <3>2 DEF Cache, removeInvalidFutureCache, Kept
    <3> QED
      BY <3>2, <3>3, <3>4 DEF Kept, d
  <2> HIDE DEF t, c
  <2>7. u \in NodeState /\ Quiet(n, t, u) /\ u.sent = t.sent
    BY <2>3, <2>6, StateUpdateTypes, QuietUpdates DEF NodeState
  <2>8. NodeInv(n, u) /\ Known(u, N)
    BY <2>3, <2>5, <2>7, QuietKeepsInv, QuietKnown
  <2>9. u.chain = s.chain \cup {b} /\ u.sent = s.sent /\ u.backup = s.backup
    BY <2>4, <2>7 DEF Quiet
  <2>10. CommitQuorum(b, N \cup u.sent)
    <3> DEFINE C == {x \in s.cache.commit : x.b = b}
    <3>1. C \in SUBSET (N \cup s.sent) /\ \A x \in C : x.type = "commit" /\ x.b = b
      BY DEF Known
    <3>2. \A x, y \in C : sigHex(x) = sigHex(y) => x = y
      BY DEF NodeInv, CommitCacheInv
    <3>3. Cardinality(C) >= minValidNodes
      BY <2>1 DEF getCommitCacheSize
    <3> HIDE DEF C
    <3> QED
      BY <2>9, <3>1, <3>2, <3>3 DEF CommitQuorum
  <2> HIDE DEF u
  <2> QED
    BY <2>1, <2>2, <2>3, <2>8, <2>9, <2>10 DEF Stores
<1> QED
  BY <1>1, <1>2

-----------------------------------------------------------------------------
(* Locking a block and voting for it.                                      *)

\* The lock moves to the prepare of the current height, or stays where it is.
LEMMA BackupCommittedInv ==
    ASSUME NEW n \in Correct, NEW s \in NodeState, NodeInv(n, s),
           s.cache.prep # NoBlock, Height(s.cache.prep) = s.consNum
    PROVE  LET t == backupCommitted(s)
           IN  /\ NodeInv(n, t)
               /\ t.backup = s.cache.prep
               /\ t.backup = s.backup \/ Height(t.backup) > Height(s.backup)
               /\ t.consNum = s.consNum /\ t.chain = s.chain /\ t.sent = s.sent
               /\ t.cache.prep = s.cache.prep /\ t.cache.commit = s.cache.commit
               /\ t.tip = s.tip
<1> DEFINE t == backupCommitted(s)
<1>1. s.cache.raw = s.cache.prep /\ s.cache.raw \in Block /\ s.backup \in Block \cup {NoBlock}
  BY StateFields DEF NodeInv, LockInv
<1>2. s.cache \in Cache /\ s.consNum \in Nat
  BY StateFields
<1>3. /\ t.consNum = s.consNum /\ t.highest = s.highest /\ t.tip = s.tip
      /\ t.chain = s.chain /\ t.sent = s.sent /\ t.backup = s.cache.raw
      /\ t.cache = updateCommittedPrepare(s.cache)
  BY DEF backupCommitted, NodeState
<1>4. /\ t.cache.committed = s.cache.raw /\ t.cache.raw = s.cache.raw
      /\ t.cache.prep = s.cache.prep /\ t.cache.commit = s.cache.commit
  BY <1>2, <1>3 DEF updateCommittedPrepare, Cache
<1> HIDE DEF t
<1>5. Height(s.cache.raw) \in Int /\ Height(s.backup) \in Int
  BY <1>1, HeightType
<1>6. t.backup = s.backup \/ Height(t.backup) > Height(s.backup)
  BY <1>1, <1>2, <1>3, <1>5 DEF NodeInv, LockInv
<1>7. HeightsInv(t) /\ CommitCacheInv(t)
  BY <1>3, <1>4 DEF NodeInv, HeightsInv, CommitCacheInv
<1>8. LockInv(t)
  BY <1>1, <1>2, <1>3, <1>4, <1>5 DEF LockInv
<1>9. VoteInv(n, t)
  <2>1. ASSUME NEW m \in s.sent, m.type = "commit"
        PROVE  height(m) < s.consNum \/ t.backup = m.b
    <3>1. CASE height(m) < s.consNum
      BY <3>1
    <3>2. CASE s.backup = m.b
      <4>1. m.b \in Block
        BY StateFields DEF Message
      <4>2. Height(s.backup) = height(m) /\ height(m) \in Nat
        BY <3>2, <4>1, NumberAssumption, NoBlockAssumption DEF height, Height
      <4>3. Height(s.backup) <= s.consNum
        BY DEF NodeInv, LockInv
      <4>4. CASE Height(s.backup) = s.consNum
        BY <1>1, <1>3, <3>2, <4>4 DEF NodeInv, LockInv
      <4> QED
        BY <1>2, <4>2, <4>3, <4>4
    <3> QED
      BY <2>1, <3>1, <3>2 DEF NodeInv, VoteInv
  <2> QED
    BY <1>3, <2>1 DEF NodeInv, VoteInv
<1> QED
  BY <1>1, <1>3, <1>4, <1>6, <1>7, <1>8, <1>9 DEF NodeInv, t

LEMMA BroadcastCommitReqInv ==
    ASSUME NEW n \in Correct, NEW s \in NodeState, NEW N, NodeInv(n, s), Known(s, N),
           s.cache.prep \in Block, s.backup = s.cache.prep, Height(s.cache.prep) = s.consNum
    PROVE  LET t == broadcastCommitReq(n, s)
           IN  /\ t \in NodeState /\ NodeInv(n, t) /\ Known(t, N)
               /\ s.sent \subseteq t.sent /\ Votes(t) \subseteq Votes(s) \cup {s.cache.prep}
               /\ t.backup = s.backup /\ t.chain = s.chain /\ t.cache.prep = s.cache.prep
<1> DEFINE m == Msg("commit", s.cache.prep, s.cache.prepView, n)
           u == Send(s, m)
           t == [u EXCEPT !.cache = addCommitReq(u.cache, m)]
<1>1. /\ m \in Message /\ m.type = "commit" /\ m.b = s.cache.prep /\ m.idx = n /\ m.sig = 0
  BY StateFields, MsgType1, MsgFields DEF MsgType, Correct
<1> HIDE DEF m
<1>2. u \in NodeState
  BY <1>1, StateUpdateTypes
<1>3. t \in NodeState
  BY <1>1, <1>2, StateFields, CacheUpdateTypes, StateUpdateTypes
<1>4. /\ t.consNum = s.consNum /\ t.highest = s.highest /\ t.tip = s.tip
      /\ t.chain = s.chain /\ t.sent = s.sent \cup {m} /\ t.backup = s.backup
      /\ t.cache = addCommitReq(s.cache, m)
  BY DEF Send, NodeState
<1>5. s.cache \in Cache
  BY StateFields
<1>6. /\ t.cache.committed = s.cache.committed /\ t.cache.raw = s.cache.raw
      /\ t.cache.prep = s.cache.prep
      /\ t.cache.commit = {x \in s.cache.commit : x.b # m.b \/ sigHex(x) # sigHex(m)} \cup {m}
  BY <1>4, <1>5 DEF addCommitReq, Cache
<1>7. t = broadcastCommitReq(n, s)
  BY DEF broadcastCommitReq, m
<1> HIDE DEF u, t
<1>8. HeightsInv(t) /\ LockInv(t)
  BY <1>4, <1>6 DEF NodeInv, HeightsInv, LockInv
<1>9. CommitCacheInv(t)
  BY <1>6 DEF NodeInv, CommitCacheInv
<1>10. VoteInv(n, t)
  <2>1. height(m) = s.consNum /\ s.consNum \in Nat
    BY <1>1, HeightType, StateFields DEF height
  <2>2. ASSUME NEW k \in s.sent, k.type = "commit", height(k) = height(m)
        PROVE  k.b = m.b
    BY <1>1, <2>1, <2>2 DEF NodeInv, VoteInv
  <2> QED
    BY <1>1, <1>4, <2>1, <2>2 DEF NodeInv, VoteInv
<1>11. Known(t, N)
  BY <1>1, <1>4, <1>6 DEF Known
<1>12. Votes(t) \subseteq Votes(s) \cup {s.cache.prep}
  BY <1>1, <1>4 DEF Votes
<1> QED
  BY <1>3, <1>4, <1>6, <1>7, <1>8, <1>9, <1>10, <1>11, <1>12 DEF NodeInv

LEMMA CheckAndCommitAdvances ==
    ASSUME NEW n \in Correct, NEW s \in NodeState, NEW N, NodeInv(n, s), Known(s, N),
           s.cache.prep # NoBlock => Height(s.cache.prep) = s.consNum
    PROVE  Advances(n, s, checkAndCommit(n, s), N)
<1>1. CASE ~ SignQuorumReached(s)
  <2>1. checkAndCommit(n, s) = s
    BY <1>1 DEF checkAndCommit
  <2> QED
    BY <2>1, QuietUpdates, QuietAdvances
<1>2. CASE SignQuorumReached(s)
  <2> DEFINE s1 == backupCommitted(s)
             s2 == broadcastCommitReq(n, s1)
             s3 == checkAndSave(s2)
  <2>1. s.cache.prep \in Block /\ Height(s.cache.prep) = s.consNum
    BY <1>2, StateFields DEF SignQuorumReached
  <2>2. s1 \in NodeState
    BY StateUpdateTypes
  <2>3. /\ NodeInv(n, s1) /\ s1.backup = s.cache.prep
        /\ s1.backup = s.backup \/ Height(s1.backup) > Height(s.backup)
        /\ s1.consNum = s.consNum /\ s1.chain = s.chain /\ s1.sent = s.sent
        /\ s1.cache.prep = s.cache.prep /\ s1.cache.commit = s.cache.commit
    BY <2>1, NoBlockAssumption, BackupCommittedInv
  <2> HIDE DEF s1
  <2>4. Known(s1, N) /\ Votes(s1) = Votes(s)
    BY <2>3 DEF Known, Votes
  <2>5. /\ s2 \in NodeState /\ NodeInv(n, s2) /\ Known(s2, N)
        /\ s1.sent \subseteq s2.sent /\ Votes(s2) \subseteq Votes(s1) \cup {s1.cache.prep}
        /\ s2.backup = s1.backup /\ s2.chain = s1.chain /\ s2.cache.prep = s1.cache.prep
    BY <2>1, <2>2, <2>3, <2>4, BroadcastCommitReqInv
  <2> HIDE DEF s2
  <2>6. /\ NodeInv(n, s3) /\ Known(s3, N) /\ s3.sent = s2.sent /\ s3.backup = s2.backup
        /\ s3.chain = s2.chain \/ Stores(s2, s3, s2.cache.prep, N)
    BY <2>5, CheckAndSaveStep
  <2>7. checkAndCommit(n, s) = s3
    BY <1>2 DEF checkAndCommit, s1, s2
  <2> HIDE DEF s3
  <2>8. Votes(s3) \subseteq Votes(s) \cup {s.cache.prep} /\ s.sent \subseteq s3.sent
    BY <2>3, <2>4, <2>5, <2>6 DEF Votes
  <2>9. Stores(s, s3, s.cache.prep, N)
    BY <2>3, <2>5, <2>6 DEF Stores
  <2> QED
    BY <2>1, <2>3, <2>5, <2>6, <2>7, <2>8, <2>9 DEF Advances
<1> QED
  BY <1>1, <1>2

-----------------------------------------------------------------------------
(* The message handlers.                                                   *)

\* A valid prepare is for the current height and respects the lock.
(***************************************************************************)
(* A valid prepare leads through a state t, where it is only cached as     *)
(* raw, to a state u, where it is the prepare and the own signature is out.*)
(***************************************************************************)
PrepareStates(n, s, m, t, u) ==
    LET k == Msg("sign", m.b, m.view, n)
        S == {x \in s.cache.sign : x.b = m.b => x.view = m.view}
    IN  /\ handleValidPrepare(n, s, m) =
                IF m.b \in EmptyBlock \/ ~ checkBlockValid(s, m.b)
                THEN t ELSE checkAndCommit(n, u)
        /\ \A w \in {t, u} :
              /\ w.view = s.view /\ w.consNum = s.consNum /\ w.highest = s.highest
              /\ w.tip = s.tip /\ w.chain = s.chain /\ w.backup = s.backup
              /\ w.cache.raw = m.b /\ w.cache.committed = s.cache.committed
              /\ w.cache.vc = s.cache.vc /\ w.cache.future = s.cache.future
        /\ t.sent = s.sent /\ u.sent = s.sent \cup {k}
        /\ t.cache.prep = NoBlock
        /\ t.cache.sign = s.cache.sign /\ t.cache.commit = s.cache.commit
        /\ u.cache.prep = m.b /\ u.cache.prepView = m.view
        /\ u.cache.sign = {x \in S : x.b # k.b \/ sigHex(x) # sigHex(k)} \cup {k}
        /\ u.cache.commit = {x \in s.cache.commit : x.b = m.b => x.view = m.view}

LEMMA ValidPrepareStates ==
    ASSUME NEW n \in Correct, NEW s \in NodeState, NEW m \in Message
    PROVE  \E t, u \in NodeState : PrepareStates(n, s, m, t, u)
<1> DEFINE k == Msg("sign", m.b, m.view, n)
           c1 == addRawPrepare(s.cache, m)
           s1 == [s EXCEPT !.cache = c1]
           s2 == notifySealing(n, s1, m)
           c3 == addPrepareReq(s2.cache, m)
           s3 == [s2 EXCEPT !.cache = c3]
           s4 == Send(s3, k)
           c5 == addSignReq(s4.cache, k)
           s5 == [s4 EXCEPT !.cache = c5]
<1>1. s.cache \in Cache /\ m.b \in Block /\ m.view \in Nat
  BY StateFields DEF Message
<1>2. /\ c1 \in Cache /\ c1.raw = m.b /\ c1.prep = NoBlock /\ c1.committed = s.cache.committed
      /\ c1.sign = s.cache.sign /\ c1.commit = s.cache.commit
      /\ c1.vc = s.cache.vc /\ c1.future = s.cache.future
  <2>1. c1 \in Cache
    BY <1>1, CacheUpdateTypes
  <2> QED
    BY <1>1, <2>1 DEF addRawPrepare, Cache
<1>3. handleValidPrepare(n, s, m) =
          IF m.b \in EmptyBlock \/ ~ checkBlockValid(s, m.b) THEN s1 ELSE checkAndCommit(n, s5)
  BY DEF handleValidPrepare, broadcastSignReq
<1> HIDE DEF c1
<1>4. /\ s1 \in NodeState /\ s1.cache = c1 /\ s1.view = s.view
      /\ s1.consNum = s.consNum /\ s1.highest = s.highest /\ s1.tip = s.tip
      /\ s1.chain = s.chain /\ s1.sent = s.sent /\ s1.backup = s.backup
  BY <1>2, StateUpdateTypes DEF NodeState
<1> HIDE DEF s1
<1>5. /\ s2 \in NodeState /\ s2.cache = c1 /\ s2.view = s.view
      /\ s2.consNum = s.consNum /\ s2.highest = s.highest /\ s2.tip = s.tip
      /\ s2.chain = s.chain /\ s2.sent = s.sent /\ s2.backup = s.backup
  BY <1>4, StateUpdateTypes DEF notifySealing, resetBlockForNextLeader, NodeState
<1> HIDE DEF s2
<1>6. /\ c3 \in Cache /\ c3.raw = m.b /\ c3.prep = m.b /\ c3.prepView = m.view
      /\ c3.committed = s.cache.committed
      /\ c3.sign = {x \in s.cache.sign : x.b = m.b => x.view = m.view}
      /\ c3.commit = {x \in s.cache.commit : x.b = m.b => x.view = m.view}
      /\ c3.vc = s.cache.vc /\ c3.future = s.cache.future
  <2>1. c3 \in Cache
    BY <1>2, <1>5, CacheUpdateTypes
  <2> QED
    BY <1>1, <1>2, <1>5, <2>1 DEF addPrepareReq, Cache
<1> HIDE DEF c3
<1>7. /\ s3 \in NodeState /\ s3.cache = c3 /\ s3.view = s.view
      /\ s3.consNum = s.consNum /\ s3.highest = s.highest /\ s3.tip = s.tip
      /\ s3.chain = s.chain /\ s3.sent = s.sent /\ s3.backup = s.backup
  BY <1>5, <1>6, StateUpdateTypes DEF NodeState
<1> HIDE DEF s3
<1>8. k \in Message
  BY <1>1, MsgType1 DEF MsgType, Correct
<1> HIDE DEF k
<1>9. /\ s4 \in NodeState /\ s4.cache = c3 /\ s4.view = s.view
      /\ s4.consNum = s.consNum /\ s4.highest = s.highest /\ s4.tip = s.tip
      /\ s4.chain = s.chain /\ s4.sent = s.sent \cup {k} /\ s4.backup = s.backup
  <2>1. s4 \in NodeState
    BY <1>7, <1>8, StateUpdateTypes
  <2> QED
    BY <1>7, <2>1 DEF Send, NodeState
<1> HIDE DEF s4
<1>10. /\ c5 \in Cache /\ c5.raw = m.b /\ c5.prep = m.b /\ c5.prepView = m.view
       /\ c5.committed = s.cache.committed
       /\ c5.sign = {x \in c3.sign : x.b # k.b \/ sigHex(x) # sigHex(k)} \cup {k}
       /\ c5.commit = c3.commit /\ c5.vc = s.cache.vc /\ c5.future = s.cache.future
  <2>1. c5 \in Cache
    BY <1>6, <1>8, <1>9, CacheUpdateTypes
  <2> QED
    BY <1>6, <1>9, <2>1 DEF addSignReq, Cache
<1> HIDE DEF c5
<1>11. /\ s5 \in NodeState /\ s5.cache = c5 /\ s5.view = s.view
       /\ s5.consNum = s.consNum /\ s5.highest = s.highest /\ s5.tip = s.tip
       /\ s5.chain = s.chain /\ s5.sent = s.sent \cup {k} /\ s5.backup = s.backup
  BY <1>9, <1>10, StateUpdateTypes DEF NodeState
<1> HIDE DEF s5
<1>12. PrepareStates(n, s, m, s1, s5)
  BY <1>2, <1>3, <1>4, <1>6, <1>10, <1>11 DEF PrepareStates, k
<1> QED
  BY <1>4, <1>11, <1>12

LEMMA ValidPrepareInv ==
    ASSUME NEW n \in Correct, NEW s \in NodeState, NEW m \in Message, NodeInv(n, s),
           isValidPrepare(s, m) = "VALID", NEW t, NEW u, PrepareStates(n, s, m, t, u)
    PROVE  /\ NodeInv(n, t) /\ NodeInv(n, u)
           /\ m.b \in Block /\ Height(m.b) = number[m.b] /\ number[m.b] = s.consNum
           /\ m.view = s.view /\ m.idx = getLeader(s) /\ m.b # s.cache.raw
           /\ Height(s.backup) = s.consNum => m.b = s.backup
<1>1. /\ m.b \in Block /\ height(m) = number[m.b] /\ number[m.b] \in Nat
      /\ m.view \in Nat /\ s.view \in Nat /\ s.consNum \in Nat
      /\ Height(m.b) = number[m.b]
  BY NumberAssumption, StateFields, HeightType DEF Message, height
<1>2. /\ ~ hasConsensused(s, m) /\ ~ isFuturePrepare(s, m) /\ isHashSavedAfterCommit(s, m)
      /\ m.idx = getLeader(s) /\ m.b # s.cache.raw
  BY DEF isValidPrepare, isValidLeader, isExistPrepare
<1>3. height(m) = s.consNum /\ m.view = s.view
  BY <1>1, <1>2 DEF hasConsensused, isFuturePrepare
<1>4. Height(s.backup) = s.consNum => m.b = s.backup
  BY <1>2, <1>3 DEF isHashSavedAfterCommit, NodeInv, LockInv
<1> DEFINE k == Msg("sign", m.b, m.view, n)
<1>5. k.idx = n /\ k.sig = 0 /\ k.type = "sign"
  BY MsgFields
<1>6. t.sent = s.sent /\ u.sent = s.sent \cup {k}
  BY DEF PrepareStates
<1> HIDE DEF k
<1>7. ASSUME NEW w \in {t, u}
      PROVE  NodeInv(n, w)
  <2>1. HeightsInv(w) /\ CommitCacheInv(w)
    BY DEF NodeInv, HeightsInv, CommitCacheInv, PrepareStates
  <2>2. LockInv(w)
    BY <1>1, <1>3, <1>4 DEF NodeInv, LockInv, PrepareStates
  <2>3. w.backup = s.backup /\ w.consNum = s.consNum
    BY DEF PrepareStates
  <2>4. VoteInv(n, w)
    BY <1>5, <1>6, <2>3 DEF NodeInv, VoteInv
  <2> QED
    BY <2>1, <2>2, <2>4 DEF NodeInv
<1> QED
  BY <1>1, <1>2, <1>3, <1>4, <1>7

LEMMA HandleValidPrepareAdvances ==
    ASSUME NEW n \in Correct, NEW s \in NodeState, NEW m \in Message, NEW N,
           NodeInv(n, s), Known(s, N), isValidPrepare(s, m) = "VALID"
    PROVE  Advances(n, s, handleValidPrepare(n, s, m), N)
<1>1. PICK t, u \in NodeState : PrepareStates(n, s, m, t, u)
  BY ValidPrepareStates
<1>2. /\ NodeInv(n, t) /\ NodeInv(n, u)
      /\ m.b \in Block /\ Height(m.b) = number[m.b] /\ number[m.b] = s.consNum
  BY <1>1, ValidPrepareInv
<1> DEFINE k == Msg("sign", m.b, m.view, n)
<1>3. k.type = "sign"
  BY MsgFields
<1>4. /\ t.chain = s.chain /\ t.backup = s.backup /\ t.sent = s.sent
      /\ t.cache.commit = s.cache.commit
      /\ u.chain = s.chain /\ u.backup = s.backup /\ u.sent = s.sent \cup {k}
      /\ u.cache.commit \subseteq s.cache.commit /\ u.cache.prep = m.b
      /\ u.consNum = s.consNum
      /\ handleValidPrepare(n, s, m) \in {t, checkAndCommit(n, u)}
  BY <1>1 DEF PrepareStates
<1> HIDE DEF k
<1>5. Known(t, N) /\ Known(u, N) /\ Votes(t) = Votes(s) /\ Votes(u) = Votes(s)
  BY <1>3, <1>4 DEF Known, Votes
<1>6. Advances(n, s, t, N)
  BY <1>2, <1>4, <1>5, GenesisAssumption DEF Advances, Stores
<1>7. Advances(n, u, checkAndCommit(n, u), N)
  BY <1>1, <1>2, <1>4, <1>5, CheckAndCommitAdvances
<1>8. Advances(n, s, checkAndCommit(n, u), N)
  BY <1>4, <1>5, <1>7 DEF Advances, Stores
<1> QED
  BY <1>4, <1>6, <1>8

LEMMA HandlePrepareAdvances ==
    ASSUME NEW n \in Correct, NEW s \in NodeState, NEW m \in Message, NEW N,
           NodeInv(n, s), Known(s, N)
    PROVE  Advances(n, s, handlePrepareMsg(n, s, m), N)
<1> DEFINE c == addFuturePrepareCache(s.cache, m)
<1>1. c \in Cache /\ Kept(s.cache, c)
  <2>1. s.cache \in Cache
    BY StateFields
  <2>2. c \in Cache
    BY <2>1, CacheUpdateTypes
  <2> QED
    BY <2>1, <2>2 DEF addFuturePrepareCache, Cache, Kept
<1> HIDE DEF c
<1>2. [s EXCEPT !.cache = c] \in NodeState /\ Quiet(n, s, [s EXCEPT !.cache = c])
  BY <1>1, StateUpdateTypes, QuietUpdates
<1>3. CASE isValidPrepare(s, m) = "VALID"
  BY <1>3, HandleValidPrepareAdvances DEF handlePrepareMsg
<1>4. CASE isValidPrepare(s, m) # "VALID"
  <2>1. handlePrepareMsg(n, s, m) \in {s, [s EXCEPT !.cache = c]}
    BY <1>4 DEF handlePrepareMsg, c
  <2> QED
    BY <1>2, <2>1, QuietUpdates, QuietAdvances
<1> QED
  BY <1>3, <1>4

\* A signature that counts is for the prepare of the current height.
LEMMA SignAccepted ==
    ASSUME NEW n \in Correct, NEW s \in NodeState, NEW m \in Message, NodeInv(n, s)
    PROVE  LET t == [s EXCEPT !.cache = addSignReq(s.cache, m)]
           IN  /\ t \in NodeState /\ Quiet(n, s, t)
               /\ isValidSignReq(s, n, m) = "VALID"
                    => t.cache.prep \in Block /\ Height(t.cache.prep) = t.consNum
<1> DEFINE c == addSignReq(s.cache, m)
           t == [s EXCEPT !.cache = c]
<1>1. c \in Cache /\ Kept(s.cache, c) /\ c.prep = s.cache.prep
  <2>1. s.cache \in Cache
    BY StateFields
  <2>2. c \in Cache
    BY <2>1, CacheUpdateTypes
  <2> QED
    BY <2>1, <2>2 DEF addSignReq, Cache, Kept
<1> HIDE DEF c
<1>2. t \in NodeState /\ Quiet(n, s, t) /\ t.cache.prep = s.cache.prep /\ t.consNum = s.consNum
  BY <1>1, StateUpdateTypes, QuietUpdates DEF NodeState
<1> HIDE DEF t
<1>3. ASSUME isValidSignReq(s, n, m) = "VALID"
      PROVE  t.cache.prep \in Block /\ Height(t.cache.prep) = t.consNum
  <2>1. ~ hasConsensused(s, m) /\ m.b = s.cache.prep
    BY <1>3 DEF isValidSignReq, checkReq
  <2>2. /\ s.cache.prep = s.cache.raw /\ Height(m.b) = height(m) /\ height(m) \in Nat
        /\ m.b \in Block
    BY <2>1, NumberAssumption, NoBlockAssumption DEF NodeInv, LockInv, Height, height, Message
  <2> QED
    BY <1>2, <2>1, <2>2, StateFields DEF hasConsensused, NodeInv, LockInv
<1> QED
  BY <1>2, <1>3 DEF t, c

LEMMA HandleSignAdvances ==
    ASSUME NEW n \in Correct, NEW s \in NodeState, NEW m \in Message, NEW N,
           NodeInv(n, s), Known(s, N)
    PROVE  Advances(n, s, handleSignMsg(n, s, m), N)
<1> DEFINE t == [s EXCEPT !.cache = addSignReq(s.cache, m)]
<1>1. /\ t \in NodeState /\ Quiet(n, s, t)
      /\ isValidSignReq(s, n, m) = "VALID" => Height(t.cache.prep) = t.consNum
  BY SignAccepted
<1>2. CASE isValidSignReq(s, n, m) = "VALID"
  <2>1. handleSignMsg(n, s, m) = checkAndCommit(n, t)
    BY <1>2 DEF handleSignMsg
  <2> HIDE DEF t
  <2>2. NodeInv(n, t) /\ Known(t, N)
    BY <1>1, QuietKeepsInv, QuietKnown
  <2>3. Advances(n, t, checkAndCommit(n, t), N)
    BY <1>1, <1>2, <2>2, CheckAndCommitAdvances
  <2> QED
    BY <1>1, <2>1, <2>3, CheckAndCommitType, QuietThenAdvances
<1>3. CASE isValidSignReq(s, n, m) # "VALID"
  <2>1. handleSignMsg(n, s, m) \in {s, t}
    BY <1>3 DEF handleSignMsg, addFutureSign
  <2> HIDE DEF t
  <2> QED
    BY <1>1, <2>1, QuietUpdates, QuietAdvances
<1> QED
  BY <1>2, <1>3

\* A commit request that comes from the network is cached as it is.
LEMMA HandleCommitAdvances ==
    ASSUME NEW n \in Correct, NEW s \in NodeState, NEW N, NEW m \in Message \cap N,
           m.type = "commit", NodeInv(n, s), Known(s, N)
    PROVE  Advances(n, s, handleCommitMsg(n, s, m), N)
<1> DEFINE c == addCommitReq(s.cache, m)
           t == [s EXCEPT !.cache = c]
<1>1. /\ c \in Cache /\ c.prep = s.cache.prep /\ c.raw = s.cache.raw
      /\ c.committed = s.cache.committed
      /\ c.commit = {x \in s.cache.commit : x.b # m.b \/ sigHex(x) # sigHex(m)} \cup {m}
  <2>1. s.cache \in Cache
    BY StateFields
  <2>2. c \in Cache
    BY <2>1, CacheUpdateTypes
  <2> QED
    BY <2>1, <2>2 DEF addCommitReq, Cache
<1> HIDE DEF c
<1>2. /\ t \in NodeState /\ t.cache = c
      /\ t.consNum = s.consNum /\ t.highest = s.highest /\ t.tip = s.tip
      /\ t.chain = s.chain /\ t.sent = s.sent /\ t.backup = s.backup
  BY <1>1, StateUpdateTypes DEF NodeState
<1>3. handleCommitMsg(n, s, m) \in {s, t, checkAndSave(t)}
  BY DEF handleCommitMsg, c
<1> HIDE DEF t
<1>4. NodeInv(n, t) /\ Known(t, N) /\ Votes(t) = Votes(s)
  <2>1. HeightsInv(t) /\ LockInv(t) /\ VoteInv(n, t)
    BY <1>1, <1>2 DEF NodeInv, HeightsInv, LockInv, VoteInv
  <2>2. CommitCacheInv(t)
    BY <1>1, <1>2 DEF NodeInv, CommitCacheInv
  <2> QED
    BY <1>1, <1>2, <2>1, <2>2 DEF NodeInv, Known, Votes
<1>5. Advances(n, s, t, N)
  BY <1>2, <1>4, GenesisAssumption DEF Advances, Stores
<1>6. Advances(n, s, checkAndSave(t), N)
  <2> DEFINE u == checkAndSave(t)
  <2>1. /\ NodeInv(n, u) /\ Known(u, N) /\ u.sent = t.sent /\ u.backup = t.backup
        /\ u.chain = t.chain \/ (t.cache.prep \in Block /\ Stores(t, u, t.cache.prep, N))
    BY <1>2, <1>4, CheckAndSaveStep
  <2> HIDE DEF u
  <2>2. Votes(u) = Votes(s)
    BY <1>2, <2>1 DEF Votes
  <2>3. \E b \in Block : Stores(s, u, b, N)
    BY <1>2, <2>1, GenesisAssumption DEF Stores
  <2> QED
    BY <1>2, <2>1, <2>2, <2>3 DEF Advances, u
<1> QED
  BY <1>3, <1>5, <1>6, QuietUpdates, QuietAdvances

-----------------------------------------------------------------------------
(* The sealer thread, block sync and restarts.                             *)

LEMMA ReportBlockAdvances ==
    ASSUME NEW n \in Correct, NEW s \in NodeState, NEW N, NodeInv(n, s), Known(s, N),
           number[s.highest] < number[s.tip]
    PROVE  Advances(n, s, reportBlock(s), N)
<1> DEFINE c1 == removeInvalidFutureCache(s.cache, s.highest)
           c2 == delInvalidViewChange(c1, s.tip)
           c3 == delCache(c2, s.tip)
           t == reportBlock(s)
<1>1. /\ s.tip \in Block /\ s.highest \in Block /\ s.cache \in Cache /\ s.consNum \in Nat
      /\ number[s.tip] \in Nat /\ number[s.highest] \in Nat
      /\ s.cache.raw \in Block \cup {NoBlock} /\ s.backup \in Block \cup {NoBlock}
  BY StateFields, NumberAssumption
<1>2. number[s.tip] >= s.consNum
  BY <1>1 DEF NodeInv, HeightsInv
<1>3. c1 \in Cache /\ c1.raw = s.cache.raw /\ c1.prep = s.cache.prep
      /\ c1.committed = s.cache.committed /\ c1.commit = s.cache.commit
  BY <1>1 DEF removeInvalidFutureCache, Cache
<1>4. /\ t.highest = s.tip /\ t.consNum = number[s.tip] + 1 /\ t.tip = s.tip
      /\ t.chain = s.chain /\ t.sent = s.sent /\ t.backup = s.backup /\ t.cache = c3
  BY <1>2 DEF reportBlock, NodeState
<1> HIDE DEF c1, t
<1>5. c2 \in Cache /\ c2.raw = c1.raw /\ c2.prep = c1.prep
      /\ c2.committed = c1.committed /\ c2.commit = c1.commit
  BY <1>3 DEF delInvalidViewChange, removeInvalidEntryFromCache, Cache
<1> HIDE DEF c2
<1>6. c3 \in Cache /\ Kept(c2, c3)
  <2>1. c3 \in Cache
    BY <1>1, <1>5, CacheCleanTypes
  <2> QED
    BY <1>5, <2>1 DEF delCache, Cache, Kept
<1> HIDE DEF c3
<1>7. HeightsInv(t)
  BY <1>1, <1>4 DEF NodeInv, HeightsInv
<1>8. LockInv(t)
  <2>1. /\ Height(s.cache.raw) <= s.consNum /\ Height(s.backup) <= s.consNum
        /\ Height(s.cache.raw) \in Int /\ Height(s.backup) \in Int /\ Height(NoBlock) = -1
    BY <1>1, HeightType DEF NodeInv, LockInv
  <2>2. t.cache.raw \in {s.cache.raw, NoBlock}
    BY <1>3, <1>4, <1>5, <1>6 DEF Kept
  <2>3. Height(t.cache.raw) < t.consNum /\ Height(t.backup) < t.consNum
    BY <1>1, <1>2, <1>4, <2>1, <2>2
  <2>4. /\ t.cache.committed = t.backup
        /\ t.cache.prep # NoBlock => t.cache.prep = t.cache.raw
    BY <1>3, <1>4, <1>5, <1>6 DEF Kept, NodeInv, LockInv
  <2>5. Height(t.cache.raw) \in Int /\ Height(t.backup) \in Int /\ t.consNum \in Int
    BY <1>1, <1>4, <2>1, <2>2
  <2> QED
    BY <2>3, <2>4, <2>5 DEF LockInv
<1>9. VoteInv(n, t)
  <2>1. \A m \in s.sent : height(m) \in Nat
    BY StateFields, NumberAssumption DEF Message, height
  <2> QED
    BY <1>1, <1>2, <1>4, <2>1 DEF NodeInv, VoteInv
<1>10. CommitCacheInv(t) /\ Known(t, N) /\ Votes(t) = Votes(s)
  BY <1>3, <1>4, <1>5, <1>6 DEF NodeInv, CommitCacheInv, Kept, Known, Votes
<1> QED
  BY <1>4, <1>7, <1>8, <1>9, <1>10, GenesisAssumption DEF Advances, NodeInv, Stores, t

\* A restart keeps what is on disk: the chain, the lock and what was sent before.
LEMMA RestartAdvances ==
    ASSUME NEW n \in Correct, NEW s \in NodeState, NEW N, NodeInv(n, s)
    PROVE  Advances(n, s, Restart(s), N)
<1> DEFINE t == Restart(s)
<1>1. /\ s.tip \in Block /\ number[s.tip] \in Nat /\ number[s.highest] \in Nat
      /\ s.consNum \in Nat /\ s.backup \in Block \cup {NoBlock}
  BY StateFields, NumberAssumption
<1>2. /\ t.highest = s.tip /\ t.consNum = number[s.tip] + 1 /\ t.tip = s.tip
      /\ t.chain = s.chain /\ t.sent = s.sent /\ t.backup = s.backup
      /\ t.cache = EmptyCache(s.backup)
  BY DEF Restart, Start
<1>3. /\ t.cache.raw = NoBlock /\ t.cache.prep = NoBlock
      /\ t.cache.committed = s.backup /\ t.cache.commit = {}
  BY <1>2 DEF EmptyCache
<1> HIDE DEF t
<1>4. s.consNum <= t.consNum
  BY <1>1, <1>2 DEF NodeInv, HeightsInv
<1>5. HeightsInv(t)
  BY <1>1, <1>2 DEF NodeInv, HeightsInv
<1>6. LockInv(t)
  <2>1. /\ Height(s.backup) <= s.consNum /\ Height(s.backup) \in Int /\ Height(NoBlock) = -1
    BY <1>1, HeightType DEF NodeInv, LockInv
  <2> QED
    BY <1>1, <1>2, <1>3, <1>4, <2>1 DEF LockInv
<1>7. VoteInv(n, t)
  <2>1. \A m \in s.sent : height(m) \in Nat
    BY StateFields, NumberAssumption DEF Message, height
  <2> QED
    BY <1>1, <1>2, <1>4, <2>1 DEF NodeInv, VoteInv
<1>8. CommitCacheInv(t) /\ Known(t, N) /\ Votes(t) = Votes(s)
  BY <1>2, <1>3 DEF CommitCacheInv, Known, Votes
<1> QED
  BY <1>2, <1>5, <1>6, <1>7, <1>8, GenesisAssumption DEF Advances, NodeInv, Stores, t

-----------------------------------------------------------------------------
(* From one node to the group.                                             *)

\* A quorum in m_commitCache is a quorum of voters: one entry per signature, one
\* signature per signer, and every entry of a correct signer is a vote it has cast.
LEMMA CommitQuorumChosen ==
    ASSUME OneSignatureEach, NEW S \in [Correct -> NodeState], \A n \in Correct : VoteInv(n, S[n]),
           NEW b \in Block, CommitQuorum(b, NetworkOf(S))
    PROVE  Chosen(VotedOf(S), b)
<1>1. PICK C \in SUBSET NetworkOf(S) :
        /\ \A x \in C : x.type = "commit" /\ x.b = b
        /\ \A x, y \in C : sigHex(x) = sigHex(y) => x = y
        /\ Cardinality(C) >= minValidNodes
  BY DEF CommitQuorum
<1> DEFINE T == Supporters(VotedOf(S), b)
           f == [x \in C |-> x.idx]
<1>2. ASSUME NEW x \in C
      PROVE  x.idx \in T /\ x.sig = 0
  <2>1. CASE x \in FaultyMessage
    BY <2>1 DEF Supporters, OneSignatureEach
  <2>2. ASSUME NEW n \in Correct, x \in S[n].sent
        PROVE  x.idx \in T /\ x.sig = 0
    <3>1. x.idx = n /\ x.sig = 0
      BY <2>2 DEF VoteInv
    <3>2. b \in Votes(S[n])
      BY <1>1, <2>2 DEF Votes
    <3> QED
      BY <3>1, <3>2 DEF Supporters, VotedOf
  <2> QED
    BY <2>1, <2>2 DEF NetworkOf
<1>3. f \in Injection(C, T)
  <2>1. f \in [C -> T]
    BY <1>2
  <2>2. \A x, y \in C : f[x] = f[y] => x = y
    BY <1>1, <1>2 DEF sigHex
  <2> QED
    BY <2>1, <2>2 DEF Injection, IsInjective
<1>4. IsFiniteSet(T)
  <2>1. T \in SUBSET Node
    BY FaultyAssumption DEF Supporters, Correct
  <2> QED
    BY <2>1, GroupSize, FS_Subset
<1>5. IsFiniteSet(C) /\ Cardinality(C) <= Cardinality(T)
  BY <1>3, <1>4, FS_Injection
<1> QED
  BY <1>1, <1>4, <1>5, GroupSize, FS_CardinalityType DEF Chosen

LEMMA VotedType ==
    ASSUME NEW S \in [Correct -> NodeState]
    PROVE  VotedOf(S) \in [Correct -> SUBSET Block]
<1>1. \A n \in Correct : S[n].sent \in SUBSET Message
  BY StateFields
<1> QED
  BY <1>1 DEF VotedOf, Votes, Message

\* A node that moves takes nothing off the network and takes back no vote.
LEMMA GroupGrows ==
    ASSUME NEW S \in [Correct -> NodeState], NEW n \in Correct, NEW t \in NodeState,
           S[n].sent \subseteq t.sent
    PROVE  LET T == [S EXCEPT ![n] = t]
           IN  /\ T \in [Correct -> NodeState]
               /\ NetworkOf(S) \cup t.sent \subseteq NetworkOf(T)
               /\ \A k \in Correct : VotedOf(S)[k] \subseteq VotedOf(T)[k]
<1> DEFINE T == [S EXCEPT ![n] = t]
<1>1. T \in [Correct -> NodeState]
  OBVIOUS
<1>2. \A k \in Correct : S[k].sent \subseteq T[k].sent /\ T[n] = t
  OBVIOUS
<1> HIDE DEF T
<1>3. NetworkOf(S) \cup t.sent \subseteq NetworkOf(T)
  BY <1>2 DEF NetworkOf
<1>4. \A k \in Correct : VotedOf(S)[k] \subseteq VotedOf(T)[k]
  BY <1>2 DEF VotedOf, Votes
<1> QED
  BY <1>1, <1>3, <1>4 DEF T

\* A step of one node keeps the invariant of the group, given the block it may store.
LEMMA GroupStep ==
    ASSUME NEW S, GroupInv(S), NEW n \in Correct, NEW t \in NodeState,
           NodeInv(n, t), Known(t, NetworkOf(S)), S[n].sent \subseteq t.sent,
           OneSignatureEach =>
               \A b \in t.chain \ S[n].chain : Chosen(VotedOf([S EXCEPT ![n] = t]), b)
    PROVE  GroupInv([S EXCEPT ![n] = t])
<1> DEFINE T == [S EXCEPT ![n] = t]
<1>1. S \in [Correct -> NodeState]
  BY DEF GroupInv
<1>2. /\ T \in [Correct -> NodeState] /\ NetworkOf(S) \cup t.sent \subseteq NetworkOf(T)
      /\ \A k \in Correct : VotedOf(S)[k] \subseteq VotedOf(T)[k]
  BY <1>1, GroupGrows
<1>3. T[n] = t /\ \A k \in Correct : k # n => T[k] = S[k]
  BY <1>1
<1> HIDE DEF T
<1>4. \A k \in Correct : NodeInv(k, T[k]) /\ Known(T[k], NetworkOf(T))
  BY <1>2, <1>3 DEF GroupInv, Known
<1>5. \A b \in Block : Chosen(VotedOf(S), b) => Chosen(VotedOf(T), b)
  BY <1>1, <1>2, VotedType, ChosenStable
<1>6. ASSUME OneSignatureEach, NEW k \in Correct, NEW b \in T[k].chain \ {Genesis}
      PROVE  Chosen(VotedOf(T), b)
  <2>1. CASE b \in S[k].chain
    <3>1. b \in Block
      BY <1>1, <2>1, StateFields
    <3> QED
      BY <1>5, <1>6, <2>1, <3>1 DEF GroupInv
  <2>2. CASE b \notin S[k].chain
    BY <1>3, <1>6, <2>2 DEF T
  <2> QED
    BY <2>1, <2>2
<1> QED
  BY <1>2, <1>4, <1>6 DEF GroupInv, T

LEMMA AdvancesKeepsGroupInv ==
    ASSUME NEW S, GroupInv(S), NEW n \in Correct, NEW t \in NodeState,
           Advances(n, S[n], t, NetworkOf(S))
    PROVE  GroupInv([S EXCEPT ![n] = t])
<1> DEFINE T == [S EXCEPT ![n] = t]
<1>1. S \in [Correct -> NodeState]
  BY DEF GroupInv
<1>2. NodeInv(n, t) /\ Known(t, NetworkOf(S)) /\ S[n].sent \subseteq t.sent
  BY DEF Advances
<1>3. T \in [Correct -> NodeState] /\ NetworkOf(S) \cup t.sent \subseteq NetworkOf(T)
  BY <1>1, <1>2, GroupGrows
<1>4. \A k \in Correct : VoteInv(k, T[k])
  BY <1>1, <1>2 DEF GroupInv, NodeInv
<1> HIDE DEF T
<1>5. ASSUME OneSignatureEach, NEW b \in t.chain \ S[n].chain
      PROVE  Chosen(VotedOf(T), b)
  <2>1. b \in Block /\ CommitQuorum(b, NetworkOf(S) \cup t.sent)
    BY StateFields DEF Advances, Stores
  <2>2. CommitQuorum(b, NetworkOf(T))
    BY <1>3, <2>1 DEF CommitQuorum
  <2> QED
    BY <1>3, <1>4, <1>5, <2>1, <2>2, CommitQuorumChosen
<1> QED
  BY <1>2, <1>5, GroupStep DEF T

-----------------------------------------------------------------------------
(* Every action is such a step of one node.                                *)

\* Block sync stores a block that the group has chosen already.
Synced(s, t) ==
    \E b \in Block :
        /\ CanCommitBlock(s, b) /\ t = commitBlock(s, b)
        /\ OneSignatureEach => Chosen(VotedOf(node), b)

NodeStep(n, t) ==
    /\ node' = [node EXCEPT ![n] = t]
    /\ Advances(n, node[n], t, NetworkOf(node)) \/ Synced(node[n], t)

LEMMA TimeoutStep ==
    ASSUME EngineInv, NEW n \in Correct, node[n] \in NodeState, Timeout(n)
    PROVE  \E t : NodeStep(n, t)
<1> DEFINE s1 == [node[n] EXCEPT !.toView = node[n].toView + 1, !.leaderFailed = TRUE]
           c == removeInvalidViewChange(s1.cache, s1.toView, s1.highest)
           s2 == [s1 EXCEPT !.cache = c]
           s3 == broadcastViewChangeReq(n, s2)
           s4 == checkAndChangeView(s3)
           t == resetBlockForViewChange(n, s4)
<1>1. node[n].toView + 1 \in Nat
  BY StateFields
<1>2. s1 \in NodeState /\ Quiet(n, node[n], s1)
  <2>1. Kept(node[n].cache, node[n].cache)
    BY DEF Kept
  <2>2. s1 \in NodeState
    BY <1>1 DEF NodeState
  <2>3. Quiet(n, node[n], s1)
    BY <1>1, <2>1 DEF NodeState, Quiet
  <2> QED
    BY <2>2, <2>3
<1>3. node' = [node EXCEPT ![n] = t]
  BY DEF Timeout, Become
<1> HIDE DEF s1
<1>4. c \in Cache /\ Kept(s1.cache, c)
  <2>1. s1.cache \in Cache /\ s1.toView \in Nat /\ s1.highest \in Block
    BY <1>2, StateFields
  <2>2. c \in Cache
    BY <2>1, CacheCleanTypes
  <2> QED
    BY <2>1, <2>2 DEF removeInvalidViewChange, Cache, Kept
<1> HIDE DEF c
<1>5. s2 \in NodeState /\ Quiet(n, s1, s2)
  BY <1>2, <1>4, StateUpdateTypes, QuietUpdates
<1> HIDE DEF s2
<1>6. s3 \in NodeState /\ Quiet(n, s2, s3)
  BY <1>5, BroadcastViewChangeReqType, ViewChangeQuiet
<1> HIDE DEF s3
<1>7. s4 \in NodeState /\ Quiet(n, s3, s4)
  BY <1>6, CheckAndChangeViewType, ViewChangeQuiet
<1> HIDE DEF s4
<1>8. t \in NodeState /\ Quiet(n, s4, t)
  BY <1>7, StateUpdateTypes, ViewChangeQuiet DEF resetBlockForViewChange
<1> HIDE DEF t
<1>9. Quiet(n, node[n], s2) /\ Quiet(n, s2, s4)
  BY <1>2, <1>5, <1>6, <1>7, QuietTransitive
<1>10. Quiet(n, node[n], t)
  BY <1>8, <1>9, QuietTransitive
<1>11. Advances(n, node[n], t, NetworkOf(node))
  BY <1>8, <1>10, QuietAdvances DEF EngineInv, GroupInv
<1> QED
  BY <1>3, <1>11 DEF NodeStep

LEMMA SealStep ==
    ASSUME EngineInv, NEW n \in Correct, node[n] \in NodeState, Seal(n)
    PROVE  \E t : NodeStep(n, t)
<1> DEFINE s == node[n]
           s0 == [s EXCEPT !.sealed = TRUE]
           m(b) == Msg("prepare", b, s.view, n)
           s1(b) == Send(s0, m(b))
           s2(b) == [s1(b) EXCEPT !.leaderFailed = TRUE]
           t(b) == IF b \in EmptyBlock THEN resetSealingBlock(s2(b))
                                       ELSE handlePrepareMsg(n, s1(b), m(b))
<1>1. PICK b \in Block : node' = [node EXCEPT ![n] = t(b)]
  BY DEF Seal, Become
<1>2. m(b) \in Message /\ m(b).idx = n /\ m(b).sig = 0 /\ m(b).type # "commit"
  BY StateFields, MsgType1, MsgFields DEF MsgType, Correct
<1> HIDE DEF m
<1>3. s0 \in NodeState /\ Quiet(n, s, s0)
  <2>1. s0 \in NodeState
    BY DEF NodeState
  <2> QED
    BY <2>1, QuietUpdates
<1> HIDE DEF s0
<1>4. s1(b) \in NodeState /\ Quiet(n, s, s1(b))
  BY <1>2, <1>3, StateUpdateTypes, QuietUpdates, QuietTransitive
<1> HIDE DEF s1
<1>5. s2(b) \in NodeState /\ Quiet(n, s1(b), s2(b))
  <2>1. s2(b) \in NodeState
    BY <1>4 DEF NodeState
  <2> QED
    BY <1>4, <2>1, QuietUpdates
<1> HIDE DEF s2
<1>6. NodeInv(n, s) /\ Known(s, NetworkOf(node))
  BY DEF EngineInv, GroupInv
<1>7. NodeInv(n, s1(b)) /\ Known(s1(b), NetworkOf(node))
  BY <1>4, <1>6, QuietKeepsInv, QuietKnown
<1>8. Advances(n, s, handlePrepareMsg(n, s1(b), m(b)), NetworkOf(node))
  BY <1>2, <1>4, <1>7, HandlePrepareAdvances, HandlePrepareMsgType, QuietThenAdvances
<1>9. Advances(n, s, resetSealingBlock(s2(b)), NetworkOf(node))
  <2>1. resetSealingBlock(s2(b)) \in NodeState /\ Quiet(n, s2(b), resetSealingBlock(s2(b)))
    BY <1>5, StateUpdateTypes, QuietUpdates
  <2>2. Quiet(n, s, resetSealingBlock(s2(b)))
    BY <1>4, <1>5, <2>1, QuietTransitive
  <2> QED
    BY <1>6, <2>1, <2>2, QuietAdvances
<1> QED
  BY <1>1, <1>8, <1>9 DEF NodeStep

\* The crash after backupMsg: the lock is on disk, the commit request was never sent.
LEMMA CrashInCheckAndCommitStep ==
    ASSUME EngineInv, NEW n \in Correct, node[n] \in NodeState, CrashInCheckAndCommit(n),
           Incoming(n, "sign") \subseteq Message
    PROVE  \E t : NodeStep(n, t)
<1> DEFINE s == node[n]
           s1(m) == [s EXCEPT !.cache = addSignReq(s.cache, m)]
           s2(m) == backupCommitted(s1(m))
           t(m) == Restart(s2(m))
<1>1. PICK m \in Incoming(n, "sign") :
        isValidSignReq(s, n, m) = "VALID" /\ node' = [node EXCEPT ![n] = t(m)]
  BY DEF CrashInCheckAndCommit, Fail
<1>2. m \in Message /\ NodeInv(n, s)
  BY DEF EngineInv, GroupInv
<1>3. /\ s1(m) \in NodeState /\ Quiet(n, s, s1(m))
      /\ s1(m).cache.prep \in Block /\ Height(s1(m).cache.prep) = s1(m).consNum
  BY <1>1, <1>2, SignAccepted
<1> HIDE DEF s1
<1>4. NodeInv(n, s1(m))
  BY <1>2, <1>3, QuietKeepsInv
<1>5. /\ s2(m) \in NodeState /\ NodeInv(n, s2(m))
      /\ s2(m).backup = s1(m).backup \/ Height(s2(m).backup) > Height(s1(m).backup)
      /\ s2(m).chain = s1(m).chain /\ s2(m).sent = s1(m).sent
  BY <1>3, <1>4, NoBlockAssumption, StateUpdateTypes, BackupCommittedInv
<1> HIDE DEF s2
<1>6. Advances(n, s2(m), t(m), NetworkOf(node)) /\ t(m).backup = s2(m).backup
  BY <1>5, RestartAdvances DEF Restart, Start
<1> HIDE DEF t
<1>7. Votes(s2(m)) = Votes(s)
  BY <1>3, <1>5, QuietVotes DEF Votes
<1>8. Advances(n, s, t(m), NetworkOf(node))
  BY <1>3, <1>5, <1>6, <1>7 DEF Advances, Stores, Quiet
<1> QED
  BY <1>1, <1>8 DEF NodeStep

LEMMA EveryActionIsNodeStep ==
    ASSUME EngineInv, NEW n \in Awake,
           \/ HandlePrepare(n) \/ HandleSign(n) \/ HandleCommit(n) \/ HandleViewChange(n)
           \/ Timeout(n) \/ HandleFuture(n) \/ CollectGarbage(n) \/ ReportBlock(n)
           \/ Seal(n) \/ RehandleCommitted(n) \/ SyncBlock(n) \/ Crash(n)
           \/ CrashInCheckAndCommit(n)
    PROVE  \E t : NodeStep(n, t)
<1> DEFINE s == node[n]
           N == NetworkOf(node)
<1>1. /\ n \in Correct /\ n \in Node /\ s \in NodeState
      /\ NodeInv(n, s) /\ Known(s, N)
  BY BoundAssumption DEF EngineInv, GroupInv, Correct
<1>2. Network = N /\ N \subseteq Message
  BY NetworkType DEF EngineInv, Network, NetworkOf
<1>3. \A x : Incoming(n, x) \subseteq Message \cap N
  BY <1>2 DEF Incoming
<1> HIDE DEF N
<1>4. ASSUME HandlePrepare(n)
      PROVE  \E t : NodeStep(n, t)
  BY <1>1, <1>3, <1>4, HandlePrepareAdvances DEF HandlePrepare, Become, NodeStep, N
<1>5. ASSUME HandleSign(n)
      PROVE  \E t : NodeStep(n, t)
  BY <1>1, <1>3, <1>5, HandleSignAdvances DEF HandleSign, Become, NodeStep, N
<1>6. ASSUME HandleCommit(n)
      PROVE  \E t : NodeStep(n, t)
  <2>1. PICK m \in Incoming(n, "commit") :
            node' = [node EXCEPT ![n] = handleCommitMsg(n, s, m)]
    BY <1>6 DEF HandleCommit, Become
  <2>2. m \in Message \cap N /\ m.type = "commit"
    BY <1>3, <2>1 DEF Incoming
  <2>3. Advances(n, s, handleCommitMsg(n, s, m), N)
    BY <1>1, <2>2, HandleCommitAdvances
  <2> QED
    BY <2>1, <2>3 DEF NodeStep, N
<1>7. ASSUME HandleViewChange(n)
      PROVE  \E t : NodeStep(n, t)
  <2>1. PICK m \in Incoming(n, "viewchange"), direct \in BOOLEAN :
            \E t \in handleViewChangeMsg(n, s, m, direct) : node' = [node EXCEPT ![n] = t]
    BY <1>7 DEF HandleViewChange, Become
  <2>2. PICK t \in handleViewChangeMsg(n, s, m, direct) : node' = [node EXCEPT ![n] = t]
    BY <2>1
  <2>3. t \in NodeState /\ Quiet(n, s, t)
    BY <1>1, <1>3, HandleViewChangeMsgType, HandleViewChangeQuiet
  <2>4. Advances(n, s, t, N)
    BY <1>1, <2>3, QuietAdvances
  <2> QED
    BY <2>2, <2>4 DEF NodeStep, N
<1>8. ASSUME HandleFuture(n)
      PROVE  \E t : NodeStep(n, t)
  <2> DEFINE s1(m) == handlePrepareMsg(n, s, m)
             c(m) == eraseHandledFutureReq(s1(m).cache, height(m))
             t(m) == [s1(m) EXCEPT !.cache = c(m)]
  <2>1. PICK m \in s.cache.future : node' = [node EXCEPT ![n] = t(m)]
    BY <1>8 DEF HandleFuture, Become
  <2>2. m \in Message
    BY <1>1, StateFields
  <2>3. s1(m) \in NodeState /\ Advances(n, s, s1(m), N)
    BY <1>1, <2>2, HandlePrepareMsgType, HandlePrepareAdvances
  <2> HIDE DEF s1
  <2>4. c(m) \in Cache /\ Kept(s1(m).cache, c(m))
    <3>1. s1(m).cache \in Cache
      BY <2>3, StateFields
    <3>2. c(m) \in Cache
      BY <3>1, GenesisAssumption, CacheCleanTypes
    <3> QED
      BY <3>1, <3>2 DEF eraseHandledFutureReq, Cache, Kept
  <2> HIDE DEF c
  <2>5. t(m) \in NodeState /\ Quiet(n, s1(m), t(m))
    BY <1>1, <2>3, <2>4, StateUpdateTypes, QuietUpdates
  <2>6. Advances(n, s, t(m), N)
    BY <1>1, <2>3, <2>5, AdvancesThenQuiet
  <2> QED
    BY <2>1, <2>6 DEF NodeStep, N
<1>9. ASSUME CollectGarbage(n)
      PROVE  \E t : NodeStep(n, t)
  <2> DEFINE c == collectGarbage(s.cache, s.highest)
             t == [s EXCEPT !.cache = c]
  <2>1. c \in Cache /\ Kept(s.cache, c)
    <3>1. s.cache \in Cache /\ s.highest \in Block
      BY <1>1, StateFields
    <3>2. c \in Cache
      BY <3>1, CacheCleanTypes
    <3> QED
      BY <3>1, <3>2 DEF collectGarbage, removeInvalidEntryFromCache, Cache, Kept
  <2>2. node' = [node EXCEPT ![n] = t]
    BY <1>9 DEF CollectGarbage, Become
  <2> HIDE DEF c
  <2>3. Advances(n, s, t, N)
    BY <1>1, <2>1, StateUpdateTypes, QuietUpdates, QuietAdvances
  <2> QED
    BY <2>2, <2>3 DEF NodeStep, N
<1>10. ASSUME ReportBlock(n)
       PROVE  \E t : NodeStep(n, t)
  <2> DEFINE t == reportBlock(s)
  <2>1. /\ number[s.highest] < number[s.tip]
        /\ \/ node' = [node EXCEPT ![n] = t]
           \/ node' = [node EXCEPT ![n] = resetSealingBlock(t)]
    BY <1>10 DEF ReportBlock, Become
  <2>2. t \in NodeState /\ Advances(n, s, t, N)
    BY <1>1, <2>1, ReportBlockType, ReportBlockAdvances
  <2> HIDE DEF t
  <2>3. Advances(n, s, resetSealingBlock(t), N)
    BY <1>1, <2>2, StateUpdateTypes, QuietUpdates, AdvancesThenQuiet
  <2> QED
    BY <2>1, <2>2, <2>3 DEF NodeStep, N
<1>11. ASSUME RehandleCommitted(n)
       PROVE  \E t : NodeStep(n, t)
  <2> DEFINE m == Msg("prepare", s.cache.committed, s.view, n)
             s1 == Send(s, m)
             t == handlePrepareMsg(n, s1, m)
  <2>1. node' = [node EXCEPT ![n] = t] /\ Height(s.cache.committed) = s.consNum
    BY <1>11 DEF RehandleCommitted, Become
  <2>2. s.cache.committed \in Block
    BY <1>1, <2>1, StateFields DEF Height
  <2>3. m \in Message /\ m.idx = n /\ m.sig = 0 /\ m.type # "commit"
    BY <1>1, <2>2, StateFields, MsgType1, MsgFields DEF MsgType
  <2> HIDE DEF m
  <2>4. s1 \in NodeState /\ Quiet(n, s, s1)
    BY <1>1, <2>3, StateUpdateTypes, QuietUpdates
  <2> HIDE DEF s1
  <2>5. NodeInv(n, s1) /\ Known(s1, N)
    BY <1>1, <2>4, QuietKeepsInv, QuietKnown
  <2>6. Advances(n, s, t, N)
    BY <1>1, <2>3, <2>4, <2>5, HandlePrepareAdvances, HandlePrepareMsgType, QuietThenAdvances
  <2> QED
    BY <2>1, <2>6 DEF NodeStep, N
<1>12. ASSUME SyncBlock(n)
       PROVE  \E t : NodeStep(n, t)
  <2>1. PICK p \in Correct :
            \E b \in node[p].chain : CanCommitBlock(s, b) /\ Become(n, commitBlock(s, b))
    BY <1>12 DEF SyncBlock
  <2>2. PICK b \in node[p].chain : CanCommitBlock(s, b) /\ Become(n, commitBlock(s, b))
    BY <2>1
  <2>3. b \in Block
    BY <2>2, NetworkType, StateFields DEF EngineInv
  <2>4. b # Genesis
    BY <1>1, <2>2, <2>3, CommitBlockInv
  <2>5. OneSignatureEach => Chosen(VotedOf(node), b)
    BY <2>2, <2>4 DEF EngineInv, GroupInv
  <2> QED
    BY <2>2, <2>3, <2>5 DEF NodeStep, Synced, Become
<1>13. ASSUME Crash(n)
       PROVE  \E t : NodeStep(n, t)
  BY <1>1, <1>13, RestartAdvances DEF Crash, Fail, NodeStep, N
<1> QED
  BY <1>1, <1>3, <1>4, <1>5, <1>6, <1>7, <1>8, <1>9, <1>10, <1>11, <1>12, <1>13,
     TimeoutStep, SealStep, CrashInCheckAndCommitStep

LEMMA EngineInvInit == Init => EngineInv
<1> SUFFICES ASSUME Init
             PROVE  EngineInv
  OBVIOUS
<1> DEFINE s == Start(Genesis, {Genesis}, NoBlock, {})
<1>1. TypeOK /\ node \in [Correct -> NodeState]
  BY TypeOKInit DEF TypeOK
<1>2. /\ s.highest = Genesis /\ s.tip = Genesis /\ s.consNum = number[Genesis] + 1
      /\ s.chain = {Genesis} /\ s.backup = NoBlock /\ s.sent = {}
      /\ s.cache.committed = NoBlock /\ s.cache.raw = NoBlock /\ s.cache.prep = NoBlock
      /\ s.cache.commit = {}
  BY DEF Start, EmptyCache
<1>3. \A n \in Correct : node[n] = s
  BY DEF Init
<1> HIDE DEF s
<1>4. number[Genesis] = 0 /\ Height(NoBlock) = -1
  BY GenesisAssumption, HeightType
<1>5. \A n \in Correct : NodeInv(n, node[n])
  BY <1>2, <1>3, <1>4 DEF NodeInv, HeightsInv, LockInv, VoteInv, CommitCacheInv
<1>6. \A n \in Correct : Known(node[n], NetworkOf(node)) /\ node[n].chain \ {Genesis} = {}
  BY <1>2, <1>3 DEF Known
<1> QED
  BY <1>1, <1>5, <1>6 DEF EngineInv, GroupInv

LEMMA NodeStepKeepsInv ==
    ASSUME EngineInv, TypeOK', NEW n \in Correct, NEW t, NodeStep(n, t)
    PROVE  EngineInv' /\ t \in NodeState /\ node'[n] = t
<1>1. node \in [Correct -> NodeState] /\ node' = [node EXCEPT ![n] = t]
  BY DEF EngineInv, TypeOK, NodeStep
<1>2. node'[n] = t /\ t \in NodeState
  BY <1>1 DEF TypeOK
<1>3. CASE Advances(n, node[n], t, NetworkOf(node))
  BY <1>1, <1>2, <1>3, AdvancesKeepsGroupInv DEF EngineInv
<1>4. CASE Synced(node[n], t)
  <2>1. PICK b \in Block :
            /\ CanCommitBlock(node[n], b) /\ t = commitBlock(node[n], b)
            /\ OneSignatureEach => Chosen(VotedOf(node), b)
    BY <1>4 DEF Synced
  <2>2. t.chain = node[n].chain \cup {b} /\ t.sent = node[n].sent /\ t.cache = node[n].cache
    BY <1>1, <2>1 DEF commitBlock, NodeState
  <2>3. NodeInv(n, t) /\ Known(t, NetworkOf(node))
    BY <1>1, <2>1, <2>2, CommitBlockInv DEF EngineInv, GroupInv, Known
  <2>4. OneSignatureEach => Chosen(VotedOf([node EXCEPT ![n] = t]), b)
    BY <1>1, <1>2, <2>1, <2>2, GroupGrows, VotedType, ChosenStable
  <2> QED
    BY <1>1, <1>2, <2>2, <2>3, <2>4, GroupStep DEF EngineInv
<1> QED
  BY <1>2, <1>3, <1>4 DEF NodeStep

LEMMA EngineInvNext == EngineInv /\ [Next]_vars => EngineInv'
<1> SUFFICES ASSUME EngineInv, [Next]_vars
             PROVE  EngineInv'
  OBVIOUS
<1>1. TypeOK'
  BY TypeOKNext DEF EngineInv
<1>2. CASE UNCHANGED vars
  BY <1>1, <1>2 DEF vars, EngineInv
<1>3. CASE Next
  <2>1. PICK n \in Awake : \E t : NodeStep(n, t)
    BY <1>3, EveryActionIsNodeStep DEF Next
  <2> QED
    BY <1>1, <2>1, BoundAssumption, NodeStepKeepsInv
<1> QED
  BY <1>2, <1>3

LEMMA EngineInvHolds == Spec => []EngineInv
BY EngineInvInit, EngineInvNext, PTL DEF Spec

-----------------------------------------------------------------------------
LEMMA InvImpliesAgreement == OneSignatureEach /\ EngineInv => Agreement
<1> SUFFICES ASSUME OneSignatureEach, EngineInv, NEW n1 \in Correct, NEW n2 \in Correct,
                    NEW b1 \in node[n1].chain, NEW b2 \in node[n2].chain,
                    number[b1] = number[b2]
             PROVE  b1 = b2
  BY DEF Agreement
<1>1. b1 \in Block /\ b2 \in Block /\ number[b1] \in Nat /\ number[b2] \in Nat
  BY NetworkType, StateFields, NumberAssumption DEF EngineInv
<1>2. b1 = Genesis \/ number[b1] > 0
  BY DEF EngineInv, GroupInv, NodeInv, HeightsInv
<1>3. b2 = Genesis \/ number[b2] > 0
  BY DEF EngineInv, GroupInv, NodeInv, HeightsInv
<1>4. CASE b1 # Genesis /\ b2 # Genesis
  <2>1. Chosen(VotedOf(node), b1) /\ Chosen(VotedOf(node), b2)
    BY <1>4 DEF EngineInv, GroupInv
  <2>2. VotedOf(node) \in [Correct -> SUBSET Block]
    BY VotedType DEF EngineInv, TypeOK
  <2>3. ASSUME NEW n \in Correct, NEW b \in VotedOf(node)[n], NEW c \in VotedOf(node)[n],
               number[b] = number[c]
        PROVE  b = c
    BY <2>3 DEF EngineInv, GroupInv, NodeInv, VoteInv, VotedOf, Votes, height
  <2> QED
    BY <1>1, <2>1, <2>2, <2>3, ChosenUnique
<1> QED
  BY <1>1, <1>2, <1>3, <1>4, GenesisAssumption

(***************************************************************************)
(* No two correct nodes ever store different blocks of one height, for any *)
(* group size, any timeouts, crashes and restarts, and any block sync, if  *)
(* OneSignatureEach holds: at most F sealers are faulty, these may propose *)
(* and vote for anything, and all requests are signed by dev::sign in the  *)
(* sender's own name and reach the others as they were sent.  Without it   *)
(* the signatures that checkAndSave counts need not be those of different  *)
(* sealers.                                                                *)
(***************************************************************************)
THEOREM NodesAgree ==
    ASSUME OneSignatureEach
    PROVE  Spec => []Agreement
<1>1. EngineInv => Agreement
  BY InvImpliesAgreement
<1> QED
  BY <1>1, EngineInvHolds, PTL

LEMMA InvImpliesLocked == EngineInv => CommitVoteLocked
<1> SUFFICES ASSUME EngineInv, NEW n \in Correct, NEW m \in CommitVotes(n),
                    node[n].backup # m.b
             PROVE  height(m) <= number[node[n].tip]
  BY DEF CommitVoteLocked
<1>1. node[n] \in NodeState /\ m \in Message
  BY NetworkType, StateFields DEF EngineInv, CommitVotes
<1>2. /\ height(m) \in Nat /\ number[node[n].tip] \in Nat /\ number[node[n].highest] \in Nat
  BY <1>1, StateFields, NumberAssumption DEF height, Message
<1>3. height(m) < node[n].consNum
  BY DEF EngineInv, GroupInv, NodeInv, VoteInv, CommitVotes
<1>4. node[n].consNum = number[node[n].highest] + 1 /\ number[node[n].highest] <= number[node[n].tip]
  BY DEF EngineInv, GroupInv, NodeInv, HeightsInv
<1> QED
  BY <1>2, <1>3, <1>4

(***************************************************************************)
(* A commit request stays backed by the committed prepare in m_backupDB,   *)
(* across view changes and restarts, until the node's chain has reached    *)
(* that height.                                                            *)
(***************************************************************************)
THEOREM CommitVotesAreDurable == Spec => []CommitVoteLocked
BY EngineInvHolds, InvImpliesLocked, PTL

LEMMA StepMovesLockUp == EngineInv /\ [Next]_vars => [LockMovesUp]_vars
<1> SUFFICES ASSUME EngineInv, Next
             PROVE  LockMovesUp
  OBVIOUS
<1>1. PICK n \in Awake : \E t : NodeStep(n, t)
  BY EveryActionIsNodeStep DEF Next
<1>2. PICK t : NodeStep(n, t)
  BY <1>1
<1>3. TypeOK' /\ n \in Correct
  BY TypeOKNext, BoundAssumption DEF EngineInv
<1>4. node \in [Correct -> NodeState] /\ node' = [node EXCEPT ![n] = t]
  BY <1>2 DEF EngineInv, TypeOK, NodeStep
<1>5. t.backup = node[n].backup \/ Height(t.backup) > Height(node[n].backup)
  <2>1. CASE Advances(n, node[n], t, NetworkOf(node))
    BY <2>1 DEF Advances
  <2>2. CASE Synced(node[n], t)
    <3>1. node[n] \in NodeState
      BY <1>3, <1>4
    <3> QED
      BY <2>2, <3>1 DEF Synced, commitBlock, NodeState
  <2> QED
    BY <1>2, <2>1, <2>2 DEF NodeStep
<1> QED
  BY <1>3, <1>4, <1>5 DEF LockMovesUp

(***************************************************************************)
(* No step of checkAndCommit, no crash and no restart replaces the lock on *)
(* disk by a rival block of the same height or by a lower one.             *)
(***************************************************************************)
THEOREM LockIsNeverReplaced == Spec => LockNeverReplaced
<1>1. EngineInv /\ [Next]_vars => [LockMovesUp]_vars
  BY StepMovesLockUp
<1> QED
  BY <1>1, EngineInvHolds, PTL DEF Spec, LockNeverReplaced

\* The abstract group is this group.
LEMMA SameChosen ==
    ASSUME NEW v, NEW b
    PROVE  Abstract!Chosen(v, b) <=> Chosen(v, b)
<1>1. Abstract!minValidNodes = minValidNodes /\ Abstract!Correct = Correct
  BY DEF Abstract!minValidNodes, Abstract!F, Abstract!Correct, Abstract!Node,
         minValidNodes, F, Correct, Node
<1>2. \A S : Abstract!Cardinality(S) = Cardinality(S)
  BY DEF Abstract!Cardinality, Cardinality
<1> QED
  BY <1>1, <1>2 DEF Abstract!Chosen, Abstract!Supporters, Chosen, Supporters

LEMMA StepIsAbstract ==
    OneSignatureEach /\ EngineInv /\ [Next]_vars
        => [Abstract!AbstractNext]_(Abstract!abstractVars)
<1> SUFFICES ASSUME OneSignatureEach, EngineInv, [Next]_vars
             PROVE  [Abstract!AbstractNext]_(Abstract!abstractVars)
  OBVIOUS
<1> DEFINE votes == [n \in Correct |-> {m.b : m \in CommitVotes(n)}]
           stored == [n \in Correct |-> node[n].chain \ {Genesis}]
<1>1. CASE UNCHANGED vars
  BY <1>1 DEF vars, Abstract!abstractVars, CommitVotes
<1>2. CASE Next
  <2>1. PICK n \in Awake : \E t : NodeStep(n, t)
    BY <1>2, EveryActionIsNodeStep DEF Next
  <2>2. PICK t : NodeStep(n, t)
    BY <2>1
  <2>3. TypeOK' /\ n \in Correct
    BY TypeOKNext, BoundAssumption DEF EngineInv
  <2>4. EngineInv' /\ t \in NodeState /\ node'[n] = t
    BY <2>2, <2>3, NodeStepKeepsInv
  <2>5. node \in [Correct -> NodeState] /\ node' = [node EXCEPT ![n] = t]
    BY <2>2 DEF EngineInv, TypeOK, NodeStep
  <2>6. votes = VotedOf(node) /\ votes' = VotedOf(node')
    BY DEF CommitVotes, VotedOf, Votes
  <2>7. \A k \in Correct : k # n => node'[k] = node[k]
    BY <2>5
  <2>8. \E b \in Block : /\ Votes(t) \subseteq Votes(node[n]) \cup {b}
                         /\ Votes(node[n]) \subseteq Votes(t)
                         /\ \/ t.chain = node[n].chain
                            \/ b # Genesis /\ t.chain = node[n].chain \cup {b}
    <3>1. CASE Advances(n, node[n], t, NetworkOf(node))
      BY <3>1 DEF Advances, Stores, Votes
    <3>2. CASE Synced(node[n], t)
      <4>1. PICK b \in Block : CanCommitBlock(node[n], b) /\ t = commitBlock(node[n], b)
        BY <3>2 DEF Synced
      <4>2. t.chain = node[n].chain \cup {b} /\ t.sent = node[n].sent
        BY <2>3, <2>5, <4>1 DEF commitBlock, NodeState
      <4>3. b # Genesis
        BY <2>3, <2>5, <4>1, CommitBlockInv DEF EngineInv, GroupInv
      <4> QED
        BY <4>2, <4>3 DEF Votes
    <3> QED
      BY <2>2, <3>1, <3>2 DEF NodeStep
  <2>9. PICK b \in Block : /\ Votes(t) \subseteq Votes(node[n]) \cup {b}
                          /\ Votes(node[n]) \subseteq Votes(t)
                          /\ \/ t.chain = node[n].chain
                             \/ b # Genesis /\ t.chain = node[n].chain \cup {b}
    BY <2>8
  <2>10. /\ votes[n] = Votes(node[n]) /\ stored[n] = node[n].chain \ {Genesis}
         /\ votes' = [votes EXCEPT ![n] = Votes(t)]
         /\ stored' = [stored EXCEPT ![n] = t.chain \ {Genesis}]
         /\ votes = [votes EXCEPT ![n] = Votes(node[n])]
         /\ stored = [stored EXCEPT ![n] = node[n].chain \ {Genesis}]
    BY <2>3, <2>4, <2>6, <2>7 DEF VotedOf
  <2>11. Votes(t) # Votes(node[n]) => /\ Votes(t) = Votes(node[n]) \cup {b}
                                      /\ \A c \in votes[n] : number[c] = number[b] => c = b
    <3> HIDE DEF votes
    <3>1. \A c1, c2 \in Votes(t) : number[c1] = number[c2] => c1 = c2
      BY <2>3, <2>4 DEF EngineInv, GroupInv, NodeInv, VoteInv, Votes, height
    <3>2. votes[n] = Votes(node[n]) /\ Votes(node[n]) \subseteq Votes(t)
      BY <2>9, <2>10
    <3>3. ASSUME Votes(t) # Votes(node[n])
          PROVE  Votes(t) = Votes(node[n]) \cup {b} /\ b \in Votes(t)
      BY <2>9, <3>3
    <3> QED
      BY <3>1, <3>2, <3>3
  <2>12. t.chain # node[n].chain =>
            /\ b # Genesis /\ t.chain \ {Genesis} = (node[n].chain \ {Genesis}) \cup {b}
            /\ Chosen(votes', b)
    <3>1. ASSUME t.chain # node[n].chain
          PROVE  Chosen(VotedOf(node'), b)
      BY <2>3, <2>4, <2>9, <3>1 DEF EngineInv, GroupInv
    <3> QED
      BY <2>6, <2>9, <3>1
  <2> HIDE DEF votes, stored
  <2>13. CASE Votes(t) = Votes(node[n]) /\ t.chain = node[n].chain
    <3>1. votes' = votes /\ stored' = stored
      BY <2>10, <2>13
    <3> QED
      BY <3>1 DEF Abstract!abstractVars, votes, stored
  <2>14. CASE Votes(t) = Votes(node[n]) /\ t.chain # node[n].chain
    <3>1. /\ votes' = votes /\ stored' = [stored EXCEPT ![n] = stored[n] \cup {b}]
          /\ Chosen(votes, b)
      BY <2>10, <2>12, <2>14
    <3>2. Abstract!Decide(n, b)
      BY <3>1, SameChosen DEF Abstract!Decide, votes, stored
    <3> QED
      BY <2>3, <3>2 DEF Abstract!AbstractNext, Abstract!Correct, Abstract!Node, Correct, Node
  <2>15. CASE Votes(t) # Votes(node[n]) /\ t.chain = node[n].chain
    <3>1. /\ votes' = [votes EXCEPT ![n] = votes[n] \cup {b}] /\ stored' = stored
          /\ \A c \in votes[n] : number[c] = number[b] => c = b
      BY <2>10, <2>11, <2>15
    <3>2. Abstract!Vote(n, b)
      BY <3>1 DEF Abstract!Vote, Abstract!FreeToVote, votes, stored
    <3> QED
      BY <2>3, <3>2 DEF Abstract!AbstractNext, Abstract!Correct, Abstract!Node, Correct, Node
  <2>16. CASE Votes(t) # Votes(node[n]) /\ t.chain # node[n].chain
    <3>1. /\ votes' = [votes EXCEPT ![n] = votes[n] \cup {b}]
          /\ stored' = [stored EXCEPT ![n] = stored[n] \cup {b}]
          /\ \A c \in votes[n] : number[c] = number[b] => c = b
          /\ Chosen(votes', b)
      BY <2>10, <2>11, <2>12, <2>16
    <3>2. Abstract!VoteAndDecide(n, b)
      BY <3>1, SameChosen DEF Abstract!VoteAndDecide, Abstract!FreeToVote, votes, stored
    <3> QED
      BY <2>3, <3>2 DEF Abstract!AbstractNext, Abstract!Correct, Abstract!Node, Correct, Node
  <2> QED
    BY <2>13, <2>14, <2>15, <2>16
<1> QED
  BY <1>1, <1>2

LEMMA InitIsAbstract == Init => Abstract!AbstractInit
<1> SUFFICES ASSUME Init
             PROVE  Abstract!AbstractInit
  OBVIOUS
<1>1. \A n \in Correct : node[n].sent = {} /\ node[n].chain \ {Genesis} = {}
  BY DEF Init, Start
<1> QED
  BY <1>1 DEF Abstract!AbstractInit, Abstract!Correct, Abstract!Node, Correct, Node, CommitVotes

(***************************************************************************)
(* The engine implements BlockAgreement: a commit request is a vote that   *)
(* is given once per height, and a block is stored only on a quorum of     *)
(* votes of different sealers, whatever the views, caches, crashes and     *)
(* sync deliveries, if OneSignatureEach holds (see NodesAgree).            *)
(***************************************************************************)
THEOREM EngineImplementsAgreement ==
    ASSUME OneSignatureEach
    PROVE  Spec => ImplementsAgreement
<1>1. EngineInv /\ [Next]_vars => [Abstract!AbstractNext]_(Abstract!abstractVars)
  BY StepIsAbstract
<1> QED
  BY <1>1, InitIsAbstract, EngineInvHolds, PTL DEF Spec, ImplementsAgreement, Abstract!AbstractSpec

-----------------------------------------------------------------------------
(***************************************************************************)
(* What a node works on, when the requests M are on the network.           *)
(***************************************************************************)
SendersIn(M, t, b, v) == {m.idx : m \in {x \in M : x.type = t /\ x.b = b /\ x.view = v}}
SignaturesIn(M, t, b, v) ==
    {sigHex(m) : m \in {x \in M : x.type = t /\ x.b = b /\ x.view = v}}
Quorum(M, t, b, v) == Cardinality(SignaturesIn(M, t, b, v)) >= minValidNodes

\* The tip is the one highest block of the chain, and every block has its commit quorum.
ChainInv(s, M) ==
    /\ s.tip \in s.chain
    /\ \A b \in s.chain : number[b] < number[s.tip] \/ b = s.tip
    /\ \A b \in s.chain \ {Genesis} : \E v \in Nat : Quorum(M, "commit", b, v)

\* A prepare or a lock above the chain can be stored next.
ExtendsInv(s) ==
    /\ s.cache.prep # NoBlock /\ Height(s.cache.prep) > number[s.tip]
            => CanCommitBlock(s, s.cache.prep)
    /\ Height(s.backup) > number[s.tip] => CanCommitBlock(s, s.backup)

\* The prepare of the current height is one of the current view.
PrepInv(s) ==
    s.cache.prep # NoBlock => s.cache.prepView = s.view \/ Height(s.cache.prep) < s.consNum

\* The entries of a cache of votes: on the network, one per block and signature, and
\* those for the prepare are of its view.
VotesInv(s, S, t, M) ==
    /\ \A x \in S : x \in M /\ x.type = t
    /\ \A x, y \in S : x.b = y.b /\ sigHex(x) = sigHex(y) => x = y
    /\ \A x \in S : x.b = s.cache.prep => x.view = s.cache.prepView

\* A prepare that waits was sent by its leader.
FutureInv(s, M) == \A x \in s.cache.future : x \in M /\ x.type = "prepare"

\* View change requests come from peers that are not behind, one per view and sender.
AskedInv(n, s, M) ==
    /\ \A x \in s.cache.vc :
          x \in M /\ x.type = "viewchange" /\ x.idx # n /\ height(x) >= number[s.highest]
    /\ \A x, y \in s.cache.vc : x.view = y.view /\ x.idx = y.idx => x = y

Asking(n, s, M) ==
    {m.idx : m \in {x \in M : /\ x.type = "viewchange" /\ x.idx # n
                              /\ x.view = s.view /\ height(x) >= number[s.highest]}}
ViewInv(n, s, M) == s.view > 0 => Cardinality(Asking(n, s, M)) >= minValidNodes - 1

\* A quorum of signatures is old, or was answered with a commit request.
Answered(s, b) == \E m \in s.sent : m.type = "commit" /\ m.b = b /\ m.view = s.cache.prepView
ActedOn(s, b) ==
    getSigCacheSize(s.cache, b) >= minValidNodes =>
        \/ number[b] < s.consNum /\ s.cache.prep # b
        \/ s.cache.prep = b /\ Answered(s, b)
ActedInv(s) == \A b \in Block : ActedOn(s, b)

\* A signature answers a prepare of the leader, a commit request a quorum of signatures.
SentInv(s, M) ==
    /\ s.sent \subseteq M
    /\ \A m \in s.sent : m.type = "sign" =>
          (m.view + height(m) - 1) % NodeNum \in SendersIn(M, "prepare", m.b, m.view)
    /\ \A m \in s.sent : m.type = "commit" => Quorum(M, "sign", m.b, m.view)

\* All of it but ActedInv, which checkAndCommit restores at the end of a handler.
SteadyInv(n, s, M) ==
    /\ ChainInv(s, M) /\ ExtendsInv(s) /\ PrepInv(s)
    /\ VotesInv(s, s.cache.sign, "sign", M) /\ VotesInv(s, s.cache.commit, "commit", M)
    /\ FutureInv(s, M) /\ AskedInv(n, s, M) /\ ViewInv(n, s, M) /\ SentInv(s, M)

WorkInv(n, s, M) == SteadyInv(n, s, M) /\ ActedInv(s)

\* There are finitely many signatures of a hash.
Hexes == Node \X (0 .. (SigNum - 1))
LEMMA HexesFinite ==
    /\ \A m \in Message : sigHex(m) \in Hexes
    /\ IsFiniteSet(Hexes)
<1>1. \A m \in Message : sigHex(m) \in Hexes
  BY DEF Message, sigHex, Hexes
<1>2. IsFiniteSet(Node)
  BY GroupSize
<1>3. IsFiniteSet(0 .. (SigNum - 1))
  BY SigNumAssumption, FS_Interval
<1> QED
  BY <1>1, <1>2, <1>3, FS_Product DEF Hexes

LEMMA SignaturesFinite ==
    ASSUME NEW M \in SUBSET Message, NEW t, NEW b, NEW v
    PROVE  IsFiniteSet(SignaturesIn(M, t, b, v))
<1>1. SignaturesIn(M, t, b, v) \in SUBSET Hexes
  BY HexesFinite DEF SignaturesIn
<1> QED
  BY <1>1, HexesFinite, FS_Subset

LEMMA QuorumGrows ==
    ASSUME NEW M \in SUBSET Message, NEW W \in SUBSET Message, M \subseteq W,
           NEW t, NEW b, NEW v, Quorum(M, t, b, v)
    PROVE  Quorum(W, t, b, v)
<1>1. SignaturesIn(M, t, b, v) \subseteq SignaturesIn(W, t, b, v)
  BY DEF SignaturesIn
<1>2. IsFiniteSet(SignaturesIn(W, t, b, v)) /\ IsFiniteSet(SignaturesIn(M, t, b, v))
  BY SignaturesFinite
<1>3. Cardinality(SignaturesIn(M, t, b, v)) <= Cardinality(SignaturesIn(W, t, b, v))
  BY <1>1, <1>2, FS_Subset
<1> QED
  BY <1>2, <1>3, GroupSize, FS_CardinalityType DEF Quorum

LEMMA AskingAreNodes ==
    ASSUME NEW M \in SUBSET Message, NEW n, NEW s
    PROVE  Asking(n, s, M) \in SUBSET Node /\ IsFiniteSet(Asking(n, s, M))
<1>1. Asking(n, s, M) \in SUBSET Node
  BY DEF Asking, Message
<1> QED
  BY <1>1, GroupSize, FS_Subset

LEMMA AskingGrows ==
    ASSUME NEW M \in SUBSET Message, NEW W \in SUBSET Message, M \subseteq W,
           NEW n, NEW s, ViewInv(n, s, M)
    PROVE  ViewInv(n, s, W)
<1>1. Asking(n, s, M) \subseteq Asking(n, s, W)
  BY DEF Asking
<1>2. IsFiniteSet(Asking(n, s, W)) /\ IsFiniteSet(Asking(n, s, M))
  BY AskingAreNodes
<1>3. Cardinality(Asking(n, s, M)) <= Cardinality(Asking(n, s, W))
  BY <1>1, <1>2, FS_Subset
<1> QED
  BY <1>2, <1>3, GroupSize, FS_CardinalityType DEF ViewInv

\* What is on the network stays there.
LEMMA WorkInvGrows ==
    ASSUME NEW M \in SUBSET Message, NEW W \in SUBSET Message, M \subseteq W,
           NEW n, NEW s, WorkInv(n, s, M)
    PROVE  WorkInv(n, s, W)
<1> USE DEF WorkInv, SteadyInv
<1>1. ChainInv(s, W)
  BY QuorumGrows DEF ChainInv
<1>2. VotesInv(s, s.cache.sign, "sign", W) /\ VotesInv(s, s.cache.commit, "commit", W)
  BY DEF VotesInv
<1>3. FutureInv(s, W) /\ AskedInv(n, s, W)
  BY DEF FutureInv, AskedInv
<1>4. ViewInv(n, s, W)
  BY AskingGrows
<1>5. SentInv(s, W)
  <2>1. ASSUME NEW m \in s.sent, m.type = "commit"
        PROVE  Quorum(W, "sign", m.b, m.view)
    BY <2>1, QuorumGrows DEF SentInv
  <2>2. \A t, b, v : SendersIn(M, t, b, v) \subseteq SendersIn(W, t, b, v)
    BY DEF SendersIn
  <2> QED
    BY <2>1, <2>2 DEF SentInv
<1> QED
  BY <1>1, <1>2, <1>3, <1>4, <1>5

-----------------------------------------------------------------------------
(* Counting the entries of a cache.                                        *)

\* One entry per signature: as many entries as signatures.
LEMMA CountEntries ==
    ASSUME NEW S \in SUBSET Message, \A x, y \in S : sigHex(x) = sigHex(y) => x = y
    PROVE  /\ IsFiniteSet(S) /\ Cardinality(S) \in Nat
           /\ IsFiniteSet({sigHex(x) : x \in S})
           /\ Cardinality(S) <= Cardinality({sigHex(x) : x \in S})
<1> DEFINE T == {sigHex(x) : x \in S}
           f == [x \in S |-> sigHex(x)]
<1>1. T \in SUBSET Hexes
  BY HexesFinite
<1>2. IsFiniteSet(T)
  BY <1>1, HexesFinite, FS_Subset
<1>3. f \in Injection(S, T)
  <2>1. f \in [S -> T]
    OBVIOUS
  <2>2. \A x, y \in S : f[x] = f[y] => x = y
    OBVIOUS
  <2> QED
    BY <2>1, <2>2 DEF Injection, IsInjective
<1> QED
  BY <1>2, <1>3, FS_Injection, FS_CardinalityType

\* One entry per sender: as many entries as senders.
LEMMA CountSenders ==
    ASSUME NEW S \in SUBSET Message, \A x, y \in S : x.idx = y.idx => x = y
    PROVE  /\ IsFiniteSet(S) /\ Cardinality(S) \in Nat
           /\ IsFiniteSet({x.idx : x \in S}) /\ Cardinality(S) <= Cardinality({x.idx : x \in S})
<1> DEFINE T == {x.idx : x \in S}
           f == [x \in S |-> x.idx]
<1>1. T \in SUBSET Node
  BY DEF Message
<1>2. IsFiniteSet(T)
  BY <1>1, GroupSize, FS_Subset
<1>3. f \in Injection(S, T)
  <2>1. f \in [S -> T]
    OBVIOUS
  <2>2. \A x, y \in S : f[x] = f[y] => x = y
    OBVIOUS
  <2> QED
    BY <2>1, <2>2 DEF Injection, IsInjective
<1> QED
  BY <1>2, <1>3, FS_Injection, FS_CardinalityType

LEMMA VotesFinite ==
    ASSUME NEW s, NEW S \in SUBSET Message, NEW t, NEW M, VotesInv(s, S, t, M), NEW b
    PROVE  IsFiniteSet({x \in S : x.b = b}) /\ Cardinality({x \in S : x.b = b}) \in Nat
<1> DEFINE C == {x \in S : x.b = b}
<1>1. C \in SUBSET Message /\ \A x, y \in C : sigHex(x) = sigHex(y) => x = y
  BY DEF VotesInv
<1> HIDE DEF C
<1>2. IsFiniteSet(C) /\ Cardinality(C) \in Nat
  BY <1>1, CountEntries
<1> QED
  BY <1>2 DEF C

\* Enough entries for the prepare are a quorum of its view.
LEMMA VotesAreQuorum ==
    ASSUME NEW s, NEW S \in SUBSET Message, NEW t, NEW M \in SUBSET Message,
           VotesInv(s, S, t, M),
           Cardinality({x \in S : x.b = s.cache.prep}) >= minValidNodes
    PROVE  Quorum(M, t, s.cache.prep, s.cache.prepView)
<1> DEFINE b == s.cache.prep
           C == {x \in S : x.b = b}
           T == SignaturesIn(M, t, b, s.cache.prepView)
<1>1. C \in SUBSET Message /\ \A x, y \in C : sigHex(x) = sigHex(y) => x = y
  BY DEF VotesInv
<1>2. {sigHex(x) : x \in C} \subseteq T
  BY DEF VotesInv, SignaturesIn
<1>3. IsFiniteSet(T)
  BY SignaturesFinite
<1>4. Cardinality(C) >= minValidNodes
  OBVIOUS
<1>5. T = SignaturesIn(M, t, s.cache.prep, s.cache.prepView)
  OBVIOUS
<1> HIDE DEF C, T
<1>6. /\ Cardinality(C) \in Nat /\ IsFiniteSet({sigHex(x) : x \in C})
      /\ Cardinality(C) <= Cardinality({sigHex(x) : x \in C})
  BY <1>1, CountEntries
<1>7. Cardinality({sigHex(x) : x \in C}) <= Cardinality(T)
  BY <1>2, <1>3, FS_Subset
<1> QED
  BY <1>3, <1>4, <1>5, <1>6, <1>7, GroupSize, FS_CardinalityType DEF Quorum

\* Fewer signatures, fewer of every block.
LEMMA FewerVotes ==
    ASSUME NEW s, NEW S \in SUBSET Message, NEW t, NEW M, VotesInv(s, S, t, M),
           NEW R \in SUBSET S, NEW b
    PROVE  Cardinality({x \in R : x.b = b}) <= Cardinality({x \in S : x.b = b})
<1> DEFINE A == {x \in S : x.b = b}
           B == {x \in R : x.b = b}
<1>1. B \subseteq A /\ IsFiniteSet(A)
  BY VotesFinite
<1> HIDE DEF A, B
<1>2. Cardinality(B) <= Cardinality(A)
  BY <1>1, FS_Subset
<1> QED
  BY <1>2 DEF A, B

\* A request that replaces the one of its signer adds at most one to its block, one
\* exactly if there was none, and nothing to other blocks.
LEMMA OtherVotes ==
    ASSUME NEW S, NEW m, NEW b, b # m.b
    PROVE  Cardinality({y \in {x \in S : x.b # m.b \/ sigHex(x) # sigHex(m)} \cup {m} : y.b = b})
                = Cardinality({x \in S : x.b = b})
<1>1. {y \in {x \in S : x.b # m.b \/ sigHex(x) # sigHex(m)} \cup {m} : y.b = b} = {x \in S : x.b = b}
  OBVIOUS
<1> QED
  BY <1>1

LEMMA OneMoreVote ==
    ASSUME NEW s, NEW S \in SUBSET Message, NEW t, NEW M, VotesInv(s, S, t, M),
           NEW m \in Message
    PROVE  Cardinality({y \in {x \in S : x.b # m.b \/ sigHex(x) # sigHex(m)} \cup {m} : y.b = m.b})
                <= Cardinality({x \in S : x.b = m.b}) + 1
<1> DEFINE A == {x \in S : x.b = m.b}
           B == {y \in {x \in S : x.b # m.b \/ sigHex(x) # sigHex(m)} \cup {m} : y.b = m.b}
           K == {x \in S : x.b = m.b /\ sigHex(x) # sigHex(m)}
<1>1. IsFiniteSet(A) /\ Cardinality(A) \in Nat
  BY VotesFinite
<1>2. B = K \cup {m} /\ m \notin K /\ K \subseteq A
  OBVIOUS
<1> HIDE DEF A, B, K
<1>3. IsFiniteSet(K) /\ Cardinality(K) <= Cardinality(A) /\ Cardinality(K) \in Nat
  BY <1>1, <1>2, FS_Subset, FS_CardinalityType
<1>4. Cardinality(B) = Cardinality(K) + 1
  BY <1>2, <1>3, FS_AddElement
<1>5. Cardinality(B) <= Cardinality(A) + 1
  BY <1>1, <1>3, <1>4
<1> QED
  BY <1>5 DEF A, B

LEMMA OneNewVote ==
    ASSUME NEW s, NEW S \in SUBSET Message, NEW t, NEW M, VotesInv(s, S, t, M),
           NEW m \in Message, ~ \E x \in S : x.b = m.b /\ sigHex(x) = sigHex(m)
    PROVE  Cardinality({y \in {x \in S : x.b # m.b \/ sigHex(x) # sigHex(m)} \cup {m} : y.b = m.b})
                = Cardinality({x \in S : x.b = m.b}) + 1
<1> DEFINE A == {x \in S : x.b = m.b}
           B == {y \in {x \in S : x.b # m.b \/ sigHex(x) # sigHex(m)} \cup {m} : y.b = m.b}
<1>1. IsFiniteSet(A) /\ Cardinality(A) \in Nat
  BY VotesFinite
<1>2. B = A \cup {m} /\ m \notin A
  OBVIOUS
<1> HIDE DEF A, B
<1>3. Cardinality(B) = Cardinality(A) + 1
  BY <1>1, <1>2, FS_AddElement
<1> QED
  BY <1>3 DEF A, B

-----------------------------------------------------------------------------
(***************************************************************************)
(* Most steps of a node only trim its caches, or send what is neither a    *)
(* signature nor a commit request.                                         *)
(***************************************************************************)
Trimmed(c, d) ==
    /\ d.sign \subseteq c.sign /\ d.commit \subseteq c.commit
    /\ d.vc \subseteq c.vc /\ d.future \subseteq c.future
    /\ \/ d.prep = c.prep /\ d.prepView = c.prepView
       \/ d.prep = NoBlock /\ \A x \in d.sign : x.b # c.prep

Trims(n, s, t, M) ==
    /\ t.view = s.view /\ t.consNum = s.consNum /\ t.highest = s.highest
    /\ t.tip = s.tip /\ t.chain = s.chain /\ t.backup = s.backup
    /\ s.sent \subseteq t.sent /\ t.sent \subseteq M
    /\ \A m \in t.sent \ s.sent : m.type \notin {"sign", "commit"}
    /\ t.cache.sign \subseteq s.cache.sign /\ t.cache.commit \subseteq s.cache.commit
    /\ \/ t.cache.prep = s.cache.prep /\ t.cache.prepView = s.cache.prepView
       \/ t.cache.prep = NoBlock /\ \A x \in t.cache.sign : x.b # s.cache.prep
    /\ FutureInv(t, M) /\ AskedInv(n, t, M)

LEMMA SentFields ==
    ASSUME NEW s \in NodeState
    PROVE  s.cache.sign \in SUBSET Message /\ s.cache.commit \in SUBSET Message
BY DEF NodeState, Cache

LEMMA NoVotes ==
    ASSUME NEW S, NEW b, \A x \in S : x.b # b
    PROVE  ~ (Cardinality({x \in S : x.b = b}) >= minValidNodes)
<1> DEFINE C == {x \in S : x.b = b}
<1>1. C = {}
  OBVIOUS
<1>2. Cardinality(C) = 0
  BY <1>1, FS_EmptySet
<1>3. minValidNodes >= 1 /\ minValidNodes \in Nat
  BY GroupSize, NodeNumAssumption
<1> HIDE DEF C
<1>4. ~ (Cardinality(C) >= minValidNodes)
  BY <1>2, <1>3
<1> QED
  BY <1>4 DEF C

LEMMA TrimsKeeps ==
    ASSUME NEW n \in Correct, NEW s \in NodeState, NEW t \in NodeState,
           NEW M \in SUBSET Message, SteadyInv(n, s, M), Trims(n, s, t, M)
    PROVE  /\ SteadyInv(n, t, M)
           /\ \A b \in Block : ActedOn(s, b) => ActedOn(t, b)
<1> USE DEF SteadyInv
<1>1. ChainInv(t, M)
  BY DEF Trims, ChainInv
<1>2. ExtendsInv(t) /\ PrepInv(t)
  BY DEF Trims, ExtendsInv, PrepInv, CanCommitBlock
<1>3. /\ s.cache.sign \in SUBSET Message /\ s.cache.commit \in SUBSET Message
      /\ t.cache.sign \in SUBSET Message /\ t.cache.commit \in SUBSET Message
  BY SentFields
<1>4. \A x \in Message : x.b # NoBlock
  BY NoBlockAssumption DEF Message
<1>5. VotesInv(t, t.cache.sign, "sign", M)
  BY <1>3, <1>4 DEF Trims, VotesInv
<1>6. VotesInv(t, t.cache.commit, "commit", M)
  BY <1>3, <1>4 DEF Trims, VotesInv
<1>7. FutureInv(t, M) /\ AskedInv(n, t, M)
  BY DEF Trims
<1>8. ViewInv(n, t, M)
  BY DEF Trims, ViewInv, Asking
<1>9. SentInv(t, M)
  BY DEF Trims, SentInv
<1>10. ASSUME NEW b \in Block, ActedOn(s, b)
       PROVE  ActedOn(t, b)
  <2> SUFFICES ASSUME getSigCacheSize(t.cache, b) >= minValidNodes
               PROVE  \/ number[b] < t.consNum /\ t.cache.prep # b
                      \/ t.cache.prep = b /\ Answered(t, b)
    BY DEF ActedOn
  <2>1. getSigCacheSize(s.cache, b) >= minValidNodes
    <3>1. getSigCacheSize(t.cache, b) <= getSigCacheSize(s.cache, b)
      <4>1. t.cache.sign \in SUBSET s.cache.sign /\ VotesInv(s, s.cache.sign, "sign", M)
        BY DEF Trims
      <4> QED
        BY <1>3, <4>1, FewerVotes DEF getSigCacheSize
    <3>2. getSigCacheSize(t.cache, b) \in Nat /\ getSigCacheSize(s.cache, b) \in Nat
      BY <1>3, <1>5, VotesFinite DEF getSigCacheSize
    <3> QED
      BY <3>1, <3>2, GroupSize
  <2>2. \/ number[b] < s.consNum /\ s.cache.prep # b
        \/ s.cache.prep = b /\ Answered(s, b)
    BY <1>10, <2>1 DEF ActedOn
  <2>3. CASE t.cache.prep = s.cache.prep /\ t.cache.prepView = s.cache.prepView
    BY <2>2, <2>3 DEF Trims, Answered
  <2>4. CASE t.cache.prep = NoBlock /\ \A x \in t.cache.sign : x.b # s.cache.prep
    <3>1. b # s.cache.prep
      <4> SUFFICES ASSUME b = s.cache.prep
                   PROVE  FALSE
        OBVIOUS
      <4>1. \A x \in t.cache.sign : x.b # b
        BY <2>4
      <4> QED
        BY <4>1, NoVotes DEF getSigCacheSize
    <3> QED
      BY <2>2, <2>4, <3>1, NoBlockAssumption DEF Trims
  <2> QED
    BY <2>3, <2>4 DEF Trims
<1> QED
  BY <1>1, <1>2, <1>5, <1>6, <1>7, <1>8, <1>9, <1>10

LEMMA TrimmedOps ==
    ASSUME NEW c \in Cache, NEW b \in Block, NEW v, NEW h
    PROVE  /\ Trimmed(c, c)
           /\ Trimmed(c, eraseHandledFutureReq(c, h))
           /\ Trimmed(c, removeInvalidFutureCache(c, b))
           /\ Trimmed(c, delCache(c, b))
           /\ Trimmed(c, delInvalidViewChange(c, b))
           /\ Trimmed(c, removeInvalidViewChange(c, v, b))
           /\ Trimmed(c, collectGarbage(c, b))
<1> USE DEF Cache, Trimmed
<1>1. Trimmed(c, eraseHandledFutureReq(c, h))
  BY DEF eraseHandledFutureReq
<1>2. Trimmed(c, removeInvalidFutureCache(c, b))
  BY DEF removeInvalidFutureCache
<1>3. Trimmed(c, delCache(c, b))
  BY DEF delCache
<1>4. Trimmed(c, delInvalidViewChange(c, b))
  BY DEF delInvalidViewChange, removeInvalidEntryFromCache
<1>5. Trimmed(c, removeInvalidViewChange(c, v, b))
  BY DEF removeInvalidViewChange
<1>6. Trimmed(c, collectGarbage(c, b))
  BY DEF collectGarbage, removeInvalidEntryFromCache
<1> QED
  BY <1>1, <1>2, <1>3, <1>4, <1>5, <1>6

\* Caches trimmed, and the fields no part of the invariant reads changed at will.
LEMMA TrimmedKeeps ==
    ASSUME NEW n \in Correct, NEW s \in NodeState, NEW t \in NodeState,
           NEW M \in SUBSET Message, SteadyInv(n, s, M), Trimmed(s.cache, t.cache),
           t.view = s.view, t.consNum = s.consNum, t.highest = s.highest,
           t.tip = s.tip, t.chain = s.chain, t.backup = s.backup, t.sent = s.sent
    PROVE  /\ SteadyInv(n, t, M)
           /\ \A b \in Block : ActedOn(s, b) => ActedOn(t, b)
<1>1. FutureInv(t, M) /\ AskedInv(n, t, M)
  BY DEF SteadyInv, FutureInv, AskedInv, Trimmed
<1>2. Trims(n, s, t, M)
  BY <1>1 DEF Trims, Trimmed, SteadyInv, SentInv
<1> QED
  BY <1>2, TrimsKeeps

LEMMA WorkTrimmed ==
    ASSUME NEW n \in Correct, NEW s \in NodeState, NEW t \in NodeState,
           NEW M \in SUBSET Message, WorkInv(n, s, M), Trimmed(s.cache, t.cache),
           t.view = s.view, t.consNum = s.consNum, t.highest = s.highest,
           t.tip = s.tip, t.chain = s.chain, t.backup = s.backup, t.sent = s.sent
    PROVE  WorkInv(n, t, M)
BY TrimmedKeeps DEF WorkInv, ActedInv

\* A prepare or a view change request is sent.
LEMMA WorkSends ==
    ASSUME NEW n \in Correct, NEW s \in NodeState, NEW M \in SUBSET Message,
           WorkInv(n, s, M), NEW m \in M, m.type \notin {"sign", "commit"}
    PROVE  WorkInv(n, Send(s, m), M)
<1> DEFINE t == Send(s, m)
<1>1. /\ t \in NodeState /\ t.sent = s.sent \cup {m} /\ t.cache = s.cache
      /\ t.view = s.view /\ t.consNum = s.consNum /\ t.highest = s.highest
      /\ t.tip = s.tip /\ t.chain = s.chain /\ t.backup = s.backup
  BY DEF Send, NodeState
<1> HIDE DEF t
<1>2. FutureInv(t, M) /\ AskedInv(n, t, M)
  BY <1>1 DEF WorkInv, SteadyInv, FutureInv, AskedInv
<1>3. Trims(n, s, t, M)
  BY <1>1, <1>2 DEF Trims, WorkInv, SteadyInv, SentInv
<1> QED
  BY <1>1, <1>3, TrimsKeeps DEF WorkInv, ActedInv, t

-----------------------------------------------------------------------------
(* Entering a view, storing a block, voting.                               *)

LEMMA EntersView ==
    ASSUME NEW n \in Correct, NEW s \in NodeState, NEW M \in SUBSET Message, WorkInv(n, s, M)
    PROVE  WorkInv(n, checkAndChangeView(s), M)
<1> DEFINE c == triggerViewChange(s.cache, s.toView)
           t == [s EXCEPT !.view = s.toView, !.leaderFailed = FALSE, !.cache = c]
<1>1. CASE ~ (getViewChangeSize(s.cache, s.toView) >= minValidNodes - 1)
  BY <1>1 DEF checkAndChangeView
<1>2. CASE getViewChangeSize(s.cache, s.toView) >= minValidNodes - 1
  <2>1. checkAndChangeView(s) = t
    BY <1>2 DEF checkAndChangeView
  <2>2. /\ c.sign = {} /\ c.commit = {} /\ c.future = {} /\ c.vc \subseteq s.cache.vc
        /\ c.prep = NoBlock
    BY StateFields DEF triggerViewChange, Cache
  <2>3. /\ t.view = s.toView /\ t.cache = c /\ t.sent = s.sent /\ t.highest = s.highest
        /\ t.tip = s.tip /\ t.chain = s.chain /\ t.backup = s.backup /\ t.consNum = s.consNum
    BY DEF NodeState
  <2> HIDE DEF c, t
  <2>4. ChainInv(t, M) /\ ExtendsInv(t) /\ PrepInv(t) /\ SentInv(t, M)
    BY <2>2, <2>3 DEF WorkInv, SteadyInv, ChainInv, ExtendsInv, PrepInv, SentInv, CanCommitBlock
  <2>5. /\ VotesInv(t, t.cache.sign, "sign", M) /\ VotesInv(t, t.cache.commit, "commit", M)
        /\ FutureInv(t, M) /\ AskedInv(n, t, M)
    BY <2>2, <2>3 DEF WorkInv, SteadyInv, VotesInv, FutureInv, AskedInv
  <2>6. ViewInv(n, t, M)
    <3> DEFINE D == {x \in s.cache.vc : x.view = s.toView}
               I == {x.idx : x \in D}
               A == Asking(n, t, M)
    <3>1. D \in SUBSET Message /\ \A x, y \in D : x.idx = y.idx => x = y
      BY StateFields DEF WorkInv, SteadyInv, AskedInv
    <3>2. I \subseteq A
      BY <2>3 DEF WorkInv, SteadyInv, AskedInv, Asking
    <3>3. IsFiniteSet(A)
      BY AskingAreNodes
    <3>4. Cardinality(D) >= minValidNodes - 1
      BY <1>2 DEF getViewChangeSize
    <3>5. Cardinality(D) \in Nat /\ IsFiniteSet(I) /\ Cardinality(D) <= Cardinality(I)
      <4> HIDE DEF D
      <4> QED
        BY <3>1, CountSenders
    <3> HIDE DEF D, I, A
    <3>6. Cardinality(I) <= Cardinality(A) /\ Cardinality(I) \in Nat /\ Cardinality(A) \in Nat
      BY <3>2, <3>3, <3>5, FS_Subset, FS_CardinalityType
    <3>7. Cardinality(A) >= minValidNodes - 1
      BY <3>4, <3>5, <3>6, GroupSize
    <3> QED
      BY <3>7 DEF ViewInv, A
  <2>7. ActedInv(t)
    <3>1. \A b \in Block : ~ (getSigCacheSize(t.cache, b) >= minValidNodes)
      BY <2>2, <2>3, NoVotes DEF getSigCacheSize
    <3> QED
      BY <3>1 DEF ActedInv, ActedOn
  <2> QED
    BY <2>1, <2>4, <2>5, <2>6, <2>7 DEF WorkInv, SteadyInv
<1> QED
  BY <1>1, <1>2

LEMMA WorkStores ==
    ASSUME NEW n \in Correct, NEW s \in NodeState, NEW M \in SUBSET Message,
           NodeInv(n, s), WorkInv(n, s, M), NEW b \in Block, CanCommitBlock(s, b),
           \E v \in Nat : Quorum(M, "commit", b, v)
    PROVE  WorkInv(n, commitBlock(s, b), M)
<1> USE DEF WorkInv, SteadyInv
<1> DEFINE t == commitBlock(s, b)
<1>1. /\ t.tip = b /\ t.chain = s.chain \cup {b} /\ t.view = s.view
      /\ t.consNum = s.consNum /\ t.highest = s.highest /\ t.cache = s.cache
      /\ t.backup = s.backup /\ t.sent = s.sent
  BY DEF commitBlock, NodeState
<1> HIDE DEF t
<1>2. /\ number[b] \in Nat /\ number[s.tip] \in Nat /\ number[s.highest] \in Nat
      /\ \A k \in s.chain : number[k] \in Nat
      /\ number[b] = number[s.tip] + 1
  BY NumberAssumption, StateFields DEF CanCommitBlock
<1>3. ChainInv(t, M)
  BY <1>1, <1>2 DEF ChainInv
<1>4. ExtendsInv(t)
  <2>1. Height(s.backup) \in Int /\ Height(s.cache.raw) \in Int /\ s.consNum \in Nat
    BY StateFields, HeightType
  <2>2. Height(s.backup) <= s.consNum /\ Height(s.cache.raw) <= s.consNum
    BY DEF NodeInv, LockInv
  <2>3. s.consNum <= number[b]
    BY <1>2, StateFields DEF NodeInv, HeightsInv
  <2>4. ~ (Height(s.backup) > number[b]) /\ ~ (Height(s.cache.raw) > number[b])
    BY <1>2, <2>1, <2>2, <2>3
  <2>5. s.cache.prep # NoBlock => s.cache.prep = s.cache.raw
    BY DEF NodeInv, LockInv
  <2> QED
    BY <1>1, <2>4, <2>5 DEF ExtendsInv
<1>5. PrepInv(t) /\ SentInv(t, M) /\ FutureInv(t, M) /\ AskedInv(n, t, M) /\ ViewInv(n, t, M)
  BY <1>1 DEF PrepInv, SentInv, FutureInv, AskedInv, ViewInv, Asking
<1>6. VotesInv(t, t.cache.sign, "sign", M) /\ VotesInv(t, t.cache.commit, "commit", M)
  BY <1>1 DEF VotesInv
<1>7. ActedInv(t)
  BY <1>1 DEF ActedInv, ActedOn, Answered
<1> QED
  BY <1>3, <1>4, <1>5, <1>6, <1>7 DEF t

LEMMA WorkCheckAndSave ==
    ASSUME NEW n \in Correct, NEW s \in NodeState, NEW M \in SUBSET Message,
           NodeInv(n, s), WorkInv(n, s, M)
    PROVE  WorkInv(n, checkAndSave(s), M)
<1> DEFINE b == s.cache.prep
           t == commitBlock(s, b)
           d == delCache(t.cache, b)
           c == removeInvalidFutureCache(d, s.highest)
           t1 == [t EXCEPT !.cache = d]
           t2 == [t EXCEPT !.cache = c]
<1>1. CASE checkAndSave(s) = s
  BY <1>1
<1>2. CASE checkAndSave(s) # s
  <2>1. /\ b # NoBlock /\ CanCommitBlock(s, b) /\ checkAndSave(s) = t2
        /\ getCommitCacheSize(s.cache, b) >= minValidNodes
    BY <1>2 DEF checkAndSave
  <2>2. b \in Block /\ s.highest \in Block /\ s.cache.prepView \in Nat
    BY <2>1, StateFields
  <2>3. Quorum(M, "commit", b, s.cache.prepView)
    <3>1. s.cache.commit \in SUBSET Message /\ VotesInv(s, s.cache.commit, "commit", M)
      BY SentFields DEF WorkInv, SteadyInv
    <3>2. Cardinality({x \in s.cache.commit : x.b = s.cache.prep}) >= minValidNodes
      BY <2>1 DEF getCommitCacheSize
    <3> QED
      BY <3>1, <3>2, VotesAreQuorum
  <2>4. t \in NodeState
    BY <2>2, StateUpdateTypes
  <2>5. WorkInv(n, t, M)
    BY <2>1, <2>2, <2>3, WorkStores
  <2> HIDE DEF t, b
  <2>6. d \in Cache /\ Trimmed(t.cache, d)
    BY <2>2, <2>4, StateFields, CacheCleanTypes, TrimmedOps
  <2> HIDE DEF d
  <2>7. c \in Cache /\ Trimmed(d, c)
    BY <2>2, <2>6, CacheCleanTypes, TrimmedOps
  <2> HIDE DEF c
  <2>8. /\ t1 \in NodeState /\ t1.cache = d
        /\ t1.view = t.view /\ t1.consNum = t.consNum /\ t1.highest = t.highest
        /\ t1.tip = t.tip /\ t1.chain = t.chain /\ t1.backup = t.backup /\ t1.sent = t.sent
    BY <2>4, <2>6, StateUpdateTypes DEF NodeState
  <2>9. /\ t2 \in NodeState /\ t2.cache = c
        /\ t2.view = t.view /\ t2.consNum = t.consNum /\ t2.highest = t.highest
        /\ t2.tip = t.tip /\ t2.chain = t.chain /\ t2.backup = t.backup /\ t2.sent = t.sent
    BY <2>4, <2>7, StateUpdateTypes DEF NodeState
  <2> HIDE DEF t1, t2
  <2>10. WorkInv(n, t1, M)
    BY <2>4, <2>5, <2>6, <2>8, WorkTrimmed
  <2>11. WorkInv(n, t2, M)
    BY <2>7, <2>8, <2>9, <2>10, WorkTrimmed
  <2> QED
    BY <2>1, <2>11
<1> QED
  BY <1>1, <1>2

\* checkAndCommit settles the one quorum of signatures that may be unanswered.
LEMMA WorkCheckAndCommit ==
    ASSUME NEW n \in Correct, NEW s \in NodeState, NEW M \in SUBSET Message,
           NodeInv(n, s), SteadyInv(n, s, M),
           s.cache.prep # NoBlock =>
                Height(s.cache.prep) = s.consNum /\ s.cache.prepView = s.view,
           \A b \in Block : b # s.cache.prep => ActedOn(s, b),
           s.cache.prep # NoBlock /\ getSigCacheSize(s.cache, s.cache.prep) > minValidNodes
                => Answered(s, s.cache.prep),
           checkAndCommit(n, s).sent \subseteq M
    PROVE  WorkInv(n, checkAndCommit(n, s), M)
<1> USE DEF WorkInv, SteadyInv
<1>0. s.cache.sign \in SUBSET Message /\ getSigCacheSize(s.cache, s.cache.prep) \in Nat
  BY SentFields, VotesFinite DEF getSigCacheSize
<1>1. CASE ~ SignQuorumReached(s)
  <2>1. checkAndCommit(n, s) = s
    BY <1>1 DEF checkAndCommit
  <2>2. ASSUME s.cache.prep \in Block
        PROVE  ActedOn(s, s.cache.prep)
    <3>1. s.cache.prep # NoBlock /\ getSigCacheSize(s.cache, s.cache.prep) # minValidNodes
      BY <1>1, <2>2, NoBlockAssumption DEF SignQuorumReached
    <3> QED
      BY <1>0, <3>1, GroupSize DEF ActedOn
  <2> QED
    BY <2>1, <2>2 DEF ActedInv
<1>2. CASE SignQuorumReached(s)
  <2> DEFINE s1 == backupCommitted(s)
             s2 == broadcastCommitReq(n, s1)
             s3 == checkAndSave(s2)
             m == Msg("commit", s.cache.prep, s.cache.prepView, n)
  <2>1. /\ s.cache.prep # NoBlock /\ s.cache.prep \in Block
        /\ Height(s.cache.prep) = s.consNum /\ s.cache.prepView = s.view
        /\ getSigCacheSize(s.cache, s.cache.prep) = minValidNodes
    BY <1>2, StateFields DEF SignQuorumReached
  <2>2. s1 \in NodeState /\ s.cache \in Cache
    BY StateUpdateTypes, StateFields
  <2>3. NodeInv(n, s1) /\ s1.backup = s.cache.prep
    BY <2>1, BackupCommittedInv
  <2>4. /\ s1.view = s.view /\ s1.consNum = s.consNum /\ s1.highest = s.highest
        /\ s1.tip = s.tip /\ s1.chain = s.chain /\ s1.sent = s.sent
        /\ s1.cache = updateCommittedPrepare(s.cache)
    BY DEF backupCommitted, NodeState
  <2>5. /\ s1.cache.prep = s.cache.prep /\ s1.cache.prepView = s.cache.prepView
        /\ s1.cache.sign = s.cache.sign /\ s1.cache.commit = s.cache.commit
        /\ s1.cache.vc = s.cache.vc /\ s1.cache.future = s.cache.future
    BY <2>2, <2>4 DEF updateCommittedPrepare, Cache
  <2> HIDE DEF s1
  <2>6. Known(s1, M)
    BY <2>5 DEF VotesInv, Known
  <2>7. s2 \in NodeState /\ NodeInv(n, s2) /\ Known(s2, M)
    BY <2>1, <2>2, <2>3, <2>4, <2>5, <2>6, BroadcastCommitReqInv
  <2>8. /\ s2.view = s.view /\ s2.consNum = s.consNum /\ s2.highest = s.highest
        /\ s2.tip = s.tip /\ s2.chain = s.chain /\ s2.sent = s.sent \cup {m}
        /\ s2.backup = s.cache.prep /\ s2.cache = addCommitReq(s1.cache, m)
    BY <2>2, <2>3, <2>4, <2>5 DEF broadcastCommitReq, Send, NodeState
  <2>9. m.type = "commit" /\ m.b = s.cache.prep /\ m.view = s.cache.prepView /\ m.idx = n
    BY MsgFields
  <2> HIDE DEF m
  <2>10. /\ s2.cache.prep = s.cache.prep /\ s2.cache.prepView = s.cache.prepView
         /\ s2.cache.sign = s.cache.sign /\ s2.cache.vc = s.cache.vc
         /\ s2.cache.future = s.cache.future
         /\ s2.cache.commit = {x \in s.cache.commit : x.b # m.b \/ sigHex(x) # sigHex(m)} \cup {m}
    <3>1. s1.cache \in Cache
      BY <2>2, StateFields
    <3> QED
      BY <2>5, <2>8, <3>1 DEF addCommitReq, Cache
  <2>11. checkAndCommit(n, s) = s3
    BY <1>2 DEF checkAndCommit, s1
  <2> HIDE DEF s2
  <2>12. s3.sent = s2.sent
    BY <2>7, CheckAndSaveStep
  <2>13. m \in M /\ s2.sent \subseteq M
    BY <2>8, <2>11, <2>12
  <2>14. Quorum(M, "sign", s.cache.prep, s.cache.prepView)
    <3>1. Cardinality({x \in s.cache.sign : x.b = s.cache.prep}) >= minValidNodes
      BY <1>0, <2>1, GroupSize DEF getSigCacheSize
    <3> QED
      BY <1>0, <3>1, VotesAreQuorum
  <2>15. ChainInv(s2, M) /\ PrepInv(s2)
    BY <2>8, <2>10 DEF ChainInv, PrepInv
  <2>16. ExtendsInv(s2)
    BY <2>1, <2>8, <2>10 DEF ExtendsInv, CanCommitBlock
  <2>17. VotesInv(s2, s2.cache.sign, "sign", M) /\ VotesInv(s2, s2.cache.commit, "commit", M)
    BY <2>9, <2>10, <2>13 DEF VotesInv
  <2>18. FutureInv(s2, M) /\ AskedInv(n, s2, M) /\ ViewInv(n, s2, M)
    BY <2>8, <2>10 DEF FutureInv, AskedInv, ViewInv, Asking
  <2>19. SentInv(s2, M)
    BY <2>8, <2>9, <2>13, <2>14 DEF SentInv
  <2>20. ActedInv(s2)
    <3> SUFFICES ASSUME NEW b \in Block
                 PROVE  ActedOn(s2, b)
      BY DEF ActedInv
    <3>1. CASE b = s.cache.prep
      BY <2>8, <2>9, <2>10, <3>1 DEF ActedOn, Answered
    <3>2. CASE b # s.cache.prep
      <4>1. ActedOn(s, b)
        BY <3>2
      <4> QED
        BY <2>8, <2>10, <3>2, <4>1 DEF ActedOn, getSigCacheSize
    <3> QED
      BY <3>1, <3>2
  <2>21. WorkInv(n, s2, M)
    BY <2>15, <2>16, <2>17, <2>18, <2>19, <2>20
  <2>22. WorkInv(n, s3, M)
    BY <2>7, <2>21, WorkCheckAndSave
  <2> QED
    BY <2>11, <2>22
<1> QED
  BY <1>1, <1>2

-----------------------------------------------------------------------------
(* The message handlers.                                                   *)

LEMMA WorkHandleSign ==
    ASSUME NEW n \in Correct, NEW s \in NodeState, NEW M \in SUBSET Message,
           NodeInv(n, s), WorkInv(n, s, M), NEW m \in M, m.type = "sign",
           handleSignMsg(n, s, m).sent \subseteq M
    PROVE  WorkInv(n, handleSignMsg(n, s, m), M)
<1> USE DEF WorkInv, SteadyInv
<1> DEFINE c == addSignReq(s.cache, m)
           t == [s EXCEPT !.cache = c]
<1>1. /\ t \in NodeState /\ Quiet(n, s, t)
      /\ isValidSignReq(s, n, m) = "VALID"
            => t.cache.prep \in Block /\ Height(t.cache.prep) = t.consNum
  BY SignAccepted
<1>2. NodeInv(n, t)
  BY <1>1, QuietKeepsInv
<1>3. /\ c.prep = s.cache.prep /\ c.prepView = s.cache.prepView /\ c.commit = s.cache.commit
      /\ c.vc = s.cache.vc /\ c.future = s.cache.future
      /\ c.sign = {x \in s.cache.sign : x.b # m.b \/ sigHex(x) # sigHex(m)} \cup {m}
  BY StateFields DEF addSignReq, Cache
<1>4. /\ t.cache = c /\ t.view = s.view /\ t.consNum = s.consNum /\ t.highest = s.highest
      /\ t.tip = s.tip /\ t.chain = s.chain /\ t.backup = s.backup /\ t.sent = s.sent
  BY DEF NodeState
<1>5. /\ isValidSignReq(s, n, m) = "VALID" => handleSignMsg(n, s, m) = checkAndCommit(n, t)
      /\ isValidSignReq(s, n, m) = "FUTURE" => handleSignMsg(n, s, m) = addFutureSign(s, m)
      /\ isValidSignReq(s, n, m) \notin {"VALID", "FUTURE"} => handleSignMsg(n, s, m) = s
      /\ addFutureSign(s, m) =
            IF getSigCacheSize(s.cache, m.b) < minValidNodes - 1 THEN t ELSE s
  BY DEF handleSignMsg, addFutureSign
<1> HIDE DEF c, t
<1>6. s.cache.sign \in SUBSET Message /\ m \in Message /\ m.b \in Block /\ m.view \in Nat
  BY SentFields DEF Message
\* What holds once the signature is in the cache.
<1>7. ASSUME m.b = s.cache.prep => m.view = s.cache.prepView
      PROVE  /\ SteadyInv(n, t, M)
             /\ \A b \in Block : b # m.b => ActedOn(t, b)
             /\ ~ isExistSign(s.cache, m) =>
                    getSigCacheSize(t.cache, m.b) = getSigCacheSize(s.cache, m.b) + 1
             /\ getSigCacheSize(s.cache, m.b) \in Nat
  <2>1. ChainInv(t, M) /\ ExtendsInv(t) /\ PrepInv(t) /\ SentInv(t, M)
    BY <1>3, <1>4 DEF ChainInv, ExtendsInv, PrepInv, SentInv, CanCommitBlock
  <2>2. VotesInv(t, t.cache.sign, "sign", M)
    BY <1>3, <1>4, <1>7 DEF VotesInv
  <2>3. /\ VotesInv(t, t.cache.commit, "commit", M)
        /\ FutureInv(t, M) /\ AskedInv(n, t, M) /\ ViewInv(n, t, M)
    BY <1>3, <1>4 DEF VotesInv, FutureInv, AskedInv, ViewInv, Asking
  <2>4. ASSUME NEW b \in Block, b # m.b
        PROVE  ActedOn(t, b)
    <3>1. getSigCacheSize(t.cache, b) = getSigCacheSize(s.cache, b)
      BY <1>3, <1>4, <2>4, OtherVotes DEF getSigCacheSize
    <3> QED
      BY <1>3, <1>4, <3>1 DEF ActedInv, ActedOn, Answered
  <2>5. ~ isExistSign(s.cache, m) =>
            getSigCacheSize(t.cache, m.b) = getSigCacheSize(s.cache, m.b) + 1
    <3> SUFFICES ASSUME ~ isExistSign(s.cache, m)
                 PROVE  getSigCacheSize(t.cache, m.b) = getSigCacheSize(s.cache, m.b) + 1
      OBVIOUS
    <3>1. ~ \E x \in s.cache.sign : x.b = m.b /\ sigHex(x) = sigHex(m)
      BY DEF isExistSign
    <3>2. VotesInv(s, s.cache.sign, "sign", M)
      OBVIOUS
    <3> QED
      BY <1>3, <1>4, <1>6, <3>1, <3>2, OneNewVote DEF getSigCacheSize
  <2>6. getSigCacheSize(s.cache, m.b) \in Nat
    BY <1>6, VotesFinite DEF getSigCacheSize
  <2> QED
    BY <2>1, <2>2, <2>3, <2>4, <2>5, <2>6
<1>8. CASE isValidSignReq(s, n, m) = "VALID"
  <2>1. /\ ~ isExistSign(s.cache, m) /\ ~ hasConsensused(s, m)
        /\ m.b = s.cache.prep /\ m.view = s.cache.prepView
    BY <1>8 DEF isValidSignReq, checkReq
  <2>2. t.cache.prep = m.b /\ t.cache.prepView = m.view /\ t.cache.prep \in Block
    BY <1>3, <1>4, <1>6, <2>1
  <2>3. Height(t.cache.prep) = t.consNum /\ t.cache.prepView = t.view
    <3>1. Height(s.cache.prep) = s.consNum /\ height(m) = s.consNum
      BY <1>1, <1>3, <1>4, <1>6, <1>8, <2>1, HeightType DEF height
    <3>2. s.cache.prepView = s.view
      BY <1>6, <2>1, <3>1, StateFields, NoBlockAssumption DEF PrepInv
    <3> QED
      BY <1>3, <1>4, <3>1, <3>2
  <2>4. /\ SteadyInv(n, t, M)
        /\ \A b \in Block : b # m.b => ActedOn(t, b)
        /\ getSigCacheSize(t.cache, m.b) = getSigCacheSize(s.cache, m.b) + 1
        /\ getSigCacheSize(s.cache, m.b) \in Nat
    BY <1>7, <2>1
  <2>5. ASSUME getSigCacheSize(t.cache, m.b) > minValidNodes
        PROVE  Answered(t, m.b)
    <3>1. getSigCacheSize(s.cache, m.b) >= minValidNodes
      BY <2>4, <2>5, GroupSize
    <3>2. Answered(s, m.b)
      BY <1>6, <2>1, <3>1 DEF ActedInv, ActedOn
    <3> QED
      BY <1>3, <1>4, <3>2 DEF Answered
  <2>6. handleSignMsg(n, s, m) = checkAndCommit(n, t)
    BY <1>5, <1>8
  <2> QED
    BY <1>1, <1>2, <2>2, <2>3, <2>4, <2>5, <2>6, WorkCheckAndCommit
<1>9. CASE isValidSignReq(s, n, m) = "FUTURE"
  <2>1. ~ isExistSign(s.cache, m) /\ m.b # s.cache.prep
    BY <1>9 DEF isValidSignReq, checkReq
  <2>2. CASE getSigCacheSize(s.cache, m.b) < minValidNodes - 1
    <3>1. /\ SteadyInv(n, t, M)
          /\ \A b \in Block : b # m.b => ActedOn(t, b)
          /\ getSigCacheSize(t.cache, m.b) = getSigCacheSize(s.cache, m.b) + 1
          /\ getSigCacheSize(s.cache, m.b) \in Nat
      BY <1>7, <2>1
    <3>2. ActedOn(t, m.b)
      BY <2>2, <3>1, GroupSize DEF ActedOn
    <3> QED
      BY <1>5, <1>9, <2>2, <3>1, <3>2 DEF ActedInv
  <2>3. CASE ~ (getSigCacheSize(s.cache, m.b) < minValidNodes - 1)
    BY <1>5, <1>9, <2>3
  <2> QED
    BY <2>2, <2>3
<1>10. CASE isValidSignReq(s, n, m) \notin {"VALID", "FUTURE"}
  BY <1>5, <1>10
<1> QED
  BY <1>8, <1>9, <1>10

\* Before a prepare is valid, no block of its height has a quorum of signatures: an
\* answered one would be locked, and a valid prepare agrees with the lock.
LEMMA NoQuorumYet ==
    ASSUME NEW n \in Correct, NEW s \in NodeState, NEW M \in SUBSET Message,
           NodeInv(n, s), WorkInv(n, s, M), NEW m \in Message,
           isValidPrepare(s, m) = "VALID", NEW b \in Block,
           getSigCacheSize(s.cache, b) >= minValidNodes
    PROVE  number[b] < s.consNum
<1> SUFFICES ASSUME ~ (number[b] < s.consNum)
             PROVE  FALSE
  OBVIOUS
<1>1. s.cache.prep = b /\ Answered(s, b)
  BY DEF WorkInv, ActedInv, ActedOn
<1>2. PICK x \in s.sent : x.type = "commit" /\ x.b = b
  BY <1>1 DEF Answered
<1>3. s.backup = b
  BY <1>2 DEF NodeInv, VoteInv, height
<1>4. /\ number[b] \in Nat /\ s.consNum \in Nat /\ Height(b) = number[b]
      /\ Height(s.backup) <= s.consNum
  BY NumberAssumption, StateFields, HeightType DEF NodeInv, LockInv
<1>5. Height(s.backup) = s.consNum
  BY <1>3, <1>4
<1>6. PICK t, u \in NodeState : PrepareStates(n, s, m, t, u)
  BY ValidPrepareStates
<1>7. m.b = b /\ m.b # s.cache.raw
  BY <1>3, <1>5, <1>6, ValidPrepareInv
<1> QED
  BY <1>1, <1>7, NoBlockAssumption DEF NodeInv, LockInv

LEMMA WorkValidPrepare ==
    ASSUME NEW n \in Correct, NEW s \in NodeState, NEW M \in SUBSET Message,
           NodeInv(n, s), WorkInv(n, s, M), NEW m \in M, m.type = "prepare",
           isValidPrepare(s, m) = "VALID", handleValidPrepare(n, s, m).sent \subseteq M
    PROVE  WorkInv(n, handleValidPrepare(n, s, m), M)
<1> USE DEF WorkInv, SteadyInv
<1>1. PICK t, u \in NodeState : PrepareStates(n, s, m, t, u)
  BY ValidPrepareStates
<1> DEFINE k == Msg("sign", m.b, m.view, n)
           S == {x \in s.cache.sign : x.b = m.b => x.view = m.view}
<1>2. /\ NodeInv(n, t) /\ NodeInv(n, u)
      /\ m.b \in Block /\ Height(m.b) = number[m.b] /\ number[m.b] = s.consNum
      /\ m.view = s.view /\ m.idx = getLeader(s)
  BY <1>1, ValidPrepareInv
<1>3. \A b \in Block : getSigCacheSize(s.cache, b) >= minValidNodes => number[b] < s.consNum
  BY NoQuorumYet
<1>4. CASE m.b \in EmptyBlock \/ ~ checkBlockValid(s, m.b)
  <2>1. handleValidPrepare(n, s, m) = t
    BY <1>1, <1>4 DEF PrepareStates
  <2>2. ChainInv(t, M) /\ ExtendsInv(t) /\ PrepInv(t) /\ SentInv(t, M)
    BY <1>1 DEF PrepareStates, ChainInv, ExtendsInv, PrepInv, SentInv, CanCommitBlock
  <2>3. \A x \in s.cache.sign \cup s.cache.commit : x.b # NoBlock
    BY SentFields, NoBlockAssumption DEF Message
  <2>4. VotesInv(t, t.cache.sign, "sign", M) /\ VotesInv(t, t.cache.commit, "commit", M)
    BY <1>1, <2>3 DEF PrepareStates, VotesInv
  <2>5. FutureInv(t, M) /\ AskedInv(n, t, M) /\ ViewInv(n, t, M)
    BY <1>1 DEF PrepareStates, FutureInv, AskedInv, ViewInv, Asking
  <2>6. ActedInv(t)
    BY <1>1, <1>3, NoBlockAssumption DEF PrepareStates, ActedInv, ActedOn, getSigCacheSize
  <2> QED
    BY <2>1, <2>2, <2>4, <2>5, <2>6
<1>5. CASE ~ (m.b \in EmptyBlock \/ ~ checkBlockValid(s, m.b))
  <2>1. handleValidPrepare(n, s, m) = checkAndCommit(n, u)
    BY <1>1, <1>5 DEF PrepareStates
  <2>2. /\ u.view = s.view /\ u.consNum = s.consNum /\ u.highest = s.highest
        /\ u.tip = s.tip /\ u.chain = s.chain /\ u.backup = s.backup
        /\ u.sent = s.sent \cup {k}
        /\ u.cache.prep = m.b /\ u.cache.prepView = m.view
        /\ u.cache.vc = s.cache.vc /\ u.cache.future = s.cache.future
        /\ u.cache.sign = {x \in S : x.b # k.b \/ sigHex(x) # sigHex(k)} \cup {k}
        /\ u.cache.commit = {x \in s.cache.commit : x.b = m.b => x.view = m.view}
    BY <1>1 DEF PrepareStates
  <2>3. /\ k.type = "sign" /\ k.b = m.b /\ k.view = m.view /\ k.idx = n
        /\ k \in Message
    BY <1>2, StateFields, MsgFields, MsgType1 DEF MsgType, Correct
  <2>4. S \in SUBSET s.cache.sign /\ s.cache.sign \in SUBSET Message
        /\ \A x \in S : x.b = m.b => x.view = m.view
    BY SentFields
  <2> HIDE DEF k, S
  <2>5. k \in M /\ u.sent \subseteq M
    <3>1. Known(u, M)
      BY <2>2 DEF VotesInv, Known
    <3>2. Advances(n, u, checkAndCommit(n, u), M)
      BY <1>1, <1>2, <2>2, <3>1, CheckAndCommitAdvances
    <3> QED
      BY <2>1, <2>2, <3>2 DEF Advances
  <2>6. CanCommitBlock(s, m.b)
    <3>1. /\ number[m.b] > number[s.tip] /\ parent[m.b] \in s.chain
          /\ number[m.b] > 1 => number[parent[m.b]] = number[m.b] - 1
      BY <1>5 DEF checkBlockValid
    <3>2. /\ number[m.b] \in Nat /\ number[s.tip] \in Nat /\ number[s.highest] \in Nat
          /\ number[parent[m.b]] \in Nat
      BY <1>2, <3>1, NumberAssumption, StateFields
    <3>3. number[m.b] = number[s.tip] + 1
      BY <1>2, <3>1, <3>2 DEF NodeInv, HeightsInv
    <3>4. number[parent[m.b]] < number[s.tip] \/ parent[m.b] = s.tip
      BY <3>1 DEF ChainInv
    <3> QED
      BY <3>1, <3>2, <3>3, <3>4 DEF CanCommitBlock
  <2>7. ChainInv(u, M) /\ ExtendsInv(u) /\ PrepInv(u)
    BY <1>2, <2>2, <2>6 DEF ChainInv, ExtendsInv, PrepInv, CanCommitBlock
  <2>8. VotesInv(u, u.cache.sign, "sign", M)
    BY <2>2, <2>3, <2>4, <2>5 DEF VotesInv
  <2>9. VotesInv(u, u.cache.commit, "commit", M)
    BY <2>2 DEF VotesInv
  <2>10. FutureInv(u, M) /\ AskedInv(n, u, M) /\ ViewInv(n, u, M)
    BY <2>2 DEF FutureInv, AskedInv, ViewInv, Asking
  <2>11. SentInv(u, M)
    <3>1. (k.view + height(k) - 1) % NodeNum \in SendersIn(M, "prepare", k.b, k.view)
      <4>1. height(k) - 1 = number[s.highest] /\ number[s.highest] \in Nat /\ m.view \in Nat
        BY <1>2, <2>3, NumberAssumption, StateFields DEF height, NodeInv, HeightsInv
      <4>2. k.view + height(k) - 1 = s.view + number[s.highest]
        BY <1>2, <2>3, <4>1, NumberAssumption DEF height
      <4>3. m.idx = (k.view + height(k) - 1) % NodeNum
        BY <1>2, <4>2 DEF getLeader
      <4>4. m.idx \in SendersIn(M, "prepare", m.b, m.view)
        BY DEF SendersIn
      <4> QED
        BY <2>3, <4>3, <4>4
    <3> QED
      BY <2>2, <2>3, <2>5, <3>1 DEF SentInv
  <2>12. VotesInv(s, S, "sign", M) /\ S \in SUBSET Message
    BY <2>4 DEF VotesInv
  <2>13. ASSUME NEW b \in Block, b # m.b
         PROVE  ActedOn(u, b)
    <3>1. getSigCacheSize(u.cache, b) <= getSigCacheSize(s.cache, b)
      <4>1. Cardinality({x \in u.cache.sign : x.b = b}) = Cardinality({x \in S : x.b = b})
        BY <2>2, <2>3, <2>13, OtherVotes
      <4> QED
        BY <2>4, <4>1, FewerVotes DEF getSigCacheSize
    <3>2. getSigCacheSize(u.cache, b) \in Nat /\ getSigCacheSize(s.cache, b) \in Nat
      BY <1>1, <2>4, <2>8, SentFields, VotesFinite DEF getSigCacheSize
    <3>3. getSigCacheSize(u.cache, b) >= minValidNodes => number[b] < s.consNum
      BY <1>3, <3>1, <3>2, GroupSize
    <3> QED
      BY <2>2, <2>13, <3>3 DEF ActedOn
  <2>14. ~ (getSigCacheSize(u.cache, m.b) > minValidNodes)
    <3>1. getSigCacheSize(u.cache, m.b) <= Cardinality({x \in S : x.b = m.b}) + 1
      <4>1. Cardinality({x \in u.cache.sign : x.b = k.b}) <= Cardinality({x \in S : x.b = k.b}) + 1
        BY <2>2, <2>3, <2>12, OneMoreVote
      <4> QED
        BY <2>3, <4>1 DEF getSigCacheSize
    <3>2. Cardinality({x \in S : x.b = m.b}) <= getSigCacheSize(s.cache, m.b)
      BY <2>4, FewerVotes DEF getSigCacheSize
    <3>3. /\ getSigCacheSize(u.cache, m.b) \in Nat /\ getSigCacheSize(s.cache, m.b) \in Nat
          /\ Cardinality({x \in S : x.b = m.b}) \in Nat
      BY <1>1, <2>4, <2>8, <2>12, SentFields, VotesFinite DEF getSigCacheSize
    <3>4. ~ (getSigCacheSize(s.cache, m.b) >= minValidNodes)
      BY <1>2, <1>3, StateFields
    <3> QED
      BY <3>1, <3>2, <3>3, <3>4, GroupSize
  <2>15. SteadyInv(n, u, M)
    BY <2>7, <2>8, <2>9, <2>10, <2>11
  <2> QED
    BY <1>1, <1>2, <2>1, <2>2, <2>13, <2>14, <2>15, WorkCheckAndCommit
<1> QED
  BY <1>4, <1>5

LEMMA WorkHandlePrepare ==
    ASSUME NEW n \in Correct, NEW s \in NodeState, NEW M \in SUBSET Message,
           NodeInv(n, s), WorkInv(n, s, M), NEW m \in M, m.type = "prepare",
           handlePrepareMsg(n, s, m).sent \subseteq M
    PROVE  WorkInv(n, handlePrepareMsg(n, s, m), M)
<1> DEFINE c == addFuturePrepareCache(s.cache, m)
           t == [s EXCEPT !.cache = c]
<1>1. CASE isValidPrepare(s, m) = "VALID"
  BY <1>1, WorkValidPrepare DEF handlePrepareMsg
<1>2. CASE isValidPrepare(s, m) # "VALID"
  <2>1. handlePrepareMsg(n, s, m) \in {s, t}
    BY <1>2 DEF handlePrepareMsg
  <2>2. /\ c \in Cache /\ c.prep = s.cache.prep /\ c.prepView = s.cache.prepView
        /\ c.sign = s.cache.sign /\ c.commit = s.cache.commit /\ c.vc = s.cache.vc
        /\ c.future \subseteq s.cache.future \cup {m}
    <3>1. c \in Cache /\ s.cache \in Cache
      BY StateFields, CacheUpdateTypes
    <3> QED
      BY <3>1 DEF addFuturePrepareCache, Cache
  <2> HIDE DEF c
  <2>3. /\ t \in NodeState /\ t.cache = c
        /\ t.view = s.view /\ t.consNum = s.consNum /\ t.highest = s.highest
        /\ t.tip = s.tip /\ t.chain = s.chain /\ t.backup = s.backup /\ t.sent = s.sent
    BY <2>2, StateUpdateTypes DEF NodeState
  <2> HIDE DEF t
  <2>4. FutureInv(t, M) /\ AskedInv(n, t, M)
    BY <2>2, <2>3 DEF WorkInv, SteadyInv, FutureInv, AskedInv
  <2>5. Trims(n, s, t, M)
    BY <2>2, <2>3, <2>4 DEF Trims, WorkInv, SteadyInv, SentInv
  <2> QED
    BY <2>1, <2>3, <2>5, TrimsKeeps DEF WorkInv, ActedInv
<1> QED
  BY <1>1, <1>2

LEMMA WorkHandleCommit ==
    ASSUME NEW n \in Correct, NEW s \in NodeState, NEW M \in SUBSET Message,
           NodeInv(n, s), WorkInv(n, s, M), NEW m \in M, m.type = "commit"
    PROVE  WorkInv(n, handleCommitMsg(n, s, m), M)
<1> USE DEF WorkInv, SteadyInv
<1> DEFINE c == addCommitReq(s.cache, m)
           t == [s EXCEPT !.cache = c]
<1>1. handleCommitMsg(n, s, m) \in {s, t, checkAndSave(t)}
  BY DEF handleCommitMsg
<1>2. CASE isValidCommitReq(s, n, m) \notin {"VALID", "FUTURE"}
  BY <1>2 DEF handleCommitMsg
<1>3. CASE isValidCommitReq(s, n, m) \in {"VALID", "FUTURE"}
  <2>1. m.b = s.cache.prep => m.view = s.cache.prepView
    BY <1>3 DEF isValidCommitReq, checkReq
  <2>2. /\ c \in Cache /\ c.raw = s.cache.raw /\ c.committed = s.cache.committed
        /\ c.prep = s.cache.prep /\ c.prepView = s.cache.prepView
        /\ c.sign = s.cache.sign /\ c.vc = s.cache.vc /\ c.future = s.cache.future
        /\ c.commit = {x \in s.cache.commit : x.b # m.b \/ sigHex(x) # sigHex(m)} \cup {m}
    <3>1. c \in Cache /\ s.cache \in Cache
      BY StateFields, CacheUpdateTypes
    <3> QED
      BY <3>1 DEF addCommitReq, Cache
  <2> HIDE DEF c
  <2>3. /\ t \in NodeState /\ t.cache = c
        /\ t.view = s.view /\ t.consNum = s.consNum /\ t.highest = s.highest
        /\ t.tip = s.tip /\ t.chain = s.chain /\ t.backup = s.backup /\ t.sent = s.sent
    BY <2>2, StateUpdateTypes DEF NodeState
  <2> HIDE DEF t
  <2>4. NodeInv(n, t)
    <3>1. HeightsInv(t) /\ LockInv(t) /\ VoteInv(n, t)
      BY <2>2, <2>3 DEF NodeInv, HeightsInv, LockInv, VoteInv
    <3>2. CommitCacheInv(t)
      BY <2>2, <2>3 DEF NodeInv, CommitCacheInv
    <3> QED
      BY <3>1, <3>2 DEF NodeInv
  <2>5. ChainInv(t, M) /\ ExtendsInv(t) /\ PrepInv(t) /\ SentInv(t, M)
    BY <2>2, <2>3 DEF ChainInv, ExtendsInv, PrepInv, SentInv, CanCommitBlock
  <2>6. VotesInv(t, t.cache.sign, "sign", M) /\ VotesInv(t, t.cache.commit, "commit", M)
    BY <2>1, <2>2, <2>3 DEF VotesInv
  <2>7. FutureInv(t, M) /\ AskedInv(n, t, M) /\ ViewInv(n, t, M)
    BY <2>2, <2>3 DEF FutureInv, AskedInv, ViewInv, Asking
  <2>8. ActedInv(t)
    BY <2>2, <2>3 DEF ActedInv, ActedOn, Answered, getSigCacheSize
  <2>9. WorkInv(n, t, M)
    BY <2>5, <2>6, <2>7, <2>8
  <2>10. WorkInv(n, checkAndSave(t), M)
    BY <2>3, <2>4, <2>9, WorkCheckAndSave
  <2> QED
    BY <1>1, <2>9, <2>10
<1> QED
  BY <1>2, <1>3

LEMMA WorkHandleViewChange ==
    ASSUME NEW n \in Correct, NEW s \in NodeState, NEW M \in SUBSET Message,
           WorkInv(n, s, M), NEW m \in M, m.type = "viewchange", m.idx # n, NEW direct,
           NEW t \in handleViewChangeMsg(n, s, m, direct), t.sent \subseteq M
    PROVE  WorkInv(n, t, M)
<1> DEFINE k == Msg("viewchange", s.highest, s.toView, n)
           s0 == catchupView(n, s, m, direct)
           c == addViewChangeReq(s0.cache, m)
           s1 == [s0 EXCEPT !.cache = c]
<1>1. s0 \in {s, Send(s, k)} /\ s0 \in NodeState
  BY BroadcastViewChangeReqType DEF catchupView, broadcastViewChangeReq
<1>2. \/ t \in {s, s0}
      \/ isValidViewChangeReq(s0, m) /\ t \in {checkAndChangeView(s1)} \cup fastViewChange(s1)
  BY DEF handleViewChangeMsg
<1>3. k.type = "viewchange"
  BY MsgFields
<1>4. k \in Send(s, k).sent
  BY DEF Send, NodeState
<1> HIDE DEF k, s0
<1>5. c \in Cache /\ s0.cache \in Cache
  BY <1>1, StateFields, CacheUpdateTypes
<1>6. /\ c.prep = s0.cache.prep /\ c.prepView = s0.cache.prepView
      /\ c.sign = s0.cache.sign /\ c.commit = s0.cache.commit /\ c.future = s0.cache.future
      /\ c.vc = {x \in s0.cache.vc : x.view # m.view \/ x.idx # m.idx} \cup {m}
  BY <1>5 DEF addViewChangeReq, Cache
<1> HIDE DEF c
<1>7. /\ s1 \in NodeState /\ s1.cache = c
      /\ s1.view = s0.view /\ s1.consNum = s0.consNum /\ s1.highest = s0.highest
      /\ s1.tip = s0.tip /\ s1.chain = s0.chain /\ s1.backup = s0.backup /\ s1.sent = s0.sent
  BY <1>1, <1>5, StateUpdateTypes DEF NodeState
<1> HIDE DEF s1
\* fastViewChange changes m_toView and nothing else.
<1>8. ASSUME NEW u \in fastViewChange(s1)
      PROVE  /\ u \in NodeState /\ u.cache = s1.cache
             /\ u.view = s1.view /\ u.consNum = s1.consNum /\ u.highest = s1.highest
             /\ u.tip = s1.tip /\ u.chain = s1.chain /\ u.backup = s1.backup /\ u.sent = s1.sent
  <2>1. \E v : u \in {s1, [s1 EXCEPT !.toView = v]}
    BY DEF fastViewChange
  <2>2. u \in NodeState
    BY <1>7, FastViewChangeType
  <2> QED
    BY <1>7, <2>1, <2>2 DEF NodeState
<1>9. checkAndChangeView(s1).sent = s1.sent
  BY <1>7 DEF checkAndChangeView, NodeState
<1>10. s0.sent \subseteq M \/ t = s
  BY <1>2, <1>7, <1>8, <1>9
<1>11. CASE t = s
  BY <1>11
<1>12. CASE t # s
  <2>1. WorkInv(n, s0, M)
    <3>1. CASE s0 = s
      BY <3>1
    <3>2. CASE s0 = Send(s, k)
      <4>1. k \in M
        BY <1>4, <1>10, <1>12, <3>2
      <4> QED
        BY <1>3, <3>2, <4>1, WorkSends
    <3> QED
      BY <1>1, <3>1, <3>2
  <2>2. CASE t = s0
    BY <2>1, <2>2
  <2>3. CASE t # s0
    <3>1. height(m) >= number[s0.highest]
      BY <1>2, <1>12, <2>3 DEF isValidViewChangeReq
    <3>2. AskedInv(n, s1, M) /\ FutureInv(s1, M)
      BY <1>6, <1>7, <2>1, <3>1 DEF WorkInv, SteadyInv, AskedInv, FutureInv
    <3>3. Trims(n, s0, s1, M)
      BY <1>6, <1>7, <2>1, <3>2 DEF Trims, WorkInv, SteadyInv, SentInv
    <3>4. WorkInv(n, s1, M)
      BY <1>1, <1>7, <2>1, <3>3, TrimsKeeps DEF WorkInv, ActedInv
    <3>5. Trimmed(s1.cache, s1.cache)
      BY DEF Trimmed
    <3>6. \A u \in fastViewChange(s1) : WorkInv(n, u, M)
      BY <1>7, <1>8, <3>4, <3>5, WorkTrimmed
    <3> QED
      BY <1>2, <1>7, <1>12, <2>3, <3>4, <3>6, EntersView
  <2> QED
    BY <2>2, <2>3
<1> QED
  BY <1>11, <1>12

-----------------------------------------------------------------------------
(* The sealer thread and restarts.                                         *)

LEMMA WorkReportBlock ==
    ASSUME NEW n \in Correct, NEW s \in NodeState, NEW M \in SUBSET Message,
           NodeInv(n, s), WorkInv(n, s, M), number[s.highest] < number[s.tip]
    PROVE  WorkInv(n, reportBlock(s), M)
<1> DEFINE c1 == removeInvalidFutureCache(s.cache, s.highest)
           c2 == delInvalidViewChange(c1, s.tip)
           c3 == delCache(c2, s.tip)
           s1 == [s EXCEPT !.cache = c1]
           s2 == [s EXCEPT !.cache = c2]
           s3 == [s EXCEPT !.cache = c3]
           t == reportBlock(s)
<1>1. /\ s.tip \in Block /\ s.highest \in Block /\ s.cache \in Cache /\ s.consNum \in Nat
      /\ number[s.tip] \in Nat /\ number[s.highest] \in Nat
      /\ s.cache.raw \in Block \cup {NoBlock} /\ s.backup \in Block \cup {NoBlock}
  BY StateFields, NumberAssumption
<1>2. number[s.tip] >= s.consNum
  BY <1>1 DEF NodeInv, HeightsInv
<1>3. /\ t.highest = s.tip /\ t.consNum = number[s.tip] + 1 /\ t.tip = s.tip /\ t.view = 0
      /\ t.chain = s.chain /\ t.sent = s.sent /\ t.backup = s.backup /\ t.cache = c3
  BY <1>2 DEF reportBlock, NodeState
<1> HIDE DEF t
<1>4. c1 \in Cache /\ Trimmed(s.cache, c1)
  BY <1>1, CacheCleanTypes, TrimmedOps
<1> HIDE DEF c1
<1>5. /\ c2 \in Cache /\ Trimmed(c1, c2)
      /\ \A x \in c2.vc : ~ Expired(x, s.tip)
  <2>1. \A x \in c2.vc : ~ Expired(x, s.tip)
    BY <1>4 DEF delInvalidViewChange, removeInvalidEntryFromCache, Cache
  <2>2. c2 \in Cache
    BY <1>1, <1>4, CacheCleanTypes
  <2> QED
    BY <1>1, <1>4, <2>1, <2>2, TrimmedOps
<1> HIDE DEF c2
<1>6. c3 \in Cache /\ Trimmed(c2, c3)
  <2>1. c3 \in Cache
    BY <1>1, <1>5, CacheCleanTypes
  <2> QED
    BY <1>1, <1>5, <2>1, TrimmedOps
<1> HIDE DEF c3
<1>7. /\ s1 \in NodeState /\ s1.cache = c1
      /\ s1.view = s.view /\ s1.consNum = s.consNum /\ s1.highest = s.highest
      /\ s1.tip = s.tip /\ s1.chain = s.chain /\ s1.backup = s.backup /\ s1.sent = s.sent
  BY <1>4, StateUpdateTypes DEF NodeState
<1>8. /\ s2 \in NodeState /\ s2.cache = c2
      /\ s2.view = s.view /\ s2.consNum = s.consNum /\ s2.highest = s.highest
      /\ s2.tip = s.tip /\ s2.chain = s.chain /\ s2.backup = s.backup /\ s2.sent = s.sent
  BY <1>5, StateUpdateTypes DEF NodeState
<1>9. /\ s3 \in NodeState /\ s3.cache = c3
      /\ s3.view = s.view /\ s3.consNum = s.consNum /\ s3.highest = s.highest
      /\ s3.tip = s.tip /\ s3.chain = s.chain /\ s3.backup = s.backup /\ s3.sent = s.sent
  BY <1>6, StateUpdateTypes DEF NodeState
<1> HIDE DEF s1, s2, s3
<1>10. WorkInv(n, s1, M)
  BY <1>4, <1>7, WorkTrimmed
<1>11. WorkInv(n, s2, M)
  BY <1>5, <1>7, <1>8, <1>10, WorkTrimmed
<1>12. WorkInv(n, s3, M)
  BY <1>6, <1>8, <1>9, <1>11, WorkTrimmed
\* What is cached is of a height the chain has reached.
<1>13. /\ Height(s.backup) <= number[s.tip] /\ Height(s.backup) \in Int
       /\ c3.prep # NoBlock => Height(c3.prep) <= number[s.tip] /\ Height(c3.prep) \in Int
  <2>1. /\ Height(s.cache.raw) <= s.consNum /\ Height(s.backup) <= s.consNum
        /\ Height(s.cache.raw) \in Int /\ Height(s.backup) \in Int
    BY <1>1, HeightType DEF NodeInv, LockInv
  <2>2. c3.prep # NoBlock => c3.prep = s.cache.raw
    BY <1>4, <1>5, <1>6 DEF Trimmed, NodeInv, LockInv
  <2> QED
    BY <1>1, <1>2, <2>1, <2>2
<1>14. ChainInv(t, M) /\ SentInv(t, M) /\ FutureInv(t, M)
  BY <1>3, <1>9, <1>12 DEF WorkInv, SteadyInv, ChainInv, SentInv, FutureInv
<1>15. ExtendsInv(t) /\ PrepInv(t)
  BY <1>1, <1>3, <1>13 DEF ExtendsInv, PrepInv
<1>16. VotesInv(t, t.cache.sign, "sign", M) /\ VotesInv(t, t.cache.commit, "commit", M)
  BY <1>3, <1>9, <1>12 DEF WorkInv, SteadyInv, VotesInv
<1>17. AskedInv(n, t, M)
  <2>1. \A x \in c3.vc : x \in Message /\ height(x) \in Nat /\ ~ Expired(x, s.tip)
    BY <1>5, <1>6, NumberAssumption DEF Trimmed, Cache, Message, height
  <2>2. \A x \in c3.vc : height(x) >= number[s.tip]
    BY <1>1, <2>1 DEF Expired
  <2> QED
    BY <1>3, <1>9, <1>12, <2>2 DEF WorkInv, SteadyInv, AskedInv
<1>18. ViewInv(n, t, M)
  BY <1>3 DEF ViewInv
<1>19. ActedInv(t)
  <2> SUFFICES ASSUME NEW b \in Block
               PROVE  ActedOn(t, b)
    BY DEF ActedInv
  <2>1. ActedOn(s3, b)
    BY <1>12 DEF WorkInv, ActedInv
  <2>2. number[b] < s.consNum => number[b] < t.consNum
    BY <1>1, <1>2, <1>3, NumberAssumption
  <2> QED
    BY <1>3, <1>9, <2>1, <2>2 DEF ActedOn, Answered
<1> QED
  BY <1>14, <1>15, <1>16, <1>17, <1>18, <1>19 DEF WorkInv, SteadyInv, t

\* A restarted node has its chain, its lock and what it sent, and nothing else.
LEMMA WorkRestart ==
    ASSUME NEW n \in Correct, NEW s \in NodeState, NEW M \in SUBSET Message,
           ChainInv(s, M), SentInv(s, M),
           Height(s.backup) > number[s.tip] => CanCommitBlock(s, s.backup)
    PROVE  WorkInv(n, Restart(s), M)
<1> DEFINE t == Restart(s)
<1>1. /\ t.highest = s.tip /\ t.consNum = number[s.tip] + 1 /\ t.tip = s.tip /\ t.view = 0
      /\ t.chain = s.chain /\ t.sent = s.sent /\ t.backup = s.backup
      /\ t.cache.prep = NoBlock /\ t.cache.sign = {} /\ t.cache.commit = {}
      /\ t.cache.vc = {} /\ t.cache.future = {}
  BY DEF Restart, Start, EmptyCache
<1> HIDE DEF t
<1>2. ChainInv(t, M) /\ ExtendsInv(t) /\ PrepInv(t) /\ SentInv(t, M)
  BY <1>1 DEF ChainInv, ExtendsInv, PrepInv, SentInv, CanCommitBlock
<1>3. /\ VotesInv(t, t.cache.sign, "sign", M) /\ VotesInv(t, t.cache.commit, "commit", M)
      /\ FutureInv(t, M) /\ AskedInv(n, t, M) /\ ViewInv(n, t, M)
  BY <1>1 DEF VotesInv, FutureInv, AskedInv, ViewInv
<1>4. ActedInv(t)
  <2>1. \A b \in Block : ~ (getSigCacheSize(t.cache, b) >= minValidNodes)
    BY <1>1, NoVotes DEF getSigCacheSize
  <2> QED
    BY <2>1 DEF ActedInv, ActedOn
<1> QED
  BY <1>2, <1>3, <1>4 DEF WorkInv, SteadyInv, t

-----------------------------------------------------------------------------
(* Every action of a node keeps what it works on in order, with M the      *)
(* network after the step.                                                 *)

LEMMA WorkTimeout ==
    ASSUME NEW n \in Correct, node \in [Correct -> NodeState], Timeout(n),
           NEW M \in SUBSET Message, node'[n].sent \subseteq M, WorkInv(n, node[n], M)
    PROVE  WorkInv(n, node'[n], M)
<1> DEFINE s == node[n]
           s1 == [s EXCEPT !.toView = s.toView + 1, !.leaderFailed = TRUE]
           c == removeInvalidViewChange(s1.cache, s1.toView, s1.highest)
           s2 == [s1 EXCEPT !.cache = c]
           k == Msg("viewchange", s2.highest, s2.toView, n)
           s3 == Send(s2, k)
           s4 == checkAndChangeView(s3)
           t == resetBlockForViewChange(n, s4)
<1>0. s \in NodeState
  OBVIOUS
<1>1. node'[n] = t
  BY DEF Timeout, Become, broadcastViewChangeReq
<1> HIDE DEF s
<1>2. /\ s1 \in NodeState /\ s1.cache = s.cache
      /\ s1.view = s.view /\ s1.consNum = s.consNum /\ s1.highest = s.highest
      /\ s1.tip = s.tip /\ s1.chain = s.chain /\ s1.backup = s.backup /\ s1.sent = s.sent
  <2>1. s.toView + 1 \in Nat
    BY <1>0, StateFields
  <2>2. s1 \in NodeState
    BY <1>0, <2>1 DEF NodeState
  <2> QED
    BY <1>0, <2>1, <2>2 DEF NodeState
<1> HIDE DEF s1
<1>3. c \in Cache /\ Trimmed(s.cache, c)
  <2>1. s1.cache \in Cache /\ s1.toView \in Nat /\ s1.highest \in Block
    BY <1>2, StateFields
  <2>2. c \in Cache
    BY <2>1, CacheCleanTypes
  <2> QED
    BY <1>2, <2>1, <2>2, TrimmedOps
<1> HIDE DEF c
<1>4. /\ s2 \in NodeState /\ s2.cache = c
      /\ s2.view = s.view /\ s2.consNum = s.consNum /\ s2.highest = s.highest
      /\ s2.tip = s.tip /\ s2.chain = s.chain /\ s2.backup = s.backup /\ s2.sent = s.sent
  BY <1>2, <1>3, StateUpdateTypes DEF NodeState
<1> HIDE DEF s2
<1>5. WorkInv(n, s2, M)
  BY <1>0, <1>3, <1>4, WorkTrimmed DEF s
<1>6. k.type = "viewchange" /\ k \in Message
  BY <1>4, StateFields, MsgFields, MsgType1 DEF MsgType, Correct
<1> HIDE DEF k
<1>7. s3 \in NodeState /\ s3.sent = s2.sent \cup {k}
  BY <1>4, <1>6, StateUpdateTypes DEF Send, NodeState
<1>8. k \in M
  <2> HIDE DEF s3
  <2>1. s4 \in NodeState /\ s4.sent = s3.sent
    BY <1>7, CheckAndChangeViewType DEF checkAndChangeView, NodeState
  <2> HIDE DEF s4
  <2>2. t.sent = s4.sent
    BY <2>1 DEF resetBlockForViewChange, resetSealingBlock, NodeState
  <2> QED
    BY <1>1, <1>7, <2>1, <2>2
<1>9. WorkInv(n, s3, M)
  BY <1>4, <1>5, <1>6, <1>8, WorkSends
<1> HIDE DEF s3
<1>10. s4 \in NodeState /\ WorkInv(n, s4, M)
  BY <1>7, <1>9, CheckAndChangeViewType, EntersView
<1> HIDE DEF s4
<1>11. /\ t \in NodeState /\ t.cache = s4.cache
       /\ t.view = s4.view /\ t.consNum = s4.consNum /\ t.highest = s4.highest
       /\ t.tip = s4.tip /\ t.chain = s4.chain /\ t.backup = s4.backup /\ t.sent = s4.sent
  BY <1>10, StateUpdateTypes DEF resetBlockForViewChange, resetSealingBlock, NodeState
<1> HIDE DEF t
<1>12. Trimmed(s4.cache, t.cache)
  BY <1>11 DEF Trimmed
<1> QED
  BY <1>1, <1>10, <1>11, <1>12, WorkTrimmed

LEMMA WorkSeal ==
    ASSUME NEW n \in Correct, node \in [Correct -> NodeState], Seal(n), NodeInv(n, node[n]),
           NEW M \in SUBSET Message, node'[n].sent \subseteq M, WorkInv(n, node[n], M)
    PROVE  WorkInv(n, node'[n], M)
<1> DEFINE s == node[n]
           s0 == [s EXCEPT !.sealed = TRUE]
           m(b) == Msg("prepare", b, s.view, n)
           s1(b) == Send(s0, m(b))
           s2(b) == [s1(b) EXCEPT !.leaderFailed = TRUE]
           t(b) == IF b \in EmptyBlock THEN resetSealingBlock(s2(b))
                                       ELSE handlePrepareMsg(n, s1(b), m(b))
<1>0. s \in NodeState /\ WorkInv(n, s, M) /\ NodeInv(n, s)
  OBVIOUS
<1>1. PICK b \in Block : node'[n] = t(b)
  BY DEF Seal, Become
<1>2. m(b) \in Message /\ m(b).idx = n /\ m(b).sig = 0 /\ m(b).type = "prepare"
  BY StateFields, MsgType1, MsgFields DEF MsgType, Correct
<1> HIDE DEF s, m
<1>3. /\ s0 \in NodeState /\ s0.cache = s.cache /\ Quiet(n, s, s0)
      /\ s0.view = s.view /\ s0.consNum = s.consNum /\ s0.highest = s.highest
      /\ s0.tip = s.tip /\ s0.chain = s.chain /\ s0.backup = s.backup /\ s0.sent = s.sent
  <2>1. s0 \in NodeState
    BY <1>0 DEF NodeState
  <2> QED
    BY <1>0, <2>1, QuietUpdates DEF NodeState
<1> HIDE DEF s0
<1>4. WorkInv(n, s0, M) /\ NodeInv(n, s0)
  <2>1. Trimmed(s.cache, s0.cache)
    BY <1>3 DEF Trimmed
  <2> QED
    BY <1>0, <1>3, <2>1, WorkTrimmed, QuietKeepsInv
<1>5. /\ s1(b) \in NodeState /\ s1(b).sent = s0.sent \cup {m(b)}
      /\ Quiet(n, s0, s1(b))
  BY <1>2, <1>3, StateUpdateTypes, QuietUpdates DEF Send, NodeState
<1>6. ASSUME m(b) \in M
      PROVE  WorkInv(n, s1(b), M)
  BY <1>2, <1>3, <1>4, <1>6, WorkSends
<1> HIDE DEF s1
<1>7. NodeInv(n, s1(b))
  BY <1>3, <1>4, <1>5, QuietKeepsInv
<1>8. CASE b \in EmptyBlock
  <2>1. /\ s2(b) \in NodeState /\ s2(b).cache = s1(b).cache
        /\ s2(b).view = s1(b).view /\ s2(b).consNum = s1(b).consNum
        /\ s2(b).highest = s1(b).highest /\ s2(b).tip = s1(b).tip
        /\ s2(b).chain = s1(b).chain /\ s2(b).backup = s1(b).backup
        /\ s2(b).sent = s1(b).sent
    <3>1. s2(b) \in NodeState
      BY <1>5 DEF NodeState
    <3> QED
      BY <1>5, <3>1 DEF NodeState
  <2> HIDE DEF s2
  <2> DEFINE u == resetSealingBlock(s2(b))
  <2>2. /\ u \in NodeState /\ u.cache = s1(b).cache
        /\ u.view = s1(b).view /\ u.consNum = s1(b).consNum
        /\ u.highest = s1(b).highest /\ u.tip = s1(b).tip
        /\ u.chain = s1(b).chain /\ u.backup = s1(b).backup
        /\ u.sent = s1(b).sent
    BY <2>1, StateUpdateTypes DEF resetSealingBlock, NodeState
  <2>3. node'[n] = u
    BY <1>1, <1>8
  <2> HIDE DEF u
  <2>4. m(b) \in M
    BY <1>5, <2>2, <2>3
  <2>5. Trimmed(s1(b).cache, u.cache)
    BY <2>2 DEF Trimmed
  <2> QED
    BY <1>5, <1>6, <2>2, <2>3, <2>4, <2>5, WorkTrimmed
<1>9. CASE b \notin EmptyBlock
  <2> DEFINE u == handlePrepareMsg(n, s1(b), m(b))
  <2>1. node'[n] = u
    BY <1>1, <1>9
  <2>2. s1(b).sent \subseteq u.sent
    <3>1. \A N : Known(s1(b), N) => Advances(n, s1(b), u, N)
      BY <1>2, <1>5, <1>7, HandlePrepareAdvances
    <3>2. Known(s1(b), M)
      BY <1>3, <1>4, <1>5 DEF Quiet, Kept, Known, WorkInv, SteadyInv, VotesInv
    <3> QED
      BY <3>1, <3>2 DEF Advances
  <2>3. m(b) \in M
    BY <1>5, <2>1, <2>2
  <2> QED
    BY <1>2, <1>5, <1>6, <1>7, <2>1, <2>3, WorkHandlePrepare
<1> QED
  BY <1>8, <1>9

\* The request that a handler received was on the network before the step.
LEMMA WorkActions ==
    ASSUME EngineInv, NEW n \in Awake,
           \/ HandlePrepare(n) \/ HandleSign(n) \/ HandleCommit(n) \/ HandleViewChange(n)
           \/ Timeout(n) \/ HandleFuture(n) \/ CollectGarbage(n) \/ ReportBlock(n)
           \/ Seal(n) \/ RehandleCommitted(n) \/ SyncBlock(n) \/ Crash(n)
           \/ CrashInCheckAndCommit(n),
           NEW M \in SUBSET Message, Network \subseteq M, node'[n].sent \subseteq M,
           \A k \in Correct : WorkInv(k, node[k], M)
    PROVE  WorkInv(n, node'[n], M)
<1> DEFINE s == node[n]
<1>1. /\ n \in Correct /\ n \in Node /\ node \in [Correct -> NodeState] /\ s \in NodeState
      /\ NodeInv(n, s) /\ WorkInv(n, s, M) /\ Known(s, M)
  <2>1. n \in Correct /\ node \in [Correct -> NodeState]
    BY BoundAssumption DEF EngineInv, TypeOK
  <2>2. NodeInv(n, s) /\ WorkInv(n, s, M)
    BY <2>1 DEF EngineInv, GroupInv
  <2> QED
    BY <2>1, <2>2 DEF Correct, WorkInv, SteadyInv, VotesInv, Known
<1>2. \A x : \A m \in Incoming(n, x) : m \in M /\ m.type = x /\ m.idx # n
  BY DEF Incoming
<1>3. ASSUME HandlePrepare(n)
      PROVE  WorkInv(n, node'[n], M)
  <2>1. PICK m \in Incoming(n, "prepare") : node'[n] = handlePrepareMsg(n, s, m)
    BY <1>1, <1>3 DEF HandlePrepare, Become
  <2> QED
    BY <1>1, <1>2, <2>1, WorkHandlePrepare
<1>4. ASSUME HandleSign(n)
      PROVE  WorkInv(n, node'[n], M)
  <2>1. PICK m \in Incoming(n, "sign") : node'[n] = handleSignMsg(n, s, m)
    BY <1>1, <1>4 DEF HandleSign, Become
  <2> QED
    BY <1>1, <1>2, <2>1, WorkHandleSign
<1>5. ASSUME HandleCommit(n)
      PROVE  WorkInv(n, node'[n], M)
  <2>1. PICK m \in Incoming(n, "commit") : node'[n] = handleCommitMsg(n, s, m)
    BY <1>1, <1>5 DEF HandleCommit, Become
  <2> QED
    BY <1>1, <1>2, <2>1, WorkHandleCommit
<1>6. ASSUME HandleViewChange(n)
      PROVE  WorkInv(n, node'[n], M)
  <2>1. PICK m \in Incoming(n, "viewchange"), direct \in BOOLEAN :
            \E t \in handleViewChangeMsg(n, s, m, direct) : node'[n] = t
    BY <1>1, <1>6 DEF HandleViewChange, Become
  <2> QED
    BY <1>1, <1>2, <2>1, WorkHandleViewChange
<1>7. ASSUME Timeout(n)
      PROVE  WorkInv(n, node'[n], M)
  BY <1>1, <1>7, WorkTimeout
<1>8. ASSUME HandleFuture(n)
      PROVE  WorkInv(n, node'[n], M)
  <2> DEFINE s1(m) == handlePrepareMsg(n, s, m)
             c(m) == eraseHandledFutureReq(s1(m).cache, height(m))
             t(m) == [s1(m) EXCEPT !.cache = c(m)]
  <2>1. PICK m \in s.cache.future : node'[n] = t(m)
    BY <1>1, <1>8 DEF HandleFuture, Become
  <2>2. m \in M /\ m.type = "prepare"
    BY <1>1 DEF WorkInv, SteadyInv, FutureInv
  <2>3. s1(m) \in NodeState
    BY <1>1, <2>2, HandlePrepareMsgType
  <2>4. s1(m).sent \subseteq M => WorkInv(n, s1(m), M)
    BY <1>1, <2>2, WorkHandlePrepare
  <2> HIDE DEF s, s1
  <2>5. c(m) \in Cache /\ Trimmed(s1(m).cache, c(m))
    <3>1. s1(m).cache \in Cache
      BY <2>3, StateFields
    <3>2. c(m) \in Cache
      BY <3>1, GenesisAssumption, CacheCleanTypes
    <3> QED
      BY <3>1, <3>2, GenesisAssumption, TrimmedOps
  <2> HIDE DEF c
  <2>6. /\ t(m) \in NodeState /\ t(m).cache = c(m)
        /\ t(m).view = s1(m).view /\ t(m).consNum = s1(m).consNum
        /\ t(m).highest = s1(m).highest /\ t(m).tip = s1(m).tip
        /\ t(m).chain = s1(m).chain /\ t(m).backup = s1(m).backup
        /\ t(m).sent = s1(m).sent
    BY <2>3, <2>5, StateUpdateTypes DEF NodeState
  <2> HIDE DEF t
  <2> QED
    BY <1>1, <2>1, <2>3, <2>4, <2>5, <2>6, WorkTrimmed
<1>9. ASSUME CollectGarbage(n)
      PROVE  WorkInv(n, node'[n], M)
  <2> DEFINE c == collectGarbage(s.cache, s.highest)
             t == [s EXCEPT !.cache = c]
  <2>1. c \in Cache /\ Trimmed(s.cache, c)
    <3>1. s.cache \in Cache /\ s.highest \in Block
      BY <1>1, StateFields
    <3>2. c \in Cache
      BY <3>1, CacheCleanTypes
    <3> QED
      BY <3>1, <3>2, TrimmedOps
  <2>2. node'[n] = t
    BY <1>1, <1>9 DEF CollectGarbage, Become
  <2> HIDE DEF c, s
  <2>3. /\ t \in NodeState /\ t.cache = c
        /\ t.view = s.view /\ t.consNum = s.consNum /\ t.highest = s.highest
        /\ t.tip = s.tip /\ t.chain = s.chain /\ t.backup = s.backup /\ t.sent = s.sent
    BY <1>1, <2>1, StateUpdateTypes DEF NodeState
  <2> HIDE DEF t
  <2> QED
    BY <1>1, <2>1, <2>2, <2>3, WorkTrimmed
<1>10. ASSUME ReportBlock(n)
       PROVE  WorkInv(n, node'[n], M)
  <2> DEFINE t == reportBlock(s)
             u == resetSealingBlock(t)
  <2>1. number[s.highest] < number[s.tip] /\ node'[n] \in {t, u}
    BY <1>1, <1>10 DEF ReportBlock, Become
  <2>2. t \in NodeState /\ WorkInv(n, t, M)
    BY <1>1, <2>1, ReportBlockType, WorkReportBlock
  <2> HIDE DEF t
  <2>3. /\ u \in NodeState /\ u.cache = t.cache
        /\ u.view = t.view /\ u.consNum = t.consNum /\ u.highest = t.highest
        /\ u.tip = t.tip /\ u.chain = t.chain /\ u.backup = t.backup /\ u.sent = t.sent
    BY <2>2, StateUpdateTypes DEF resetSealingBlock, NodeState
  <2> HIDE DEF u
  <2>4. Trimmed(t.cache, u.cache)
    BY <2>3 DEF Trimmed
  <2> QED
    BY <1>1, <2>1, <2>2, <2>3, <2>4, WorkTrimmed
<1>11. ASSUME Seal(n)
       PROVE  WorkInv(n, node'[n], M)
  BY <1>1, <1>11, WorkSeal
<1>12. ASSUME RehandleCommitted(n)
       PROVE  WorkInv(n, node'[n], M)
  <2> DEFINE m == Msg("prepare", s.cache.committed, s.view, n)
             s1 == Send(s, m)
             t == handlePrepareMsg(n, s1, m)
  <2>1. node'[n] = t /\ Height(s.cache.committed) = s.consNum
    BY <1>1, <1>12 DEF RehandleCommitted, Become
  <2>2. s.cache.committed \in Block
    BY <1>1, <2>1, StateFields DEF Height
  <2>3. m \in Message /\ m.idx = n /\ m.sig = 0 /\ m.type = "prepare"
    BY <1>1, <2>2, StateFields, MsgType1, MsgFields DEF MsgType
  <2> HIDE DEF m, s
  <2>4. /\ s1 \in NodeState /\ Quiet(n, s, s1) /\ s1.sent = s.sent \cup {m}
        /\ m \in M => WorkInv(n, s1, M)
    BY <1>1, <2>3, StateUpdateTypes, QuietUpdates, WorkSends DEF Send, NodeState
  <2> HIDE DEF s1
  <2>5. NodeInv(n, s1) /\ Known(s1, M)
    BY <1>1, <2>4, QuietKeepsInv, QuietKnown
  <2>6. s1.sent \subseteq t.sent
    BY <1>1, <2>3, <2>4, <2>5, HandlePrepareAdvances DEF Advances
  <2> QED
    BY <1>1, <2>1, <2>3, <2>4, <2>5, <2>6, WorkHandlePrepare
<1>13. ASSUME SyncBlock(n)
       PROVE  WorkInv(n, node'[n], M)
  <2>1. PICK p \in Correct :
            \E b \in node[p].chain : CanCommitBlock(s, b) /\ node'[n] = commitBlock(s, b)
    BY <1>1, <1>13 DEF SyncBlock, Become
  <2>2. PICK b \in node[p].chain : CanCommitBlock(s, b) /\ node'[n] = commitBlock(s, b)
    BY <2>1
  <2>3. b \in Block
    BY <1>1, <2>2, StateFields
  <2>4. b # Genesis
    BY <1>1, <2>2, <2>3, CommitBlockInv
  <2>5. \E v \in Nat : Quorum(M, "commit", b, v)
    BY <2>2, <2>4 DEF WorkInv, SteadyInv, ChainInv
  <2> QED
    BY <1>1, <2>2, <2>3, <2>5, WorkStores
<1>14. ASSUME Crash(n)
       PROVE  WorkInv(n, node'[n], M)
  <2>1. node'[n] = Restart(s)
    BY <1>1, <1>14 DEF Crash, Fail
  <2> QED
    BY <1>1, <2>1, WorkRestart DEF WorkInv, SteadyInv, ExtendsInv
<1>15. ASSUME CrashInCheckAndCommit(n)
       PROVE  WorkInv(n, node'[n], M)
  <2> DEFINE s1(m) == [s EXCEPT !.cache = addSignReq(s.cache, m)]
             s2(m) == backupCommitted(s1(m))
  <2>1. PICK m \in Incoming(n, "sign") :
          isValidSignReq(s, n, m) = "VALID" /\ node'[n] = Restart(s2(m))
    BY <1>1, <1>15 DEF CrashInCheckAndCommit, Fail
  <2>2. m \in Message
    BY <1>2
  <2> HIDE DEF s
  <2>3. /\ s1(m) \in NodeState /\ Quiet(n, s, s1(m))
        /\ s1(m).cache.prep \in Block /\ Height(s1(m).cache.prep) = s1(m).consNum
    BY <1>1, <2>1, <2>2, SignAccepted
  <2>4. s1(m).cache.prep = s.cache.prep
    BY <1>1, StateFields DEF addSignReq, Cache, NodeState
  <2> HIDE DEF s1
  <2>5. NodeInv(n, s1(m))
    BY <1>1, <2>3, QuietKeepsInv
  <2>6. /\ s2(m) \in NodeState /\ s2(m).backup = s1(m).cache.prep
        /\ s2(m).tip = s1(m).tip /\ s2(m).chain = s1(m).chain /\ s2(m).sent = s1(m).sent
    <3>1. s2(m) \in NodeState
      BY <2>3, StateUpdateTypes
    <3>2. s1(m).cache.prep # NoBlock
      BY <2>3, NoBlockAssumption
    <3> QED
      BY <1>1, <2>3, <2>5, <3>1, <3>2, BackupCommittedInv
  <2> HIDE DEF s2
  <2>7. s1(m).sent = s.sent
    BY <1>1 DEF s1, NodeState
  <2>8. s2(m).backup = s.cache.prep /\ s.cache.prep # NoBlock
        /\ s2(m).tip = s.tip /\ s2(m).chain = s.chain /\ s2(m).sent = s.sent
    BY <2>3, <2>4, <2>6, <2>7, NoBlockAssumption DEF Quiet
  <2>9. ChainInv(s2(m), M) /\ SentInv(s2(m), M)
    BY <1>1, <2>8 DEF WorkInv, SteadyInv, ChainInv, SentInv
  <2>10. Height(s2(m).backup) > number[s2(m).tip] => CanCommitBlock(s2(m), s2(m).backup)
    BY <1>1, <2>8 DEF WorkInv, SteadyInv, ExtendsInv, CanCommitBlock
  <2> QED
    BY <1>1, <2>1, <2>6, <2>9, <2>10, WorkRestart
<1> QED
  BY <1>3, <1>4, <1>5, <1>6, <1>7, <1>8, <1>9, <1>10, <1>11, <1>12, <1>13, <1>14, <1>15

GroupWork == EngineInv /\ \A n \in Correct : WorkInv(n, node[n], Network)

LEMMA GroupWorkInit == Init => GroupWork
<1> SUFFICES ASSUME Init
             PROVE  GroupWork
  OBVIOUS
<1> DEFINE s == Start(Genesis, {Genesis}, NoBlock, {})
<1>1. EngineInv
  BY EngineInvInit
<1>2. s \in NodeState /\ \A n \in Correct : node[n] = s
  BY GenesisAssumption, StartType DEF Init
<1>3. /\ s.tip = Genesis /\ s.chain = {Genesis} /\ s.backup = NoBlock /\ s.sent = {}
      /\ s = Restart(s)
  BY DEF Start, Restart
<1> HIDE DEF s
<1>4. Network \in SUBSET Message
  BY <1>1, NetworkType DEF EngineInv
<1>5. ChainInv(s, Network) /\ SentInv(s, Network)
  BY <1>3 DEF ChainInv, SentInv
<1>6. ~ (Height(s.backup) > number[s.tip])
  BY <1>3, GenesisAssumption, HeightType
<1>7. \A n \in Correct : WorkInv(n, Restart(s), Network)
  BY <1>2, <1>4, <1>5, <1>6, WorkRestart
<1> QED
  BY <1>1, <1>2, <1>3, <1>7 DEF GroupWork

LEMMA GroupWorkNext == GroupWork /\ [Next]_vars => GroupWork'
<1> SUFFICES ASSUME GroupWork, [Next]_vars
             PROVE  GroupWork'
  OBVIOUS
<1>1. EngineInv /\ EngineInv' /\ TypeOK /\ TypeOK'
  BY EngineInvNext DEF GroupWork, EngineInv
<1>2. Network \in SUBSET Message /\ Network' \in SUBSET Message
  BY <1>1, FaultyMessageAssumption DEF TypeOK, Network, NodeState
<1>3. CASE UNCHANGED vars
  <2>1. node' = node /\ Network' = Network
    BY <1>3 DEF vars, Network
  <2> QED
    BY <1>1, <2>1 DEF GroupWork
<1>4. CASE Next
  <2>1. PICK n \in Awake :
           \/ HandlePrepare(n) \/ HandleSign(n) \/ HandleCommit(n) \/ HandleViewChange(n)
           \/ Timeout(n) \/ HandleFuture(n) \/ CollectGarbage(n) \/ ReportBlock(n)
           \/ Seal(n) \/ RehandleCommitted(n) \/ SyncBlock(n) \/ Crash(n)
           \/ CrashInCheckAndCommit(n)
    BY <1>4 DEF Next
  <2>2. n \in Correct
    BY BoundAssumption
  <2>3. PICK t : NodeStep(n, t)
    BY <1>1, <2>1, EveryActionIsNodeStep
  <2>4. /\ node \in [Correct -> NodeState] /\ node' = [node EXCEPT ![n] = t]
        /\ t \in NodeState /\ node'[n] = t
    BY <1>1, <2>2, <2>3, NodeStepKeepsInv DEF TypeOK, NodeStep
  <2>5. node[n].sent \subseteq t.sent
    <3>1. CASE Advances(n, node[n], t, NetworkOf(node))
      BY <3>1 DEF Advances
    <3>2. CASE Synced(node[n], t)
      BY <2>2, <2>4, <3>2 DEF Synced, commitBlock, NodeState
    <3> QED
      BY <2>3, <3>1, <3>2 DEF NodeStep
  <2>6. \A k \in Correct : node[k].sent \subseteq node'[k].sent
    BY <2>2, <2>4, <2>5
  <2>7. Network \subseteq Network' /\ node'[n].sent \subseteq Network'
    BY <2>2, <2>6 DEF Network
  <2>8. \A k \in Correct : WorkInv(k, node[k], Network')
    BY <1>2, <2>7, WorkInvGrows DEF GroupWork
  <2>9. WorkInv(n, node'[n], Network')
    BY <1>1, <1>2, <2>1, <2>7, <2>8, WorkActions
  <2>10. \A k \in Correct \ {n} : node'[k] = node[k]
    BY <2>4
  <2>11. \A k \in Correct : WorkInv(k, node'[k], Network')
    BY <2>8, <2>9, <2>10
  <2> QED
    BY <1>1, <2>11 DEF GroupWork
<1> QED
  BY <1>3, <1>4

LEMMA GroupWorkHolds == Spec => []GroupWork
BY GroupWorkInit, GroupWorkNext, PTL DEF Spec

-----------------------------------------------------------------------------
LEMMA SameSenders ==
    ASSUME NEW t, NEW b, NEW v
    PROVE  /\ Senders(t, b, v) = SendersIn(Network, t, b, v)
           /\ Signatures(t, b, v) = SignaturesIn(Network, t, b, v)
BY DEF Senders, SendersIn, Signatures, SignaturesIn, Requests

LEMMA WorkImpliesSignQuorum == GroupWork => CommitNeedsSignQuorum
<1> SUFFICES ASSUME GroupWork, NEW n \in Correct, NEW m \in CommitVotes(n)
             PROVE  Cardinality(Signatures("sign", m.b, m.view)) >= minValidNodes
  BY DEF CommitNeedsSignQuorum
<1>1. m \in node[n].sent /\ m.type = "commit"
  BY DEF CommitVotes
<1>2. Quorum(Network, "sign", m.b, m.view)
  BY <1>1 DEF GroupWork, WorkInv, SteadyInv, SentInv
<1> QED
  BY <1>2, SameSenders DEF Quorum

(***************************************************************************)
(* checkAndCommit: behind every commit request that a correct node sends,  *)
(* also right after the early signatures of m_signCache were taken over,   *)
(* there are sign requests with minValidNodes different signatures for     *)
(* that block and that view, whatever requests are on the network.         *)
(***************************************************************************)
THEOREM CommitsNeedSigns == Spec => []CommitNeedsSignQuorum
BY GroupWorkHolds, WorkImpliesSignQuorum, PTL

LEMMA WorkImpliesCommitQuorum == GroupWork => ChainNeedsCommitQuorum
<1> SUFFICES ASSUME GroupWork, NEW n \in Correct, NEW b \in node[n].chain \ {Genesis}
             PROVE  \E v \in {m.view : m \in Network} :
                        Cardinality(Signatures("commit", b, v)) >= minValidNodes
  BY DEF ChainNeedsCommitQuorum
<1>1. PICK v \in Nat : Quorum(Network, "commit", b, v)
  BY DEF GroupWork, WorkInv, SteadyInv, ChainInv
<1>2. Cardinality(SignaturesIn(Network, "commit", b, v)) >= minValidNodes
  BY <1>1 DEF Quorum
<1>3. SignaturesIn(Network, "commit", b, v) # {}
  <2>1. minValidNodes >= 1 /\ minValidNodes \in Nat
    BY GroupSize, NodeNumAssumption
  <2>2. SignaturesIn(Network, "commit", b, v) = {} =>
            Cardinality(SignaturesIn(Network, "commit", b, v)) = 0
    BY FS_EmptySet
  <2> QED
    BY <1>2, <2>1, <2>2
<1>4. v \in {m.view : m \in Network}
  BY <1>3 DEF SignaturesIn
<1> QED
  BY <1>2, <1>4, SameSenders

(***************************************************************************)
(* checkAndSave and block sync: every block of a correct node's chain but  *)
(* the genesis has commit requests with minValidNodes different            *)
(* signatures, all of one view, whichever way the block was stored and     *)
(* whatever requests are on the network.                                   *)
(***************************************************************************)
THEOREM BlocksNeedCommits == Spec => []ChainNeedsCommitQuorum
BY GroupWorkHolds, WorkImpliesCommitQuorum, PTL

LEMMA WorkImpliesLeaders == GroupWork => SignedBlockIsLeaders
<1> SUFFICES ASSUME GroupWork, NEW n \in Correct,
                    NEW m \in {x \in node[n].sent : x.type = "sign"}
             PROVE  (m.view + height(m) - 1) % NodeNum \in Senders("prepare", m.b, m.view)
  BY DEF SignedBlockIsLeaders
<1>1. m \in node[n].sent /\ m.type = "sign"
  OBVIOUS
<1> QED
  BY <1>1, SameSenders DEF GroupWork, WorkInv, SteadyInv, SentInv

(***************************************************************************)
(* isValidPrepare: a correct node signs only what the leader of that view  *)
(* and height proposed in that view, also when handleFutureBlock takes the *)
(* prepare out of the future cache views and heights later.                *)
(***************************************************************************)
THEOREM SignedBlocksAreLeaders == Spec => []SignedBlockIsLeaders
BY GroupWorkHolds, WorkImpliesLeaders, PTL

LEMMA WorkImpliesExtends == GroupWork => LockExtendsChain
BY DEF GroupWork, WorkInv, SteadyInv, ExtendsInv, LockExtendsChain

(***************************************************************************)
(* backupMsg and reloadMsg: while the committed prepare is above the chain *)
(* it is a child of the chain's tip, in every interleaving of              *)
(* checkAndCommit, block sync and restarts, so                             *)
(* rehandleCommitedPrepareCache never proposes what cannot be stored.      *)
(***************************************************************************)
THEOREM LockExtendsTip == Spec => []LockExtendsChain
BY GroupWorkHolds, WorkImpliesExtends, PTL

LEMMA WorkImpliesActed == GroupWork => SignQuorumIsActedOn
<1> SUFFICES ASSUME GroupWork, NEW n \in Correct,
                    node[n].cache.prep # NoBlock,
                    node[n].cache.prepView = node[n].view,
                    getSigCacheSize(node[n].cache, node[n].cache.prep) >= minValidNodes
             PROVE  \E m \in CommitVotes(n) :
                        m.b = node[n].cache.prep /\ m.view = node[n].cache.prepView
  BY DEF SignQuorumIsActedOn
<1>1. node[n] \in NodeState
  BY DEF GroupWork, EngineInv, TypeOK
<1>2. node[n].cache.prep \in Block
  BY <1>1, StateFields
<1>3. Answered(node[n], node[n].cache.prep)
  BY <1>2 DEF GroupWork, WorkInv, ActedInv, ActedOn
<1> QED
  BY <1>3 DEF Answered, CommitVotes

(***************************************************************************)
(* checkAndCommit acts on a count that EQUALS minValidNodes: no order of   *)
(* early, late and repeated sign requests makes the count of the current   *)
(* prepare jump past it unanswered.                                        *)
(***************************************************************************)
THEOREM QuorumsAreActedOn == Spec => []SignQuorumIsActedOn
BY GroupWorkHolds, WorkImpliesActed, PTL

LEMMA WorkImpliesRequests == GroupWork => ViewNeedsRequests
<1> SUFFICES ASSUME GroupWork, NEW n \in Correct, node[n].view > 0
             PROVE  Cardinality({m.idx : m \in {x \in Incoming(n, "viewchange") :
                        /\ x.view = node[n].view
                        /\ height(x) >= number[node[n].highest]}}) >= minValidNodes - 1
  BY DEF ViewNeedsRequests
<1>1. {m.idx : m \in {x \in Incoming(n, "viewchange") :
                        /\ x.view = node[n].view
                        /\ height(x) >= number[node[n].highest]}} = Asking(n, node[n], Network)
  BY DEF Incoming, Asking
<1>2. Cardinality(Asking(n, node[n], Network)) >= minValidNodes - 1
  BY DEF GroupWork, WorkInv, SteadyInv, ViewInv
<1> QED
  BY <1>1, <1>2

(***************************************************************************)
(* checkAndChangeView: no node is in a view above 0 without the requests   *)
(* of minValidNodes - 1 peers for that view, none of them behind the       *)
(* node's highest block, although views are reset by reportBlock, requests *)
(* are trimmed and the same request comes more than once.                  *)
(***************************************************************************)
THEOREM ViewsNeedRequests == Spec => []ViewNeedsRequests
BY GroupWorkHolds, WorkImpliesRequests, PTL
=============================================================================
