---------------------------- MODULE PBFTReqCache ----------------------------
(***************************************************************************)
(* libconsensus/pbft/PBFTReqCache: the request caches of one PBFT engine,  *)
(* as operators from cache record to cache record.                         *)
(*                                                                         *)
(* The C++ maps become sets of requests.  m_signCache and m_commitCache    *)
(* are keyed by the block hash and the hex of the signature, so what they  *)
(* count are signatures, not signers.  m_recvViewChangeReq is keyed by     *)
(* (view, idx), m_futurePrepareCache by height.  Of the cached prepare     *)
(* requests only the block and, for m_prepareCache, the view are ever      *)
(* read.                                                                   *)
(***************************************************************************)
EXTENDS SealerGroup

CONSTANTS
    NoBlock,        \* the zero hash of a cleared request
    FutureLimit,    \* the 20 of addFuturePrepareCache
    SigNum          \* how many signatures of one hash by one key may be around

ASSUME NoBlockAssumption == NoBlock \notin Block
ASSUME FutureLimitAssumption == FutureLimit \in Nat
ASSUME SigNumAssumption == SigNum \in Nat \ {0}

(***************************************************************************)
(* A PBFTMsg.  Its height is the number of its block; a view change        *)
(* request carries the sender's highest block and the view it asks for.    *)
(* sig tells the valid signatures of the block's hash by the key of idx    *)
(* apart: checkSign takes any of them.  dev::sign gives always the same    *)
(* one (libdevcrypto/Common.cpp:310), number 0.                            *)
(***************************************************************************)
MsgType == {"prepare", "sign", "commit", "viewchange"}
Message == [type : MsgType, b : Block, view : Nat, idx : Node, sig : 0 .. (SigNum - 1)]
height(m) == number[m.b]
sigHex(m) == <<m.idx, m.sig>>

\* The height of a cached block; PBFTMsg::clear sets the height to -1.
Height(b) == IF b = NoBlock THEN -1 ELSE number[b]

Cache == [raw : Block \cup {NoBlock},       \* m_rawPrepareCache
          prep : Block \cup {NoBlock},      \* m_prepareCache
          prepView : Nat,                   \* m_prepareCache.view (0 when cleared)
          committed : Block \cup {NoBlock}, \* m_committedPrepareCache
          sign : SUBSET Message,            \* m_signCache
          commit : SUBSET Message,          \* m_commitCache
          vc : SUBSET Message,              \* m_recvViewChangeReq
          future : SUBSET Message]          \* m_futurePrepareCache

\* A cache that holds nothing but the committed prepare reloaded from disk.
EmptyCache(committed) ==
    [raw |-> NoBlock, prep |-> NoBlock, prepView |-> 0, committed |-> committed,
     sign |-> {}, commit |-> {}, vc |-> {}, future |-> {}]

-----------------------------------------------------------------------------
isExistPrepare(c, m) == c.raw = m.b
isExistSign(c, m) == \E x \in c.sign : x.b = m.b /\ sigHex(x) = sigHex(m)
isExistCommit(c, m) == \E x \in c.commit : x.b = m.b /\ sigHex(x) = sigHex(m)
isExistViewChange(c, m) == \E x \in c.vc : x.view = m.view /\ x.idx = m.idx

getSigCacheSize(c, b) == Cardinality({x \in c.sign : x.b = b})
getCommitCacheSize(c, b) == Cardinality({x \in c.commit : x.b = b})
getViewChangeSize(c, v) == Cardinality({x \in c.vc : x.view = v})

addRawPrepare(c, m) == [c EXCEPT !.raw = m.b, !.prep = NoBlock, !.prepView = 0]

\* Mistake to detect: requests of other views are kept.
addPrepareReqKeepingViews(c, m) == [c EXCEPT !.prep = m.b, !.prepView = m.view]

\* Requests for the same block in another view are dropped with it.
addPrepareReq(c, m) ==
    [c EXCEPT !.prep = m.b,
              !.prepView = m.view,
              !.sign = {x \in @ : x.b = m.b => x.view = m.view},
              !.commit = {x \in @ : x.b = m.b => x.view = m.view}]

addSignReq(c, m) ==
    [c EXCEPT !.sign = {x \in @ : x.b # m.b \/ sigHex(x) # sigHex(m)} \cup {m}]
addCommitReq(c, m) ==
    [c EXCEPT !.commit = {x \in @ : x.b # m.b \/ sigHex(x) # sigHex(m)} \cup {m}]
addViewChangeReq(c, m) ==
    [c EXCEPT !.vc = {x \in @ : x.view # m.view \/ x.idx # m.idx} \cup {m}]

\* The first prepare of a height stays; a full cache takes no more.
addFuturePrepareCache(c, m) ==
    IF Cardinality(c.future) >= FutureLimit \/ \E x \in c.future : height(x) = height(m)
    THEN c
    ELSE [c EXCEPT !.future = @ \cup {m}]
eraseHandledFutureReq(c, h) == [c EXCEPT !.future = {x \in @ : height(x) # h}]

updateCommittedPrepare(c) == [c EXCEPT !.committed = c.raw]

delCache(c, b) ==
    [c EXCEPT !.sign = {x \in @ : x.b # b},
              !.commit = {x \in @ : x.b # b},
              !.prep = IF @ = b THEN NoBlock ELSE @,
              !.prepView = IF c.prep = b THEN 0 ELSE @]

removeInvalidFutureCache(c, highest) ==
    [c EXCEPT !.future = {x \in @ : height(x) > number[highest]}]

-----------------------------------------------------------------------------
\* A request that belongs to a decided height, or to another block of the highest one.
Expired(x, highest) ==
    \/ height(x) < number[highest]
    \/ height(x) = number[highest] /\ x.b # highest

removeInvalidEntryFromCache(S, highest) == {x \in S : ~ Expired(x, highest)}

delInvalidViewChange(c, highest) ==
    [c EXCEPT !.vc = removeInvalidEntryFromCache(@, highest)]

\* Only the requests for the given view are looked at.
removeInvalidViewChange(c, v, highest) ==
    [c EXCEPT !.vc = {x \in @ : x.view = v => ~ Expired(x, highest)}]

collectGarbage(c, highest) ==
    [c EXCEPT !.sign = removeInvalidEntryFromCache(@, highest),
              !.commit = removeInvalidEntryFromCache(@, highest),
              !.future = {x \in @ : height(x) > number[highest]},
              !.vc = removeInvalidEntryFromCache(@, highest)]

triggerViewChange(c, curView) ==
    [c EXCEPT !.raw = NoBlock, !.prep = NoBlock, !.prepView = 0,
              !.sign = {}, !.commit = {}, !.future = {},
              !.vc = {x \in @ : x.view > curView}]

(***************************************************************************)
(* canTriggerViewChange walks the views of an unordered_map in an order    *)
(* that the build decides.  rank[v] is the place of view v in that walk.   *)
(* An entry counts unless the walk has met the same sealer in an equal or  *)
(* higher view before.                                                     *)
(***************************************************************************)
Candidates(c, toView, highest) ==
    {x \in c.vc : x.view > toView /\ height(x) >= number[highest]}

Counted(c, toView, highest, rank) ==
    LET E == Candidates(c, toView, highest)
    IN  {x \in E : \A y \in E : y.idx = x.idx /\ y.view > x.view
                                    => rank[x.view] < rank[y.view]}

\* The views of the walk, in any order.
WalkOrders(c) ==
    LET V == {x.view : x \in c.vc}
    IN  {r \in [V -> 1 .. Cardinality(V)] : \A v, w \in V : v # w => r[v] # r[w]}

\* The walk ends with minView = v and "should trigger".
canTriggerViewChange(c, toView, highest, consNum, rank, v) ==
    LET U == Counted(c, toView, highest, rank)
    IN  /\ v \in {x.view : x \in U}
        /\ \A x \in U : v <= x.view
        /\ Cardinality({x.idx : x \in U}) > F
        /\ ~ (/\ Height(c.committed) = consNum
              /\ \E x \in U : height(x) = consNum /\ \A y \in U : height(y) >= consNum)
=============================================================================
