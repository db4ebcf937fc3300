--------------------------- MODULE BlockSyncProofs ---------------------------
(***************************************************************************)
(* Theorems about BlockSync, for every number of nodes, every set of       *)
(* blocks, every limit and every packet of a faulty peer.                  *)
(*                                                                         *)
(* ChainInv: the chain of every node is made of sealed blocks, each the    *)
(* child of the one below.  Only two fields of a node matter: its chain,   *)
(* and the block it executes for the download, which isNewBlock has found  *)
(* sealed.  The check of commitBlock has to be made again, because         *)
(* consensus may have stored a block meanwhile.  Of the other fields the   *)
(* proof uses that they exist (Shape).                                     *)
(*                                                                         *)
(* SizeInv: the fields have their types and sizes (Fitting).  A batch is   *)
(* not heavier than a packet may be, so a packet holds at most MaxShard    *)
(* blocks, so the queue passes its limit by less than that.  The requests  *)
(* of a peer are in order and within their number, so that topAndPop       *)
(* merges what belongs together, and the rest of a range that is pushed    *)
(* back has room, unless the P2P threads have filled the queue again.      *)
(***************************************************************************)
EXTENDS BlockSync, SequenceTheorems, FiniteSetTheorems, WellFoundedInduction, TLAPS

Shape(U) ==
    [chain : Seq(Sealed), pc : U, state : U, known : U, peer : [Node -> U], check : U,
     reqs : [Node -> U], client : U, owed : U, batch : U, buffer : U, queue : U,
     exec : Sealed \cup {NoBlock}, maxRequest : U, recent : U, sealing : U, newBlocks : U]

Shaped(s) == \E U : s \in Shape(U)

Linked(c) ==
    \A i \in 1 .. Len(c) :
        number[c[i]] = i /\ parent[c[i]] = IF i = 1 THEN Genesis ELSE c[i - 1]

GoodNode(s) ==
    /\ Shaped(s) /\ Linked(s.chain)
    /\ s.pc = "commit" => s.exec # NoBlock
    /\ s.pc # "pushBack" => s.owed = Nothing

ChainInv ==
    /\ \E U : node \in [Node -> Shape(U)]
    /\ \A n \in Node : GoodNode(node[n])

\* What every operator but commitBlock, TakeTop and Respond leaves alone.
SameChain(s, t) ==
    /\ Shaped(t) /\ t.chain = s.chain /\ t.exec = s.exec /\ t.owed = s.owed
    /\ t.pc = s.pc \/ (s.pc # "pushBack" /\ t.pc \notin {"commit", "pushBack"})

LEMMA SameChainTransitive ==
    ASSUME NEW s, NEW t, NEW u, SameChain(s, t), SameChain(t, u)
    PROVE  SameChain(s, u)
BY DEF SameChain

LEMMA SameChainGood ==
    ASSUME NEW s, NEW t, GoodNode(s), SameChain(s, t)
    PROVE  GoodNode(t)
BY DEF SameChain, GoodNode

LEMMA SelfSame ==
    ASSUME NEW s, Shaped(s)
    PROVE  SameChain(s, s)
BY DEF SameChain

-----------------------------------------------------------------------------
(* The queues and the packet handlers.                                     *)

LEMMA FlushSame ==
    ASSUME NEW s, Shaped(s)
    PROVE  SameChain(s, flushBufferToQueue(s))
<1>1. PICK U : s \in Shape(U)
  BY DEF Shaped
<1> DEFINE V == U \cup {<<>>, allPushed(s)}
           t == flushBufferToQueue(s)
<1>2. t \in Shape(V)
  BY <1>1 DEF flushBufferToQueue, Shape
<1>3. t.chain = s.chain /\ t.exec = s.exec /\ t.owed = s.owed /\ t.pc = s.pc
  BY <1>1 DEF flushBufferToQueue, Shape
<1> QED
  BY <1>2, <1>3 DEF SameChain, Shaped

LEMMA ClearSame ==
    ASSUME NEW s, Shaped(s)
    PROVE  SameChain(s, clear(s))
<1>1. PICK U : s \in Shape(U)
  BY DEF Shaped
<1> DEFINE V == U \cup {<<>>}
           t == clear(s)
<1>2. t \in Shape(V)
  BY <1>1 DEF clear, Shape
<1>3. t.chain = s.chain /\ t.exec = s.exec /\ t.owed = s.owed /\ t.pc = s.pc
  BY <1>1 DEF clear, Shape
<1> QED
  BY <1>2, <1>3 DEF SameChain, Shaped

LEMMA ClearFullSame ==
    ASSUME NEW s, NEW next, Shaped(s)
    PROVE  SameChain(s, clearFullQueueIfNotHas(s, next))
<1>1. PICK U : s \in Shape(U)
  BY DEF Shaped
<1> DEFINE V == U \cup {<<>>}
           t == clearFullQueueIfNotHas(s, next)
<1>2. t \in Shape(V)
  BY <1>1 DEF clearFullQueueIfNotHas, Shape
<1>3. t.chain = s.chain /\ t.exec = s.exec /\ t.owed = s.owed /\ t.pc = s.pc
  BY <1>1 DEF clearFullQueueIfNotHas, Shape
<1> QED
  BY <1>2, <1>3 DEF SameChain, Shaped

LEMMA BufferSame ==
    ASSUME NEW s, Shaped(s)
    PROVE  SameChain(s, maintainDownloadingQueueBuffer(s))
<1> DEFINE t == clearFullQueueIfNotHas(s, Number(s) + 1)
<1>1. SameChain(s, t)
  BY ClearFullSame
<1>2. SameChain(t, flushBufferToQueue(t))
  BY <1>1, FlushSame DEF SameChain
<1>3. SameChain(s, flushBufferToQueue(t))
  BY <1>1, <1>2, SameChainTransitive
<1>4. SameChain(s, clear(s))
  BY ClearSame
<1> QED
  BY <1>3, <1>4 DEF maintainDownloadingQueueBuffer

LEMMA PeerStatusSame ==
    ASSUME NEW s, NEW m, Shaped(s)
    PROVE  SameChain(s, onPeerStatus(s, m))
<1>1. PICK U : s \in Shape(U)
  BY DEF Shaped
<1> DEFINE V == U \cup {m.number}
           t == onPeerStatus(s, m)
<1>2. t \in Shape(V)
  BY <1>1 DEF onPeerStatus, Shape
<1>3. t.chain = s.chain /\ t.exec = s.exec /\ t.owed = s.owed /\ t.pc = s.pc
  BY <1>1 DEF onPeerStatus, Shape
<1> QED
  BY <1>2, <1>3 DEF SameChain, Shaped

LEMMA PeerBlocksSame ==
    ASSUME NEW s, NEW m, Shaped(s)
    PROVE  SameChain(s, onPeerBlocks(s, m))
<1>1. PICK U : s \in Shape(U)
  BY DEF Shaped
<1> DEFINE V == U \cup {Append(s.buffer, m.shard)}
           t == onPeerBlocks(s, m)
<1>2. t \in Shape(V)
  BY <1>1 DEF onPeerBlocks, pushShard, Shape
<1>3. t.chain = s.chain /\ t.exec = s.exec /\ t.owed = s.owed /\ t.pc = s.pc
  BY <1>1 DEF onPeerBlocks, pushShard, Shape
<1> QED
  BY <1>2, <1>3 DEF SameChain, Shaped

LEMMA PeerRequestSame ==
    ASSUME NEW s, NEW m, Shaped(s)
    PROVE  SameChain(s, onPeerRequestBlocks(s, m))
<1>1. PICK U : s \in Shape(U)
  BY DEF Shaped
<1> DEFINE V == U \cup {pushRequest(s.reqs[m.from], m.req)}
           t == onPeerRequestBlocks(s, m)
<1>2. t \in Shape(V)
  BY <1>1 DEF onPeerRequestBlocks, Shape
<1>3. t.chain = s.chain /\ t.exec = s.exec /\ t.owed = s.owed /\ t.pc = s.pc
  BY <1>1 DEF onPeerRequestBlocks, Shape
<1> QED
  BY <1>2, <1>3 DEF SameChain, Shaped

-----------------------------------------------------------------------------
(* The turn of the sync thread.                                            *)

LEMMA PeersSame ==
    ASSUME NEW s, NEW n, Shaped(s)
    PROVE  SameChain(s, maintainPeersConnection(n, s))
<1>1. PICK U : s \in Shape(U)
  BY DEF Shaped
<1> DEFINE check == IF s.state = "Idle" THEN Number(s) # 0 ELSE s.check
           old == IF check THEN Active(n) ELSE Node
           peer == [p \in Node |-> IF p \in Active(n) /\ s.peer[p] = Unknown THEN 0
                                   ELSE IF p \in old THEN s.peer[p] ELSE Unknown]
           reqs == [p \in Node |-> IF p \in old THEN s.reqs[p] ELSE <<>>]
           V == U \cup {check, 0, Unknown, <<>>}
           t == [s EXCEPT !.check = check, !.peer = peer, !.reqs = reqs]
<1>2. maintainPeersConnection(n, s) = t
  BY DEF maintainPeersConnection
<1> HIDE DEF check, old
<1>3. peer \in [Node -> V] /\ reqs \in [Node -> V]
  BY <1>1 DEF Shape
<1> HIDE DEF peer, reqs
<1>4. t \in Shape(V)
  BY <1>1, <1>3 DEF Shape
<1>5. t.chain = s.chain /\ t.exec = s.exec /\ t.owed = s.owed /\ t.pc = s.pc
  BY <1>1 DEF Shape
<1> QED
  BY <1>2, <1>4, <1>5 DEF SameChain, Shaped

LEMMA KnownSame ==
    ASSUME NEW s, Shaped(s)
    PROVE  SameChain(s, Known(s))
<1>1. PICK U : s \in Shape(U)
  BY DEF Shaped
<1> DEFINE V == U \cup {MaxPeer(s), Number(s)}
           t == Known(s)
<1>2. t \in Shape(V)
  BY <1>1 DEF Known, Shape
<1>3. t.chain = s.chain /\ t.exec = s.exec /\ t.owed = s.owed /\ t.pc = s.pc
  BY <1>1 DEF Known, Shape
<1> QED
  BY <1>2, <1>3 DEF SameChain, Shaped

LEMMA PeersStatusSame ==
    ASSUME NEW s, NEW n, Shaped(s), NEW r \in maintainPeersStatus(n, s)
    PROVE  SameChain(s, r.s)
<1>1. PICK U : s \in Shape(U)
  BY DEF Shaped
<1> DEFINE t == [s EXCEPT !.recent = TRUE, !.state = "Downloading"]
           u(x) == [t EXCEPT !.maxRequest = x]
           W == U \cup {TRUE, "Downloading"}
           last == LastMissing(s)
           top(a) == Shard(s, Len(a), last).from + Shard(s, Len(a), last).size - 1
<1>2. \/ r = [s |-> s, out |-> {}]
      \/ r = [s |-> t, out |-> {}]
      \/ \E a \in Assignments(s, last) : r = [s |-> u(top(a)), out |-> Requests(n, s, a, last)]
  BY DEF maintainPeersStatus
<1> HIDE DEF top, last, t, u
<1>3. r.s = s \/ r.s = t \/ \E x : r.s = u(x)
  BY <1>2
<1>4. t \in Shape(W)
  BY <1>1 DEF Shape, t
<1>5. t.chain = s.chain /\ t.exec = s.exec /\ t.owed = s.owed /\ t.pc = s.pc
  BY <1>1 DEF Shape, t
<1> HIDE DEF W
<1>6. ASSUME NEW x
      PROVE  /\ u(x) \in Shape(W \cup {x})
             /\ u(x).chain = t.chain /\ u(x).exec = t.exec /\ u(x).owed = t.owed
             /\ u(x).pc = t.pc
  <2>1. u(x) \in Shape(W \cup {x})
    BY <1>4 DEF Shape, u
  <2>2. /\ u(x).chain = t.chain /\ u(x).exec = t.exec /\ u(x).owed = t.owed
        /\ u(x).pc = t.pc
    BY <1>4 DEF Shape, u
  <2> QED
    BY <2>1, <2>2
<1>7. CASE r.s = s
  BY <1>7, SelfSame
<1>8. CASE r.s = t
  BY <1>4, <1>5, <1>8 DEF SameChain, Shaped
<1>9. ASSUME NEW x, r.s = u(x) PROVE SameChain(s, r.s)
  BY <1>5, <1>6, <1>9 DEF SameChain, Shaped
<1> QED
  BY <1>3, <1>7, <1>8, <1>9

LEMMA AfterBlocksSame ==
    ASSUME NEW s, Shaped(s), s.pc # "pushBack"
    PROVE  SameChain(s, AfterBlocks(s))
<1> DEFINE c == clear(s)
           t1 == [s EXCEPT !.pc = "requests"]
           t2 == [s EXCEPT !.pc = "maintain"]
           t3 == [s EXCEPT !.pc = "top"]
           t4 == [c EXCEPT !.state = "Idle"]
<1>1. PICK U : s \in Shape(U)
  BY DEF Shaped
<1>2. SameChain(s, c)
  BY ClearSame
<1>3. PICK W : c \in Shape(W)
  BY <1>2 DEF SameChain, Shaped
<1>4. AfterBlocks(s) \in {t1, t2, t3, t4}
  BY DEF AfterBlocks
<1> HIDE DEF c
<1>5. SameChain(s, t1)
  <2>1. t1 \in Shape(U \cup {"requests"})
    BY <1>1 DEF Shape
  <2>2. t1.chain = s.chain /\ t1.exec = s.exec /\ t1.owed = s.owed /\ t1.pc = "requests"
    BY <1>1 DEF Shape
  <2> QED
    BY <2>1, <2>2 DEF SameChain, Shaped
<1>6. SameChain(s, t2)
  <2>1. t2 \in Shape(U \cup {"maintain"})
    BY <1>1 DEF Shape
  <2>2. t2.chain = s.chain /\ t2.exec = s.exec /\ t2.owed = s.owed /\ t2.pc = "maintain"
    BY <1>1 DEF Shape
  <2> QED
    BY <2>1, <2>2 DEF SameChain, Shaped
<1>7. SameChain(s, t3)
  <2>1. t3 \in Shape(U \cup {"top"})
    BY <1>1 DEF Shape
  <2>2. t3.chain = s.chain /\ t3.exec = s.exec /\ t3.owed = s.owed /\ t3.pc = "top"
    BY <1>1 DEF Shape
  <2> QED
    BY <2>1, <2>2 DEF SameChain, Shaped
<1>8. SameChain(s, t4)
  <2>1. t4 \in Shape(W \cup {"Idle"})
    BY <1>3 DEF Shape
  <2>2. t4.chain = c.chain /\ t4.exec = c.exec /\ t4.owed = c.owed /\ t4.pc = c.pc
    BY <1>3 DEF Shape
  <2>3. SameChain(c, t4)
    BY <2>1, <2>2 DEF SameChain, Shaped
  <2> QED
    BY <1>2, <2>3, SameChainTransitive
<1> HIDE DEF t1, t2, t3, t4
<1> QED
  BY <1>4, <1>5, <1>6, <1>7, <1>8

LEMMA NewBlocksSame ==
    ASSUME NEW s, NEW x, Shaped(s)
    PROVE  SameChain(s, [s EXCEPT !.newBlocks = x])
<1>1. PICK U : s \in Shape(U)
  BY DEF Shaped
<1> DEFINE V == U \cup {x}
           t == [s EXCEPT !.newBlocks = x]
<1>2. t \in Shape(V)
  BY <1>1 DEF Shape
<1>3. t.chain = s.chain /\ t.exec = s.exec /\ t.owed = s.owed /\ t.pc = s.pc
  BY <1>1 DEF Shape
<1> QED
  BY <1>2, <1>3 DEF SameChain, Shaped

LEMMA RecentSame ==
    ASSUME NEW s, NEW x, Shaped(s)
    PROVE  SameChain(s, [s EXCEPT !.recent = x])
<1>1. PICK U : s \in Shape(U)
  BY DEF Shaped
<1> DEFINE V == U \cup {x}
           t == [s EXCEPT !.recent = x]
<1>2. t \in Shape(V)
  BY <1>1 DEF Shape
<1>3. t.chain = s.chain /\ t.exec = s.exec /\ t.owed = s.owed /\ t.pc = s.pc
  BY <1>1 DEF Shape
<1> QED
  BY <1>2, <1>3 DEF SameChain, Shaped

LEMMA SealingSame ==
    ASSUME NEW s, NEW x, Shaped(s)
    PROVE  SameChain(s, [s EXCEPT !.sealing = x])
<1>1. PICK U : s \in Shape(U)
  BY DEF Shaped
<1> DEFINE V == U \cup {x}
           t == [s EXCEPT !.sealing = x]
<1>2. t \in Shape(V)
  BY <1>1 DEF Shape
<1>3. t.chain = s.chain /\ t.exec = s.exec /\ t.owed = s.owed /\ t.pc = s.pc
  BY <1>1 DEF Shape
<1> QED
  BY <1>2, <1>3 DEF SameChain, Shaped

LEMMA ClientSame ==
    ASSUME NEW s, NEW p, Shaped(s), s.pc # "pushBack"
    PROVE  SameChain(s, [s EXCEPT !.client = p, !.pc = "respond"])
<1>1. PICK U : s \in Shape(U)
  BY DEF Shaped
<1> DEFINE V == U \cup {p, "respond"}
           t == [s EXCEPT !.client = p, !.pc = "respond"]
<1>2. t \in Shape(V)
  BY <1>1 DEF Shape
<1>3. t.chain = s.chain /\ t.exec = s.exec /\ t.owed = s.owed /\ t.pc = "respond"
  BY <1>1 DEF Shape
<1> QED
  BY <1>2, <1>3 DEF SameChain, Shaped

LEMMA QueueSame ==
    ASSUME NEW s, NEW q, Shaped(s)
    PROVE  SameChain(s, [s EXCEPT !.queue = q])
<1>1. PICK U : s \in Shape(U)
  BY DEF Shaped
<1> DEFINE V == U \cup {q}
           t == [s EXCEPT !.queue = q]
<1>2. t \in Shape(V)
  BY <1>1 DEF Shape
<1>3. t.chain = s.chain /\ t.exec = s.exec /\ t.owed = s.owed /\ t.pc = s.pc
  BY <1>1 DEF Shape
<1> QED
  BY <1>2, <1>3 DEF SameChain, Shaped

LEMMA LeaveQueueSame ==
    ASSUME NEW s, Shaped(s), s.pc # "pushBack"
    PROVE  SameChain(s, LeaveQueue(s))
<1>1. PICK U : s \in Shape(U)
  BY DEF Shaped
<1> DEFINE V == U \cup {FALSE, "Idle", "maintain"}
           t == LeaveQueue(s)
<1>2. t \in Shape(V)
  BY <1>1 DEF LeaveQueue, Shape
<1>3. t.chain = s.chain /\ t.exec = s.exec /\ t.owed = s.owed /\ t.pc = "maintain"
  BY <1>1 DEF LeaveQueue, Shape
<1> QED
  BY <1>2, <1>3 DEF SameChain, Shaped

-----------------------------------------------------------------------------
(* Storing a block.                                                        *)

LEMMA CommitBlockGood ==
    ASSUME NEW s, GoodNode(s), NEW b \in Sealed
    PROVE  LET t == commitBlock(s, b)
           IN  /\ Shaped(t) /\ Linked(t.chain) /\ t.exec = s.exec
               /\ t.owed = s.owed /\ t.pc = s.pc
<1> DEFINE c == Append(s.chain, b)
           t == [s EXCEPT !.chain = c, !.newBlocks = TRUE]
<1>1. PICK U : s \in Shape(U)
  BY DEF GoodNode, Shaped
<1>2. s.chain \in Seq(Sealed)
  BY <1>1 DEF Shape
<1>3. /\ c \in Seq(Sealed) /\ Len(c) = Len(s.chain) + 1 /\ Len(s.chain) \in Nat
      /\ c[Len(s.chain) + 1] = b
      /\ \A i \in 1 .. Len(s.chain) : c[i] = s.chain[i]
  BY <1>2, AppendProperties, LenProperties
<1>4. CASE CanCommitBlock(s, b)
  <2>1. number[b] = Len(s.chain) + 1
    BY <1>4 DEF CanCommitBlock, Number
  <2>2. parent[b] = IF Len(s.chain) = 0 THEN Genesis ELSE s.chain[Len(s.chain)]
    <3>1. s.chain = <<>> <=> Len(s.chain) = 0
      BY <1>2, EmptySeq
    <3> QED
      BY <1>4, <3>1 DEF CanCommitBlock, Tip
  <2>3. Linked(c)
    <3> SUFFICES ASSUME NEW i \in 1 .. Len(c)
                 PROVE  number[c[i]] = i /\ parent[c[i]] = IF i = 1 THEN Genesis ELSE c[i - 1]
      BY DEF Linked
    <3>1. CASE i = Len(s.chain) + 1
      <4>1. i # 1 => Len(s.chain) \in 1 .. Len(s.chain) /\ i - 1 = Len(s.chain)
        BY <1>3, <3>1
      <4> QED
        BY <1>3, <2>1, <2>2, <3>1, <4>1
    <3>2. CASE i # Len(s.chain) + 1
      <4>1. i \in 1 .. Len(s.chain) /\ (i # 1 => i - 1 \in 1 .. Len(s.chain))
        BY <1>3, <3>2
      <4> QED
        BY <1>3, <4>1 DEF GoodNode, Linked
    <3> QED
      BY <3>1, <3>2
  <2>4. commitBlock(s, b) = t
    BY <1>4 DEF commitBlock
  <2> HIDE DEF c
  <2>5. t \in Shape(U \cup {TRUE})
    BY <1>1, <1>3 DEF Shape
  <2>6. t.chain = c /\ t.exec = s.exec /\ t.owed = s.owed /\ t.pc = s.pc
    BY <1>1 DEF Shape
  <2> QED
    BY <2>3, <2>4, <2>5, <2>6 DEF Shaped
<1>5. CASE ~ CanCommitBlock(s, b)
  BY <1>5 DEF commitBlock, GoodNode
<1> QED
  BY <1>4, <1>5

-----------------------------------------------------------------------------
(* Steps.                                                                  *)

LEMMA ShapeGrows ==
    ASSUME NEW U, NEW V, U \subseteq V, NEW s \in Shape(U)
    PROVE  s \in Shape(V)
<1>1. s.peer \in [Node -> V] /\ s.reqs \in [Node -> V]
  BY DEF Shape
<1> QED
  BY <1>1 DEF Shape

LEMMA StepGood ==
    ASSUME ChainInv, NEW n \in Node, NEW t, GoodNode(t), node' = [node EXCEPT ![n] = t]
    PROVE  ChainInv'
<1>1. PICK U : node \in [Node -> Shape(U)]
  BY DEF ChainInv
<1>2. PICK V : t \in Shape(V)
  BY DEF GoodNode, Shaped
<1>3. t \in Shape(U \cup V) /\ \A m \in Node : node[m] \in Shape(U \cup V)
  BY <1>1, <1>2, ShapeGrows
<1>4. node' \in [Node -> Shape(U \cup V)]
  BY <1>1, <1>3
<1>5. \A m \in Node : node'[m] = IF m = n THEN t ELSE node[m]
  BY <1>1
<1>6. \A m \in Node : GoodNode(node'[m])
  BY <1>5 DEF ChainInv
<1> QED
  BY <1>4, <1>6 DEF ChainInv

LEMMA StepSame ==
    ASSUME ChainInv, NEW n \in Node, NEW t, SameChain(node[n], t), NEW in, NEW out,
           Step(n, t, in, out)
    PROVE  ChainInv'
<1>1. GoodNode(t)
  BY SameChainGood DEF ChainInv
<1>2. node' = [node EXCEPT ![n] = t]
  BY DEF Step
<1> QED
  BY <1>1, <1>2, StepGood

LEMMA NodeShaped ==
    ASSUME ChainInv, NEW n \in Node
    PROVE  Shaped(node[n]) /\ GoodNode(node[n])
BY DEF ChainInv, GoodNode

LEMMA MaintainKeeps ==
    ASSUME ChainInv, NEW n \in Node, Maintain(n)
    PROVE  ChainInv'
<1> DEFINE s == node[n]
           s1 == maintainPeersConnection(n, s)
           s2 == maintainDownloadingQueueBuffer(s1)
           s3 == Known(s2)
           s4(r) == [r.s EXCEPT !.newBlocks = FALSE]
           told == {Status(n, p) : p \in IF s.newBlocks THEN {q \in Node : s2.peer[q] # Unknown}
                                                        ELSE NewPeers(n)}
<1>1. PICK r \in maintainPeersStatus(n, s3) : Step(n, AfterBlocks(s4(r)), {}, r.out \cup told)
  BY DEF Maintain
<1>2. Shaped(s) /\ s.pc = "maintain"
  BY NodeShaped DEF Maintain, At
<1> HIDE DEF told
<1>3. SameChain(s, s1)
  BY <1>2, PeersSame
<1> HIDE DEF s1
<1>4. SameChain(s1, s2)
  BY <1>3, BufferSame DEF SameChain
<1> HIDE DEF s2
<1>5. SameChain(s2, s3)
  BY <1>4, KnownSame DEF SameChain
<1> HIDE DEF s3
<1>6. SameChain(s3, r.s)
  BY <1>1, <1>5, PeersStatusSame DEF SameChain
<1>7. SameChain(r.s, s4(r))
  BY <1>6, NewBlocksSame DEF SameChain
<1> HIDE DEF s4
<1>8. SameChain(s4(r), AfterBlocks(s4(r)))
  <2>1. s4(r).pc # "pushBack"
    BY <1>2, <1>3, <1>4, <1>5, <1>6, <1>7 DEF SameChain
  <2> QED
    BY <1>7, <2>1, AfterBlocksSame DEF SameChain
<1>9. SameChain(s, AfterBlocks(s4(r)))
  BY <1>3, <1>4, <1>5, <1>6, <1>7, <1>8 DEF SameChain
<1> QED
  BY <1>1, <1>9, StepSame

LEMMA RespondKeeps ==
    ASSUME ChainInv, NEW n \in Node, NEW reqs, NEW owed, NEW sent, NEW next,
           Respond(n, reqs, owed, sent, next), next # "commit",
           next = "pushBack" \/ owed = Nothing
    PROVE  ChainInv'
<1> DEFINE s == node[n]
           batch == IF next = "maintain" THEN <<>> ELSE sent.batch
           t == [s EXCEPT !.reqs[s.client] = reqs, !.owed = owed, !.batch = batch, !.pc = next]
<1>1. PICK out : Step(n, t, {}, out)
  BY DEF Respond
<1>2. GoodNode(s)
  BY NodeShaped
<1> HIDE DEF batch
<1>3. PICK U : s \in Shape(U)
  BY <1>2 DEF GoodNode, Shaped
<1>4. t \in Shape(U \cup {reqs, owed, batch, next})
  BY <1>3 DEF Shape
<1>5. t.chain = s.chain /\ t.owed = owed /\ t.pc = next
  BY <1>3 DEF Shape
<1>6. node' = [node EXCEPT ![n] = t]
  BY <1>1 DEF Step
<1> HIDE DEF t
<1>7. GoodNode(t)
  BY <1>2, <1>4, <1>5 DEF GoodNode, Shaped
<1> QED
  BY <1>6, <1>7, StepGood

LEMMA RespondRangeKeeps ==
    ASSUME ChainInv, NEW n \in Node, NEW k, RespondRange(n, k)
    PROVE  ChainInv'
<1>1. \E reqs, owed, sent, next :
        /\ Respond(n, reqs, owed, sent, next) /\ next # "commit"
        /\ next = "pushBack" \/ owed = Nothing
  <2> DEFINE s == node[n]
             top == topAndPop(s.reqs[s.client])
             sent == batched(s, top.range.from, k)
             rest == unsent(top.range, k)
             next == IF top.rest = <<>> THEN "maintain" ELSE "respondMore"
  <2>1. \/ Respond(n, s.reqs[s.client], Nothing, sent, "maintain")
        \/ Respond(n, top.rest, rest, sent, "pushBack")
        \/ Respond(n, top.rest, Nothing, sent, next)
    BY DEF RespondRange
  <2>2. next # "commit"
    OBVIOUS
  <2> HIDE DEF top, sent, rest, next
  <2> QED
    BY <2>1, <2>2
<1> QED
  BY <1>1, RespondKeeps

LEMMA PushBackKeeps ==
    ASSUME ChainInv, NEW n \in Node, PushBack(n)
    PROVE  ChainInv'
<1>1. \E reqs, sent : Respond(n, reqs, Nothing, sent, "maintain")
  BY DEF PushBack
<1> QED
  BY <1>1, RespondKeeps

LEMMA TakeTopKeeps ==
    ASSUME ChainInv, NEW n \in Node, NEW b \in Block, TakeTop(n, b)
    PROVE  ChainInv'
<1> DEFINE s == node[n]
           t == [s EXCEPT !.exec = b, !.pc = "commit"]
           q == RemoveFirst(s.queue, b)
<1>1. Shaped(s) /\ GoodNode(s) /\ s.pc = "top"
  BY NodeShaped DEF TakeTop, At
<1>2. PICK U : s \in Shape(U)
  BY <1>1 DEF Shaped
<1>3. CASE isNewBlock(s, b)
  <2>1. Step(n, t, {}, {}) /\ b \in Sealed
    BY <1>3 DEF TakeTop, isNewBlock
  <2>2. t \in Shape(U \cup {"commit"})
    BY <1>2, <2>1 DEF Shape
  <2>3. t.chain = s.chain /\ t.exec = b /\ t.owed = s.owed
    BY <1>2 DEF Shape
  <2>4. b # NoBlock
    BY <2>1, SyncBlockAssumption
  <2>5. GoodNode(t)
    BY <1>1, <2>2, <2>3, <2>4 DEF GoodNode, Shaped
  <2>6. node' = [node EXCEPT ![n] = t]
    BY <2>1 DEF Step
  <2> HIDE DEF t
  <2> QED
    BY <2>5, <2>6, StepGood
<1>4. CASE ~ isNewBlock(s, b)
  <2>1. Step(n, [s EXCEPT !.queue = q], {}, {})
    BY <1>4 DEF TakeTop
  <2> HIDE DEF q
  <2>2. SameChain(s, [s EXCEPT !.queue = q])
    BY <1>1, QueueSame
  <2> QED
    BY <2>1, <2>2, StepSame
<1> QED
  BY <1>3, <1>4

LEMMA CommitTopKeeps ==
    ASSUME ChainInv, NEW n \in Node, CommitTop(n)
    PROVE  ChainInv'
<1> DEFINE s == node[n]
           c == commitBlock(s, s.exec)
           q == RemoveFirst(c.queue, s.exec)
           t == [c EXCEPT !.queue = q, !.exec = NoBlock, !.pc = "top"]
<1>1. Step(n, t, {}, {}) /\ s.pc = "commit"
  BY DEF CommitTop, At
<1>2. GoodNode(s)
  BY NodeShaped
<1>3. s.exec \in Sealed
  <2>1. PICK U : s \in Shape(U)
    BY <1>2 DEF GoodNode, Shaped
  <2>2. s.exec \in Sealed \cup {NoBlock}
    BY <2>1 DEF Shape
  <2> QED
    BY <1>1, <1>2, <2>2 DEF GoodNode
<1>4. Shaped(c) /\ Linked(c.chain) /\ c.owed = Nothing
  <2>1. s.owed = Nothing
    BY <1>1, <1>2 DEF GoodNode
  <2> QED
    BY <1>2, <1>3, <2>1, CommitBlockGood
<1> HIDE DEF c, q
<1>5. PICK V : c \in Shape(V)
  BY <1>4 DEF Shaped
<1>6. t \in Shape(V \cup {q, "top"})
  BY <1>5 DEF Shape
<1>7. t.chain = c.chain /\ t.owed = c.owed /\ t.pc = "top"
  BY <1>5 DEF Shape
<1>8. GoodNode(t)
  BY <1>4, <1>6, <1>7 DEF GoodNode, Shaped
<1>9. node' = [node EXCEPT ![n] = t]
  BY <1>1 DEF Step
<1> HIDE DEF t
<1> QED
  BY <1>8, <1>9, StepGood

LEMMA DoWorkKeeps ==
    ASSUME ChainInv, NEW n \in Node, DoWork(n)
    PROVE  ChainInv'
<1>1. Shaped(node[n])
  BY NodeShaped
<1>2. CASE Maintain(n)
  BY <1>2, MaintainKeeps
<1>3. ASSUME NEW p \in Node, ChooseClient(n, p) PROVE ChainInv'
  <2>1. Step(n, [node[n] EXCEPT !.client = p, !.pc = "respond"], {}, {}) /\ node[n].pc = "requests"
    BY <1>3 DEF ChooseClient, At
  <2> QED
    BY <1>1, <2>1, ClientSame, StepSame
<1>4. ASSUME NEW k, RespondRange(n, k) PROVE ChainInv'
  BY <1>4, RespondRangeKeeps
<1>5. ASSUME NEW b \in Block, TakeTop(n, b) PROVE ChainInv'
  BY <1>5, TakeTopKeeps
<1>6. CASE CommitTop(n)
  BY <1>6, CommitTopKeeps
<1>7. CASE EndOfQueue(n)
  BY <1>1, <1>7, LeaveQueueSame, StepSame DEF EndOfQueue, At
<1>8. CASE PushBack(n)
  BY <1>8, PushBackKeeps
<1> QED
  BY <1>2, <1>3, <1>4, <1>5, <1>6, <1>7, <1>8 DEF DoWork

LEMMA StoreBlockKeeps ==
    ASSUME ChainInv, NEW n \in Node, StoreBlock(n)
    PROVE  ChainInv'
<1>1. PICK b \in Sealed : Step(n, commitBlock(node[n], b), {}, {})
  BY DEF StoreBlock
<1> DEFINE t == commitBlock(node[n], b)
<1>2. GoodNode(node[n])
  BY NodeShaped
<1>3. /\ Shaped(t) /\ Linked(t.chain) /\ t.exec = node[n].exec
      /\ t.owed = node[n].owed /\ t.pc = node[n].pc
  BY <1>2, CommitBlockGood
<1>4. GoodNode(t)
  BY <1>2, <1>3 DEF GoodNode
<1>5. node' = [node EXCEPT ![n] = t]
  BY <1>1 DEF Step
<1> HIDE DEF t
<1> QED
  BY <1>4, <1>5, StepGood

LEMMA DeliverKeeps ==
    ASSUME ChainInv, NEW n \in Node, Deliver(n)
    PROVE  ChainInv'
<1> DEFINE s == node[n]
           after(m) == IF ~ Admitted(s, m) THEN s
                       ELSE CASE m.type = "status" -> onPeerStatus(s, m)
                              [] m.type = "blocks" -> onPeerBlocks(s, m)
                              [] m.type = "request" -> onPeerRequestBlocks(s, m)
                              [] OTHER -> s
<1>1. PICK m \in DOMAIN net : m.to = n /\ messageHandler(m)
  BY DEF Deliver
<1>2. Step(n, after(m), {m}, {})
  BY <1>1 DEF messageHandler
<1>3. Shaped(s)
  BY NodeShaped
<1>4. SameChain(s, s) /\ SameChain(s, onPeerStatus(s, m)) /\ SameChain(s, onPeerBlocks(s, m))
      /\ SameChain(s, onPeerRequestBlocks(s, m))
  BY <1>3, SelfSame, PeerStatusSame, PeerBlocksSame, PeerRequestSame
<1>5. SameChain(s, after(m))
  BY <1>4
<1> HIDE DEF after
<1> QED
  BY <1>2, <1>5, StepSame

-----------------------------------------------------------------------------
(* The theorem.                                                            *)

LEMMA InitChainInv == Init => ChainInv
<1> SUFFICES ASSUME Init PROVE ChainInv
  OBVIOUS
<1> DEFINE met(n) == [p \in Node |-> IF n \in Met /\ <<n, p>> \in Link THEN Len(Start[p])
                                                                     ELSE Unknown]
           none == [p \in Node |-> <<>>]
           s(n) == [chain |-> Start[n], pc |-> "maintain", state |-> "Idle", known |-> 0,
                    peer |-> met(n), check |-> TRUE, reqs |-> none, client |-> n,
                    owed |-> Nothing, batch |-> <<>>, buffer |-> <<>>, queue |-> <<>>,
                    exec |-> NoBlock,
                    maxRequest |-> 0, recent |-> FALSE, sealing |-> Len(Start[n]),
                    newBlocks |-> FALSE]
           U == {"maintain", "Idle", TRUE, FALSE, <<>>, Nothing} \cup Int
<1>1. node = [n \in Node |-> s(n)]
  BY DEF Init
<1>2. \A n \in Node : Start[n] \in Seq(Sealed) /\ Len(Start[n]) \in Nat /\ Linked(Start[n])
  BY SyncStartAssumption, LenProperties DEF Linked
<1>3. \A n \in Node : met(n) \in [Node -> U]
  BY <1>2 DEF Unknown
<1>4. none \in [Node -> U]
  OBVIOUS
<1>5. Node \subseteq Int
  BY SyncSizeAssumption DEF Node
<1>6. \A n \in Node : s(n) \in Shape(U)
  <2> SUFFICES ASSUME NEW n \in Node PROVE s(n) \in Shape(U)
    OBVIOUS
  <2>1. "maintain" \in U /\ "Idle" \in U /\ <<>> \in U /\ 0 \in U /\ Nothing \in U
    OBVIOUS
  <2>2. TRUE \in U /\ FALSE \in U
    OBVIOUS
  <2>3. n \in U /\ Len(Start[n]) \in U
    <3>1. n \in Int /\ Len(Start[n]) \in Int
      BY <1>2, <1>5
    <3> QED
      BY <3>1, Zenon
  <2>4. met(n) \in [Node -> U] /\ none \in [Node -> U] /\ Start[n] \in Seq(Sealed)
    BY <1>2, <1>3, <1>4
  <2> HIDE DEF U, met, none
  <2> QED
    BY <2>1, <2>2, <2>3, <2>4 DEF Shape
<1>7. \A n \in Node : GoodNode(s(n))
  BY <1>2, <1>6 DEF GoodNode, Shaped
<1> HIDE DEF s, U
<1>8. node \in [Node -> Shape(U)] /\ \A n \in Node : node[n] = s(n)
  BY <1>1, <1>6
<1> QED
  BY <1>7, <1>8 DEF ChainInv

LEMMA NextChainInv ==
    ASSUME ChainInv, [Next]_vars
    PROVE  ChainInv'
<1>1. CASE UNCHANGED node
  BY <1>1 DEF ChainInv
<1>2. ASSUME NEW n \in Node, DoWork(n) PROVE ChainInv'
  BY <1>2, DoWorkKeeps
<1>3. ASSUME NEW n \in Node, ExecBlock(n) \/ GiveUpBlock(n) PROVE ChainInv'
  <2>1. PICK x : Step(n, [node[n] EXCEPT !.sealing = x], {}, {})
    BY <1>3 DEF ExecBlock, GiveUpBlock
  <2> QED
    BY <2>1, NodeShaped, SealingSame, StepSame
<1>4. ASSUME NEW n \in Node, StoreBlock(n) PROVE ChainInv'
  BY <1>4, StoreBlockKeeps
<1>5. ASSUME NEW n \in Node, StatusTimeout(n) PROVE ChainInv'
  <2>1. Step(n, [node[n] EXCEPT !.newBlocks = TRUE], {}, {})
    BY <1>5 DEF StatusTimeout
  <2> QED
    BY <2>1, NodeShaped, NewBlocksSame, StepSame
<1>6. ASSUME NEW n \in Node, RequestTimeout(n) \/ LateTimeout(n) PROVE ChainInv'
  <2>1. Step(n, [node[n] EXCEPT !.recent = FALSE], {}, {})
    BY <1>6 DEF RequestTimeout, LateTimeout
  <2> QED
    BY <2>1, NodeShaped, RecentSame, StepSame
<1>7. ASSUME NEW n \in Node, Deliver(n) PROVE ChainInv'
  BY <1>7, DeliverKeeps
<1>8. ASSUME NEW n \in Node, Leave(n) PROVE ChainInv'
  BY <1>1, <1>8 DEF Leave
<1>9. ASSUME NEW m \in DOMAIN net, Lose(m) PROVE ChainInv'
  BY <1>1, <1>9 DEF Lose
<1> QED
  BY <1>1, <1>2, <1>3, <1>4, <1>5, <1>6, <1>7, <1>8, <1>9 DEF Next, vars

\* Whatever arrives late, twice, out of order or from a faulty peer: the chain of every
\* node is made of sealed blocks, each the child of the one below.
THEOREM SyncChainIsSealed == Spec => []ChainIsSealed
<1>1. ChainInv => ChainIsSealed
  <2> SUFFICES ASSUME ChainInv, NEW n \in Node, NEW i \in 1 .. Number(node[n])
               PROVE  LET b == node[n].chain[i]
                      IN  /\ b \in Sealed /\ number[b] = i
                          /\ parent[b] = IF i = 1 THEN Genesis ELSE node[n].chain[i - 1]
    BY DEF ChainIsSealed
  <2>1. GoodNode(node[n])
    BY NodeShaped
  <2>2. PICK U : node[n] \in Shape(U)
    BY <2>1 DEF GoodNode, Shaped
  <2>3. node[n].chain \in Seq(Sealed)
    BY <2>2 DEF Shape
  <2>4. node[n].chain[i] \in Sealed
    BY <2>3, ElementOfSeq DEF Number
  <2> QED
    BY <2>1, <2>4 DEF GoodNode, Linked, Number
<1>2. ChainInv /\ [Next]_vars => ChainInv'
  BY NextChainInv
<1> QED
  BY InitChainInv, <1>1, <1>2, PTL DEF Spec

-----------------------------------------------------------------------------
(* Induction over numbers, from the well-foundedness of <.                 *)

LEMMA LeastNumber ==
    ASSUME NEW S \in SUBSET Nat, S # {}
    PROVE  \E m \in S : \A k \in S : m <= k
<1>1. PICK x \in S : \A y \in S : <<y, x>> \notin OpToRel(<, Nat)
  BY NatLessThanWellFounded, WFMin, Zenon
<1>2. ASSUME NEW y \in S
      PROVE  x <= y
  <2>1. <<y, x>> \notin OpToRel(<, Nat)
    BY <1>1
  <2>2. ~ (y < x)
    BY <2>1, Zenon DEF OpToRel
  <2> QED
    BY <2>2
<1> QED
  BY <1>2

LEMMA Induction ==
    ASSUME NEW S, 0 \in S, \A n \in Nat : n \in S => n + 1 \in S
    PROVE  Nat \subseteq S
<1> SUFFICES ASSUME Nat \ S # {}
             PROVE  FALSE
  OBVIOUS
<1>1. PICK m \in Nat \ S : \A k \in Nat \ S : m <= k
  BY LeastNumber
<1>2. m - 1 \in Nat /\ m - 1 \in S
  BY <1>1
<1> QED
  BY <1>1, <1>2

\* A function is defined by its first value and by how each value follows from the last one.
Follows(f, S, n, a, F) ==
    f \in [0 .. n -> S] /\ f[0] = a /\ \A i \in 1 .. n : f[i] = F[i][f[i - 1]]

LEMMA Recursion ==
    ASSUME NEW S, NEW n \in Nat, NEW a \in S, NEW F \in [1 .. n -> [S -> S]]
    PROVE  \E f : Follows(f, S, n, a, F)
<1> DEFINE Upto(k) == \E f : Follows(f, S, k, a, F)
           D == {k \in Nat : k <= n => Upto(k)}
<1>1. 0 \in D
  <2> DEFINE f == [i \in 0 .. 0 |-> a]
  <2>1. f \in [0 .. 0 -> S] /\ f[0] = a /\ \A i \in 1 .. 0 : f[i] = F[i][f[i - 1]]
    OBVIOUS
  <2>2. Upto(0)
    BY <2>1 DEF Follows
  <2> QED
    BY <2>2
<1>2. ASSUME NEW k \in Nat, k \in D PROVE k + 1 \in D
  <2> SUFFICES ASSUME k + 1 <= n PROVE Upto(k + 1)
    OBVIOUS
  <2>1. PICK f : Follows(f, S, k, a, F)
    BY <1>2
  <2> f \in [0 .. k -> S] /\ f[0] = a /\ \A i \in 1 .. k : f[i] = F[i][f[i - 1]]
    BY <2>1 DEF Follows
  <2>2. F[k + 1][f[k]] \in S
    <3>1. f[k] \in S /\ k + 1 \in 1 .. n
      OBVIOUS
    <3> QED
      BY <3>1
  <2> DEFINE x == F[k + 1][f[k]]
             g == [i \in 0 .. k + 1 |-> IF i = k + 1 THEN x ELSE f[i]]
  <2> HIDE DEF x
  <2>3. g \in [0 .. k + 1 -> S] /\ g[0] = a
    BY <2>1, <2>2 DEF x
  <2>4. ASSUME NEW i \in 1 .. k + 1 PROVE g[i] = F[i][g[i - 1]]
    <3>1. CASE i = k + 1
      <4>1. g[i] = x /\ g[i - 1] = f[k]
        BY <3>1
      <4> QED
        BY <3>1, <4>1 DEF x
    <3>2. CASE i # k + 1
      <4>1. i \in 1 .. k /\ g[i] = f[i] /\ g[i - 1] = f[i - 1]
        BY <3>2
      <4> QED
        BY <2>1, <4>1
    <3> QED
      BY <3>1, <3>2
  <2> HIDE DEF g
  <2> QED
    BY <2>3, <2>4 DEF Follows
<1> HIDE DEF D, Upto
<1>3. Nat \subseteq D
  BY <1>1, <1>2, Induction
<1>4. n \in D
  BY <1>3
<1>5. Upto(n)
  BY <1>4 DEF D
<1> QED
  BY <1>5, Zenon DEF Upto

-----------------------------------------------------------------------------
(* The queues.                                                             *)

\* t is q with e behind its first k elements.
Inserted(t, q, k, e) ==
    \A i \in 1 .. Len(q) + 1 :
        t[i] = IF i <= k THEN q[i] ELSE IF i = k + 1 THEN e ELSE q[i - 1]

LEMMA InsertAtFacts ==
    ASSUME NEW T, NEW q \in Seq(T), NEW e \in T, NEW k \in 0 .. Len(q)
    PROVE  LET t == InsertAt(q, k + 1, e)
           IN  t \in Seq(T) /\ Len(t) = Len(q) + 1 /\ Inserted(t, q, k, e)
<1>1. SubSeq(q, 1, k) \in Seq(T) /\ Len(SubSeq(q, 1, k)) = k
  BY SubSeqProperties
<1>2. SubSeq(q, k + 1, Len(q)) \in Seq(T) /\ Len(SubSeq(q, k + 1, Len(q))) = Len(q) - k
  BY SubSeqProperties
<1>3. <<e>> \in Seq(T) /\ Len(<<e>>) = 1
  OBVIOUS
<1> DEFINE u == SubSeq(q, 1, k) \o <<e>>
           v == SubSeq(q, k + 1, Len(q))
<1>4. u \in Seq(T) /\ Len(u) = k + 1
  BY <1>1, <1>3, ConcatProperties
<1>5. v \in Seq(T) /\ Len(v) = Len(q) - k
  BY <1>2
<1>6. (k + 1) - 1 = k /\ (k + 1) + (Len(q) - k) = Len(q) + 1
  OBVIOUS
<1>7. InsertAt(q, k + 1, e) = u \o v
  BY <1>6, Zenon DEF InsertAt
<1> HIDE DEF u, v
<1>8. u \o v \in Seq(T) /\ Len(u \o v) = Len(u) + Len(v)
  BY <1>4, <1>5, ConcatProperties, Zenon
<1>9. /\ \A i \in 1 .. Len(u) : (u \o v)[i] = u[i]
      /\ \A i \in Len(u) + 1 .. Len(u) + Len(v) : (u \o v)[i] = v[i - Len(u)]
  BY <1>4, <1>5, ConcatProperties
<1>10. \A i \in 1 .. k + 1 : u[i] = IF i <= k THEN q[i] ELSE e
  <2>1. \A i \in 1 .. k : SubSeq(q, 1, k)[i] = q[i]
    BY SubSeqProperties
  <2> QED
    BY <1>1, <1>3, <2>1, ConcatProperties DEF u
<1>11. \A i \in 1 .. Len(q) - k : v[i] = q[k + i]
  BY SubSeqProperties DEF v
<1>12. ASSUME NEW i \in 1 .. Len(q) + 1
       PROVE  (u \o v)[i] = IF i <= k THEN q[i] ELSE IF i = k + 1 THEN e ELSE q[i - 1]
  <2>1. CASE i <= k + 1
    BY <1>4, <1>9, <1>10, <2>1
  <2>2. CASE ~(i <= k + 1)
    <3>1. i \in Len(u) + 1 .. Len(u) + Len(v) /\ i - Len(u) = i - (k + 1)
      BY <1>4, <1>5, <2>2
    <3>2. (u \o v)[i] = v[i - (k + 1)]
      BY <1>9, <3>1
    <3>3. i - (k + 1) \in 1 .. Len(q) - k /\ k + (i - (k + 1)) = i - 1
      BY <2>2
    <3> QED
      BY <1>11, <2>2, <3>2, <3>3
  <2> QED
    BY <2>1, <2>2
<1>13. Inserted(u \o v, q, k, e)
  BY <1>12 DEF Inserted
<1> QED
  BY <1>4, <1>5, <1>6, <1>7, <1>8, <1>13

\* How many positions of a sequence there are with a property.
LEMMA PositionCount ==
    ASSUME NEW T, NEW q \in Seq(T), NEW I \in SUBSET DOMAIN q
    PROVE  Cardinality(I) \in 0 .. Len(q)
<1>1. DOMAIN q = 1 .. Len(q) /\ Len(q) \in Nat
  OBVIOUS
<1>2. IsFiniteSet(1 .. Len(q)) /\ Cardinality(1 .. Len(q)) = Len(q)
  <2>1. IsFiniteSet(1 .. Len(q)) /\ Cardinality(1 .. Len(q)) = IF 1 > Len(q) THEN 0 ELSE Len(q) - 1 + 1
    <3>1. 1 \in Int /\ Len(q) \in Int
      BY <1>1
    <3> QED
      BY <3>1, FS_Interval, Zenon
  <2> QED
    BY <1>1, <2>1
<1>3. IsFiniteSet(I) /\ Cardinality(I) <= Len(q)
  BY <1>1, <1>2, FS_Subset
<1> QED
  BY <1>3, FS_CardinalityType

LEMMA PushBlock ==
    ASSUME NEW q \in Seq(Block), NEW b \in Block
    PROVE  pushBlock(q, b) \in Seq(Block) /\ Len(pushBlock(q, b)) = Len(q) + 1
<1> DEFINE I == {i \in DOMAIN q : number[q[i]] <= number[b]}
<1>1. Cardinality(I) \in 0 .. Len(q)
  BY PositionCount
<1> QED
  BY <1>1, InsertAtFacts DEF pushBlock

LEMMA NewerPushed ==
    ASSUME NEW s, NEW q \in Seq(Block), NEW shard \in Seq(Block)
    PROVE  /\ newerPushed(s, q, shard) \in Seq(Block)
           /\ Len(newerPushed(s, q, shard)) <= Len(q) + Len(shard)
<1> DEFINE n == Len(shard)
           G(x, i) == IF number[shard[i]] > Number(s) THEN pushBlock(x, shard[i]) ELSE x
           P(f) == f = [i \in 0 .. n |-> IF i = 0 THEN q ELSE G(f[i - 1], i)]
           F == [i \in 1 .. n |-> [x \in Seq(Block) |-> G(x, i)]]
           after == CHOOSE f : P(f)
<1>1. n \in Nat /\ \A i \in 1 .. n : shard[i] \in Block
  OBVIOUS
<1>2. \A x \in Seq(Block), i \in 1 .. n :
            G(x, i) \in Seq(Block) /\ Len(G(x, i)) <= Len(x) + 1
  <2> TAKE x \in Seq(Block), i \in 1 .. n
  <2>1. shard[i] \in Block /\ Len(x) \in Nat
    BY <1>1
  <2>2. pushBlock(x, shard[i]) \in Seq(Block) /\ Len(pushBlock(x, shard[i])) = Len(x) + 1
    BY <2>1, PushBlock
  <2>3. G(x, i) = x \/ G(x, i) = pushBlock(x, shard[i])
    OBVIOUS
  <2> HIDE DEF G
  <2> QED
    BY <2>1, <2>2, <2>3
<1> HIDE DEF G, n
<1>3. F \in [1 .. n -> [Seq(Block) -> Seq(Block)]]
  BY <1>2
<1>4. PICK f : Follows(f, Seq(Block), n, q, F)
  <2> HIDE DEF F
  <2> QED
    BY <1>1, <1>3, Recursion
<1> f \in [0 .. n -> Seq(Block)] /\ f[0] = q /\ \A i \in 1 .. n : f[i] = F[i][f[i - 1]]
  BY <1>4 DEF Follows
<1>5. P(f)
  <2>1. \A i \in 1 .. n : f[i] = G(f[i - 1], i)
    <3> TAKE i \in 1 .. n
    <3>1. f[i - 1] \in Seq(Block)
      BY <1>1
    <3> QED
      BY <1>4, <3>1
  <2>2. \A i \in 0 .. n : f[i] = IF i = 0 THEN q ELSE G(f[i - 1], i)
    BY <1>1, <1>4, <2>1
  <2>3. f = [i \in 0 .. n |-> f[i]]
    BY <1>1
  <2> QED
    BY <2>2, <2>3
<1>6. P(after)
  BY <1>5, Zenon
<1>7. newerPushed(s, q, shard) = after[n]
  BY Zenon DEF newerPushed, G, n
<1> HIDE DEF after, F
<1>8. \A i \in 0 .. n : after[i] = IF i = 0 THEN q ELSE G(after[i - 1], i)
  BY <1>6, Zenon
<1> DEFINE D == {i \in Nat : i <= n => after[i] \in Seq(Block) /\ Len(after[i]) <= Len(q) + i}
<1>9. 0 \in D
  BY <1>1, <1>8
<1>10. ASSUME NEW i \in Nat, i \in D PROVE i + 1 \in D
  <2> SUFFICES ASSUME i + 1 <= n
               PROVE  after[i + 1] \in Seq(Block) /\ Len(after[i + 1]) <= Len(q) + (i + 1)
    OBVIOUS
  <2>1. after[i] \in Seq(Block) /\ Len(after[i]) <= Len(q) + i
    BY <1>1, <1>10
  <2>2. i + 1 \in 1 .. n /\ i + 1 \in 0 .. n /\ (i + 1) - 1 = i
    BY <1>1
  <2>3. after[i + 1] = G(after[i], i + 1)
    BY <1>8, <2>2
  <2> HIDE DEF P
  <2>4. G(after[i], i + 1) \in Seq(Block) /\ Len(G(after[i], i + 1)) <= Len(after[i]) + 1
    BY <1>2, <2>1, <2>2
  <2> QED
    BY <2>1, <2>3, <2>4
<1> HIDE DEF D
<1>11. n \in D
  BY <1>1, <1>9, <1>10, Induction
<1> QED
  BY <1>1, <1>7, <1>11 DEF D, n

-----------------------------------------------------------------------------
(* The sizes.                                                              *)

LEMMA FiniteMax ==
    ASSUME NEW S \in SUBSET Int, IsFiniteSet(S), S # {}
    PROVE  \E m \in S : \A x \in S : m >= x
<1>1. PICK n \in Nat : ExistsBijection(1 .. n, S)
  <2>1. Cardinality(S) \in Nat /\ ExistsBijection(1 .. Cardinality(S), S)
    BY FS_CardinalityType, FS_Bijection, Zenon
  <2> QED
    BY <2>1, Zenon
<1>2. PICK f \in [1 .. n -> S] : \A x \in S : \E i \in 1 .. n : f[i] = x
  <2>1. PICK f \in Bijection(1 .. n, S) : TRUE
    BY <1>1 DEF ExistsBijection
  <2>2. f \in [1 .. n -> S] /\ \A x \in S : \E i \in 1 .. n : f[i] = x
    BY <2>1 DEF Bijection, Surjection, Injection
  <2> QED
    BY <2>2
<1> DEFINE Top(k) == \E m \in S : \A i \in 1 .. k : m >= f[i]
           D == {k \in Nat : k <= n => Top(k)}
<1>3. 0 \in D
  <2>1. PICK m \in S : TRUE
    OBVIOUS
  <2>2. \A i \in 1 .. 0 : m >= f[i]
    OBVIOUS
  <2> QED
    BY <2>2
<1>4. ASSUME NEW k \in Nat, k \in D PROVE k + 1 \in D
  <2> SUFFICES ASSUME k + 1 <= n PROVE Top(k + 1)
    OBVIOUS
  <2>1. PICK m \in S : \A i \in 1 .. k : m >= f[i]
    BY <1>4
  <2> DEFINE e == f[k + 1]
  <2>2. e \in S
    OBVIOUS
  <2>3. CASE m >= e
    <3>1. \A i \in 1 .. k + 1 : m >= f[i]
      <4> TAKE i \in 1 .. k + 1
      <4>1. i \in 1 .. k \/ i = k + 1
        OBVIOUS
      <4> QED
        BY <2>1, <2>3, <4>1
    <3> QED
      BY <3>1
  <2>4. CASE ~ (m >= e)
    <3>1. \A i \in 1 .. k + 1 : e >= f[i]
      <4> TAKE i \in 1 .. k + 1
      <4>1. i \in 1 .. k \/ i = k + 1
        OBVIOUS
      <4>2. f[i] \in Int /\ e \in Int /\ m \in Int
        <5>1. i \in 1 .. n
          OBVIOUS
        <5>2. f[i] \in S
          BY <5>1
        <5> QED
          BY <2>2, <5>2
      <4> HIDE DEF e
      <4>3. CASE i \in 1 .. k
        BY <2>1, <2>4, <4>2, <4>3
      <4>4. CASE i = k + 1
        BY <4>2, <4>4 DEF e
      <4> QED
        BY <4>1, <4>3, <4>4
    <3> HIDE DEF e
    <3> QED
      BY <2>2, <3>1
  <2> QED
    BY <2>3, <2>4
<1> HIDE DEF D, Top
<1>5. n \in D
  BY <1>3, <1>4, Induction
<1>6. Top(n)
  BY <1>5 DEF D
<1>7. PICK m \in S : \A i \in 1 .. n : m >= f[i]
  BY <1>6 DEF Top
<1>8. \A x \in S : m >= x
  <2> TAKE x \in S
  <2>1. PICK i \in 1 .. n : f[i] = x
    BY <1>2
  <2> QED
    BY <1>7, <2>1
<1> QED
  BY <1>8

LEMMA MaxShardFacts ==
    /\ MaxShard \in Nat /\ 1 <= MaxShard /\ MaxPayload <= MaxShard
    /\ \A m \in Stray : m.shard \in Seq(Block) /\ Len(m.shard) <= MaxShard
<1> DEFINE L == {Len(m.shard) : m \in Stray}
           S == {1, MaxPayload} \cup L
<1>1. \A m \in Stray : m.shard \in Seq(Block)
  BY SyncStartAssumption DEF Packet
<1>2. \A m \in Stray : Len(m.shard) \in Nat
  BY <1>1
<1>3. MaxPayload \in Nat /\ MaxPayload \in Int
  BY SyncSizeAssumption
<1>4. IsFiniteSet(L)
  <2>1. IsFiniteSet(Stray)
    BY SyncStartAssumption
  <2> DEFINE f == [m \in Stray |-> Len(m.shard)]
  <2>2. f \in Surjection(Stray, L)
    BY DEF Surjection
  <2> HIDE DEF f, L
  <2> QED
    BY <2>1, <2>2, FS_Surjection, Zenon DEF ExistsSurjection
<1>5. IsFiniteSet({1, MaxPayload})
  <2>1. IsFiniteSet({1})
    BY FS_Singleton, Zenon
  <2>2. IsFiniteSet({1} \cup {MaxPayload})
    BY <2>1, FS_AddElement, Zenon
  <2>3. {1, MaxPayload} = {1} \cup {MaxPayload}
    OBVIOUS
  <2> QED
    BY <2>2, <2>3, Zenon
<1>6. IsFiniteSet(S) /\ S # {} /\ S \in SUBSET Int
  <2>1. S \in SUBSET Int
    BY <1>2, <1>3
  <2>2. S # {}
    OBVIOUS
  <2>3. IsFiniteSet(S)
    BY <1>4, <1>5, FS_Union, Zenon
  <2> QED
    BY <2>1, <2>2, <2>3, Zenon
<1>7. PICK m \in S : \A x \in S : m >= x
  <2> HIDE DEF S
  <2> QED
    BY <1>6, FiniteMax
<1>8. MaxShard \in S /\ \A x \in S : MaxShard >= x
  <2>1. MaxShard = CHOOSE y \in S : \A x \in S : y >= x
    BY Zenon DEF MaxShard, Max
  <2> HIDE DEF S
  <2> QED
    BY <1>7, <2>1, Zenon
<1>9. 1 \in S /\ MaxPayload \in S /\ \A x \in Stray : Len(x.shard) \in S
  OBVIOUS
<1>10. MaxShard \in Int /\ MaxShard >= 1
  BY <1>6, <1>8, <1>9
<1> HIDE DEF S
<1> QED
  BY <1>1, <1>3, <1>8, <1>9, <1>10

Queues == {q \in Seq(Block) : Len(q) < MaxQueue + MaxShard}
Shards == {q \in Seq(Block) : Len(q) <= MaxShard}
Batches == {q \in Seq(Block) : Weight(q) <= MaxPayload}

LEMMA Sizes ==
    /\ {NodeNum, MaxRequestBlocks, MaxRequestShards, MaxQueue, MaxReqs} \subseteq Nat \ {0}
    /\ MaxPayload \in Nat /\ MaxShard \in Nat /\ 1 <= MaxShard /\ MaxPayload <= MaxShard
BY SyncSizeAssumption, MaxShardFacts

LEMMA PushIntoQueue ==
    ASSUME NEW s, NEW q \in Queues, NEW shard \in Shards
    PROVE  pushIntoQueue(s, q, shard) \in Queues
<1> DEFINE r == newerPushed(s, q, shard)
<1>1. /\ q \in Seq(Block) /\ Len(q) \in Nat /\ Len(q) < MaxQueue + MaxShard
      /\ shard \in Seq(Block) /\ Len(shard) \in Nat /\ Len(shard) <= MaxShard
      /\ MaxQueue \in Nat /\ MaxShard \in Nat
  BY Sizes DEF Queues, Shards
<1>2. r \in Seq(Block) /\ Len(r) <= Len(q) + Len(shard)
  BY <1>1, NewerPushed
<1>3. Len(r) \in Nat
  BY <1>2
<1>4. pushIntoQueue(s, q, shard) = IF Len(q) >= MaxQueue THEN q ELSE r
  BY DEF pushIntoQueue
<1> HIDE DEF r
<1> QED
  BY <1>1, <1>2, <1>3, <1>4 DEF Queues

LEMMA AllPushed ==
    ASSUME NEW s, s.queue \in Queues, s.buffer \in Seq(Shards)
    PROVE  allPushed(s) \in Queues
<1> DEFINE n == Len(s.buffer)
           q == s.queue
           G(x, i) == pushIntoQueue(s, x, s.buffer[i])
           P(f) == f = [i \in 0 .. n |-> IF i = 0 THEN q ELSE G(f[i - 1], i)]
           F == [i \in 1 .. n |-> [x \in Queues |-> G(x, i)]]
           after == CHOOSE f : P(f)
<1>1. n \in Nat /\ \A i \in 1 .. n : s.buffer[i] \in Shards
  OBVIOUS
<1>2. \A x \in Queues, i \in 1 .. n : G(x, i) \in Queues
  BY <1>1, PushIntoQueue
<1>3. allPushed(s) = after[n]
  BY Zenon DEF allPushed
<1>4. q \in Queues
  OBVIOUS
<1> HIDE DEF G, n, q
<1>5. F \in [1 .. n -> [Queues -> Queues]]
  BY <1>2
<1>6. PICK f : Follows(f, Queues, n, q, F)
  <2> HIDE DEF F
  <2> QED
    BY <1>1, <1>4, <1>5, Recursion
<1> f \in [0 .. n -> Queues] /\ f[0] = q /\ \A i \in 1 .. n : f[i] = F[i][f[i - 1]]
  BY <1>6 DEF Follows
<1>7. P(f)
  <2>1. \A i \in 1 .. n : f[i] = G(f[i - 1], i)
    <3> TAKE i \in 1 .. n
    <3>1. f[i - 1] \in Queues
      BY <1>1
    <3> QED
      BY <3>1
  <2>2. \A i \in 0 .. n : f[i] = IF i = 0 THEN q ELSE G(f[i - 1], i)
    BY <1>1, <2>1
  <2>3. f = [i \in 0 .. n |-> f[i]]
    BY <1>1
  <2> QED
    BY <2>2, <2>3
<1>8. P(after)
  BY <1>7, Zenon
<1> HIDE DEF after, F
<1>9. \A i \in 0 .. n : after[i] = IF i = 0 THEN q ELSE G(after[i - 1], i)
  BY <1>8, Zenon
<1> DEFINE D == {i \in Nat : i <= n => after[i] \in Queues}
<1>10. 0 \in D
  BY <1>1, <1>4, <1>9
<1>11. ASSUME NEW i \in Nat, i \in D PROVE i + 1 \in D
  <2> SUFFICES ASSUME i + 1 <= n PROVE after[i + 1] \in Queues
    OBVIOUS
  <2>1. after[i] \in Queues
    BY <1>1, <1>11
  <2>2. i + 1 \in 1 .. n /\ i + 1 \in 0 .. n /\ (i + 1) - 1 = i
    BY <1>1
  <2>3. after[i + 1] = G(after[i], i + 1)
    BY <1>9, <2>2
  <2> HIDE DEF P
  <2> QED
    BY <1>2, <2>1, <2>2, <2>3
<1> HIDE DEF D
<1>12. n \in D
  BY <1>1, <1>10, <1>11, Induction
<1> QED
  BY <1>1, <1>3, <1>12 DEF D

-----------------------------------------------------------------------------
(* The weight of a batch.                                                  *)

\* f holds the sums of the weights of batch.
Sums(f, batch) ==
    f \in [0 .. Len(batch) -> Nat] /\ f[0] = 0
    /\ \A i \in 1 .. Len(batch) : f[i] = f[i - 1] + weight[batch[i]]

LEMMA WeightIsSum ==
    ASSUME NEW batch \in Seq(Block)
    PROVE  \E f : Sums(f, batch) /\ Weight(batch) = f[Len(batch)]
<1> DEFINE n == Len(batch)
           G(x, i) == x + weight[batch[i]]
           P(f) == f = [i \in 0 .. n |-> IF i = 0 THEN 0 ELSE G(f[i - 1], i)]
           F == [i \in 1 .. n |-> [x \in Nat |-> G(x, i)]]
           upTo == CHOOSE f : P(f)
<1>1. n \in Nat /\ \A i \in 1 .. n : batch[i] \in Block
  OBVIOUS
<1>2. \A x \in Nat, i \in 1 .. n : G(x, i) \in Nat
  <2> TAKE x \in Nat, i \in 1 .. n
  <2>1. weight[batch[i]] \in Nat
    BY <1>1, SyncBlockAssumption
  <2> QED
    BY <2>1
<1>3. Weight(batch) = upTo[n]
  BY Zenon DEF Weight
<1> HIDE DEF G, n
<1>5. F \in [1 .. n -> [Nat -> Nat]]
  BY <1>2
<1>6. PICK f : Follows(f, Nat, n, 0, F)
  <2> HIDE DEF F
  <2> QED
    BY <1>1, <1>5, Recursion
<1> f \in [0 .. n -> Nat] /\ f[0] = 0 /\ \A i \in 1 .. n : f[i] = F[i][f[i - 1]]
  BY <1>6 DEF Follows
<1>7. P(f)
  <2>1. \A i \in 1 .. n : f[i] = G(f[i - 1], i)
    <3> TAKE i \in 1 .. n
    <3>1. f[i - 1] \in Nat
      BY <1>1
    <3> QED
      BY <3>1
  <2>2. \A i \in 0 .. n : f[i] = IF i = 0 THEN 0 ELSE G(f[i - 1], i)
    BY <1>1, <2>1
  <2>3. f = [i \in 0 .. n |-> f[i]]
    BY <1>1
  <2> QED
    BY <2>2, <2>3
<1>8. P(upTo)
  BY <1>7, Zenon
<1> HIDE DEF upTo, F
<1>9. \A i \in 0 .. n : upTo[i] = IF i = 0 THEN 0 ELSE G(upTo[i - 1], i)
  BY <1>8, Zenon
<1>10. upTo = [i \in 0 .. n |-> upTo[i]]
  BY <1>8, <1>9
<1> HIDE DEF P
<1> DEFINE D == {i \in Nat : i <= n => upTo[i] \in Nat}
<1>11. 0 \in D
  BY <1>1, <1>9
<1>12. ASSUME NEW i \in Nat, i \in D PROVE i + 1 \in D
  <2> SUFFICES ASSUME i + 1 <= n PROVE upTo[i + 1] \in Nat
    OBVIOUS
  <2>1. upTo[i] \in Nat
    BY <1>1, <1>12
  <2>2. i + 1 \in 1 .. n /\ i + 1 \in 0 .. n /\ (i + 1) - 1 = i
    BY <1>1
  <2>3. upTo[i + 1] = G(upTo[i], i + 1)
    BY <1>9, <2>2
  <2> QED
    BY <1>2, <2>1, <2>2, <2>3
<1>13. Nat \subseteq D
  <2> HIDE DEF D
  <2> QED
    BY <1>11, <1>12, Induction
<1>14. upTo \in [0 .. n -> Nat]
  <2>1. \A i \in 0 .. n : upTo[i] \in Nat
    BY <1>1, <1>13
  <2> QED
    BY <1>10, <2>1
<1>15. upTo[0] = 0 /\ \A i \in 1 .. n : upTo[i] = G(upTo[i - 1], i)
  BY <1>1, <1>9
<1> QED
  BY <1>3, <1>14, <1>15 DEF Sums, G, n

\* The sums of a batch are those of the batch it extends.
LEMMA SumsAgree ==
    ASSUME NEW p \in Seq(Block), NEW q \in Seq(Block), NEW f, NEW g, Sums(f, p), Sums(g, q),
           Len(p) <= Len(q), \A i \in 1 .. Len(p) : p[i] = q[i]
    PROVE  f[Len(p)] = g[Len(p)]
<1> DEFINE D == {i \in Nat : i <= Len(p) => f[i] = g[i]}
<1>1. Len(p) \in Nat /\ Len(q) \in Nat
  OBVIOUS
<1>2. 0 \in D
  BY DEF Sums
<1>3. ASSUME NEW i \in Nat, i \in D PROVE i + 1 \in D
  <2> SUFFICES ASSUME i + 1 <= Len(p) PROVE f[i + 1] = g[i + 1]
    OBVIOUS
  <2>1. f[i] = g[i]
    BY <1>1, <1>3
  <2>2. i + 1 \in 1 .. Len(p) /\ i + 1 \in 1 .. Len(q) /\ (i + 1) - 1 = i
    BY <1>1
  <2>3. f[i + 1] = f[i] + weight[p[i + 1]] /\ g[i + 1] = g[i] + weight[q[i + 1]]
    BY <2>2 DEF Sums
  <2> QED
    BY <2>1, <2>2, <2>3
<1> HIDE DEF D
<1>4. Len(p) \in D
  BY <1>1, <1>2, <1>3, Induction
<1> QED
  BY <1>1, <1>4 DEF D

LEMMA WeightEmpty == Weight(<<>>) = 0
<1>1. <<>> \in Seq(Block) /\ Len(<<>>) = 0
  OBVIOUS
<1>2. PICK f : Sums(f, <<>>) /\ Weight(<<>>) = f[Len(<<>>)]
  BY <1>1, WeightIsSum
<1> QED
  BY <1>1, <1>2 DEF Sums

LEMMA WeightAppend ==
    ASSUME NEW p \in Seq(Block), NEW b \in Block
    PROVE  Weight(p) \in Nat /\ Weight(Append(p, b)) = Weight(p) + weight[b]
<1> DEFINE q == Append(p, b)
<1>1. /\ q \in Seq(Block) /\ Len(q) = Len(p) + 1 /\ Len(p) \in Nat
      /\ q[Len(p) + 1] = b /\ \A i \in 1 .. Len(p) : p[i] = q[i]
  OBVIOUS
<1> HIDE DEF q
<1>2. PICK f : Sums(f, p) /\ Weight(p) = f[Len(p)]
  BY WeightIsSum
<1>3. PICK g : Sums(g, q) /\ Weight(q) = g[Len(q)]
  BY <1>1, WeightIsSum
<1>4. f[Len(p)] = g[Len(p)]
  BY <1>1, <1>2, <1>3, SumsAgree
<1>5. f[Len(p)] \in Nat
  BY <1>1, <1>2 DEF Sums
<1>6. g[Len(p) + 1] = g[Len(p)] + weight[b]
  <2>1. Len(p) + 1 \in 1 .. Len(q) /\ (Len(p) + 1) - 1 = Len(p)
    BY <1>1
  <2>2. g[Len(p) + 1] = g[(Len(p) + 1) - 1] + weight[q[Len(p) + 1]]
    BY <1>3, <2>1 DEF Sums
  <2> QED
    BY <1>1, <2>1, <2>2
<1>7. Weight(q) = Weight(p) + weight[b]
  BY <1>1, <1>2, <1>3, <1>4, <1>6
<1> QED
  BY <1>2, <1>5, <1>7 DEF q

\* A block has a size, so that a batch has no more blocks than it weighs.
LEMMA WeightBoundsLength ==
    ASSUME NEW p \in Seq(Block)
    PROVE  Weight(p) \in Nat /\ Len(p) <= Weight(p)
<1>1. PICK f : Sums(f, p) /\ Weight(p) = f[Len(p)]
  BY WeightIsSum
<1>2. Len(p) \in Nat
  OBVIOUS
<1>3. f \in [0 .. Len(p) -> Nat]
  BY <1>1 DEF Sums
<1> DEFINE D == {i \in Nat : i <= Len(p) => i <= f[i]}
<1>4. 0 \in D
  BY <1>1 DEF Sums
<1>5. ASSUME NEW i \in Nat, i \in D PROVE i + 1 \in D
  <2> SUFFICES ASSUME i + 1 <= Len(p) PROVE i + 1 <= f[i + 1]
    OBVIOUS
  <2>1. i <= f[i]
    BY <1>2, <1>5
  <2>2. i + 1 \in 1 .. Len(p) /\ i \in 0 .. Len(p) /\ (i + 1) - 1 = i
    BY <1>2
  <2>3. f[i + 1] = f[i] + weight[p[i + 1]]
    BY <1>1, <2>2 DEF Sums
  <2>4. p[i + 1] \in Block
    BY <2>2
  <2>5. weight[p[i + 1]] \in Nat \ {0}
    BY <2>4, SyncBlockAssumption
  <2>6. f[i] \in Nat
    BY <1>3, <2>2
  <2> QED
    BY <2>1, <2>3, <2>5, <2>6
<1> HIDE DEF D
<1>6. Len(p) \in D
  BY <1>2, <1>4, <1>5, Induction
<1>7. f[Len(p)] \in Nat
  BY <1>2, <1>3
<1> QED
  BY <1>1, <1>2, <1>6, <1>7 DEF D

-----------------------------------------------------------------------------
(* Responses.                                                              *)

Sendings == [batch : Batches, out : SUBSET Shards]

LEMMA BatchIsShard == Batches \subseteq Shards
<1> SUFFICES ASSUME NEW p \in Batches PROVE p \in Shards
  OBVIOUS
<1>1. p \in Seq(Block) /\ Weight(p) <= MaxPayload
  BY DEF Batches
<1>2. Weight(p) \in Nat /\ Len(p) <= Weight(p) /\ Len(p) \in Nat
  BY <1>1, WeightBoundsLength
<1> QED
  BY <1>1, <1>2, Sizes DEF Shards

LEMMA EmptyBatch == <<>> \in Batches
BY WeightEmpty, Sizes DEF Batches

LEMMA BatchAndSend ==
    ASSUME NEW acc \in Sendings, NEW b \in Block
    PROVE  batchAndSend(acc, b) \in Sendings
<1>1. acc.batch \in Batches /\ acc.out \in SUBSET Shards /\ acc.batch \in Shards
  BY BatchIsShard DEF Sendings
<1>2. acc.batch \in Seq(Block)
  BY <1>1 DEF Batches
<1>3. weight[b] \in Nat /\ weight[b] # 0
  BY SyncBlockAssumption
<1>4. Weight(acc.batch) \in Nat /\ Weight(Append(acc.batch, b)) = Weight(acc.batch) + weight[b]
  BY <1>2, WeightAppend
<1>5. Weight(<<b>>) = weight[b] /\ <<b>> \in Seq(Block) /\ Len(<<b>>) = 1
  <2>1. <<>> \in Seq(Block) /\ Append(<<>>, b) = <<b>>
    OBVIOUS
  <2>2. Weight(Append(<<>>, b)) = Weight(<<>>) + weight[b]
    BY <2>1, WeightAppend
  <2> QED
    BY <1>3, <2>1, <2>2, WeightEmpty
<1>6. <<b>> \in Shards
  BY <1>5, Sizes DEF Shards
<1>7. Append(acc.batch, b) \in Seq(Block)
  BY <1>2
<1>8. CASE weight[b] > MaxPayload
  <2>1. batchAndSend(acc, b) = [acc EXCEPT !.out = acc.out \cup {<<b>>}]
    BY <1>8 DEF batchAndSend
  <2>2. acc.out \cup {<<b>>} \in SUBSET Shards
    BY <1>1, <1>6
  <2> QED
    BY <2>1, <2>2 DEF Sendings
<1>9. CASE ~ (weight[b] > MaxPayload) /\ Weight(acc.batch) + weight[b] > MaxPayload
  <2>1. batchAndSend(acc, b) = [batch |-> <<b>>, out |-> acc.out \cup ({acc.batch} \ {<<>>})]
    BY <1>9 DEF batchAndSend
  <2>2. acc.out \cup ({acc.batch} \ {<<>>}) \in SUBSET Shards
    BY <1>1
  <2>3. <<b>> \in Batches
    BY <1>3, <1>5, <1>9, Sizes DEF Batches
  <2> QED
    BY <2>1, <2>2, <2>3 DEF Sendings
<1>10. CASE ~ (weight[b] > MaxPayload) /\ ~ (Weight(acc.batch) + weight[b] > MaxPayload)
  <2>1. batchAndSend(acc, b) = [acc EXCEPT !.batch = Append(acc.batch, b)]
    BY <1>10 DEF batchAndSend
  <2>2. Append(acc.batch, b) \in Batches
    BY <1>3, <1>4, <1>7, <1>10, Sizes DEF Batches
  <2> QED
    BY <2>1, <2>2 DEF Sendings
<1> QED
  BY <1>8, <1>9, <1>10

\* Block x is in the batch or in a packet that goes out.
InSending(x, acc) ==
    \/ \E i \in DOMAIN acc.batch : acc.batch[i] = x
    \/ \E shard \in acc.out : \E i \in DOMAIN shard : shard[i] = x

\* Batching one more block loses none.
LEMMA BatchAndSendKeeps ==
    ASSUME NEW acc \in Sendings, NEW b \in Block
    PROVE  /\ InSending(b, batchAndSend(acc, b))
           /\ \A x : InSending(x, acc) => InSending(x, batchAndSend(acc, b))
<1> DEFINE t == batchAndSend(acc, b)
           longer == Append(acc.batch, b)
<1>1. acc.batch \in Seq(Block) /\ acc = [batch |-> acc.batch, out |-> acc.out]
  BY DEF Sendings, Batches
<1>2. DOMAIN <<b>> = {1} /\ <<b>>[1] = b
  OBVIOUS
<1>3. /\ Len(acc.batch) \in Nat /\ DOMAIN acc.batch = 1 .. Len(acc.batch)
      /\ DOMAIN longer = 1 .. Len(acc.batch) + 1 /\ longer[Len(acc.batch) + 1] = b
      /\ \A i \in 1 .. Len(acc.batch) : longer[i] = acc.batch[i]
  BY <1>1
<1>4. \/ t.batch = acc.batch /\ t.out = acc.out \cup {<<b>>}
      \/ t.batch = <<b>> /\ t.out = acc.out \cup ({acc.batch} \ {<<>>})
      \/ t.batch = longer /\ t.out = acc.out
  BY <1>1 DEF batchAndSend
<1> HIDE DEF t, longer
<1>5. CASE t.batch = acc.batch /\ t.out = acc.out \cup {<<b>>}
  BY <1>2, <1>5 DEF InSending, t
<1>6. CASE t.batch = <<b>> /\ t.out = acc.out \cup ({acc.batch} \ {<<>>})
  <2>1. \A i \in DOMAIN acc.batch : acc.batch # <<>>
    BY <1>1, <1>3
  <2>2. ASSUME NEW x, InSending(x, acc) PROVE InSending(x, t)
    <3>1. CASE \E i \in DOMAIN acc.batch : acc.batch[i] = x
      <4>1. acc.batch \in t.out
        BY <1>6, <2>1, <3>1
      <4> QED
        BY <3>1, <4>1 DEF InSending
    <3>2. CASE \E shard \in acc.out : \E i \in DOMAIN shard : shard[i] = x
      BY <1>6, <3>2 DEF InSending
    <3> QED
      BY <2>2, <3>1, <3>2 DEF InSending
  <2>3. InSending(b, t)
    BY <1>2, <1>6 DEF InSending
  <2> QED
    BY <2>2, <2>3 DEF t
<1>7. CASE t.batch = longer /\ t.out = acc.out
  <2>1. ASSUME NEW x, InSending(x, acc) PROVE InSending(x, t)
    <3>1. ASSUME NEW i \in DOMAIN acc.batch, acc.batch[i] = x PROVE InSending(x, t)
      <4>1. i \in DOMAIN longer /\ longer[i] = x
        BY <1>3, <3>1
      <4> QED
        BY <1>7, <4>1 DEF InSending
    <3>2. CASE \E shard \in acc.out : \E i \in DOMAIN shard : shard[i] = x
      BY <1>7, <3>2 DEF InSending
    <3> QED
      BY <2>1, <3>1, <3>2 DEF InSending
  <2>2. InSending(b, t)
    <3>1. Len(acc.batch) + 1 \in DOMAIN longer
      BY <1>3
    <3> QED
      BY <1>3, <1>7, <3>1 DEF InSending
  <2> QED
    BY <2>1, <2>2 DEF t
<1> QED
  BY <1>4, <1>5, <1>6, <1>7

LEMMA Batched ==
    ASSUME NEW s, NEW from \in Nat, NEW k \in Nat, s.batch \in Batches,
           \A i \in 1 .. k : s.chain[from + i - 1] \in Block
    PROVE  /\ batched(s, from, k) \in Sendings
           /\ \A i \in 1 .. k : InSending(s.chain[from + i - 1], batched(s, from, k))
           /\ \A x : InSending(x, [batch |-> s.batch, out |-> {}])
                        => InSending(x, batched(s, from, k))
<1> DEFINE a == [batch |-> s.batch, out |-> {}]
           G(x, i) == batchAndSend(x, s.chain[from + i - 1])
           P(f) == f = [i \in 0 .. k |-> IF i = 0 THEN a ELSE G(f[i - 1], i)]
           F == [i \in 1 .. k |-> [x \in Sendings |-> G(x, i)]]
           acc == CHOOSE f : P(f)
<1>1. \A x \in Sendings, i \in 1 .. k : G(x, i) \in Sendings
  BY BatchAndSend
<1>4. \A x \in Sendings, i \in 1 .. k :
            /\ InSending(s.chain[from + i - 1], G(x, i))
            /\ \A y : InSending(y, x) => InSending(y, G(x, i))
  BY BatchAndSendKeeps
<1>2. a \in Sendings
  BY DEF Sendings
<1>3. batched(s, from, k) = acc[k]
  BY Zenon DEF batched
<1> HIDE DEF G, a
<1>5. F \in [1 .. k -> [Sendings -> Sendings]]
  BY <1>1
<1>6. PICK f : Follows(f, Sendings, k, a, F)
  <2> HIDE DEF F
  <2> QED
    BY <1>2, <1>5, Recursion
<1> f \in [0 .. k -> Sendings] /\ f[0] = a /\ \A i \in 1 .. k : f[i] = F[i][f[i - 1]]
  BY <1>6 DEF Follows
<1>7. P(f)
  <2>1. \A i \in 1 .. k : f[i] = G(f[i - 1], i)
    <3> TAKE i \in 1 .. k
    <3>1. f[i - 1] \in Sendings
      OBVIOUS
    <3> QED
      BY <3>1
  <2>2. \A i \in 0 .. k : f[i] = IF i = 0 THEN a ELSE G(f[i - 1], i)
    BY <2>1
  <2>3. f = [i \in 0 .. k |-> f[i]]
    OBVIOUS
  <2> QED
    BY <2>2, <2>3
<1>8. P(acc)
  BY <1>7, Zenon
<1> HIDE DEF acc, F
<1>9. \A i \in 0 .. k : acc[i] = IF i = 0 THEN a ELSE G(acc[i - 1], i)
  BY <1>8, Zenon
<1> DEFINE Kept(i) == /\ \A j \in 1 .. i : InSending(s.chain[from + j - 1], acc[i])
                      /\ \A x : InSending(x, a) => InSending(x, acc[i])
           D == {i \in Nat : i <= k => acc[i] \in Sendings /\ Kept(i)}
<1>10. 0 \in D
  <2>1. acc[0] = a
    BY <1>9
  <2> QED
    BY <1>2, <2>1
<1>11. ASSUME NEW i \in Nat, i \in D PROVE i + 1 \in D
  <2> SUFFICES ASSUME i + 1 <= k PROVE acc[i + 1] \in Sendings /\ Kept(i + 1)
    OBVIOUS
  <2>1. acc[i] \in Sendings /\ Kept(i)
    BY <1>11
  <2>2. i + 1 \in 1 .. k /\ i + 1 \in 0 .. k /\ (i + 1) - 1 = i
    OBVIOUS
  <2>3. acc[i + 1] = G(acc[i], i + 1)
    BY <1>9, <2>2
  <2> HIDE DEF P
  <2>4. acc[i + 1] \in Sendings
    BY <1>1, <2>1, <2>2, <2>3
  <2>5. ASSUME NEW j \in 1 .. i + 1 PROVE InSending(s.chain[from + j - 1], acc[i + 1])
    <3>1. CASE j = i + 1
      BY <1>4, <2>1, <2>2, <2>3, <3>1
    <3>2. CASE j # i + 1
      <4>1. j \in 1 .. i
        BY <3>2
      <4>2. InSending(s.chain[from + j - 1], acc[i])
        BY <2>1, <4>1
      <4> QED
        BY <1>4, <2>1, <2>2, <2>3, <4>2
    <3> QED
      BY <3>1, <3>2
  <2>6. ASSUME NEW x, InSending(x, a) PROVE InSending(x, acc[i + 1])
    <3>1. InSending(x, acc[i])
      BY <2>1, <2>6
    <3> QED
      BY <1>4, <2>1, <2>2, <2>3, <3>1
  <2> QED
    BY <2>4, <2>5, <2>6
<1> HIDE DEF D
<1>12. k \in D
  BY <1>10, <1>11, Induction
<1>13. acc[k] \in Sendings /\ Kept(k)
  BY <1>12 DEF D
<1> HIDE DEF acc
<1> QED
  BY <1>3, <1>13 DEF a

-----------------------------------------------------------------------------
(* The requests of a peer.                                                 *)

\* The requests of a peer are kept in order.
Sorted(q) == \A i, j \in 1 .. Len(q) : i < j => ~Better(q[j], q[i])

RequestQueues == {q \in Seq(Request) : Len(q) <= MaxReqs /\ Sorted(q)}

LEMMA EmptyRequests == <<>> \in RequestQueues
BY Sizes DEF RequestQueues, Sorted

LEMMA NotBetterTransitive ==
    ASSUME NEW x \in Request, NEW y \in Request, NEW z \in Request,
           ~Better(y, x), ~Better(z, y)
    PROVE  ~Better(z, x)
BY DEF Better, Request

LEMMA InitialSegment ==
    ASSUME NEW n \in Nat, NEW I \in SUBSET (1 .. n),
           \A i \in I : \A j \in 1 .. n : j < i => j \in I
    PROVE  I = 1 .. Cardinality(I)
<1>1. CASE I = {}
  <2>1. Cardinality(I) = 0
    BY <1>1, FS_EmptySet
  <2> QED
    BY <1>1, <2>1
<1>2. CASE I # {}
  <2>1. IsFiniteSet(I)
    <3>1. 1 \in Int /\ n \in Int
      OBVIOUS
    <3>2. IsFiniteSet(1 .. n)
      BY <3>1, FS_Interval, Zenon
    <3> QED
      BY <3>2, FS_Subset
  <2>2. PICK m \in I : \A x \in I : m >= x
    <3>1. I \in SUBSET Int
      OBVIOUS
    <3> QED
      BY <1>2, <2>1, <3>1, FiniteMax
  <2>3. m \in 1 .. n
    OBVIOUS
  <2>4. I = 1 .. m
    <3>1. ASSUME NEW x \in I PROVE x \in 1 .. m
      BY <2>2, <2>3
    <3>2. ASSUME NEW x \in 1 .. m PROVE x \in I
      <4>1. CASE x = m
        BY <4>1
      <4>2. CASE x # m
        BY <2>3, <4>2
      <4> QED
        BY <4>1, <4>2
    <3> QED
      BY <3>1, <3>2
  <2>5. Cardinality(1 .. m) = m
    <3>1. 1 \in Int /\ m \in Int
      BY <2>3
    <3>2. Cardinality(1 .. m) = IF 1 > m THEN 0 ELSE m - 1 + 1
      BY <3>1, FS_Interval, Zenon
    <3> QED
      BY <2>3, <3>2
  <2> QED
    BY <2>4, <2>5
<1> QED
  BY <1>1, <1>2

\* A new request goes in order, and one that finds room takes no other one's place.
LEMMA PushRequest ==
    ASSUME NEW q \in RequestQueues, NEW r \in Request
    PROVE  /\ pushRequest(q, r) \in RequestQueues /\ pushRequest(q, r) # <<>>
           /\ Len(q) < MaxReqs =>
                Asked(q) \cup (r.from .. r.from + r.size - 1) \subseteq Asked(pushRequest(q, r))
<1> DEFINE n == Len(q)
           I == {i \in DOMAIN q : ~Better(r, q[i])}
           c == Cardinality(I)
           t == InsertAt(q, c + 1, r)
<1>1. q \in Seq(Request) /\ n \in Nat /\ n <= MaxReqs /\ Sorted(q) /\ DOMAIN q = 1 .. n
  BY DEF RequestQueues
<1>2. MaxReqs \in Nat /\ MaxReqs # 0
  BY Sizes
<1>3. pushRequest(q, r) = IF n >= MaxReqs THEN q ELSE t
  BY DEF pushRequest
<1>4. \A i \in 1 .. n : q[i] \in Request
  BY <1>1
<1>5. \A i \in 1 .. n : i \in I <=> ~Better(r, q[i])
  BY <1>1
<1>6. I \in SUBSET (1 .. n)
  BY <1>1
<1>7. c \in 0 .. n
  BY <1>1, PositionCount
<1> HIDE DEF I
<1>8. I = 1 .. c
  <2>1. \A i \in I : \A j \in 1 .. n : j < i => j \in I
    <3> TAKE i \in I
    <3> TAKE j \in 1 .. n
    <3> HAVE j < i
    <3>1. i \in 1 .. n /\ ~Better(r, q[i]) /\ ~Better(q[i], q[j])
      BY <1>1, <1>5, <1>6 DEF Sorted
    <3>2. ~Better(r, q[j])
      BY <1>4, <3>1, NotBetterTransitive
    <3> QED
      BY <1>5, <3>2
  <2> QED
    BY <1>1, <1>6, <2>1, InitialSegment
<1> HIDE DEF c, n
<1>9. /\ t \in Seq(Request) /\ Len(t) = n + 1
      /\ \A i \in 1 .. n + 1 : t[i] = IF i <= c THEN q[i] ELSE IF i = c + 1 THEN r ELSE q[i - 1]
  <2>1. c \in 0 .. Len(q) /\ q \in Seq(Request)
    BY <1>1, <1>7 DEF n
  <2>2. t \in Seq(Request) /\ Len(t) = Len(q) + 1 /\ Inserted(t, q, c, r)
    BY <2>1, InsertAtFacts
  <2> QED
    BY <2>2, Zenon DEF n, Inserted
<1> HIDE DEF t
<1>10. Sorted(t)
  <2> SUFFICES ASSUME NEW i \in 1 .. n + 1, NEW j \in 1 .. n + 1, i < j
               PROVE  ~Better(t[j], t[i])
    BY <1>9 DEF Sorted
  <2>1. \A x, y \in 1 .. n : x < y => ~Better(q[y], q[x])
    BY <1>1 DEF Sorted, n
  <2>2. \A x \in 1 .. n : x > c => Better(r, q[x])
    BY <1>5, <1>7, <1>8
  <2>3. \A x \in 1 .. n : x <= c => ~Better(r, q[x])
    BY <1>5, <1>7, <1>8
  <2>4. \A x \in 1 .. n : Better(r, q[x]) => ~Better(q[x], r)
    <3> TAKE x \in 1 .. n
    <3>1. q[x] \in Request
      BY <1>4
    <3> QED
      BY <3>1 DEF Better, Request
  <2>5. CASE i <= c /\ j <= c
    BY <1>1, <1>7, <1>9, <2>1, <2>5
  <2>6. CASE i <= c /\ j = c + 1
    BY <1>1, <1>7, <1>9, <2>3, <2>6
  <2>7. CASE i <= c /\ j > c + 1
    <3>1. t[i] = q[i] /\ t[j] = q[j - 1] /\ i \in 1 .. n /\ j - 1 \in 1 .. n /\ i < j - 1
      BY <1>1, <1>7, <1>9, <2>7
    <3> QED
      BY <2>1, <3>1
  <2>8. CASE i = c + 1
    <3>1. t[i] = r /\ t[j] = q[j - 1] /\ j - 1 \in 1 .. n /\ j - 1 > c
      BY <1>1, <1>7, <1>9, <2>8
    <3> QED
      BY <2>2, <2>4, <3>1
  <2>9. CASE i > c + 1
    <3>1. /\ t[i] = q[i - 1] /\ t[j] = q[j - 1] /\ i - 1 \in 1 .. n /\ j - 1 \in 1 .. n
          /\ i - 1 < j - 1
      BY <1>1, <1>7, <1>9, <2>9
    <3> QED
      BY <2>1, <3>1
  <2> QED
    BY <1>1, <1>7, <2>5, <2>6, <2>7, <2>8, <2>9
<1>11. Asked(q) \cup (r.from .. r.from + r.size - 1) \subseteq Asked(t)
  <2> DEFINE R(x) == x.from .. x.from + x.size - 1
  <2>1. DOMAIN t = 1 .. n + 1
    BY <1>9
  <2>2. ASSUME NEW i \in 1 .. n PROVE \E j \in 1 .. n + 1 : t[j] = q[i]
    <3>1. CASE i <= c
      BY <1>1, <1>7, <1>9, <3>1
    <3>2. CASE i > c
      <4>1. i + 1 \in 1 .. n + 1 /\ t[i + 1] = q[i]
        BY <1>1, <1>7, <1>9, <3>2
      <4> QED
        BY <4>1
    <3> QED
      BY <1>1, <1>7, <3>1, <3>2
  <2>3. \E j \in 1 .. n + 1 : t[j] = r
    <3>1. c + 1 \in 1 .. n + 1 /\ t[c + 1] = r
      BY <1>1, <1>7, <1>9
    <3> QED
      BY <3>1
  <2>4. Asked(t) = UNION {R(t[j]) : j \in 1 .. n + 1} /\ Asked(q) = UNION {R(q[i]) : i \in 1 .. n}
    BY <1>1, <2>1 DEF Asked, n
  <2> HIDE DEF R
  <2>5. R(r) \subseteq Asked(t) /\ \A i \in 1 .. n : R(q[i]) \subseteq Asked(t)
    BY <2>2, <2>3, <2>4
  <2>6. Asked(q) \subseteq Asked(t)
    BY <2>4, <2>5
  <2> QED
    BY <2>5, <2>6 DEF R
<1>12. n < MaxReqs => t \in RequestQueues /\ t # <<>>
  <2>1. Len(t) # 0 => t # <<>>
    OBVIOUS
  <2> QED
    BY <1>1, <1>2, <1>9, <1>10, <2>1 DEF RequestQueues
<1>13. n >= MaxReqs => q # <<>>
  <2>1. q = <<>> => n = 0
    BY DEF n
  <2> QED
    BY <1>1, <1>2, <2>1
<1>14. CASE n >= MaxReqs
  BY <1>1, <1>2, <1>3, <1>13, <1>14 DEF n
<1>15. CASE ~(n >= MaxReqs)
  BY <1>1, <1>2, <1>3, <1>11, <1>12, <1>15 DEF n
<1> QED
  BY <1>14, <1>15

\* The merged range reaches to the end of every request that begins in it or right behind it.
LEMMA MergedEnd ==
    ASSUME NEW q \in RequestQueues, q # <<>>
    PROVE  /\ mergedEnd(q) \in Nat /\ mergedEnd(q) >= q[1].from
           /\ \A i \in 1 .. Len(q) :
                q[i].from <= mergedEnd(q) => q[i].from + q[i].size <= mergedEnd(q)
<1>0. q \in Seq(Request) /\ Sorted(q)
  BY DEF RequestQueues
<1> DEFINE n == Len(q)
           a == q[1].from
           S == {x \in Nat : x >= a}
           G(x, i) == IF q[i].from <= x /\ q[i].from + q[i].size > x THEN q[i].from + q[i].size
                                                                     ELSE x
           P(f) == f = [i \in 0 .. n |-> IF i = 0 THEN a ELSE G(f[i - 1], i)]
           F == [i \in 1 .. n |-> [x \in S |-> G(x, i)]]
           end == CHOOSE f : P(f)
<1>1. n \in Nat /\ \A i \in 1 .. n : q[i].from \in Nat /\ q[i].size \in Nat
  <2>1. \A i \in 1 .. n : q[i] \in Request
    BY <1>0
  <2> QED
    BY <1>0, <2>1 DEF Request
<1>2. a \in S
  <2>1. 1 \in 1 .. n
    BY <1>0, EmptySeq
  <2> QED
    BY <1>1, <2>1
<1>3. \A x \in S, i \in 1 .. n : G(x, i) \in S
  BY <1>1, <1>2
<1>4. mergedEnd(q) = end[n]
  BY Zenon DEF mergedEnd
<1>14. \A i, j \in 1 .. n : i < j => q[i].from <= q[j].from
  BY <1>0, <1>1 DEF Sorted, Better
<1> HIDE DEF G, n, a, S
<1>5. F \in [1 .. n -> [S -> S]]
  BY <1>3
<1>6. PICK f : Follows(f, S, n, a, F)
  <2> HIDE DEF F
  <2> QED
    BY <1>1, <1>2, <1>5, Recursion
<1> f \in [0 .. n -> S] /\ f[0] = a /\ \A i \in 1 .. n : f[i] = F[i][f[i - 1]]
  BY <1>6 DEF Follows
<1>7. P(f)
  <2>1. \A i \in 1 .. n : f[i] = G(f[i - 1], i)
    <3> TAKE i \in 1 .. n
    <3>1. f[i - 1] \in S
      BY <1>1
    <3> QED
      BY <3>1
  <2>2. \A i \in 0 .. n : f[i] = IF i = 0 THEN a ELSE G(f[i - 1], i)
    BY <1>1, <2>1
  <2>3. f = [i \in 0 .. n |-> f[i]]
    BY <1>1
  <2> QED
    BY <2>2, <2>3
<1>8. P(end)
  BY <1>7, Zenon
<1> HIDE DEF end, F
<1>9. \A i \in 0 .. n : end[i] = IF i = 0 THEN a ELSE G(end[i - 1], i)
  BY <1>8, Zenon
<1> DEFINE Covered(i) == \A j \in 1 .. i : q[j].from <= end[i] => q[j].from + q[j].size <= end[i]
           D == {i \in Nat : i <= n => end[i] \in S /\ Covered(i)}
<1>10. 0 \in D
  BY <1>1, <1>2, <1>9
<1>11. ASSUME NEW i \in Nat, i \in D PROVE i + 1 \in D
  <2> SUFFICES ASSUME i + 1 <= n PROVE end[i + 1] \in S /\ Covered(i + 1)
    OBVIOUS
  <2>1. end[i] \in S /\ Covered(i)
    BY <1>1, <1>11
  <2>2. i + 1 \in 1 .. n /\ i + 1 \in 0 .. n /\ (i + 1) - 1 = i
    BY <1>1
  <2>3. end[i + 1] = G(end[i], i + 1)
    BY <1>9, <2>2
  <2> HIDE DEF P
  <2>4. end[i + 1] \in S
    BY <1>3, <2>1, <2>2, <2>3
  <2>5. end[i] \in Nat /\ end[i + 1] \in Nat
    BY <2>1, <2>4 DEF S
  <2>6. ASSUME NEW j \in 1 .. i + 1, q[j].from <= end[i + 1]
        PROVE  q[j].from + q[j].size <= end[i + 1]
    <3> DEFINE r == q[i + 1]
    <3>1. r.from \in Nat /\ r.size \in Nat /\ q[j].from \in Nat /\ q[j].size \in Nat
      <4>1. j \in 1 .. n
        BY <1>1, <2>2
      <4> QED
        BY <1>1, <2>2, <4>1
    <3>2. CASE j = i + 1
      BY <2>3, <2>5, <2>6, <3>1, <3>2 DEF G
    <3>3. CASE j # i + 1
      <4>1. j \in 1 .. i /\ j \in 1 .. n /\ j < i + 1
        BY <1>1, <3>3
      <4>2. q[j].from <= r.from
        BY <1>14, <2>2, <4>1
      <4>3. q[j].from <= end[i]
        BY <2>3, <2>5, <2>6, <3>1, <4>2 DEF G
      <4>4. q[j].from + q[j].size <= end[i]
        BY <2>1, <4>1, <4>3
      <4>5. end[i] <= end[i + 1]
        BY <2>3, <2>5, <3>1 DEF G
      <4> QED
        BY <2>5, <3>1, <4>4, <4>5
    <3> QED
      BY <3>2, <3>3
  <2> QED
    BY <2>4, <2>6
<1> HIDE DEF D
<1>12. n \in D
  BY <1>1, <1>10, <1>11, Induction
<1>13. end[n] \in S /\ Covered(n)
  BY <1>1, <1>12 DEF D
<1> QED
  BY <1>4, <1>13 DEF S, a, n

LEMMA TopAndPop ==
    ASSUME NEW q \in RequestQueues, q # <<>>
    PROVE  LET top == topAndPop(q)
           IN  /\ top.range \in Request /\ top.rest \in RequestQueues
               /\ Len(top.rest) < MaxReqs
               /\ Asked(q) \subseteq (top.range.from .. top.range.from + top.range.size - 1)
                                        \cup Asked(top.rest)
<1> DEFINE n == Len(q)
           end == mergedEnd(q)
           I == {i \in DOMAIN q : q[i].from <= end}
           c == Cardinality(I)
           rest == SubSeq(q, c + 1, n)
<1>1. q \in Seq(Request) /\ n \in Nat /\ n <= MaxReqs /\ Sorted(q) /\ DOMAIN q = 1 .. n
  BY DEF RequestQueues
<1>2. /\ end \in Nat /\ end >= q[1].from
      /\ \A i \in 1 .. n : q[i].from <= end => q[i].from + q[i].size <= end
  BY MergedEnd
<1>3. \A i \in 1 .. n : q[i] \in Request /\ q[i].from \in Nat \ {0} /\ q[i].size \in Nat
  <2>1. \A i \in 1 .. n : q[i] \in Request
    BY <1>1
  <2> QED
    BY <2>1 DEF Request
<1>4. 1 \in 1 .. n
  BY <1>1, EmptySeq
<1>5. \A i, j \in 1 .. n : i < j => q[i].from <= q[j].from
  BY <1>1, <1>3 DEF Sorted, Better
<1>6. c \in 0 .. n
  BY <1>1, PositionCount
<1>7. topAndPop(q) = [range |-> [from |-> q[1].from, size |-> end - q[1].from], rest |-> rest]
  BY DEF topAndPop
<1> HIDE DEF end
<1>8. I \in SUBSET (1 .. n) /\ 1 \in I /\ \A i \in 1 .. n : i \in I <=> q[i].from <= end
  BY <1>1, <1>2, <1>4
<1> HIDE DEF I
<1>9. I = 1 .. c
  <2>1. \A i \in I : \A j \in 1 .. n : j < i => j \in I
    BY <1>2, <1>3, <1>5, <1>8
  <2> QED
    BY <1>1, <1>8, <2>1, InitialSegment
<1> HIDE DEF c, n
<1>10. c >= 1
  BY <1>6, <1>8, <1>9
<1>11. /\ rest \in Seq(Request) /\ Len(rest) = n - c
       /\ \A i \in 1 .. n - c : rest[i] = q[c + i]
  <2>1. \A i \in c + 1 .. n : q[i] \in Request
    BY <1>3, <1>6
  <2> QED
    BY <1>1, <1>6, SubSeqProperties DEF n
<1> HIDE DEF rest
<1>12. rest \in RequestQueues /\ Len(rest) < MaxReqs
  <2>1. Sorted(rest)
    <3> SUFFICES ASSUME NEW i \in 1 .. n - c, NEW j \in 1 .. n - c, i < j
                 PROVE  ~Better(rest[j], rest[i])
      BY <1>11 DEF Sorted
    <3>1. c + i \in 1 .. n /\ c + j \in 1 .. n /\ c + i < c + j
      BY <1>1, <1>6
    <3> QED
      BY <1>1, <1>11, <3>1 DEF Sorted, n
  <2>2. n - c < MaxReqs /\ n - c <= MaxReqs
    BY <1>1, <1>6, <1>10, Sizes
  <2> QED
    BY <1>11, <2>1, <2>2 DEF RequestQueues
<1>13. end - q[1].from \in Nat /\ q[1].from \in Nat \ {0}
  BY <1>2, <1>3, <1>4
<1>14. Asked(q) \subseteq (q[1].from .. end - 1) \cup Asked(rest)
  <2> SUFFICES ASSUME NEW i \in 1 .. n, NEW x \in q[i].from .. q[i].from + q[i].size - 1
               PROVE  x \in (q[1].from .. end - 1) \cup Asked(rest)
    BY <1>1 DEF Asked
  <2>1. CASE i \in I
    <3>1. q[i].from + q[i].size <= end
      BY <1>2, <1>8, <2>1
    <3>2. q[1].from <= q[i].from
      BY <1>3, <1>4, <1>5
    <3>3. x \in Int /\ q[i].from <= x /\ x <= q[i].from + q[i].size - 1
      BY <1>3
    <3> QED
      BY <1>2, <1>3, <1>4, <3>1, <3>2, <3>3
  <2>2. CASE i \notin I
    <3>1. i - c \in 1 .. n - c /\ c + (i - c) = i
      BY <1>1, <1>6, <1>9, <2>2
    <3>2. rest[i - c] = q[i]
      BY <1>11, <3>1
    <3>3. DOMAIN rest = 1 .. n - c
      BY <1>11
    <3> QED
      BY <3>1, <3>2, <3>3 DEF Asked
  <2> QED
    BY <2>1, <2>2
<1>15. q[1].from + (end - q[1].from) - 1 = end - 1
  BY <1>2, <1>13
<1>16. [from |-> q[1].from, size |-> end - q[1].from] \in Request
  BY <1>13 DEF Request
<1> QED
  BY <1>7, <1>12, <1>14, <1>15, <1>16

-----------------------------------------------------------------------------
(* A node within its limits.                                               *)

Fitting ==
    [chain : Seq(Block),
     pc : {"maintain", "requests", "respond", "respondMore", "pushBack", "top", "commit"},
     state : {"Idle", "Downloading"}, known : Nat, peer : [Node -> Nat \cup {Unknown}],
     check : BOOLEAN, reqs : [Node -> RequestQueues], client : Node, owed : Request,
     batch : Batches, buffer : Seq(Shards), queue : Queues, exec : Block \cup {NoBlock},
     maxRequest : Nat, recent : BOOLEAN, sealing : Nat, newBlocks : BOOLEAN]

LEMMA FittingIsNodeState ==
    ASSUME NEW s \in Fitting
    PROVE  s \in NodeState
<1>1. s.batch \in Seq(Block) /\ s.queue \in Seq(Block)
  BY DEF Fitting, Batches, Queues
<1>2. s.buffer \in Seq(Seq(Block))
  <2>1. s.buffer \in Seq(Shards)
    BY DEF Fitting
  <2>2. Shards \subseteq Seq(Block)
    BY DEF Shards
  <2> QED
    BY <2>1, <2>2, SeqMonotonic
<1>3. s.reqs \in [Node -> Seq(Request)]
  <2>1. s.reqs \in [Node -> RequestQueues]
    BY DEF Fitting
  <2> QED
    BY <2>1 DEF RequestQueues
<1> QED
  BY <1>1, <1>2, <1>3 DEF Fitting, NodeState

LEMMA EmptyQueue == <<>> \in Queues /\ <<>> \in Seq(Shards)
<1>1. <<>> \in Queues
  BY Sizes DEF Queues
<1>2. <<>> \in Seq(Shards)
  OBVIOUS
<1> QED
  BY <1>1, <1>2

LEMMA ClearFits ==
    ASSUME NEW s \in Fitting
    PROVE  clear(s) \in Fitting /\ clear(s).pc = s.pc
BY EmptyQueue DEF clear, Fitting

LEMMA ClearFullFits ==
    ASSUME NEW s \in Fitting, NEW next
    PROVE  LET t == clearFullQueueIfNotHas(s, next) IN t \in Fitting /\ t.pc = s.pc
BY EmptyQueue DEF clearFullQueueIfNotHas, Fitting

LEMMA FlushFits ==
    ASSUME NEW s \in Fitting
    PROVE  flushBufferToQueue(s) \in Fitting /\ flushBufferToQueue(s).pc = s.pc
<1>1. allPushed(s) \in Queues
  BY AllPushed DEF Fitting
<1> QED
  BY <1>1, EmptyQueue DEF flushBufferToQueue, Fitting

LEMMA BufferFits ==
    ASSUME NEW s \in Fitting
    PROVE  LET t == maintainDownloadingQueueBuffer(s) IN t \in Fitting /\ t.pc = s.pc
BY ClearFits, ClearFullFits, FlushFits DEF maintainDownloadingQueueBuffer

LEMMA PeersFits ==
    ASSUME NEW n \in Node, NEW s \in Fitting
    PROVE  LET t == maintainPeersConnection(n, s) IN t \in Fitting /\ t.pc = s.pc
<1> DEFINE check == IF s.state = "Idle" THEN Number(s) # 0 ELSE s.check
           old == IF check THEN Active(n) ELSE Node
           peer == [p \in Node |-> IF p \in Active(n) /\ s.peer[p] = Unknown THEN 0
                                   ELSE IF p \in old THEN s.peer[p] ELSE Unknown]
           reqs == [p \in Node |-> IF p \in old THEN s.reqs[p] ELSE <<>>]
           t == [s EXCEPT !.check = check, !.peer = peer, !.reqs = reqs]
<1>1. maintainPeersConnection(n, s) = t
  BY DEF maintainPeersConnection
<1>2. check \in BOOLEAN
  BY DEF Fitting
<1> HIDE DEF check, old
<1>3. peer \in [Node -> Nat \cup {Unknown}] /\ reqs \in [Node -> RequestQueues]
  BY EmptyRequests DEF Fitting
<1> HIDE DEF peer, reqs
<1> QED
  BY <1>1, <1>2, <1>3 DEF Fitting

LEMMA NumberType ==
    ASSUME NEW s \in Fitting
    PROVE  Number(s) \in Nat
BY DEF Fitting, Number

LEMMA NodeFinite == IsFiniteSet(Node) /\ Node \subseteq Nat
<1>1. NodeNum \in Nat /\ 0 \in Int /\ NodeNum - 1 \in Int
  BY Sizes
<1>2. IsFiniteSet(0 .. NodeNum - 1)
  BY <1>1, FS_Interval, Zenon
<1> QED
  BY <1>1, <1>2 DEF Node

LEMMA MaxPeerType ==
    ASSUME NEW s \in Fitting
    PROVE  MaxPeer(s) \in Nat /\ \A p \in Node : s.peer[p] <= MaxPeer(s)
<1> DEFINE P == {s.peer[p] : p \in Node}
           S == P \cup {0}
<1>1. \A p \in Node : s.peer[p] \in Int
  BY DEF Fitting, Unknown
<1>2. IsFiniteSet(P)
  <2> DEFINE f == [p \in Node |-> s.peer[p]]
  <2>1. f \in Surjection(Node, P)
    BY DEF Surjection
  <2> HIDE DEF f, P
  <2> QED
    BY <2>1, NodeFinite, FS_Surjection, Zenon DEF ExistsSurjection
<1>3. IsFiniteSet(S)
  BY <1>2, FS_AddElement, Zenon
<1>4. S \in SUBSET Int /\ S # {} /\ 0 \in S
  BY <1>1
<1>5. MaxPeer(s) = CHOOSE x \in S : \A y \in S : y <= x
  BY DEF MaxPeer
<1>6. \A p \in Node : s.peer[p] \in S
  OBVIOUS
<1> HIDE DEF S
<1>7. PICK m \in S : \A y \in S : m >= y
  BY <1>3, <1>4, FiniteMax
<1>8. \A y \in S : y <= m
  BY <1>4, <1>7
<1>9. MaxPeer(s) \in S /\ \A y \in S : y <= MaxPeer(s)
  BY <1>5, <1>8, Zenon
<1>10. MaxPeer(s) \in Int /\ 0 <= MaxPeer(s)
  BY <1>4, <1>9
<1>11. \A p \in Node : s.peer[p] <= MaxPeer(s)
  BY <1>6, <1>9, Zenon
<1> QED
  BY <1>10, <1>11

LEMMA KnownFits ==
    ASSUME NEW s \in Fitting
    PROVE  Known(s) \in Fitting /\ Known(s).pc = s.pc
BY NumberType, MaxPeerType DEF Known, Fitting

LEMMA AfterBlocksFits ==
    ASSUME NEW s \in Fitting, s.pc = "maintain"
    PROVE  AfterBlocks(s) \in Fitting /\ AfterBlocks(s).pc \in {"maintain", "requests", "top"}
<1> DEFINE c == clear(s)
           t1 == [s EXCEPT !.pc = "requests"]
           t2 == [s EXCEPT !.pc = "maintain"]
           t3 == [s EXCEPT !.pc = "top"]
           t4 == [c EXCEPT !.state = "Idle"]
<1>1. AfterBlocks(s) \in {t1, t2, t3, t4}
  BY DEF AfterBlocks
<1>2. c \in Fitting /\ c.pc = s.pc
  BY ClearFits
<1> HIDE DEF c
<1>3. t1 \in Fitting /\ t1.pc = "requests" /\ t2 \in Fitting /\ t2.pc = "maintain"
  BY DEF Fitting
<1>4. t3 \in Fitting /\ t3.pc = "top"
  BY DEF Fitting
<1>5. t4 \in Fitting /\ t4.pc = "maintain"
  BY <1>2 DEF Fitting
<1> HIDE DEF t1, t2, t3, t4
<1> QED
  BY <1>1, <1>3, <1>4, <1>5

-----------------------------------------------------------------------------
(* What a request turn asks for.                                           *)

FittingPacket ==
    [type : {"status"}, from : Node, to : Node, number : Nat]
        \cup [type : {"request"}, from : Node, to : Node, req : Request]
        \cup [type : {"blocks"}, from : Node, to : Node, shard : Shards]

LEMMA Division ==
    ASSUME NEW d \in Nat \ {0}, NEW w \in Nat \ {0}
    PROVE  LET all == (d + w - 1) \div w
           IN  /\ all \in Nat /\ all >= 1
               /\ \A i \in Nat : i >= 1 /\ i <= all => (i - 1) * w \in Nat /\ (i - 1) * w <= d - 1
<1> DEFINE x == d + w - 1
           all == x \div w
<1>1. x \in Nat /\ x >= w
  OBVIOUS
<1> HIDE DEF x
<1>2. all \in Nat /\ all * w <= x /\ x < (all + 1) * w
  BY <1>1
<1> HIDE DEF all
<1>3. all >= 1
  <2> SUFFICES ASSUME all = 0 PROVE FALSE
    BY <1>2
  <2>1. x < 1 * w
    BY <1>2
  <2> QED
    BY <1>1, <2>1
<1>4. ASSUME NEW i \in Nat, i >= 1, i <= all
      PROVE  (i - 1) * w \in Nat /\ (i - 1) * w <= d - 1
  <2>1. i - 1 \in Nat /\ i - 1 <= all - 1 /\ all - 1 \in Nat
    BY <1>2, <1>4
  <2>2. \A j, k \in Nat : j <= k => j * w \in Nat /\ j * w <= k * w
    OBVIOUS
  <2>3. (i - 1) * w \in Nat /\ (i - 1) * w <= (all - 1) * w
    BY <2>1, <2>2
  <2>4. (all - 1) * w = all * w - w
    BY <1>2
  <2>5. all * w \in Nat
    BY <1>2
  <2> QED
    BY <1>2, <2>3, <2>4, <2>5 DEF x
<1> QED
  BY <1>2, <1>3, <1>4 DEF all, x

LEMMA ShardIsRequest ==
    ASSUME NEW s \in Fitting, NEW last \in Int, last > Number(s),
           NEW i \in 1 .. ShardNumber(s, last)
    PROVE  /\ ShardNumber(s, last) \in Nat
           /\ Shard(s, i, last) \in Request
           /\ Shard(s, i, last).from + Shard(s, i, last).size - 1 \in Nat
<1> DEFINE cur == Number(s)
           w == MaxRequestBlocks
           d == last - cur
           all == (d + w - 1) \div w
           from == cur + 1 + (i - 1) * w
           to == IF from + w - 1 < last THEN from + w - 1 ELSE last
<1>1. cur \in Nat /\ w \in Nat \ {0} /\ MaxRequestShards \in Nat
  BY NumberType, Sizes
<1>2. d \in Nat \ {0}
  BY <1>1
<1>3. ShardNumber(s, last) = IF all < MaxRequestShards THEN all ELSE MaxRequestShards
  BY DEF ShardNumber
<1>4. Shard(s, i, last) = [from |-> from, size |-> to - from + 1]
  BY DEF Shard
<1> HIDE DEF cur, w
<1>5. all \in Nat /\ \A j \in Nat : j >= 1 /\ j <= all => (j - 1) * w \in Nat /\ (j - 1) * w <= d - 1
  <2> HIDE DEF d
  <2> QED
    BY <1>1, <1>2, Division
<1> HIDE DEF all
<1>6. ShardNumber(s, last) \in Nat /\ ShardNumber(s, last) <= all
  BY <1>1, <1>3, <1>5
<1>7. i \in Nat /\ i >= 1 /\ i <= all
  BY <1>5, <1>6
<1> DEFINE p == (i - 1) * w
<1>8. p \in Nat /\ p <= d - 1
  BY <1>5, <1>7
<1> HIDE DEF p
<1>9. from = cur + 1 + p
  BY DEF p
<1> HIDE DEF from
<1>10. from \in Nat \ {0} /\ from <= last
  BY <1>1, <1>8, <1>9
<1>11. to - from + 1 \in Nat /\ from + (to - from + 1) - 1 \in Nat
  BY <1>1, <1>10
<1> HIDE DEF to
<1> QED
  BY <1>4, <1>6, <1>10, <1>11 DEF Request

LEMMA ShardsExist ==
    ASSUME NEW s \in Fitting, NEW last \in Int, last > Number(s)
    PROVE  ShardNumber(s, last) \in Nat /\ 1 <= ShardNumber(s, last)
<1> DEFINE w == MaxRequestBlocks
           d == last - Number(s)
           all == (d + w - 1) \div w
<1>1. Number(s) \in Nat /\ w \in Nat \ {0} /\ MaxRequestShards \in Nat /\ MaxRequestShards # 0
  BY NumberType, Sizes
<1>2. d \in Nat \ {0}
  BY <1>1
<1>3. ShardNumber(s, last) = IF all < MaxRequestShards THEN all ELSE MaxRequestShards
  BY DEF ShardNumber
<1> HIDE DEF w, d
<1>4. all \in Nat /\ all >= 1
  BY <1>1, <1>2, Division
<1> HIDE DEF all
<1> QED
  BY <1>1, <1>3, <1>4

LEMMA PeersStatusFits ==
    ASSUME NEW n \in Node, NEW s \in Fitting, NEW r \in maintainPeersStatus(n, s)
    PROVE  r.s \in Fitting /\ r.s.pc = s.pc /\ \A m \in r.out : m \in FittingPacket
<1> DEFINE t == [s EXCEPT !.recent = TRUE, !.state = "Downloading"]
           u(x) == [t EXCEPT !.maxRequest = x]
           last == LastMissing(s)
           top(a) == Shard(s, Len(a), last).from + Shard(s, Len(a), last).size - 1
<1>1. \/ r = [s |-> s, out |-> {}]
      \/ r = [s |-> t, out |-> {}]
      \/ /\ ~(last <= Number(s))
         /\ \E a \in Assignments(s, last) : r = [s |-> u(top(a)), out |-> Requests(n, s, a, last)]
  BY DEF maintainPeersStatus
<1>2. last \in Int
  <2>1. s.known \in Int
    BY DEF Fitting
  <2>2. s.queue # <<>> => number[s.queue[1]] - 1 \in Int
    <3> HAVE s.queue # <<>>
    <3>1. s.queue \in Seq(Block)
      BY DEF Fitting, Queues
    <3>2. 1 \in 1 .. Len(s.queue)
      BY <3>1, EmptySeq
    <3>3. s.queue[1] \in Block
      BY <3>1, <3>2
    <3>4. number[s.queue[1]] \in Nat
      BY <3>3, SyncBlockAssumption
    <3> QED
      BY <3>4
  <2> QED
    BY <2>1, <2>2 DEF LastMissing
<1>3. t \in Fitting /\ t.pc = s.pc
  BY DEF Fitting
<1> HIDE DEF last, t
<1>4. CASE r.s = s /\ r.out = {}
  BY <1>4
<1>5. CASE r.s = t /\ r.out = {}
  BY <1>3, <1>5
<1>6. ASSUME ~(last <= Number(s)), NEW a \in Assignments(s, last),
             r = [s |-> u(top(a)), out |-> Requests(n, s, a, last)]
      PROVE  r.s \in Fitting /\ r.s.pc = s.pc /\ \A m \in r.out : m \in FittingPacket
  <2> DEFINE N == ShardNumber(s, last)
  <2>1. Number(s) \in Nat /\ last > Number(s)
    BY <1>2, <1>6, NumberType
  <2>2. N \in Nat /\ 1 <= N
    BY <1>2, <2>1, ShardsExist
  <2>3. a \in [1 .. N -> Node]
    <3>1. a \in [1 .. N -> {p \in Node : s.peer[p] = s.known}]
      BY DEF Assignments
    <3> HIDE DEF N
    <3> QED
      BY <3>1
  <2> HIDE DEF N
  <2>4. a \in Seq(Node) /\ Len(a) = N
    BY <2>2, <2>3, IsASeq
  <2>5. \A i \in 1 .. N : Shard(s, i, last) \in Request
                          /\ Shard(s, i, last).from + Shard(s, i, last).size - 1 \in Nat
    BY <1>2, <2>1, ShardIsRequest DEF N
  <2>6. top(a) \in Nat
    BY <2>2, <2>4, <2>5
  <2>7. r.s = u(top(a)) /\ r.out = Requests(n, s, a, last)
    BY <1>6
  <2> HIDE DEF top
  <2>8. u(top(a)) \in Fitting /\ u(top(a)).pc = t.pc
    BY <1>3, <2>6 DEF Fitting
  <2>9. \A m \in Requests(n, s, a, last) : m \in FittingPacket
    <3> SUFFICES ASSUME NEW i \in DOMAIN a
                 PROVE  [type |-> "request", from |-> n, to |-> a[i], req |-> Shard(s, i, last)]
                            \in FittingPacket
      BY DEF Requests
    <3>1. i \in 1 .. N /\ a[i] \in Node
      BY <2>3
    <3>2. Shard(s, i, last) \in Request
      BY <2>5, <3>1
    <3> QED
      BY <3>1, <3>2 DEF FittingPacket
  <2> HIDE DEF u
  <2> QED
    BY <1>3, <2>7, <2>8, <2>9
<1>7. \/ r.s = s /\ r.out = {}
      \/ r.s = t /\ r.out = {}
      \/ /\ ~(last <= Number(s))
         /\ \E a \in Assignments(s, last) : r = [s |-> u(top(a)), out |-> Requests(n, s, a, last)]
  <2> HIDE DEF u, top
  <2> QED
    BY <1>1
<1> HIDE DEF u, top
<1> QED
  BY <1>4, <1>5, <1>6, <1>7

-----------------------------------------------------------------------------
(* Queue and chain.                                                        *)

LEMMA RemoveFirstFits ==
    ASSUME NEW q \in Queues, NEW b
    PROVE  RemoveFirst(q, b) \in Queues
<1>1. q \in Seq(Block) /\ Len(q) \in Nat /\ Len(q) < MaxQueue + MaxShard
  BY DEF Queues
<1> DEFINE I == {i \in 1 .. Len(q) : q[i] = b}
           j == CHOOSE x \in I : \A y \in I : x =< y
<1>2. CASE I = {}
  BY <1>2 DEF RemoveFirst
<1>3. CASE I # {}
  <2>1. RemoveFirst(q, b) = RemoveAt(q, SelectInSeq(q, LAMBDA v : v = b))
    BY <1>3 DEF RemoveFirst
  <2>2. SelectInSeq(q, LAMBDA v : v = b) = j
    BY <1>3 DEF SelectInSeq, Min
  <2>3. j \in I
    <3>1. I \in SUBSET Nat
      OBVIOUS
    <3> HIDE DEF I
    <3>2. \E x \in I : \A y \in I : x =< y
      BY <1>3, <3>1, LeastNumber
    <3> QED
      BY <3>2, Zenon
  <2> HIDE DEF j
  <2>4. j \in 1 .. Len(q)
    BY <2>3
  <2> DEFINE u == SubSeq(q, 1, j - 1)
             v == SubSeq(q, j + 1, Len(q))
  <2>5. RemoveFirst(q, b) = u \o v
    BY <2>1, <2>2 DEF RemoveAt
  <2>6. u \in Seq(Block) /\ Len(u) = j - 1
    BY <1>1, <2>4, SubSeqProperties
  <2>7. v \in Seq(Block) /\ Len(v) = Len(q) - j
    BY <1>1, <2>4, SubSeqProperties
  <2> HIDE DEF u, v
  <2>8. u \o v \in Seq(Block) /\ Len(u \o v) = Len(u) + Len(v)
    BY <2>6, <2>7, ConcatProperties, Zenon
  <2>9. RemoveFirst(q, b) \in Seq(Block) /\ Len(RemoveFirst(q, b)) = Len(q) - 1
    BY <1>1, <2>4, <2>5, <2>6, <2>7, <2>8
  <2> QED
    BY <1>1, <2>9, Sizes DEF Queues
<1> QED
  BY <1>2, <1>3

LEMMA CommitBlockFits ==
    ASSUME NEW s \in Fitting, NEW b \in Block
    PROVE  LET t == commitBlock(s, b)
           IN  /\ t \in Fitting /\ t.pc = s.pc /\ t.exec = s.exec
               /\ t.reqs = s.reqs /\ t.client = s.client
<1>1. Append(s.chain, b) \in Seq(Block)
  BY DEF Fitting
<1> QED
  BY <1>1 DEF commitBlock, Fitting

\* A block is executed before it is stored, and a response has a request.
Ready(s) ==
    /\ s.pc = "commit" => s.exec # NoBlock
    /\ s.pc \in Responding => s.reqs[s.client] # <<>>

FaultCounts == [late : 0 .. MaxLate, loss : 0 .. MaxLoss, exec : 0 .. MaxExec]

SizeInv ==
    /\ node \in [Node -> Fitting]
    /\ \A n \in Node : Ready(node[n])
    /\ \A m \in DOMAIN net : m \in FittingPacket /\ net[m] \in Nat \ {0}
    /\ up \subseteq Node
    /\ faults \in FaultCounts

-----------------------------------------------------------------------------
(* The packet handlers.                                                    *)

LEMMA PeerStatusFits ==
    ASSUME NEW s \in Fitting, Ready(s), NEW m \in FittingPacket, m.type = "status"
    PROVE  onPeerStatus(s, m) \in Fitting /\ Ready(onPeerStatus(s, m))
<1>1. m.number \in Nat
  BY DEF FittingPacket
<1> DEFINE peer == [s.peer EXCEPT ![m.from] = m.number]
<1>2. peer \in [Node -> Nat \cup {Unknown}]
  <2>1. s.peer \in [Node -> Nat \cup {Unknown}]
    BY DEF Fitting
  <2> QED
    BY <1>1, <2>1
<1> HIDE DEF peer
<1>3. onPeerStatus(s, m) = [s EXCEPT !.peer = peer]
  BY DEF onPeerStatus, Fitting, peer
<1> QED
  BY <1>2, <1>3 DEF Fitting, Ready

LEMMA PeerBlocksFits ==
    ASSUME NEW s \in Fitting, Ready(s), NEW m \in FittingPacket, m.type = "blocks"
    PROVE  onPeerBlocks(s, m) \in Fitting /\ Ready(onPeerBlocks(s, m))
<1>1. m.shard \in Shards
  BY DEF FittingPacket
<1>2. Append(s.buffer, m.shard) \in Seq(Shards)
  BY <1>1 DEF Fitting
<1> QED
  BY <1>2 DEF onPeerBlocks, pushShard, Fitting, Ready

LEMMA PeerRequestFits ==
    ASSUME NEW s \in Fitting, Ready(s), NEW m \in FittingPacket, m.type = "request"
    PROVE  onPeerRequestBlocks(s, m) \in Fitting /\ Ready(onPeerRequestBlocks(s, m))
<1>1. m.req \in Request /\ m.from \in Node
  BY DEF FittingPacket
<1> DEFINE q == pushRequest(s.reqs[m.from], m.req)
           reqs == [s.reqs EXCEPT ![m.from] = q]
           t == [s EXCEPT !.reqs = reqs]
<1>2. s.reqs \in [Node -> RequestQueues] /\ s.client \in Node
  BY DEF Fitting
<1>3. q \in RequestQueues /\ q # <<>>
  BY <1>1, <1>2, PushRequest
<1>4. onPeerRequestBlocks(s, m) \in {s, t}
  BY <1>1 DEF onPeerRequestBlocks, Fitting
<1> HIDE DEF q
<1>5. reqs \in [Node -> RequestQueues] /\ \A p \in Node : s.reqs[p] # <<>> => reqs[p] # <<>>
  BY <1>2, <1>3
<1> HIDE DEF reqs
<1>6. t \in Fitting /\ t.pc = s.pc /\ t.exec = s.exec /\ t.client = s.client /\ t.reqs = reqs
  BY <1>5 DEF Fitting
<1> HIDE DEF t
<1>7. Ready(t)
  BY <1>2, <1>5, <1>6 DEF Ready
<1> QED
  BY <1>4, <1>6, <1>7

-----------------------------------------------------------------------------
(* The actions.                                                            *)

LEMMA BagFits ==
    ASSUME NEW B, NEW T, \A m \in DOMAIN B : m \in T /\ B[m] \in Nat \ {0},
           NEW X, NEW Y \in SUBSET T
    PROVE  LET C == (B (-) SetToBag(X)) (+) SetToBag(Y)
           IN  \A m \in DOMAIN C : m \in T /\ C[m] \in Nat \ {0}
<1> DEFINE A == B (-) SetToBag(X)
           E == SetToBag(Y)
<1>1. \A m \in DOMAIN A : m \in T /\ A[m] \in Nat \ {0}
  <2> DEFINE Z == [e \in DOMAIN B |-> IF e \in DOMAIN SetToBag(X) THEN B[e] - SetToBag(X)[e]
                                                                  ELSE B[e]]
             V == {d \in DOMAIN Z : Z[d] > 0}
  <2>1. A = [e \in V |-> Z[e]]
    BY DEF (-)
  <2>2. \A e \in DOMAIN B : Z[e] \in Int
    <3> TAKE e \in DOMAIN B
    <3>1. e \in X => SetToBag(X)[e] = 1
      BY DEF SetToBag
    <3>2. DOMAIN SetToBag(X) = X
      BY DEF SetToBag
    <3> QED
      BY <3>1, <3>2
  <2>3. DOMAIN Z = DOMAIN B
    OBVIOUS
  <2> HIDE DEF Z, A
  <2> QED
    BY <2>1, <2>2, <2>3
<1>2. DOMAIN E = Y /\ \A m \in Y : E[m] = 1
  BY DEF SetToBag
<1> HIDE DEF A, E
<1> DEFINE C == A (+) E
<1>3. C = [e \in (DOMAIN A) \cup (DOMAIN E) |->
                (IF e \in DOMAIN A THEN A[e] ELSE 0) + (IF e \in DOMAIN E THEN E[e] ELSE 0)]
  BY DEF (+)
<1>4. \A m \in DOMAIN C : m \in T /\ C[m] \in Nat \ {0}
  <2> HIDE DEF C
  <2> TAKE m \in DOMAIN C
  <2>1. m \in DOMAIN A \/ m \in Y
    BY <1>2, <1>3
  <2>2. m \in T
    BY <1>1, <2>1
  <2>3. C[m] = (IF m \in DOMAIN A THEN A[m] ELSE 0) + (IF m \in Y THEN E[m] ELSE 0)
    BY <1>2, <1>3
  <2>4. m \in DOMAIN A => A[m] \in Nat \ {0}
    BY <1>1
  <2>5. m \in Y => E[m] = 1
    BY <1>2
  <2> QED
    BY <2>1, <2>2, <2>3, <2>4, <2>5
<1> QED
  BY <1>4 DEF A, E

LEMMA StepFits ==
    ASSUME SizeInv, NEW n \in Node, NEW s \in Fitting, Ready(s), NEW in, NEW out,
           \A m \in out : m \in FittingPacket, Step(n, s, in, out), faults' \in FaultCounts
    PROVE  SizeInv'
<1> DEFINE new == {m \in out : m.to \in Active(n)}
           old == {m \in DOMAIN net : m.type = "status" /\ m.from = n
                                        /\ \E x \in new : x.type = "status" /\ x.to = m.to}
           X == in \cup old
<1>1. net' = (net (-) SetToBag(X)) (+) SetToBag(new) /\ node' = [node EXCEPT ![n] = s] /\ up' = up
  BY DEF Step
<1>2. new \in SUBSET FittingPacket
  OBVIOUS
<1> HIDE DEF new, old, X
<1>3. \A m \in DOMAIN net : m \in FittingPacket /\ net[m] \in Nat \ {0}
  BY DEF SizeInv
<1>4. \A m \in DOMAIN net' : m \in FittingPacket /\ net'[m] \in Nat \ {0}
  BY <1>1, <1>2, <1>3, BagFits
<1>5. node' \in [Node -> Fitting] /\ \A p \in Node : Ready(node'[p])
  BY <1>1 DEF SizeInv
<1> QED
  BY <1>1, <1>4, <1>5 DEF SizeInv

LEMMA NodeFits ==
    ASSUME SizeInv, NEW n \in Node
    PROVE  node[n] \in Fitting /\ Ready(node[n]) /\ faults \in FaultCounts /\ up \subseteq Node
BY DEF SizeInv

LEMMA MaintainFits ==
    ASSUME SizeInv, NEW n \in Node, Maintain(n)
    PROVE  SizeInv'
<1> DEFINE s == node[n]
           s1 == maintainPeersConnection(n, s)
           s2 == maintainDownloadingQueueBuffer(s1)
           s3 == Known(s2)
           s4(r) == [r.s EXCEPT !.newBlocks = FALSE]
           P == IF s.newBlocks THEN {q \in Node : s2.peer[q] # Unknown} ELSE NewPeers(n)
           told == {Status(n, p) : p \in P}
<1>1. /\ s.pc = "maintain" /\ faults' = faults
      /\ \E r \in maintainPeersStatus(n, s3) : Step(n, AfterBlocks(s4(r)), {}, r.out \cup told)
  BY DEF Maintain, At
<1>2. s \in Fitting /\ faults' \in FaultCounts /\ up \subseteq Node
  BY <1>1, NodeFits
<1>3. \A m \in told : m \in FittingPacket
  <2>1. P \subseteq Node
    BY <1>2 DEF NewPeers, Active
  <2>2. Number(node[n]) \in Nat
    BY <1>2, NumberType
  <2> HIDE DEF P
  <2>3. ASSUME NEW p \in P PROVE Status(n, p) \in FittingPacket
    BY <2>1, <2>2 DEF Status, FittingPacket
  <2> QED
    BY <2>3
<1> HIDE DEF told
<1>4. s1 \in Fitting /\ s1.pc = "maintain"
  BY <1>1, <1>2, PeersFits
<1> HIDE DEF s1
<1>5. s2 \in Fitting /\ s2.pc = "maintain"
  BY <1>4, BufferFits
<1> HIDE DEF s2
<1>6. s3 \in Fitting /\ s3.pc = "maintain"
  BY <1>5, KnownFits
<1> HIDE DEF s3
<1>7. PICK r \in maintainPeersStatus(n, s3) : Step(n, AfterBlocks(s4(r)), {}, r.out \cup told)
  BY <1>1
<1>8. r.s \in Fitting /\ r.s.pc = "maintain" /\ \A m \in r.out : m \in FittingPacket
  BY <1>6, PeersStatusFits
<1>9. s4(r) \in Fitting /\ s4(r).pc = "maintain"
  BY <1>8 DEF Fitting
<1> DEFINE t == AfterBlocks(s4(r))
<1> HIDE DEF s4
<1>10. t \in Fitting /\ t.pc \in {"maintain", "requests", "top"}
  BY <1>9, AfterBlocksFits
<1>11. Step(n, t, {}, r.out \cup told)
  BY <1>7
<1> HIDE DEF t
<1>12. Ready(t)
  BY <1>10 DEF Ready, Responding
<1>13. \A m \in r.out \cup told : m \in FittingPacket
  BY <1>3, <1>8
<1> QED
  BY <1>2, <1>10, <1>11, <1>12, <1>13, StepFits

LEMMA ChooseClientFits ==
    ASSUME SizeInv, NEW n \in Node, NEW p \in Node, ChooseClient(n, p)
    PROVE  SizeInv'
<1> DEFINE s == node[n]
           t == [s EXCEPT !.client = p, !.pc = "respond"]
<1>1. s \in Fitting /\ s.reqs[p] # <<>> /\ faults' \in FaultCounts /\ Step(n, t, {}, {})
  BY NodeFits DEF ChooseClient
<1>2. t \in Fitting /\ t.pc = "respond" /\ t.client = p /\ t.reqs = s.reqs
  BY <1>1 DEF Fitting
<1> HIDE DEF t
<1>3. Ready(t)
  BY <1>1, <1>2 DEF Ready
<1> QED
  BY <1>1, <1>2, <1>3, StepFits

LEMMA NothingIsRequest == Nothing \in Request
BY DEF Nothing, Request

LEMMA RespondFits ==
    ASSUME SizeInv, NEW n \in Node, NEW reqs \in RequestQueues, NEW owed \in Request,
           NEW sent \in Sendings, NEW next \in {"maintain", "respondMore", "pushBack"},
           next = "respondMore" => reqs # <<>>, Respond(n, reqs, owed, sent, next),
           faults' \in FaultCounts
    PROVE  SizeInv'
<1> DEFINE s == node[n]
           end == next = "maintain"
           batch == IF end THEN <<>> ELSE sent.batch
           all == [s.reqs EXCEPT ![s.client] = reqs]
           t == [s EXCEPT !.reqs = all, !.owed = owed, !.batch = batch, !.pc = next]
           shards == sent.out \cup (IF end THEN {sent.batch} \ {<<>>} ELSE {})
           out == {BlocksPacket(n, shard) : shard \in shards}
<1>1. s \in Fitting
  BY NodeFits
<1>2. Step(n, t, {}, out)
  BY <1>1 DEF Respond, Fitting
<1>3. sent.batch \in Batches /\ sent.out \subseteq Shards
  BY DEF Sendings
<1>4. batch \in Batches
  BY <1>3, EmptyBatch
<1>5. s.reqs \in [Node -> RequestQueues] /\ s.client \in Node
  BY <1>1 DEF Fitting
<1>6. all \in [Node -> RequestQueues] /\ all[s.client] = reqs
  BY <1>5
<1>7. \A m \in out : m \in FittingPacket
  <2>1. shards \subseteq Shards
    BY <1>3, BatchIsShard
  <2> HIDE DEF shards
  <2>2. ASSUME NEW shard \in shards PROVE BlocksPacket(n, shard) \in FittingPacket
    BY <1>5, <2>1 DEF BlocksPacket, FittingPacket
  <2> QED
    BY <2>2
<1> HIDE DEF batch, all, out
<1>9. /\ t \in Fitting /\ t.pc = next /\ t.reqs = all /\ t.client = s.client
  BY <1>1, <1>4, <1>6 DEF Fitting
<1> HIDE DEF t
<1>10. Ready(t)
  BY <1>6, <1>9 DEF Ready, Responding
<1> QED
  BY <1>2, <1>7, <1>9, <1>10, StepFits

LEMMA RespondRangeFits ==
    ASSUME SizeInv, NEW n \in Node, NEW k \in Nat, RespondRange(n, k)
    PROVE  SizeInv'
<1> DEFINE s == node[n]
           q == s.reqs[s.client]
           top == topAndPop(q)
           from == top.range.from
           have == Number(s) - from + 1
           sent == batched(s, from, k)
           more == At(n, "respondMore")
           rest == unsent(top.range, k)
           next == IF top.rest = <<>> THEN "maintain" ELSE "respondMore"
<1>1. /\ s.pc \in Responding /\ faults' = faults
      /\ k <= top.range.size /\ (k = 0 \/ k <= have)
      /\ IF k = 0 /\ more THEN Respond(n, q, Nothing, sent, "maintain")
         ELSE IF k < top.range.size THEN Respond(n, top.rest, rest, sent, "pushBack")
         ELSE Respond(n, top.rest, Nothing, sent, next)
  BY DEF RespondRange
<1>2. s \in Fitting /\ Ready(s) /\ faults' \in FaultCounts
  BY <1>1, NodeFits
<1>3. q \in RequestQueues /\ q # <<>>
  BY <1>1, <1>2 DEF Fitting, Ready
<1> HIDE DEF q
<1>4. top.range \in Request /\ top.rest \in RequestQueues
  BY <1>3, TopAndPop
<1> HIDE DEF top
<1>5. from \in Nat \ {0} /\ top.range.size \in Nat
  BY <1>4 DEF Request
<1>6. sent \in Sendings
  <2>1. s.batch \in Batches /\ s.chain \in Seq(Block) /\ Number(s) = Len(s.chain)
    BY <1>2 DEF Fitting, Number
  <2>2. \A i \in 1 .. k : s.chain[from + i - 1] \in Block
    <3> TAKE i \in 1 .. k
    <3>1. Len(s.chain) \in Nat
      BY <2>1
    <3>2. from + i - 1 \in 1 .. Len(s.chain)
      BY <1>1, <1>5, <2>1, <3>1
    <3> QED
      BY <2>1, <3>2
  <2> HIDE DEF from
  <2> QED
    BY <1>5, <2>1, <2>2, Batched
<1>7. k < top.range.size => rest \in Request
  BY <1>5 DEF unsent, Request
<1>8. next \in {"maintain", "respondMore"} /\ (next = "respondMore" => top.rest # <<>>)
  OBVIOUS
<1> HIDE DEF sent, rest, next
<1>9. CASE Respond(n, q, Nothing, sent, "maintain")
  BY <1>2, <1>3, <1>6, <1>9, NothingIsRequest, RespondFits
<1>10. CASE k < top.range.size /\ Respond(n, top.rest, rest, sent, "pushBack")
  BY <1>2, <1>4, <1>6, <1>7, <1>10, RespondFits
<1>11. CASE Respond(n, top.rest, Nothing, sent, next)
  BY <1>2, <1>4, <1>6, <1>8, <1>11, NothingIsRequest, RespondFits
<1> QED
  BY <1>1, <1>9, <1>10, <1>11

LEMMA UnbatchedSending ==
    ASSUME NEW s \in Fitting
    PROVE  [batch |-> s.batch, out |-> {}] \in Sendings
BY DEF Fitting, Sendings

LEMMA PushBackFits ==
    ASSUME SizeInv, NEW n \in Node, PushBack(n)
    PROVE  SizeInv'
<1> DEFINE s == node[n]
           q == s.reqs[s.client]
           back == pushRequest(q, s.owed)
           sent == [batch |-> s.batch, out |-> {}]
<1>1. s \in Fitting /\ faults' \in FaultCounts
  BY NodeFits DEF PushBack
<1>2. Respond(n, back, Nothing, sent, "maintain")
  BY DEF PushBack
<1>3. q \in RequestQueues /\ s.owed \in Request
  BY <1>1 DEF Fitting
<1>4. back \in RequestQueues
  BY <1>3, PushRequest
<1>5. sent \in Sendings
  BY <1>1, UnbatchedSending
<1> HIDE DEF back, sent
<1> QED
  BY <1>1, <1>2, <1>4, <1>5, NothingIsRequest, RespondFits

LEMMA TakeTopFits ==
    ASSUME SizeInv, NEW n \in Node, NEW b \in Block, TakeTop(n, b)
    PROVE  SizeInv'
<1> DEFINE s == node[n]
           t == [s EXCEPT !.exec = b, !.pc = "commit"]
           q == RemoveFirst(s.queue, b)
           u == [s EXCEPT !.queue = q]
<1>1. /\ s \in Fitting /\ faults' \in FaultCounts /\ s.pc = "top"
      /\ Step(n, t, {}, {}) \/ Step(n, u, {}, {})
  BY NodeFits DEF TakeTop, At
<1>2. q \in Queues
  BY <1>1, RemoveFirstFits DEF Fitting
<1> HIDE DEF q
<1>3. t \in Fitting /\ t.pc = "commit" /\ t.exec = b
  BY <1>1 DEF Fitting
<1>4. u \in Fitting /\ u.pc = "top"
  BY <1>1, <1>2 DEF Fitting
<1> HIDE DEF t, u
<1>5. b # NoBlock
  BY SyncBlockAssumption
<1>6. Ready(t) /\ Ready(u)
  BY <1>3, <1>4, <1>5 DEF Ready, Responding
<1> QED
  BY <1>1, <1>3, <1>4, <1>6, StepFits

LEMMA CommitTopFits ==
    ASSUME SizeInv, NEW n \in Node, CommitTop(n)
    PROVE  SizeInv'
<1> DEFINE s == node[n]
           c == commitBlock(s, s.exec)
           q == RemoveFirst(c.queue, s.exec)
           t == [c EXCEPT !.queue = q, !.exec = NoBlock, !.pc = "top"]
<1>1. Step(n, t, {}, {}) /\ s.pc = "commit"
  BY DEF CommitTop, At
<1>2. s \in Fitting /\ Ready(s) /\ faults' \in FaultCounts
  BY NodeFits DEF CommitTop
<1>3. s.exec \in Block
  BY <1>1, <1>2 DEF Fitting, Ready
<1>4. c \in Fitting
  BY <1>2, <1>3, CommitBlockFits
<1> HIDE DEF c
<1>5. q \in Queues
  BY <1>4, RemoveFirstFits DEF Fitting
<1> HIDE DEF q
<1>6. t \in Fitting /\ t.pc = "top"
  BY <1>4, <1>5 DEF Fitting
<1> HIDE DEF t
<1>7. Ready(t)
  BY <1>6 DEF Ready, Responding
<1> QED
  BY <1>1, <1>2, <1>6, <1>7, StepFits

LEMMA EndOfQueueFits ==
    ASSUME SizeInv, NEW n \in Node, EndOfQueue(n)
    PROVE  SizeInv'
<1> DEFINE t == LeaveQueue(node[n])
<1>1. node[n] \in Fitting /\ faults' \in FaultCounts /\ Step(n, t, {}, {})
  BY NodeFits DEF EndOfQueue
<1>2. t \in Fitting /\ t.pc = "maintain"
  BY <1>1 DEF LeaveQueue, Fitting
<1> HIDE DEF t
<1>3. Ready(t)
  BY <1>2 DEF Ready, Responding
<1> QED
  BY <1>1, <1>2, <1>3, StepFits

LEMMA DoWorkFits ==
    ASSUME SizeInv, NEW n \in Node, DoWork(n)
    PROVE  SizeInv'
<1>1. ASSUME NEW k \in 0 .. Number(node[n]), RespondRange(n, k) PROVE SizeInv'
  <2>1. k \in Nat
    BY NodeFits, NumberType
  <2> QED
    BY <1>1, <2>1, RespondRangeFits
<1> QED
  BY <1>1, MaintainFits, ChooseClientFits, PushBackFits, TakeTopFits, CommitTopFits,
     EndOfQueueFits DEF DoWork

\* The steps that set one field that Ready does not look at.
LEMMA FieldFits ==
    ASSUME NEW s \in Fitting, Ready(s)
    PROVE  /\ \A x \in Nat : LET t == [s EXCEPT !.sealing = x] IN t \in Fitting /\ Ready(t)
           /\ LET t == [s EXCEPT !.newBlocks = TRUE] IN t \in Fitting /\ Ready(t)
           /\ LET t == [s EXCEPT !.recent = FALSE] IN t \in Fitting /\ Ready(t)
<1>1. ASSUME NEW x \in Nat
      PROVE  LET t == [s EXCEPT !.sealing = x] IN t \in Fitting /\ Ready(t)
  BY DEF Fitting, Ready
<1>2. LET t == [s EXCEPT !.newBlocks = TRUE] IN t \in Fitting /\ Ready(t)
  BY DEF Fitting, Ready
<1>3. LET t == [s EXCEPT !.recent = FALSE] IN t \in Fitting /\ Ready(t)
  BY DEF Fitting, Ready
<1> QED
  BY <1>1, <1>2, <1>3

LEMMA StoreBlockFits ==
    ASSUME SizeInv, NEW n \in Node, StoreBlock(n)
    PROVE  SizeInv'
<1>1. PICK b \in Sealed : Step(n, commitBlock(node[n], b), {}, {}) /\ faults' = faults
  BY DEF StoreBlock
<1> DEFINE t == commitBlock(node[n], b)
<1>2. node[n] \in Fitting /\ Ready(node[n]) /\ faults' \in FaultCounts /\ b \in Block
  BY <1>1, NodeFits, SyncBlockAssumption
<1>3. /\ t \in Fitting /\ t.pc = node[n].pc /\ t.exec = node[n].exec
      /\ t.reqs = node[n].reqs /\ t.client = node[n].client
  BY <1>2, CommitBlockFits
<1>4. Step(n, t, {}, {})
  BY <1>1
<1> HIDE DEF t
<1>5. Ready(t)
  BY <1>2, <1>3 DEF Ready
<1> QED
  BY <1>2, <1>3, <1>4, <1>5, StepFits

LEMMA DeliverFits ==
    ASSUME SizeInv, NEW n \in Node, Deliver(n)
    PROVE  SizeInv'
<1> DEFINE s == node[n]
           after(m) == IF ~ Admitted(s, m) THEN s
                       ELSE CASE m.type = "status" -> onPeerStatus(s, m)
                              [] m.type = "blocks" -> onPeerBlocks(s, m)
                              [] m.type = "request" -> onPeerRequestBlocks(s, m)
                              [] OTHER -> s
<1>1. PICK m \in DOMAIN net : m.to = n /\ messageHandler(m)
  BY DEF Deliver
<1>2. Step(n, after(m), {m}, {}) /\ faults' = faults
  BY <1>1 DEF messageHandler
<1>3. s \in Fitting /\ Ready(s) /\ faults' \in FaultCounts /\ m \in FittingPacket
  BY <1>2, NodeFits DEF SizeInv
<1>4. after(m) \in Fitting /\ Ready(after(m))
  <2>1. CASE Admitted(s, m) /\ m.type = "status"
    BY <1>3, <2>1, PeerStatusFits
  <2>2. CASE Admitted(s, m) /\ m.type = "blocks"
    BY <1>3, <2>2, PeerBlocksFits
  <2>3. CASE Admitted(s, m) /\ m.type = "request"
    BY <1>3, <2>3, PeerRequestFits
  <2>4. CASE ~ Admitted(s, m)
    BY <1>3, <2>4
  <2>5. m.type \in {"status", "blocks", "request"}
    BY <1>3 DEF FittingPacket
  <2> QED
    BY <2>1, <2>2, <2>3, <2>4, <2>5
<1> HIDE DEF after
<1> QED
  BY <1>2, <1>3, <1>4, StepFits

-----------------------------------------------------------------------------
(* The theorems.                                                           *)

LEMMA InitSizeInv == Init => SizeInv
<1> SUFFICES ASSUME Init PROVE SizeInv
  OBVIOUS
<1> DEFINE met(n) == [p \in Node |-> IF n \in Met /\ <<n, p>> \in Link THEN Len(Start[p])
                                                                     ELSE Unknown]
           none == [p \in Node |-> <<>>]
           s(n) == [chain |-> Start[n], pc |-> "maintain", state |-> "Idle", known |-> 0,
                    peer |-> met(n), check |-> TRUE, reqs |-> none, client |-> n,
                    owed |-> Nothing, batch |-> <<>>, buffer |-> <<>>, queue |-> <<>>,
                    exec |-> NoBlock,
                    maxRequest |-> 0, recent |-> FALSE, sealing |-> Len(Start[n]),
                    newBlocks |-> FALSE]
<1>1. node = [n \in Node |-> s(n)]
  BY DEF Init
<1>2. \A n \in Node : Start[n] \in Seq(Block) /\ Len(Start[n]) \in Nat
  <2> TAKE n \in Node
  <2>1. Start[n] \in Seq(Sealed) /\ Sealed \subseteq Block
    BY SyncStartAssumption, SyncBlockAssumption
  <2> QED
    BY <2>1, SeqMonotonic
<1>3. \A n \in Node : met(n) \in [Node -> Nat \cup {Unknown}]
  BY <1>2
<1>4. none \in [Node -> RequestQueues]
  BY EmptyRequests
<1> HIDE DEF met, none
<1>5. \A n \in Node : s(n) \in Fitting /\ s(n).pc = "maintain"
  BY <1>2, <1>3, <1>4, EmptyQueue, EmptyBatch, NothingIsRequest DEF Fitting
<1>6. \A n \in Node : Ready(s(n))
  BY <1>5 DEF Ready, Responding
<1> HIDE DEF s
<1>7. node \in [Node -> Fitting] /\ \A n \in Node : Ready(node[n])
  BY <1>1, <1>5, <1>6
<1>8. \A m \in DOMAIN net : m \in FittingPacket /\ net[m] \in Nat \ {0}
  <2>1. DOMAIN net = Stray /\ \A m \in Stray : net[m] = 1
    BY DEF Init, SetToBag
  <2>2. ASSUME NEW m \in Stray PROVE m \in FittingPacket
    <3>1. m \in Packet /\ m.type = "blocks"
      BY SyncStartAssumption
    <3>2. m.shard \in Shards
      BY MaxShardFacts DEF Shards
    <3> QED
      BY <3>1, <3>2 DEF Packet, FittingPacket
  <2> QED
    BY <2>1, <2>2
<1>9. up \subseteq Node /\ faults \in FaultCounts
  BY SyncSizeAssumption DEF Init, FaultCounts
<1> QED
  BY <1>7, <1>8, <1>9 DEF SizeInv

LEMMA NextSizeInv ==
    ASSUME SizeInv, [Next]_vars
    PROVE  SizeInv'
<1>1. CASE UNCHANGED vars
  BY <1>1 DEF SizeInv, vars
<1>2. ASSUME NEW n \in Node, DoWork(n) PROVE SizeInv'
  BY <1>2, DoWorkFits
<1>3. ASSUME NEW n \in Node, ExecBlock(n) PROVE SizeInv'
  <2> DEFINE t == [node[n] EXCEPT !.sealing = Number(node[n]) + 1]
  <2>1. Step(n, t, {}, {})
    BY <1>3 DEF ExecBlock
  <2>2. faults' \in FaultCounts
    BY <1>3, NodeFits, SyncSizeAssumption DEF ExecBlock, FaultCounts
  <2>3. Number(node[n]) + 1 \in Nat
    BY NodeFits, NumberType
  <2>4. t \in Fitting /\ Ready(t)
    BY <2>3, NodeFits, FieldFits
  <2> HIDE DEF t
  <2> QED
    BY <2>1, <2>2, <2>4, StepFits
<1>4. ASSUME NEW n \in Node, GiveUpBlock(n) PROVE SizeInv'
  <2> DEFINE t == [node[n] EXCEPT !.sealing = Number(node[n])]
  <2>1. Step(n, t, {}, {}) /\ faults' \in FaultCounts
    BY <1>4, NodeFits DEF GiveUpBlock
  <2>2. Number(node[n]) \in Nat
    BY NodeFits, NumberType
  <2>4. t \in Fitting /\ Ready(t)
    BY <2>2, NodeFits, FieldFits
  <2> HIDE DEF t
  <2> QED
    BY <2>1, <2>4, StepFits
<1>5. ASSUME NEW n \in Node, StoreBlock(n) PROVE SizeInv'
  BY <1>5, StoreBlockFits
<1>6. ASSUME NEW n \in Node, StatusTimeout(n) PROVE SizeInv'
  <2> DEFINE t == [node[n] EXCEPT !.newBlocks = TRUE]
  <2>1. Step(n, t, {}, {}) /\ faults' \in FaultCounts
    BY <1>6, NodeFits DEF StatusTimeout
  <2>4. t \in Fitting /\ Ready(t)
    BY NodeFits, FieldFits
  <2> HIDE DEF t
  <2> QED
    BY <2>1, <2>4, StepFits
<1>7. ASSUME NEW n \in Node, RequestTimeout(n) \/ LateTimeout(n) PROVE SizeInv'
  <2> DEFINE t == [node[n] EXCEPT !.recent = FALSE]
  <2>1. Step(n, t, {}, {})
    BY <1>7 DEF RequestTimeout, LateTimeout
  <2>2. faults' \in FaultCounts
    BY <1>7, NodeFits, SyncSizeAssumption DEF RequestTimeout, LateTimeout, FaultCounts
  <2>4. t \in Fitting /\ Ready(t)
    BY NodeFits, FieldFits
  <2> HIDE DEF t
  <2> QED
    BY <2>1, <2>2, <2>4, StepFits
<1>8. ASSUME NEW n \in Node, Deliver(n) PROVE SizeInv'
  BY <1>8, DeliverFits
<1>9. ASSUME NEW n \in Node, Leave(n) PROVE SizeInv'
  BY <1>9 DEF Leave, SizeInv
<1>10. ASSUME NEW m \in DOMAIN net, Lose(m) PROVE SizeInv'
  <2>1. /\ net' = net (-) SetToBag({m}) /\ node' = node /\ up' = up
        /\ faults' \in FaultCounts
    BY <1>10, SyncSizeAssumption DEF Lose, SizeInv, FaultCounts
  <2>2. \A x \in DOMAIN net' : x \in DOMAIN net /\ net'[x] \in Nat \ {0}
    <3>1. \A x \in DOMAIN net : net[x] \in Nat \ {0}
      BY DEF SizeInv
    <3> QED
      BY <2>1, <3>1 DEF (-), SetToBag
  <2> QED
    BY <2>1, <2>2 DEF SizeInv
<1> QED
  BY <1>1, <1>2, <1>3, <1>4, <1>5, <1>6, <1>7, <1>8, <1>9, <1>10 DEF Next

\* The state of every node, the packets under way and the counters keep their types, whatever
\* requests are merged, batches cut and shards flushed (SyncMaster, SyncMsgEngine).
THEOREM SyncTypes == Spec => []TypeOK
<1>1. SizeInv => TypeOK
  <2> SUFFICES ASSUME SizeInv PROVE TypeOK
    OBVIOUS
  <2>1. node \in [Node -> NodeState]
    BY FittingIsNodeState DEF SizeInv
  <2>2. ASSUME NEW m \in FittingPacket PROVE m \in Packet
    BY DEF FittingPacket, Packet, Shards
  <2> QED
    BY <2>1, <2>2 DEF SizeInv, TypeOK, FaultCounts
<1>2. SizeInv /\ [Next]_vars => SizeInv'
  BY NextSizeInv
<1> QED
  BY InitSizeInv, <1>1, <1>2, PTL DEF Spec

\* The download queue of a node passes its limit by less than the blocks of one packet, although
\* flushBufferToQueue looks at the length only between two shards.
THEOREM SyncQueueIsBounded == Spec => []QueueBounded
<1>1. SizeInv => QueueBounded
  <2> SUFFICES ASSUME SizeInv, NEW n \in Node
               PROVE  Len(node[n].queue) < MaxQueue + MaxShard
    BY DEF QueueBounded
  <2>1. node[n].queue \in Queues
    BY NodeFits DEF Fitting
  <2> QED
    BY <2>1 DEF Queues
<1>2. SizeInv /\ [Next]_vars => SizeInv'
  BY NextSizeInv
<1> QED
  BY InitSizeInv, <1>1, <1>2, PTL DEF Spec

-----------------------------------------------------------------------------
(* What a response leaves behind.                                          *)

Batching(n) == {number[node[n].batch[i]] : i \in DOMAIN node[n].batch}

LEMMA BagAdds ==
    ASSUME NEW B, NEW Y, NEW m \in Y
    PROVE  m \in DOMAIN (B (+) SetToBag(Y))
<1>1. DOMAIN SetToBag(Y) = Y
  BY DEF SetToBag
<1>2. DOMAIN (B (+) SetToBag(Y)) = (DOMAIN B) \cup (DOMAIN SetToBag(Y))
  BY DEF (+)
<1> QED
  BY <1>1, <1>2

\* What is sent goes to the peer or stays in the batch.
LEMMA RespondSends ==
    ASSUME SizeInv, NEW n \in Node, node[n].client \in Active(n), NEW reqs, NEW owed,
           NEW sent \in Sendings, NEW next, Respond(n, reqs, owed, sent, next)
    PROVE  LET p == node[n].client
           IN  /\ node'[n].client = p /\ node'[n].reqs[p] = reqs /\ node'[n].owed = owed
               /\ \A x : InSending(x, sent) => number[x] \in Answered(n, p)' \cup Batching(n)'
<1> DEFINE s == node[n]
           p == s.client
           end == next = "maintain"
           batch == IF end THEN <<>> ELSE sent.batch
           all == [s.reqs EXCEPT ![p] = reqs]
           t == [s EXCEPT !.reqs = all, !.owed = owed, !.batch = batch, !.pc = next]
           shards == sent.out \cup (IF end THEN {sent.batch} \ {<<>>} ELSE {})
           out == {BlocksPacket(n, shard) : shard \in shards}
           new == {m \in out : m.to \in Active(n)}
<1>1. s \in Fitting
  BY NodeFits
<1>2. Step(n, t, {}, out)
  BY <1>1 DEF Respond, Fitting
<1>3. s.reqs \in [Node -> RequestQueues] /\ p \in Node
  BY <1>1 DEF Fitting
<1>4. all[p] = reqs
  BY <1>3
<1> HIDE DEF batch, all
<1>5. t.client = p /\ t.reqs = all /\ t.owed = owed /\ t.batch = batch
  BY <1>1 DEF Fitting
<1>6. node' = [node EXCEPT ![n] = t] /\ \E A : net' = A (+) SetToBag(new)
  BY <1>2 DEF Step
<1> HIDE DEF t
<1>7. node'[n] = t
  BY <1>6 DEF SizeInv
<1>8. ASSUME NEW shard \in shards
      PROVE  \E m \in DOMAIN net' : /\ m.type = "blocks" /\ m.from = n /\ m.to = p
                                    /\ m.shard = shard
  <2> DEFINE m == BlocksPacket(n, shard)
  <2>1. m.type = "blocks" /\ m.from = n /\ m.to = p /\ m.shard = shard
    BY DEF BlocksPacket
  <2>2. m \in new
    BY <2>1
  <2> HIDE DEF m, new
  <2>3. m \in DOMAIN net'
    BY <1>6, <2>2, BagAdds
  <2> QED
    BY <2>1, <2>3
<1>9. ASSUME NEW shard \in shards, NEW i \in DOMAIN shard
      PROVE  number[shard[i]] \in Answered(n, p)'
  <2>1. PICK m \in DOMAIN net' : m.type = "blocks" /\ m.from = n /\ m.to = p /\ m.shard = shard
    BY <1>8
  <2>2. p' = p
    BY <1>5, <1>7
  <2> HIDE DEF p, shards
  <2> QED
    BY <2>1, <2>2 DEF Answered
<1>10. ASSUME NEW x, InSending(x, sent)
       PROVE  number[x] \in Answered(n, p)' \cup Batching(n)'
  <2>1. ASSUME NEW shard \in sent.out, NEW i \in DOMAIN shard, shard[i] = x
        PROVE  number[x] \in Answered(n, p)'
    BY <1>9, <2>1
  <2>2. ASSUME NEW i \in DOMAIN sent.batch, sent.batch[i] = x
        PROVE  number[x] \in Answered(n, p)' \cup Batching(n)'
    <3>1. CASE end
      <4>1. sent.batch # <<>>
        BY <2>2
      <4>2. sent.batch \in shards
        BY <3>1, <4>1
      <4> QED
        BY <1>9, <2>2, <4>2
    <3>2. CASE ~end
      <4>1. node'[n].batch = sent.batch
        BY <1>5, <1>7, <3>2 DEF batch
      <4> QED
        BY <2>2, <4>1 DEF Batching
    <3> QED
      BY <3>1, <3>2
  <2> QED
    BY <1>10, <2>1, <2>2 DEF InSending
<1> QED
  BY <1>4, <1>5, <1>7, <1>10

\* The batch of a response is part of what it has to send.
LEMMA BatchIsSent ==
    ASSUME NEW n \in Node, NEW sent, NEW S,
           \A x : InSending(x, [batch |-> node[n].batch, out |-> {}]) => InSending(x, sent),
           \A x : InSending(x, sent) => number[x] \in S
    PROVE  Batching(n) \subseteq S
<1> SUFFICES ASSUME NEW i \in DOMAIN node[n].batch PROVE number[node[n].batch[i]] \in S
  BY DEF Batching
<1>1. InSending(node[n].batch[i], [batch |-> node[n].batch, out |-> {}])
  BY DEF InSending
<1> QED
  BY <1>1

LEMMA AskedOne ==
    ASSUME NEW r
    PROVE  Asked(<<r>>) = r.from .. r.from + r.size - 1
<1> DEFINE R == r.from .. r.from + r.size - 1
           q == <<r>>
<1>1. DOMAIN q = {1} /\ q[1] = r
  OBVIOUS
<1>2. Asked(q) = UNION {q[i].from .. q[i].from + q[i].size - 1 : i \in DOMAIN q}
  BY DEF Asked
<1> HIDE DEF q
<1>3. {q[i].from .. q[i].from + q[i].size - 1 : i \in DOMAIN q} = {R}
  BY <1>1
<1>4. Asked(q) = R
  BY <1>2, <1>3
<1> QED
  BY <1>4 DEF q

LEMMA NothingAsked == Asked(<<Nothing>>) = {}
<1>1. Nothing.from = 1 /\ Nothing.size = 0
  BY DEF Nothing
<1> QED
  BY <1>1, AskedOne

LEMMA RespondRangeKeepsPending ==
    ASSUME SizeInv, ChainInv, NEW n \in Node, NEW k \in Nat, RespondRange(n, k),
           node[n].client \in Active(n)
    PROVE  LET p == node[n].client
           IN  /\ node'[n].client = p
               /\ Asked(node[n].reqs[p]) \cup Asked(<<node[n].owed>>) \cup Batching(n) \subseteq
                    Asked(node'[n].reqs[p]) \cup Asked(<<node'[n].owed>>)
                        \cup Answered(n, p)' \cup Batching(n)'
<1> DEFINE s == node[n]
           p == s.client
           q == s.reqs[p]
           top == topAndPop(q)
           from == top.range.from
           size == top.range.size
           have == Number(s) - from + 1
           sent == batched(s, from, k)
           rest == unsent(top.range, k)
           next == IF top.rest = <<>> THEN "maintain" ELSE "respondMore"
           gone == Answered(n, p)' \cup Batching(n)'
<1>1. /\ s.pc \in Responding
      /\ k <= size /\ (k = 0 \/ k <= have)
      /\ \/ Respond(n, q, Nothing, sent, "maintain")
         \/ k < size /\ Respond(n, top.rest, rest, sent, "pushBack")
         \/ k = size /\ Respond(n, top.rest, Nothing, sent, next)
  <2>1. /\ s.pc \in Responding
        /\ k <= size /\ (k = 0 \/ k <= have)
        /\ IF k = 0 /\ At(n, "respondMore") THEN Respond(n, q, Nothing, sent, "maintain")
           ELSE IF k < size THEN Respond(n, top.rest, rest, sent, "pushBack")
           ELSE Respond(n, top.rest, Nothing, sent, next)
    BY DEF RespondRange
  <2>2. size \in Nat
    <3>1. s \in Fitting /\ Ready(s)
      BY NodeFits
    <3>2. q \in RequestQueues /\ q # <<>>
      BY <2>1, <3>1 DEF Fitting, Ready
    <3> HIDE DEF q
    <3>3. top.range \in Request
      BY <3>2, TopAndPop
    <3> QED
      BY <3>3 DEF Request
  <2>3. k < size \/ k = size
    BY <2>1, <2>2
  <2> HIDE DEF size, have, sent, rest, next, q, top
  <2> QED
    BY <2>1, <2>3, Zenon
<1>2. s \in Fitting /\ Ready(s)
  BY NodeFits
<1>3. q \in RequestQueues /\ q # <<>>
  BY <1>1, <1>2 DEF Fitting, Ready
<1>0. Asked(<<s.owed>>) = {}
  <2>1. s.owed = Nothing
    BY <1>1, NodeShaped DEF GoodNode, Responding
  <2> QED
    BY <2>1, NothingAsked
<1> HIDE DEF q
<1>4. /\ top.range \in Request /\ top.rest \in RequestQueues
      /\ Asked(q) \subseteq (from .. from + size - 1) \cup Asked(top.rest)
  BY <1>3, TopAndPop
<1> HIDE DEF top
<1>5. from \in Nat \ {0} /\ size \in Nat
  BY <1>4 DEF Request
<1>6. s.chain \in Seq(Block) /\ Number(s) = Len(s.chain) /\ Len(s.chain) \in Nat
  BY <1>2 DEF Fitting, Number
<1>7. \A i \in 1 .. k : from + i - 1 \in 1 .. Len(s.chain)
  BY <1>1, <1>5, <1>6
<1>8. \A i \in 1 .. k : s.chain[from + i - 1] \in Block /\ number[s.chain[from + i - 1]] = from + i - 1
  <2> TAKE i \in 1 .. k
  <2>1. from + i - 1 \in 1 .. Len(s.chain)
    BY <1>7
  <2>2. Linked(s.chain)
    BY NodeShaped DEF GoodNode
  <2> QED
    BY <1>6, <2>1, <2>2 DEF Linked
<1>9. /\ sent \in Sendings /\ \A i \in 1 .. k : InSending(s.chain[from + i - 1], sent)
      /\ \A x : InSending(x, [batch |-> s.batch, out |-> {}]) => InSending(x, sent)
  <2>1. s.batch \in Batches
    BY <1>2 DEF Fitting
  <2> HIDE DEF from
  <2> QED
    BY <1>5, <1>8, <2>1, Batched
<1>10. k < size => Asked(<<rest>>) = from + k .. from + size - 1
  <2> HAVE k < size
  <2>1. rest.from = from + k /\ rest.size = size - k
    BY DEF unsent
  <2>2. rest.from + rest.size - 1 = from + size - 1
    BY <1>5, <2>1
  <2> HIDE DEF rest
  <2> QED
    BY <2>1, <2>2, AskedOne
<1> HIDE DEF sent, rest, size, have, next
<1>11. ASSUME NEW reqs, NEW owed, NEW l, Respond(n, reqs, owed, sent, l)
       PROVE  /\ node'[n].client = p /\ node'[n].reqs[p] = reqs /\ node'[n].owed = owed
              /\ from .. from + k - 1 \subseteq gone
              /\ Batching(n) \subseteq gone
  <2>1. /\ node'[n].client = p /\ node'[n].reqs[p] = reqs /\ node'[n].owed = owed
        /\ \A x : InSending(x, sent) => number[x] \in gone
    BY <1>9, <1>11, RespondSends
  <2> HIDE DEF gone, p
  <2>2. ASSUME NEW y \in from .. from + k - 1 PROVE y \in gone
    <3> DEFINE i == y - from + 1
    <3>1. i \in 1 .. k /\ from + i - 1 = y
      BY <1>5
    <3> HIDE DEF i
    <3>2. number[s.chain[from + i - 1]] = y /\ InSending(s.chain[from + i - 1], sent)
      BY <1>8, <1>9, <3>1
    <3> QED
      BY <2>1, <3>2
  <2>3. Batching(n) \subseteq gone
    BY <1>9, <2>1, BatchIsSent
  <2> QED
    BY <2>1, <2>2, <2>3
<1> HIDE DEF from
<1> DEFINE Goal == /\ node'[n].client = p
                   /\ Asked(q) \cup Asked(<<s.owed>>) \cup Batching(n) \subseteq
                        Asked(node'[n].reqs[p]) \cup Asked(<<node'[n].owed>>) \cup gone
<1>12. ASSUME Respond(n, q, Nothing, sent, "maintain") PROVE Goal
  <2>1. node'[n].client = p /\ node'[n].reqs[p] = q /\ Batching(n) \subseteq gone
    BY <1>11, <1>12
  <2> HIDE DEF gone
  <2> QED
    BY <1>0, <2>1
<1>13. ASSUME k < size, Respond(n, top.rest, rest, sent, "pushBack") PROVE Goal
  <2>1. /\ node'[n].client = p /\ node'[n].reqs[p] = top.rest /\ node'[n].owed = rest
        /\ from .. from + k - 1 \subseteq gone /\ Batching(n) \subseteq gone
    BY <1>11, <1>13
  <2>2. from .. from + size - 1 \subseteq (from .. from + k - 1) \cup (from + k .. from + size - 1)
    BY <1>5, <1>13
  <2>3. Asked(<<rest>>) = from + k .. from + size - 1
    BY <1>10, <1>13
  <2> HIDE DEF gone
  <2>4. Asked(q) \subseteq Asked(top.rest) \cup Asked(<<rest>>) \cup gone
    BY <1>4, <2>1, <2>2, <2>3
  <2> QED
    BY <1>0, <2>1, <2>4
<1>14. ASSUME k = size, Respond(n, top.rest, Nothing, sent, next) PROVE Goal
  <2>1. /\ node'[n].client = p /\ node'[n].reqs[p] = top.rest
        /\ from .. from + k - 1 \subseteq gone /\ Batching(n) \subseteq gone
    BY <1>11, <1>14
  <2> HIDE DEF gone
  <2>2. Asked(q) \subseteq Asked(top.rest) \cup gone
    BY <1>4, <1>14, <2>1
  <2> QED
    BY <1>0, <2>1, <2>2
<1>15. Goal
  <2> HIDE DEF Goal
  <2> QED
    BY <1>1, <1>12, <1>13, <1>14
<1> QED
  BY <1>15 DEF q

LEMMA PushBackKeepsPending ==
    ASSUME SizeInv, NEW n \in Node, PushBack(n), node[n].client \in Active(n),
           Len(node[n].reqs[node[n].client]) # MaxReqs
    PROVE  LET p == node[n].client
           IN  /\ node'[n].client = p
               /\ Asked(node[n].reqs[p]) \cup Asked(<<node[n].owed>>) \cup Batching(n) \subseteq
                    Asked(node'[n].reqs[p]) \cup Answered(n, p)' \cup Batching(n)'
<1> DEFINE s == node[n]
           p == s.client
           q == s.reqs[p]
           back == pushRequest(q, s.owed)
           sent == [batch |-> s.batch, out |-> {}]
           gone == Answered(n, p)' \cup Batching(n)'
<1>1. s \in Fitting
  BY NodeFits
<1>2. Respond(n, back, Nothing, sent, "maintain")
  BY DEF PushBack
<1>3. q \in RequestQueues /\ s.owed \in Request
  BY <1>1 DEF Fitting
<1>4. Len(q) < MaxReqs
  BY <1>3, Sizes DEF RequestQueues
<1>5. sent \in Sendings
  BY <1>1, UnbatchedSending
<1> HIDE DEF q
<1>6. Asked(q) \cup Asked(<<s.owed>>) \subseteq Asked(back)
  BY <1>3, <1>4, PushRequest, AskedOne
<1> HIDE DEF back
<1>7. /\ node'[n].client = p /\ node'[n].reqs[p] = back
      /\ \A x : InSending(x, sent) => number[x] \in gone
  BY <1>2, <1>5, RespondSends
<1> HIDE DEF gone, p
<1>8. Batching(n) \subseteq gone
  BY <1>7, BatchIsSent
<1>9. Asked(q) \cup Asked(<<s.owed>>) \cup Batching(n) \subseteq Asked(node'[n].reqs[p]) \cup gone
  BY <1>6, <1>7, <1>8
<1> QED
  BY <1>7, <1>9 DEF q, p, gone

\* No response loses a number that was asked for, whatever requests topAndPop merges and wherever
\* the timeout of maintainBlockRequest cuts the merged range, but in the one case the code has: the
\* P2P threads fill the request queue between enablePush and the push back of the rest.
THEOREM RangesAreKept == Spec => RangesLostOnlyWhenFull
<1> DEFINE A == \A n \in Node :
                    LET p == node[n].client
                    IN  /\ PushBack(n) \/ \E k \in 0 .. Number(node[n]) : RespondRange(n, k)
                        /\ p \in Active(n)
                        => \/ Pending(n, p) \subseteq Pending(n, p)' \cup Answered(n, p)'
                           \/ PushBack(n) /\ Len(node[n].reqs[p]) = MaxReqs
<1>1. SizeInv /\ ChainInv /\ [Next]_vars => [A]_vars
  <2> SUFFICES ASSUME SizeInv, ChainInv, NEW n \in Node, node[n].client \in Active(n),
                      PushBack(n) \/ \E k \in 0 .. Number(node[n]) : RespondRange(n, k),
                      ~(PushBack(n) /\ Len(node[n].reqs[node[n].client]) = MaxReqs)
               PROVE  LET p == node[n].client
                      IN  Pending(n, p) \subseteq Pending(n, p)' \cup Answered(n, p)'
    OBVIOUS
  <2> DEFINE p == node[n].client
             Goal == /\ node'[n].client = p
                     /\ Asked(node[n].reqs[p]) \cup Asked(<<node[n].owed>>) \cup Batching(n)
                            \subseteq Asked(node'[n].reqs[p]) \cup Asked(<<node'[n].owed>>)
                                        \cup Answered(n, p)' \cup Batching(n)'
  <2>1. ASSUME PushBack(n) PROVE Goal
    BY <2>1, PushBackKeepsPending
  <2>2. ASSUME NEW k \in 0 .. Number(node[n]), RespondRange(n, k) PROVE Goal
    <3>1. k \in Nat
      BY NodeFits, NumberType
    <3> HIDE DEF Goal
    <3> QED
      BY <2>2, <3>1, RespondRangeKeepsPending DEF Goal
  <2>3. Goal
    <3> HIDE DEF Goal
    <3> QED
      BY <2>1, <2>2
  <2>4. p' = p
    BY <2>3
  <2> QED
    BY <2>3, <2>4 DEF Pending, Batching
<1>2. SizeInv /\ [Next]_vars => SizeInv'
  BY NextSizeInv
<1>3. ChainInv /\ [Next]_vars => ChainInv'
  BY NextChainInv
<1> QED
  BY InitSizeInv, InitChainInv, <1>1, <1>2, <1>3, PTL DEF Spec, RangesLostOnlyWhenFull
=============================================================================
