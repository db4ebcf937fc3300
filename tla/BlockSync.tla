------------------------------ MODULE BlockSync ------------------------------
(***************************************************************************)
(* libsync: how a node that is behind finds out, asks for the missing      *)
(* blocks and stores them.  On each node there are three actors: the sync  *)
(* thread (SyncMaster::doWork), the P2P threads that run the packet        *)
(* handlers of SyncMsgEngine, and the consensus thread, which stores       *)
(* blocks too.  The sync thread's loop is cut where another actor's step   *)
(* can make a difference; pc names the call of doWork that comes next.     *)
(*                                                                         *)
(* Blocks carry what isNewBlock looks at: number, parent and whether the   *)
(* signatures of a quorum check (Sealed).  That one block per height is    *)
(* sealed is what the consensus modules show.                              *)
(***************************************************************************)
EXTENDS Integers, Sequences, FiniteSets, Bags, TLC, SequencesExt

CONSTANTS
    NodeNum,           \* the nodes of the group, sealers or observers
    Block, Genesis,    \* the blocks that may ever exist; block number 0
    NoBlock,           \* nullptr
    number, parent,    \* number[b], parent[b]: from the header of b
    Sealed,            \* the blocks fp_isConsensusOk accepts
    weight,            \* weight[b]: the size of the RLP of b
    MaxPayload,        \* c_maxPayload
    MaxRequestBlocks,  \* c_maxRequestBlocks
    MaxRequestShards,  \* c_maxRequestShards
    MaxQueue,          \* c_maxDownloadingBlockQueueSize and ...BufferSize
    MaxReqs,           \* c_maxReceivedDownloadRequestPerPeer
    Link,              \* the pairs of nodes with a P2P session while both run
    Start,             \* Start[n]: the blocks above the genesis block that node n starts with
    Stray,             \* bound: block packets a faulty peer has under way from the start
    Sealers,           \* bound: the nodes whose consensus thread stores blocks
    Met,               \* bound: the nodes that know the numbers of their peers from the start
    Leaving,           \* bound: the nodes that may go off, once and for good
    MaxLate,           \* bound: request timeouts that come before the answer
    MaxLoss,           \* bound: how many packets get lost
    MaxExec            \* bound: how often a consensus thread begins to execute a block

Node == 0 .. NodeNum - 1
Request == [from : Nat \ {0}, size : Nat]

Packet ==
    [type : {"status"}, from : Node, to : Node, number : Nat]
        \cup [type : {"request"}, from : Node, to : Node, req : Request]
        \cup [type : {"blocks"}, from : Node, to : Node, shard : Seq(Block)]

ASSUME SyncBlockAssumption ==
    /\ Genesis \in Block /\ NoBlock \notin Block
    /\ number \in [Block -> Nat] /\ number[Genesis] = 0
    /\ parent \in [Block -> Block]
    /\ weight \in [Block -> Nat \ {0}]
    /\ Sealed \subseteq Block
    /\ \A b, c \in Sealed : number[b] = number[c] => b = c
ASSUME SyncSizeAssumption ==
    /\ {NodeNum, MaxRequestBlocks, MaxRequestShards, MaxQueue, MaxReqs} \subseteq Nat \ {0}
    /\ {MaxPayload, MaxLate, MaxLoss, MaxExec} \subseteq Nat
ASSUME SyncStartAssumption ==
    /\ Start \in [Node -> Seq(Sealed)]
    /\ \A n \in Node : \A i \in 1 .. Len(Start[n]) :
            /\ number[Start[n][i]] = i
            /\ parent[Start[n][i]] = IF i = 1 THEN Genesis ELSE Start[n][i - 1]
    /\ {Sealers, Met, Leaving} \subseteq SUBSET Node
    /\ Link \subseteq Node \X Node /\ \A l \in Link : l[1] # l[2]
    /\ IsFiniteSet(Stray) /\ \A m \in Stray : m \in Packet /\ m.type = "blocks"

VARIABLES
    node,    \* node[n]: the state of node n
    net,     \* the bag of packets under way
    up,      \* the nodes that run
    faults   \* how many late timeouts, lost packets and executed blocks there were

vars == <<node, net, up, faults>>

Unknown == -1

NodeState ==
    [chain : Seq(Block),               \* on disk: the blocks above the genesis block
     pc : {"maintain", "requests", "respond", "respondMore", "pushBack", "top", "commit"},
     state : {"Idle", "Downloading"},  \* SyncMasterStatus::state
     known : Nat,                      \* knownHighestNumber
     peer : [Node -> Nat \cup {Unknown}],  \* SyncPeerStatus::number, Unknown: no such peer
     check : BOOLEAN,                  \* needCheckPacketInGroup
     reqs : [Node -> Seq(Request)],    \* SyncPeerStatus::reqQueue, best first
     client : Node,                    \* the peer maintainBlockRequest responds to
     owed : Request,                   \* the rest of a range, before it is pushed back
     batch : Seq(Block),               \* m_blockRLPsBatch
     buffer : Seq(Seq(Block)),         \* DownloadingBlockQueue::m_buffer
     queue : Seq(Block),               \* m_blocks, lowest number first
     exec : Block \cup {NoBlock},      \* the top block while it is executed
     maxRequest : Nat,                 \* m_maxRequestNumber
     recent : BOOLEAN,                 \* the request timeout has not passed
     sealing : Nat,                    \* m_currentSealingNumber
     newBlocks : BOOLEAN]              \* m_newBlocks, or m_maintainBlocksTimeout has passed

TypeOK ==
    /\ node \in [Node -> NodeState]
    /\ \A m \in DOMAIN net : m \in Packet /\ net[m] \in Nat \ {0}
    /\ up \subseteq Node
    /\ faults \in [late : 0 .. MaxLate, loss : 0 .. MaxLoss, exec : 0 .. MaxExec]

-----------------------------------------------------------------------------
(* The block chain.                                                        *)

Number(s) == Len(s.chain)
Tip(s) == IF s.chain = <<>> THEN Genesis ELSE s.chain[Len(s.chain)]

\* Mistake to detect: commitBlock relies on the check its caller made before the execution.
commitBlockBlind(s, b) == [s EXCEPT !.chain = Append(@, b), !.newBlocks = TRUE]

\* The checks of BlockChainImp::commitBlock, and onReady, which calls noteNewBlocks.
CanCommitBlock(s, b) == number[b] = Number(s) + 1 /\ parent[b] = Tip(s)
commitBlock(s, b) ==
    IF CanCommitBlock(s, b)
    THEN [s EXCEPT !.chain = Append(@, b), !.newBlocks = TRUE]
    ELSE s

-----------------------------------------------------------------------------
(* DownloadingBlockQueue.                                                  *)

\* What m_blocks.top() may be: with two blocks of one number the heap decides.
Tops(q) == {b \in ToSet(q) : number[b] = number[q[1]]}

pushShard(s, shard) ==
    IF Len(s.buffer) >= MaxQueue THEN s ELSE [s EXCEPT !.buffer = Append(@, shard)]

clear(s) == [s EXCEPT !.buffer = <<>>, !.queue = <<>>]

clearFullQueueIfNotHas(s, next) ==
    IF Len(s.queue) = MaxQueue /\ number[s.queue[1]] > next
    THEN [s EXCEPT !.queue = <<>>]
    ELSE s

\* BlockQueueCmp: a block goes in front of the blocks with higher numbers.
pushBlock(q, b) == InsertAt(q, Cardinality({i \in DOMAIN q : number[q[i]] <= number[b]}) + 1, b)

\* isNewerBlock leaves out the blocks of a shard that are stored already.
newerPushed(s, q, shard) ==
    LET after[i \in 0 .. Len(shard)] ==
            IF i = 0 THEN q
            ELSE IF number[shard[i]] > Number(s) THEN pushBlock(after[i - 1], shard[i])
            ELSE after[i - 1]
    IN  after[Len(shard)]

\* A shard is decoded as a whole, when the queue is not full before.
pushIntoQueue(s, q, shard) == IF Len(q) >= MaxQueue THEN q ELSE newerPushed(s, q, shard)

allPushed(s) ==
    LET after[i \in 0 .. Len(s.buffer)] ==
            IF i = 0 THEN s.queue ELSE pushIntoQueue(s, after[i - 1], s.buffer[i])
    IN  after[Len(s.buffer)]

flushBufferToQueue(s) == [s EXCEPT !.buffer = <<>>, !.queue = allPushed(s)]

-----------------------------------------------------------------------------
(* DownloadRequestQueue: increasing by from, decreasing by size.           *)

Better(r, t) == r.from < t.from \/ (r.from = t.from /\ r.size > t.size)

pushRequest(q, r) ==
    IF Len(q) >= MaxReqs THEN q
    ELSE InsertAt(q, Cardinality({i \in DOMAIN q : ~Better(r, q[i])}) + 1, r)

\* The number after the merged range of topAndPop; later requests start later.
mergedEnd(q) ==
    LET end[i \in 0 .. Len(q)] ==
            IF i = 0 THEN q[1].from
            ELSE IF q[i].from <= end[i - 1] /\ q[i].from + q[i].size > end[i - 1]
            THEN q[i].from + q[i].size
            ELSE end[i - 1]
    IN  end[Len(q)]

topAndPop(q) ==
    LET end == mergedEnd(q)
    IN  [range |-> [from |-> q[1].from, size |-> end - q[1].from],
         rest |-> SubSeq(q, Cardinality({i \in DOMAIN q : q[i].from <= end}) + 1, Len(q))]

Nothing == [from |-> 1, size |-> 0]

\* Mistake to detect: the block at which the timeout came is skipped.
unsentSkipping(range, k) == [from |-> range.from + k + 1, size |-> range.size - k - 1]

\* The range that is pushed back when only k blocks have been sent in time.
unsent(range, k) == [from |-> range.from + k, size |-> range.size - k]

-----------------------------------------------------------------------------
(* DownloadBlocksContainer::batchAndSend.  A block that is larger than a   *)
(* packet may be goes out by itself, before the blocks batched so far.     *)

Weight(batch) ==
    LET upTo[i \in 0 .. Len(batch)] == IF i = 0 THEN 0 ELSE upTo[i - 1] + weight[batch[i]]
    IN  upTo[Len(batch)]

batchAndSend(acc, b) ==
    IF weight[b] > MaxPayload
    THEN [acc EXCEPT !.out = @ \cup {<<b>>}]
    ELSE IF Weight(acc.batch) + weight[b] > MaxPayload
    THEN [batch |-> <<b>>, out |-> acc.out \cup ({acc.batch} \ {<<>>})]
    ELSE [acc EXCEPT !.batch = Append(@, b)]

-----------------------------------------------------------------------------
(* The network: packets may be lost and overtake each other; of the status *)
(* packets on one link only the newest is kept (bound).                    *)

\* Mistake to detect: the number of the block below the tip is sent.
StatusBehind(n, p) ==
    [type |-> "status", from |-> n, to |-> p, number |-> Number(node[n]) - 1]

Status(n, p) == [type |-> "status", from |-> n, to |-> p, number |-> Number(node[n])]

Active(n) == {p \in up : <<n, p>> \in Link}

Step(n, s, in, out) ==
    /\ n \in up
    /\ node' = [node EXCEPT ![n] = s]
    /\ LET new == {m \in out : m.to \in Active(n)}
           old == {m \in DOMAIN net : m.type = "status" /\ m.from = n
                                        /\ \E x \in new : x.type = "status" /\ x.to = m.to}
       IN  net' = (net (-) SetToBag(in \cup old)) (+) SetToBag(new)
    /\ UNCHANGED up

-----------------------------------------------------------------------------
(* SyncMsgEngine: the packet handlers.                                     *)

\* checkSession: a packet of a node that is no peer is dropped.
Admitted(s, m) == ~s.check \/ s.peer[m.from] # Unknown

onPeerStatus(s, m) == [s EXCEPT !.peer[m.from] = m.number]

onPeerBlocks(s, m) == pushShard(s, m.shard)

Responding == {"respond", "respondMore"}

\* disablePush: while the requests of a peer are responded to, its new ones are dropped.
\* enablePush comes before the push back, so that they are taken again at "pushBack".
onPeerRequestBlocks(s, m) ==
    IF s.peer[m.from] = Unknown \/ (s.pc \in Responding /\ s.client = m.from)
    THEN s
    ELSE [s EXCEPT !.reqs[m.from] = pushRequest(@, m.req)]

messageHandler(m) ==
    LET s == node[m.to]
    IN  /\ Step(m.to,
                IF ~Admitted(s, m) THEN s
                ELSE CASE m.type = "status" -> onPeerStatus(s, m)
                       [] m.type = "blocks" -> onPeerBlocks(s, m)
                       [] m.type = "request" -> onPeerRequestBlocks(s, m)
                       [] OTHER -> s,
                {m}, {})
        /\ UNCHANGED faults

Deliver(n) == \E m \in DOMAIN net : m.to = n /\ messageHandler(m)

-----------------------------------------------------------------------------
(* SyncMaster::doWork.                                                     *)

At(n, label) == node[n].pc = label

\* Mistake to detect: a peer is kept when its session is gone.
maintainPeersConnectionKeeping(n, s) ==
    [s EXCEPT !.check = IF s.state = "Idle" THEN Number(s) # 0 ELSE @,
              !.peer = [p \in Node |-> IF p \in Active(n) /\ @[p] = Unknown THEN 0 ELSE @[p]]]

\* A peer without session is forgotten, but not by a node that began its download at block 0.
maintainPeersConnection(n, s) ==
    LET check == IF s.state = "Idle" THEN Number(s) # 0 ELSE s.check
        old == IF check THEN Active(n) ELSE Node
    IN  [s EXCEPT !.check = check,
                  !.peer = [p \in Node |-> IF p \in Active(n) /\ @[p] = Unknown THEN 0
                                           ELSE IF p \in old THEN @[p] ELSE Unknown],
                  !.reqs = [p \in Node |-> IF p \in old THEN @[p] ELSE <<>>]]

maintainDownloadingQueueBuffer(s) ==
    IF s.state = "Downloading"
    THEN flushBufferToQueue(clearFullQueueIfNotHas(s, Number(s) + 1))
    ELSE clear(s)

\* Only a new peer is told the own status here.
NewPeers(n) == {p \in Active(n) : node[n].peer[p] = Unknown}

MaxPeer(s) == LET known == {s.peer[p] : p \in Node} \cup {0}
              IN  CHOOSE x \in known : \A y \in known : y <= x

\* The shards of a request turn: [current + 1, last] cut by MaxRequestBlocks.
ShardNumber(s, last) ==
    LET all == (last - Number(s) + MaxRequestBlocks - 1) \div MaxRequestBlocks
    IN  IF all < MaxRequestShards THEN all ELSE MaxRequestShards

Shard(s, i, last) ==
    LET from == Number(s) + 1 + (i - 1) * MaxRequestBlocks
        to == IF from + MaxRequestBlocks - 1 < last THEN from + MaxRequestBlocks - 1 ELSE last
    IN  [from |-> from, size |-> to - from + 1]

\* foreachPeerRandom: each round gives every peer at the highest number one shard.
Assignments(s, last) ==
    LET askable == {p \in Node : s.peer[p] = s.known}
        k == Cardinality(askable)
    IN  {a \in [1 .. ShardNumber(s, last) -> askable] :
            \A i, j \in DOMAIN a : i # j /\ (i - 1) \div k = (j - 1) \div k => a[i] # a[j]}

Requests(n, s, a, last) ==
    {[type |-> "request", from |-> n, to |-> a[i], req |-> Shard(s, i, last)] : i \in DOMAIN a}

\* min(maxPeerNumber, minNumberInQueue - 1)
LastMissing(s) ==
    LET below == IF s.queue = <<>> THEN s.known ELSE number[s.queue[1]] - 1
    IN  IF below < s.known THEN below ELSE s.known

\* The chain is up to date, the next block is being sealed, or a request is still waited for.
NothingToAsk(s) ==
    \/ s.known <= Number(s)
    \/ s.known <= s.sealing
    \/ s.recent /\ s.maxRequest > Number(s)

\* The highest number is looked up again in each turn.
Known(s) == [s EXCEPT !.known = IF MaxPeer(s) > Number(s) THEN MaxPeer(s) ELSE Number(s)]

\* The state after maintainPeersStatus with the requests it has sent.
maintainPeersStatus(n, s) ==
    LET t == [s EXCEPT !.recent = TRUE, !.state = "Downloading"]
        last == LastMissing(s)
    IN  IF NothingToAsk(s) THEN {[s |-> s, out |-> {}]}
        ELSE IF last <= Number(s) THEN {[s |-> t, out |-> {}]}
        ELSE {[s |-> [t EXCEPT !.maxRequest = Shard(s, Len(a), last).from
                                                + Shard(s, Len(a), last).size - 1],
               out |-> Requests(n, s, a, last)] : a \in Assignments(s, last)}

\* What comes after maintainBlocks: the requests of others, or the download queue unless the
\* chain has reached the highest number.
AfterBlocks(s) ==
    IF s.state = "Idle"
    THEN [s EXCEPT !.pc = IF \E p \in Node : s.reqs[p] # <<>> THEN "requests" ELSE "maintain"]
    ELSE IF Number(s) >= s.known THEN [clear(s) EXCEPT !.state = "Idle"]
    ELSE [s EXCEPT !.pc = "top"]

\* doWork up to its first long call; maintainBlocks broadcasts the status when it is due.
Maintain(n) ==
    /\ At(n, "maintain")
    /\ LET s1 == maintainDownloadingQueueBuffer(maintainPeersConnection(n, node[n]))
       IN  \E r \in maintainPeersStatus(n, Known(s1)) :
                Step(n, AfterBlocks([r.s EXCEPT !.newBlocks = FALSE]), {},
                     r.out \cup {Status(n, p) : p \in IF node[n].newBlocks
                                                     THEN {q \in Node : s1.peer[q] # Unknown}
                                                     ELSE NewPeers(n)})
    /\ UNCHANGED faults

\* maintainBlockRequest takes one peer with requests per turn.
ChooseClient(n, p) ==
    /\ At(n, "requests") /\ node[n].reqs[p] # <<>>
    /\ Step(n, [node[n] EXCEPT !.client = p, !.pc = "respond"], {}, {})
    /\ UNCHANGED faults

BlocksPacket(n, shard) == [type |-> "blocks", from |-> n, to |-> node[n].client, shard |-> shard]

\* Packets go out when they are full, and with the end of the response.
Respond(n, reqs, owed, sent, next) ==
    Step(n, [node[n] EXCEPT !.reqs[node[n].client] = reqs, !.owed = owed,
                            !.batch = IF next = "maintain" THEN <<>> ELSE sent.batch,
                            !.pc = next],
         {}, {BlocksPacket(n, shard) :
                shard \in sent.out \cup (IF next = "maintain" THEN {sent.batch} \ {<<>>} ELSE {})})

\* The first k blocks of the chain from block number from on, batched into packets.
batched(s, from, k) ==
    LET acc[i \in 0 .. k] ==
            IF i = 0 THEN [batch |-> s.batch, out |-> {}]
            ELSE batchAndSend(acc[i - 1], s.chain[from + i - 1])
    IN  acc[k]

\* The first k blocks of a merged range are sent before c_respondDownloadRequestTimeout; the
\* rest is to be pushed back.  The first block of a response is in time.
RespondRange(n, k) ==
    /\ node[n].pc \in Responding
    /\ LET s == node[n]
           top == topAndPop(s.reqs[s.client])
           from == top.range.from
           have == Number(s) - from + 1
           sent == batched(s, from, k)
       IN  /\ k <= top.range.size /\ (k = 0 \/ k <= have)
           /\ k = 0 => At(n, "respondMore") \/ have <= 0
           /\ IF k = 0 /\ At(n, "respondMore")   \* the timeout comes between two ranges
              THEN Respond(n, s.reqs[s.client], Nothing, sent, "maintain")
              ELSE IF k < top.range.size
              THEN Respond(n, top.rest, unsent(top.range, k), sent, "pushBack")
              ELSE Respond(n, top.rest, Nothing, sent,
                           IF top.rest = <<>> THEN "maintain" ELSE "respondMore")
    /\ UNCHANGED faults

\* The rest is pushed back like any other request, and the response ends.
PushBack(n) ==
    /\ At(n, "pushBack")
    /\ LET s == node[n]
       IN  Respond(n, pushRequest(s.reqs[s.client], s.owed), Nothing,
                   [batch |-> s.batch, out |-> {}], "maintain")
    /\ UNCHANGED faults

isNewBlock(s, b) == number[b] = Number(s) + 1 /\ parent[b] = Tip(s) /\ b \in Sealed

Due(s) == IF s.queue = <<>> THEN {} ELSE {b \in Tops(s.queue) : number[b] <= Number(s) + 1}

\* One turn of the loop; executing a block takes time, so that storing it is a step of its own.
TakeTop(n, b) ==
    /\ At(n, "top") /\ b \in Due(node[n])
    /\ Step(n, IF isNewBlock(node[n], b)
               THEN [node[n] EXCEPT !.exec = b, !.pc = "commit"]
               ELSE [node[n] EXCEPT !.queue = RemoveFirst(@, b)],
            {}, {})
    /\ UNCHANGED faults

CommitTop(n) ==
    /\ At(n, "commit")
    /\ LET b == node[n].exec
       IN  Step(n, [commitBlock(node[n], b) EXCEPT !.queue = RemoveFirst(@, b), !.exec = NoBlock,
                                                   !.pc = "top"],
                {}, {})
    /\ UNCHANGED faults

\* The end of maintainDownloadingQueue: the turn's timer, and noteDownloadingFinish.
LeaveQueue(s) ==
    [s EXCEPT !.recent = IF Number(s) >= s.maxRequest THEN FALSE ELSE @,
              !.state = IF Number(s) >= s.known THEN "Idle" ELSE @,
              !.pc = "maintain"]

EndOfQueue(n) ==
    /\ At(n, "top") /\ Due(node[n]) = {}
    /\ Step(n, LeaveQueue(node[n]), {}, {})
    /\ UNCHANGED faults

DoWork(n) ==
    \/ Maintain(n)
    \/ \E p \in Node : ChooseClient(n, p)
    \/ (\E k \in 0 .. Number(node[n]) : RespondRange(n, k)) \/ PushBack(n)
    \/ (\E b \in Block : TakeTop(n, b)) \/ CommitTop(n) \/ EndOfQueue(n)

-----------------------------------------------------------------------------
(* The consensus thread: noteSealingBlockNumber when it executes the next  *)
(* block and when it gives it up, and commitBlock.                         *)

ExecBlock(n) ==
    /\ n \in Sealers /\ \E b \in Sealed : number[b] = Number(node[n]) + 1
    /\ faults.exec < MaxExec
    /\ Step(n, [node[n] EXCEPT !.sealing = Number(node[n]) + 1], {}, {})
    /\ faults' = [faults EXCEPT !.exec = @ + 1]

GiveUpBlock(n) ==
    /\ node[n].sealing # Number(node[n])
    /\ Step(n, [node[n] EXCEPT !.sealing = Number(node[n])], {}, {})
    /\ UNCHANGED faults

StoreBlock(n) ==
    \E b \in Sealed :
        /\ n \in Sealers /\ node[n].sealing = number[b]
        /\ Step(n, commitBlock(node[n], b), {}, {})
        /\ UNCHANGED faults

-----------------------------------------------------------------------------
(* Time and the network.                                                   *)

\* The packets a request turn of node n still waits for.
Awaited(n) ==
    \/ \E m \in DOMAIN net : (m.type = "request" /\ m.from = n) \/ (m.type = "blocks" /\ m.to = n)
    \/ \E p \in up \ {n} : node[p].reqs[n] # <<>> \/ (At(p, "pushBack") /\ node[p].client = n)
    \/ node[n].buffer # <<>> \/ node[n].exec # NoBlock

\* c_maintainBlocksTimeout.  That a status that is known or under way is sent again would
\* change nothing.
StatusTimeout(n) ==
    /\ ~node[n].newBlocks
    /\ \E p \in Active(n) : node[p].peer[n] # Number(node[n]) /\ Status(n, p) \notin DOMAIN net
    /\ Step(n, [node[n] EXCEPT !.newBlocks = TRUE], {}, {})
    /\ UNCHANGED faults

RequestTimeout(n) ==
    /\ node[n].recent /\ ~Awaited(n)
    /\ Step(n, [node[n] EXCEPT !.recent = FALSE], {}, {})
    /\ UNCHANGED faults

LateTimeout(n) ==
    /\ node[n].recent /\ Awaited(n)
    /\ faults.late < MaxLate
    /\ Step(n, [node[n] EXCEPT !.recent = FALSE], {}, {})
    /\ faults' = [faults EXCEPT !.late = @ + 1]

Lose(m) ==
    /\ faults.loss < MaxLoss
    /\ net' = net (-) SetToBag({m})
    /\ faults' = [faults EXCEPT !.loss = @ + 1]
    /\ UNCHANGED <<node, up>>

\* A node goes off, with the packets from and to it.
Leave(n) ==
    /\ n \in up \cap Leaving
    /\ up' = up \ {n}
    /\ net' = [m \in {x \in DOMAIN net : n \notin {x.from, x.to}} |-> net[m]]
    /\ UNCHANGED <<node, faults>>

Init ==
    /\ node = [n \in Node |->
            [chain |-> Start[n], pc |-> "maintain", state |-> "Idle", known |-> 0,
             peer |-> [p \in Node |-> IF n \in Met /\ <<n, p>> \in Link THEN Len(Start[p]) ELSE Unknown],
             check |-> TRUE,
             reqs |-> [p \in Node |-> <<>>], client |-> n,
             owed |-> Nothing, batch |-> <<>>,
             buffer |-> <<>>, queue |-> <<>>, exec |-> NoBlock,
             maxRequest |-> 0, recent |-> FALSE, sealing |-> Len(Start[n]), newBlocks |-> FALSE]]
    /\ net = SetToBag(Stray)
    /\ up = Node
    /\ faults = [late |-> 0, loss |-> 0, exec |-> 0]

Next ==
    \/ \E n \in Node : \/ DoWork(n) \/ ExecBlock(n) \/ GiveUpBlock(n) \/ StoreBlock(n)
                       \/ StatusTimeout(n) \/ RequestTimeout(n) \/ LateTimeout(n) \/ Leave(n)
                       \/ Deliver(n)
    \/ \E m \in DOMAIN net : Lose(m)

Spec == Init /\ [][Next]_vars

(* The threads of a node keep running, packets that are not lost arrive,   *)
(* timers run off, the random choice of a client leaves none out for ever, *)
(* and consensus gives up a block it cannot agree on (its timeout).        *)
Fairness ==
    /\ \A n \in Node :
        /\ WF_vars(DoWork(n))
        /\ WF_vars(StatusTimeout(n)) /\ WF_vars(RequestTimeout(n))
        /\ WF_vars(Deliver(n))
        /\ \A p \in {q \in Node : <<n, q>> \in Link} : SF_vars(ChooseClient(n, p))
    /\ \A n \in Sealers : WF_vars(GiveUpBlock(n))

FairSpec == Spec /\ Fairness

-----------------------------------------------------------------------------
(* Properties.                                                             *)

\* Whatever is downloaded late, twice or from a faulty peer, and although consensus may store
\* a block while the same one is executed for the download: the chain of every node is made of
\* sealed blocks, each the child of the one below (SyncMaster::isNewBlock, commitBlock).
ChainIsSealed ==
    \A n \in Node : \A i \in 1 .. Number(node[n]) :
        LET b == node[n].chain[i]
        IN  /\ b \in Sealed /\ number[b] = i
            /\ parent[b] = IF i = 1 THEN Genesis ELSE node[n].chain[i - 1]

\* The most blocks one packet holds: a block has a size, one that is larger than a packet may be
\* goes out by itself, and a faulty peer puts into a packet what it likes.
MaxShard == Max({1, MaxPayload} \cup {Len(m.shard) : m \in Stray})

\* The download queue may pass its limit, but by less than the blocks of one packet, whatever is
\* sent again after a timeout (DownloadingBlockQueue::flushBufferToQueue).
QueueBounded == \A n \in Node : Len(node[n].queue) < MaxQueue + MaxShard

Asked(q) == UNION {q[i].from .. q[i].from + q[i].size - 1 : i \in DOMAIN q}
Answered(n, p) == UNION {{number[m.shard[i]] : i \in DOMAIN m.shard} :
                    m \in {x \in DOMAIN net : x.type = "blocks" /\ x.from = n /\ x.to = p}}

\* The numbers a response of node n to p has still to answer.
Pending(n, p) ==
    Asked(node[n].reqs[p]) \cup Asked(<<node[n].owed>>)
        \cup {number[node[n].batch[i]] : i \in DOMAIN node[n].batch}

\* A response to a peer with a session loses a number that was asked for in one case only: the rest
\* of a range is pushed back after enablePush, and the P2P threads have filled the request queue in
\* between.  Whatever else leaves the queue is batched or under way
\* (DownloadRequestQueue::topAndPop, SyncMaster::maintainBlockRequest).
RangesLostOnlyWhenFull ==
    [][\A n \in Node :
        LET p == node[n].client
        IN  /\ PushBack(n) \/ \E k \in 0 .. Number(node[n]) : RespondRange(n, k)
            /\ p \in Active(n)
            => \/ Pending(n, p) \subseteq Pending(n, p)' \cup Answered(n, p)'
               \/ PushBack(n) /\ Len(node[n].reqs[p]) = MaxReqs]_vars

\* A node that keeps running catches up with every other node that does, whatever the lost,
\* late and repeated packets and although the node with the highest block may go off.
CatchesUp ==
    <>[](\A n, m \in Node \ Leaving : Number(node[n]) >= Number(node[m]))
=============================================================================
