----------------------------- MODULE RaftEngine -----------------------------
(***************************************************************************)
(* libconsensus/raft/RaftEngine with RaftSealer: on each node the engine   *)
(* thread (workLoop with the loops of the three roles) and the sealer      *)
(* thread, which hands a block to the engine in commit() and waits there   *)
(* on m_commitCV.  Both share m_uncommittedBlock, m_commitReady and        *)
(* m_waitingForCommitting under m_commitMutex.                             *)
(*                                                                         *)
(* Time is abstracted: the election and heartbeat timeouts may come at any *)
(* moment, so the timers and increaseElectTime leave no trace.  m_leader   *)
(* and m_vote are written and never read by the protocol.                  *)
(***************************************************************************)
EXTENDS Integers, FiniteSets

CONSTANTS
    NodeNum,         \* m_nodeNum, the size of the sealer list
    Block,           \* the blocks that may ever exist
    Genesis,         \* block number 0
    NoBlock,         \* a default constructed Block
    number,          \* number[b]: the height of block b
    parent,          \* parent[b]: the parent hash in its header
    sealer,          \* sealer[b]: the index of the node that sealed it
    Link,            \* the pairs of nodes with a P2P session
    FirstVoteBeats,  \* 2 * s_heartBeatIntervalRatio
    MaxTerm,         \* bound: node n does not become candidate of a term above MaxTerm[n]
    MaxRestart,      \* bound: how many restarts a behaviour has
    Unstable,        \* bound: the nodes whose process may restart
    MaxFlight,       \* bound: how many packets are under way at a time
    KeepLate         \* bound: if FALSE, a packet is lost when a newer one takes its link

Node == 0 .. NodeNum - 1

ASSUME NodeNumAssumption == NodeNum \in Nat /\ NodeNum > 1
ASSUME BlockAssumption ==
    /\ NoBlock \notin Block
    /\ Genesis \in Block
    /\ number \in [Block -> Nat]
    /\ parent \in [Block -> Block]
    /\ sealer \in [Block -> Node]
ASSUME LinkAssumption == Link \subseteq Node \X Node /\ \A l \in Link : l[1] # l[2]
ASSUME BoundAssumption == FirstVoteBeats \in Nat /\ MaxTerm \in [Node -> Nat] /\ MaxRestart \in Nat
                          /\ MaxFlight \in Nat /\ KeepLate \in BOOLEAN /\ Unstable \subseteq Node

VARIABLES
    node,       \* node[n]: the state of the process of node n
    net,        \* the packets under way
    restarts    \* how many restarts have happened (bounded by MaxRestart)

vars == <<node, net, restarts>>

MaybeBlock == Block \cup {NoBlock}
VoteRespFlag ==
    {"reject", "leaderReject", "lastTermError", "outdated", "firstVote", "discard", "granted"}

NodeState ==
    [role : {"leader", "follower", "candidate"},  \* m_state
     running : BOOLEAN,              \* the engine thread is in the loop of the role
     report : {"none", "highest", "block"},  \* its next step in a reportBlock of its own
     term : Nat,                     \* m_term
     lastLeaderTerm : Nat,           \* m_lastLeaderTerm
     firstVote : BOOLEAN,            \* m_firstVote # InvalidIndex
     beats : Nat,                    \* m_heartbeatCount
     votes : [VoteRespFlag -> Nat],  \* the VoteState of runAsCandidate
     highest : Block,                \* m_highestBlock
     consNum : Nat,                  \* m_consensusBlockNumber
     member : [Node -> MaybeBlock],  \* m_memberBlock
     unc : MaybeBlock,               \* m_uncommittedBlock
     uncNum : Nat,                   \* m_uncommittedBlockNumber
     acks : [Block -> SUBSET Node],  \* m_commitFingerPrint
     ready : BOOLEAN,                \* m_commitReady
     thread : {"idle", "sealing", "waiting", "committing", "reporting"},
                                     \* where the sealer thread is
     block : MaybeBlock,             \* the block it has sealed
     tip : Block,                    \* on disk: the block m_blockChain->number() names
     chain : SUBSET Block]           \* on disk: the blocks of the chain

Packet ==
    [type : {"voteReq"}, from : Node, to : Node, term : Nat, lastLeaderTerm : Nat, num : Nat]
        \cup [type : {"voteResp"}, from : Node, to : Node, term : Nat, lastLeaderTerm : Nat,
              flag : VoteRespFlag]
        \cup [type : {"heartbeat"}, from : Node, to : Node, term : Nat, b : MaybeBlock, num : Nat]
        \cup [type : {"heartbeatResp"}, from : Node, to : Node, term : Nat, b : MaybeBlock,
              tip : Block]

TypeOK ==
    /\ node \in [Node -> NodeState]
    /\ net \subseteq Packet
    /\ restarts \in Nat

F == (NodeNum - 1) \div 2
isMajorityVote(votes) == votes >= NodeNum - F

NoVotes == [flag \in VoteRespFlag |-> 0]
totalVoteCount(v) == v["granted"] + v["reject"] + v["lastTermError"] + v["firstVote"]
                        + v["discard"] + v["outdated"]

-----------------------------------------------------------------------------
(* The network.  A packet is delivered at most once, in any order, or      *)
(* never; without KeepLate only the newest one on a link is kept.          *)

Overtaken(m, new) == \E x \in new : <<x.from, x.to>> = <<m.from, m.to>>
Queued(old, new) == new \cup {m \in old : KeepLate \/ ~ Overtaken(m, new)}
Incoming(n, t) == {m \in net : m.to = n /\ m.type = t}

\* Node n consumes the packets of in, moves to state s and sends out.
Step(n, s, in, out) ==
    /\ node' = [node EXCEPT ![n] = s]
    /\ net' = Queued(net \ in, out)
    /\ out # {} => Cardinality(net') <= MaxFlight
    /\ UNCHANGED restarts

\* broadcastMsg sends to the sealers with a session, and never to itself.
Connected(n) == {p \in Node : <<n, p>> \in Link}

-----------------------------------------------------------------------------
(* Role switches.                                                          *)

switchToLeader(s) == [s EXCEPT !.role = "leader", !.running = FALSE, !.votes = NoVotes]

\* Mistake to detect: the candidate stays in the term of the failed leader.
switchToCandidateSameTerm(s) ==
    [s EXCEPT !.role = "candidate", !.running = FALSE, !.votes = NoVotes]

switchToCandidate(s) ==
    [s EXCEPT !.term = @ + 1, !.role = "candidate", !.running = FALSE, !.votes = NoVotes]

Waiting(s) == s.thread = "waiting"

\* Mistake to detect: the sealer thread is not woken.
switchToFollowerAsleep(s) ==
    LET s1 == [s EXCEPT !.role = "follower", !.running = TRUE, !.beats = 0, !.votes = NoVotes]
    IN  IF Waiting(s) THEN [s1 EXCEPT !.unc = NoBlock, !.uncNum = 0] ELSE s1

\* The block of a sealer thread that still waits is given up and the thread is woken.
switchToFollower(s) ==
    LET s1 == [s EXCEPT !.role = "follower", !.running = TRUE, !.beats = 0, !.votes = NoVotes]
    IN  IF Waiting(s) THEN [s1 EXCEPT !.unc = NoBlock, !.uncNum = 0, !.ready = TRUE] ELSE s1

\* Invalid256 is no NodeIndex, so every heartbeat counts.
clearFirstVoteCache(s) ==
    IF s.beats + 1 >= FirstVoteBeats
    THEN [s EXCEPT !.beats = 0, !.firstVote = FALSE]
    ELSE [s EXCEPT !.beats = @ + 1]

-----------------------------------------------------------------------------
(* The block chain.                                                        *)

\* checkBlockValid and the checks of BlockChainImp::commitBlock.
CanCommitBlock(s, b) == number[b] = number[s.tip] + 1 /\ parent[b] = s.tip

checkAndExecute(s, b) ==
    IF CanCommitBlock(s, b) THEN [s EXCEPT !.tip = b, !.chain = @ \cup {b}] ELSE s

\* The first half of reportBlock, under m_mutex; num is the number of the block that
\* the caller passes by reference, 0 for a default constructed one.
shouldReport(s, num) == number[s.tip] = 0 \/ number[s.highest] < num

\* The second half, under m_commitMutex: whatever block is there by now is forgotten.
forgetUncommitted(s) ==
    LET erased == IF s.unc = NoBlock THEN s.acks ELSE [s.acks EXCEPT ![s.unc] = {}]
    IN  [s EXCEPT !.acks = erased, !.unc = NoBlock, !.uncNum = 0,
                  !.consNum = IF number[s.highest] >= @ THEN number[s.highest] + 1 ELSE @]

-----------------------------------------------------------------------------
(* Elections.                                                              *)

\* The height a vote request carries and is measured against.
lastBlockNumber(s) == number[s.tip] + (IF s.unc # NoBlock THEN 1 ELSE 0)

\* Mistake to detect: the terms of the last leaders are not compared.
VoteFlagAnyLeaderTerm(s, m) ==
    IF m.term <= s.term /\ s.role # "leader" THEN IF m.term = s.term THEN "discard" ELSE "reject"
    ELSE IF m.num < lastBlockNumber(s) THEN "outdated"
    ELSE IF ~ s.firstVote THEN "firstVote"
    ELSE "granted"

\* A leader goes on with a request of a term that is not above its own: the answer it
\* has prepared (VOTE_RESP_LEADER_REJECT) is replaced on every path.
VoteFlag(s, m) ==
    IF m.term <= s.term /\ s.role # "leader" THEN IF m.term = s.term THEN "discard" ELSE "reject"
    ELSE IF m.lastLeaderTerm < s.lastLeaderTerm THEN "lastTermError"
    ELSE IF m.num < lastBlockNumber(s) THEN "outdated"
    ELSE IF ~ s.firstVote THEN "firstVote"
    ELSE "granted"

voteResp(n, s, m, flag) ==
    [type |-> "voteResp", from |-> n, to |-> m.from,
     term |-> IF flag = "granted" THEN m.term ELSE s.term,
     lastLeaderTerm |-> s.lastLeaderTerm, flag |-> flag]

\* The state handleVoteRequest leaves and the switch its callers do after a grant.
handleVoteRequest(s, m) ==
    CASE VoteFlag(s, m) = "granted" ->
            LET s1 == [s EXCEPT !.term = m.term, !.firstVote = TRUE]
            IN  IF s.role = "follower" THEN s1 ELSE switchToFollower(s1)
      [] VoteFlag(s, m) = "firstVote" -> [s EXCEPT !.firstVote = TRUE]
      [] OTHER -> s

HandleVoteRequest(n) ==
    \E m \in Incoming(n, "voteReq") :
        /\ node[n].running
        /\ Step(n, handleVoteRequest(node[n], m), {m},
                {voteResp(n, node[n], m, VoteFlag(node[n], m))})

\* A grant, first vote or refusal of the term before still counts.
handleVoteResponse(s, m) ==
    LET s1 == [s EXCEPT !.votes[m.flag] = @ + 1]
        enough == isMajorityVote(s1.votes[m.flag])
    IN  CASE m.term < s.term - 1 -> s
          [] m.term >= s.term - 1 /\ m.flag = "leaderReject" ->
                switchToFollower([s EXCEPT !.term = m.term, !.lastLeaderTerm = m.lastLeaderTerm])
          [] m.term >= s.term - 1 /\ m.flag = "granted" /\ enough -> switchToLeader(s1)
          [] m.term >= s.term - 1 /\ m.flag = "firstVote" /\ enough ->
                switchToFollower([s1 EXCEPT !.term = @ - 1])
          [] m.term >= s.term - 1 /\ m.flag \in {"reject", "lastTermError"} /\ enough ->
                switchToFollower(s1)
          [] OTHER -> s1

HandleVoteResponse(n) ==
    \E m \in Incoming(n, "voteResp") :
        /\ node[n].role = "candidate" /\ node[n].running
        /\ Step(n, handleVoteResponse(node[n], m), {m}, {})

\* runAsCandidate up to its loop: the requests go out before the own vote is cast.
RunAsCandidate(n) ==
    LET s == node[n]
        req(p) == [type |-> "voteReq", from |-> n, to |-> p, term |-> s.term,
                   lastLeaderTerm |-> s.lastLeaderTerm, num |-> lastBlockNumber(s)]
    IN  /\ s.role = "candidate" /\ ~ s.running
        /\ Step(n, [s EXCEPT !.votes = [NoVotes EXCEPT !["granted"] = 1],
                             !.firstVote = TRUE, !.running = TRUE],
                {}, {req(p) : p \in Connected(n)})

\* checkElectTimeout of a follower.
FollowerTimeout(n) ==
    /\ node[n].role = "follower"
    /\ node[n].term < MaxTerm[n]
    /\ Step(n, switchToCandidate(node[n]), {}, {})

\* checkElectTimeout of a candidate: with few answers it goes back to the term before.
CandidateTimeout(n) ==
    LET s == node[n]
    IN  /\ s.role = "candidate" /\ s.running
        /\ IF isMajorityVote(totalVoteCount(s.votes))
           THEN s.term < MaxTerm[n] /\ Step(n, switchToCandidate(s), {}, {})
           ELSE Step(n, switchToFollower([s EXCEPT !.term = @ - 1]), {}, {})

-----------------------------------------------------------------------------
(* Heartbeats.                                                             *)

\* Mistake to detect: the term of the last leader is not taken over.
RunAsLeaderForgetful(n) ==
    /\ node[n].role = "leader" /\ ~ node[n].running /\ node[n].report = "none"
    /\ Step(n, [node[n] EXCEPT !.firstVote = FALSE, !.running = TRUE], {}, {})

\* runAsLeader up to its loop.
RunAsLeader(n) ==
    LET s == node[n]
    IN  /\ s.role = "leader" /\ ~ s.running /\ s.report = "none"
        /\ Step(n, [s EXCEPT !.firstVote = FALSE, !.lastLeaderTerm = s.term,
                             !.running = TRUE], {}, {})

\* A leader counts itself among the nodes that have its block.
BroadcastHeartbeat(n) ==
    LET s == node[n]
        hb(p) == [type |-> "heartbeat", from |-> n, to |-> p, term |-> s.term, b |-> s.unc,
                  num |-> IF s.unc # NoBlock THEN s.consNum ELSE 0]
        counted == IF s.unc # NoBlock THEN [s EXCEPT !.acks[s.unc] = @ \cup {n}] ELSE s
    IN  /\ s.role = "leader" /\ s.running
        /\ Step(n, clearFirstVoteCache(counted), {}, {hb(p) : p \in Connected(n)})

HeartbeatTimeout(n) ==
    /\ node[n].role = "leader" /\ node[n].running
    /\ node[n].term < MaxTerm[n]
    /\ Step(n, switchToCandidate(node[n]), {}, {})

\* Mistake to detect: only a candidate refuses the heartbeats of an older leader.
StaleHeartbeatOfCandidate(s, m) == m.term < s.term /\ s.role = "candidate"

\* The two early returns of handleHeartbeat.
StaleHeartbeat(s, m) == m.term < s.term /\ m.term <= s.lastLeaderTerm
WrongHeight(s, m) == m.b # NoBlock /\ m.num - 1 # number[s.highest]

\* A heartbeat of a newer leader lowers m_term when the own elections failed.
StepDown(s, m) ==
    \/ m.term > s.lastLeaderTerm
    \/ m.term > s.term
    \/ s.role = "candidate" /\ m.term >= s.term

\* The state of an accepted heartbeat, with the switch its callers do.
handleHeartbeat(s, m) ==
    LET s1 == IF m.b # NoBlock THEN [s EXCEPT !.unc = m.b, !.uncNum = m.num] ELSE s
        s2 == IF StepDown(s, m) THEN [s1 EXCEPT !.term = m.term] ELSE s1
        s3 == [clearFirstVoteCache(s2) EXCEPT !.lastLeaderTerm = m.term]
    IN  IF StepDown(s, m) /\ s.role # "follower" THEN switchToFollower(s3) ELSE s3

\* The answer carries the term from before the heartbeat.
heartbeatResp(n, s, m) ==
    [type |-> "heartbeatResp", from |-> n, to |-> m.from, term |-> s.term, b |-> m.b,
     tip |-> s.highest]

HandleHeartbeat(n) ==
    \E m \in Incoming(n, "heartbeat") :
        /\ node[n].running
        /\ IF StaleHeartbeat(node[n], m) \/ WrongHeight(node[n], m)
           THEN Step(n, node[n], {m}, {})
           ELSE Step(n, handleHeartbeat(node[n], m), {m}, {heartbeatResp(n, node[n], m)})

-----------------------------------------------------------------------------
(* Commit.                                                                 *)

\* With a sealer thread in commit() the engine wakes it, otherwise it stores the block
\* and, with m_commitMutex unlocked, goes on to report it.
CommitUncommitted(s) ==
    IF Waiting(s)
    THEN [s EXCEPT !.ready = TRUE]
    ELSE [checkAndExecute(s, s.unc) EXCEPT !.running = FALSE, !.report = "highest"]

\* The leader's own index is in acks since its heartbeat, and one is added again.  An
\* answer to a heartbeat without a block is taken for that of a node on its own.
tryCommitUncommitedBlock(s, m) ==
    LET s1 == [s EXCEPT !.acks[s.unc] = @ \cup {m.from}]
    IN  CASE s.unc = NoBlock -> s
          [] s.unc # NoBlock /\ s.uncNum # s.consNum -> [s EXCEPT !.unc = NoBlock, !.uncNum = 0]
          [] s.unc # NoBlock /\ s.uncNum = s.consNum /\ m.b = s.unc ->
                IF Cardinality(s1.acks[s.unc]) + 1 >= NodeNum - F THEN CommitUncommitted(s1) ELSE s1
          [] s.unc # NoBlock /\ s.uncNum = s.consNum /\ m.b = NoBlock -> CommitUncommitted(s)
          [] OTHER -> s

HandleHeartbeatResp(n) ==
    \E m \in Incoming(n, "heartbeatResp") :
        LET s == node[n]
        IN  /\ s.role = "leader" /\ s.running
            /\ Step(n, IF m.term = s.term
                       THEN tryCommitUncommitedBlock([s EXCEPT !.member[m.from] = m.tip], m)
                       ELSE s,
                    {m}, {})

\* reportBlock(m_uncommittedBlock): the reference is to what the member holds by now,
\* which may be the block of a sealer thread that has just come to commit().
ReportHighest(n) ==
    LET s == node[n]
        num == IF s.unc = NoBlock THEN 0 ELSE number[s.unc]
    IN  /\ s.report = "highest"
        /\ Step(n, IF shouldReport(s, num)
                   THEN [s EXCEPT !.highest = s.tip, !.report = "block"]
                   ELSE [s EXCEPT !.running = TRUE, !.report = "none"], {}, {})

ReportBlock(n) ==
    /\ node[n].report = "block"
    /\ Step(n, [forgetUncommitted(node[n]) EXCEPT !.running = TRUE, !.report = "none"], {}, {})

\* Answers that come to a node in another role are popped and do nothing.
IgnoreResponse(n) ==
    \E m \in Incoming(n, "voteResp") \cup Incoming(n, "heartbeatResp") :
        /\ node[n].running
        /\ node[n].role # IF m.type = "voteResp" THEN "candidate" ELSE "leader"
        /\ Step(n, node[n], {m}, {})

-----------------------------------------------------------------------------
(* The sealer thread.                                                      *)

\* Most nodes have the leader's highest block and none is ahead.
shouldSeal(s) ==
    LET known == {p \in Node : s.member[p] # NoBlock}
    IN  /\ s.role = "leader"
        /\ \A p \in known : number[s.member[p]] <= number[s.highest]
        /\ isMajorityVote(1 + Cardinality({p \in known : s.member[p] = s.highest}))
        /\ s.unc = NoBlock

Seal(n) ==
    LET s == node[n]
    IN  /\ s.thread = "idle"
        /\ shouldSeal(s)
        /\ \E b \in Block :
            /\ sealer[b] = n /\ parent[b] = s.highest /\ number[b] = number[s.highest] + 1
            /\ Step(n, [s EXCEPT !.thread = "sealing", !.block = b], {}, {})

\* Mistake to detect: m_uncommittedBlockNumber is left as it was.
CommitWithoutNumber(n) ==
    /\ node[n].thread = "sealing"
    /\ Step(n, [node[n] EXCEPT !.thread = "waiting", !.unc = node[n].block, !.ready = FALSE],
            {}, {})

\* commit() up to m_commitCV.wait.
Commit(n) ==
    LET s == node[n]
    IN  /\ s.thread = "sealing"
        /\ Step(n, [s EXCEPT !.thread = "waiting", !.unc = s.block, !.uncNum = s.consNum,
                             !.ready = FALSE], {}, {})

\* The wait ends: without a block the leader has given up.
Wake(n) ==
    LET s == node[n]
    IN  /\ Waiting(s) /\ s.ready
        /\ IF s.unc = NoBlock
           THEN Step(n, [s EXCEPT !.thread = "idle", !.ready = FALSE, !.block = NoBlock], {}, {})
           ELSE Step(n, [s EXCEPT !.thread = "committing", !.ready = FALSE, !.unc = NoBlock,
                                  !.uncNum = 0], {}, {})

\* The rest of commit(): the block the sealer thread has handed in is stored.
StoreSealed(n) ==
    LET s == node[n]
        s1 == [s EXCEPT !.thread = "idle", !.block = NoBlock]
    IN  /\ s.thread = "committing"
        /\ Step(n, IF s.role = "leader" THEN checkAndExecute(s1, s.block) ELSE s1, {}, {})

\* Sealer::reportNewBlock at the start of each doWork, with the two halves of reportBlock.
ReportNewBlock(n) ==
    LET s == node[n]
    IN  /\ s.thread = "idle" /\ number[s.highest] < number[s.tip]
        /\ Step(n, [s EXCEPT !.highest = s.tip, !.thread = "reporting"], {}, {})

ForgetReported(n) ==
    /\ node[n].thread = "reporting"
    /\ Step(n, [forgetUncommitted(node[n]) EXCEPT !.thread = "idle"], {}, {})

-----------------------------------------------------------------------------
(* Block sync and restarts.                                                *)

\* Block sync stores the next block of a peer's chain without asking the engine.
SyncBlock(n) ==
    \E p \in Connected(n) : \E b \in node[p].chain :
        /\ CanCommitBlock(node[n], b)
        /\ Step(n, checkAndExecute(node[n], b), {}, {})

\* isSyncing ends the loop of a candidate or a leader, which then starts over.
SyncPause(n) ==
    /\ node[n].role # "follower" /\ node[n].running
    /\ \E p \in Connected(n) : number[node[p].tip] > number[node[n].tip]
    /\ Step(n, [node[n] EXCEPT !.running = FALSE, !.votes = NoVotes], {}, {})

\* Nothing but the chain is on disk.
Start(tip, chain) ==
    [role |-> "follower", running |-> TRUE, report |-> "none", term |-> 0, lastLeaderTerm |-> 0,
     firstVote |-> FALSE, beats |-> 0, votes |-> NoVotes, highest |-> tip,
     consNum |-> number[tip] + 1, member |-> [p \in Node |-> NoBlock], unc |-> NoBlock,
     uncNum |-> 0, acks |-> [b \in Block |-> {}], ready |-> FALSE, thread |-> "idle",
     block |-> NoBlock, tip |-> tip, chain |-> chain]

Restart(n) ==
    /\ n \in Unstable /\ restarts < MaxRestart
    /\ restarts' = restarts + 1
    /\ node' = [node EXCEPT ![n] = Start(@.tip, @.chain)]
    /\ UNCHANGED net

Init ==
    /\ node = [n \in Node |-> Start(Genesis, {Genesis})]
    /\ net = {}
    /\ restarts = 0

Next ==
    \E n \in Node :
        \/ HandleVoteRequest(n)
        \/ HandleVoteResponse(n)
        \/ RunAsCandidate(n)
        \/ FollowerTimeout(n)
        \/ CandidateTimeout(n)
        \/ RunAsLeader(n)
        \/ BroadcastHeartbeat(n)
        \/ HeartbeatTimeout(n)
        \/ HandleHeartbeat(n)
        \/ HandleHeartbeatResp(n)
        \/ ReportHighest(n)
        \/ ReportBlock(n)
        \/ IgnoreResponse(n)
        \/ Seal(n)
        \/ Commit(n)
        \/ Wake(n)
        \/ StoreSealed(n)
        \/ ReportNewBlock(n)
        \/ ForgetReported(n)
        \/ SyncBlock(n)
        \/ SyncPause(n)
        \/ Restart(n)

Spec == Init /\ [][Next]_vars

-----------------------------------------------------------------------------
(* Properties.                                                             *)

\* The term a node is in is never behind the last leader it has seen, a candidate is
\* strictly ahead of it and a leader at work is its own last leader, although
\* m_term goes down in three places (runAsCandidateImp, handleVoteResponse,
\* handleHeartbeat).
TermAheadOfLastLeader ==
    \A n \in Node :
        /\ node[n].lastLeaderTerm <= node[n].term
        /\ node[n].role = "candidate" => node[n].lastLeaderTerm < node[n].term
        /\ node[n].role = "leader" /\ node[n].running => node[n].lastLeaderTerm = node[n].term

\* handleVoteRequest has no return after VOTE_RESP_LEADER_REJECT; still a leader gives up
\* its role only for a higher term, whatever requests, heartbeats and timeouts come.
LeaderYieldsUpward ==
    [][\A n \in Node : node[n].role = "leader" /\ node'[n].role # "leader"
            => node'[n].term > node[n].term \/ restarts' > restarts]_vars

\* m_lastLeaderTerm, which decides whose votes and heartbeats count, never goes down
\* while the process lives, although m_term does.
LastLeaderTermGrows ==
    [][\A n \in Node : node'[n].lastLeaderTerm >= node[n].lastLeaderTerm
            \/ restarts' > restarts]_vars

\* A sealer thread that sleeps in commit() while there is no block the engine could commit
\* or give up, so that only switchToFollower will wake it.
Stranded(s) == Waiting(s) /\ ~ s.ready /\ s.unc = NoBlock

\* Only one step strands the sealer thread: the reportBlock with which the engine ends a
\* commit of its own, when the thread has published its block after ul.unlock().  No
\* other step of either thread takes the block and leaves the waiter asleep.
StrandedByReport ==
    [][\A n \in Node : Stranded(node'[n]) => Stranded(node[n]) \/ node[n].report = "block"]_vars

\* A stranded sealer thread is woken when the leader steps down: a follower has none,
\* whichever way and however often the roles have changed since the block was lost.
NoStrandedFollower ==
    \A n \in Node : Stranded(node[n]) => node[n].role # "follower"

\* The comment in tryCommitUncommitedBlock: an answer lets the leader commit once the
\* block has been transferred to most of the nodes.
ReadyNeedsMajority ==
    \A n \in Node : Waiting(node[n]) /\ node[n].ready /\ node[n].unc # NoBlock
        => isMajorityVote(1 + Cardinality(node[n].acks[node[n].unc] \ {n}))
=============================================================================
