-------------------------- MODULE RaftEngineProofs --------------------------
(***************************************************************************)
(* Proofs about RaftEngine: the properties that the runs raft_terms and    *)
(* raft_commit check hold for every number of nodes, every set of blocks   *)
(* and every bound.                                                        *)
(*                                                                         *)
(* Each operator of the engine maps the state of a node to another one, so *)
(* the inductive invariant is one of a single node's state (TermInv,       *)
(* SealInv) and of the packets under way (PacketInv).                      *)
(***************************************************************************)
EXTENDS RaftEngine, TLAPS

\* The part of TermAheadOfLastLeader about one node.
TermInv(s) ==
    /\ s.lastLeaderTerm <= s.term
    /\ s.role = "candidate" => s.lastLeaderTerm < s.term
    /\ s.role = "leader" /\ s.running => s.lastLeaderTerm = s.term
    /\ s.report # "none" => s.role = "leader" /\ s.running = FALSE /\ s.lastLeaderTerm = s.term

\* Between the halves of reportBlock m_highestBlock is ahead of m_consensusBlockNumber.
BetweenHalves(s) == s.report = "block" \/ s.thread = "reporting"

\* Outside of reportBlock the uncommitted block is of the height the node works on, so
\* that tryCommitUncommitedBlock never takes it from a waiting thread.
SealInv(s) ==
    /\ s.consNum <= number[s.highest] + 1
    /\ number[s.highest] <= number[s.tip]
    /\ ~ BetweenHalves(s) => s.consNum = number[s.highest] + 1
    /\ ~ BetweenHalves(s) /\ s.unc # NoBlock => s.uncNum = s.consNum
    /\ s.thread \notin {"idle", "reporting"} => s.block # NoBlock
    /\ Stranded(s) => s.role # "follower"

\* A vote request is of a candidate that is ahead of its last leader, and nobody
\* answers VOTE_RESP_LEADER_REJECT.
PacketInv(m) ==
    /\ m.type = "voteReq" => m.lastLeaderTerm < m.term
    /\ m.type = "voteResp" => m.flag # "leaderReject"

EngineInv ==
    /\ TypeOK
    /\ \A n \in Node : TermInv(node[n]) /\ SealInv(node[n])
    /\ \A m \in net : PacketInv(m)

\* What a step of a running process does to its terms, and any step to its sealer thread.
Upward(s, t) ==
    /\ s.role = "leader" /\ t.role # "leader" => t.term > s.term
    /\ t.lastLeaderTerm >= s.lastLeaderTerm
Awake(s, t) == Stranded(t) => Stranded(s) \/ s.report = "block"

Keeps(s, t) == t \in NodeState /\ TermInv(t) /\ SealInv(t) /\ Upward(s, t) /\ Awake(s, t)

LEMMA NoVotesType == NoVotes \in [VoteRespFlag -> Nat]
BY DEF NoVotes

LEMMA FollowerKeeps ==
    ASSUME NEW s \in NodeState, s.lastLeaderTerm <= s.term, SealInv(s), s.report = "none"
    PROVE  LET t == switchToFollower(s)
           IN  /\ t \in NodeState /\ TermInv(t) /\ SealInv(t) /\ ~ Stranded(t)
               /\ t.term = s.term /\ t.lastLeaderTerm = s.lastLeaderTerm
<1> DEFINE t == switchToFollower(s)
<1>1. t \in NodeState
  BY NoVotesType DEF switchToFollower, NodeState, Waiting, MaybeBlock
<1>2. /\ t.term = s.term /\ t.lastLeaderTerm = s.lastLeaderTerm /\ t.role = "follower"
      /\ t.report = s.report
  BY DEF switchToFollower, NodeState
<1>3. TermInv(t)
  BY <1>2 DEF TermInv
<1>4. ~ Stranded(t)
  BY DEF switchToFollower, NodeState, Stranded, Waiting
<1>5. /\ t.consNum = s.consNum /\ t.highest = s.highest /\ t.tip = s.tip
      /\ t.thread = s.thread /\ t.block = s.block
      /\ t.unc # NoBlock => t.unc = s.unc /\ t.uncNum = s.uncNum
  BY DEF switchToFollower, NodeState, Waiting
<1>6. SealInv(t)
  BY <1>2, <1>4, <1>5 DEF SealInv, BetweenHalves
<1> QED
  BY <1>1, <1>2, <1>3, <1>4, <1>6

LEMMA CandidateKeeps ==
    ASSUME NEW s \in NodeState, TermInv(s), SealInv(s), s.report = "none"
    PROVE  Keeps(s, switchToCandidate(s))
<1> DEFINE t == switchToCandidate(s)
<1>1. s.term + 1 \in Nat
  BY DEF NodeState
<1>2. t \in NodeState
  BY <1>1, NoVotesType DEF switchToCandidate, NodeState
<1>3. TermInv(t)
  BY DEF switchToCandidate, NodeState, TermInv
<1>4. SealInv(t)
  BY DEF switchToCandidate, NodeState, SealInv, BetweenHalves, Stranded, Waiting
<1>5. Upward(s, t) /\ Awake(s, t)
  BY DEF switchToCandidate, NodeState, Upward, Awake, Stranded, Waiting
<1> QED
  BY <1>2, <1>3, <1>4, <1>5 DEF Keeps

LEMMA ClearKeeps ==
    ASSUME NEW s \in NodeState
    PROVE  LET t == clearFirstVoteCache(s)
           IN  /\ t \in NodeState
               /\ t.role = s.role /\ t.running = s.running /\ t.report = s.report
               /\ t.term = s.term /\ t.lastLeaderTerm = s.lastLeaderTerm
               /\ SealInv(s) => SealInv(t)
               /\ Stranded(t) => Stranded(s)
<1> DEFINE t == clearFirstVoteCache(s)
<1>1. s.beats + 1 \in Nat
  BY DEF NodeState
<1>2. t \in NodeState
  BY <1>1 DEF clearFirstVoteCache, NodeState
<1>3. /\ t.role = s.role /\ t.running = s.running /\ t.report = s.report
      /\ t.term = s.term /\ t.lastLeaderTerm = s.lastLeaderTerm
  BY DEF clearFirstVoteCache, NodeState
<1>4. SealInv(s) => SealInv(t)
  BY DEF clearFirstVoteCache, NodeState, SealInv, BetweenHalves, Stranded, Waiting
<1>5. Stranded(t) => Stranded(s)
  BY DEF clearFirstVoteCache, NodeState, Stranded, Waiting
<1> QED
  BY <1>2, <1>3, <1>4, <1>5

\* What the chain's operators leave alone; they strand nobody.
SameRole(s, t) ==
    /\ t.role = s.role /\ t.running = s.running /\ t.report = s.report
    /\ t.term = s.term /\ t.lastLeaderTerm = s.lastLeaderTerm
    /\ Stranded(t) => Stranded(s)

LEMMA SameRoleKeeps ==
    ASSUME NEW s \in NodeState, TermInv(s), NEW t \in NodeState, SameRole(s, t), SealInv(t)
    PROVE  Keeps(s, t)
BY DEF SameRole, Keeps, TermInv, Upward, Awake, NodeState

LEMMA SameRoleThenKeeps ==
    ASSUME NEW s, NEW x, NEW t, SameRole(s, x), Keeps(x, t)
    PROVE  Keeps(s, t)
BY DEF SameRole, Keeps, Upward, Awake

LEMMA ExecuteKeeps ==
    ASSUME NEW s \in NodeState, NEW b \in Block, SealInv(s)
    PROVE  LET t == checkAndExecute(s, b)
           IN  t \in NodeState /\ SameRole(s, t) /\ SealInv(t)
<1> DEFINE t == checkAndExecute(s, b)
<1>1. t \in NodeState
  BY DEF checkAndExecute, NodeState
<1>2. SameRole(s, t)
  BY DEF checkAndExecute, NodeState, SameRole, Stranded, Waiting
<1>3. SealInv(t)
  <2>1. s.tip \in Block /\ s.highest \in Block
    BY DEF NodeState
  <2>2. number[s.tip] \in Nat /\ number[s.highest] \in Nat /\ number[b] \in Nat
    BY <2>1, BlockAssumption
  <2>3. CASE CanCommitBlock(s, b)
    <3>1. t = [s EXCEPT !.tip = b, !.chain = @ \cup {b}]
      BY <2>3 DEF checkAndExecute
    <3>2. number[s.highest] <= number[b]
      BY <2>2, <2>3 DEF SealInv, CanCommitBlock
    <3> QED
      BY <3>1, <3>2 DEF SealInv, NodeState, BetweenHalves, Stranded, Waiting
  <2>4. CASE ~ CanCommitBlock(s, b)
    BY <2>4 DEF checkAndExecute
  <2> QED
    BY <2>3, <2>4
<1> QED
  BY <1>1, <1>2, <1>3

\* The second half of reportBlock brings m_consensusBlockNumber back in step.
LEMMA ForgetKeeps ==
    ASSUME NEW s \in NodeState, SealInv(s)
    PROVE  LET t == forgetUncommitted(s)
           IN  /\ t \in NodeState
               /\ t.role = s.role /\ t.running = s.running /\ t.report = s.report
               /\ t.term = s.term /\ t.lastLeaderTerm = s.lastLeaderTerm
               /\ t.thread = s.thread /\ t.block = s.block /\ t.tip = s.tip
               /\ t.highest = s.highest /\ t.unc = NoBlock
               /\ t.consNum = number[s.highest] + 1
<1> DEFINE t == forgetUncommitted(s)
           forget == IF s.unc = NoBlock THEN s.acks ELSE [s.acks EXCEPT ![s.unc] = {}]
           next == IF number[s.highest] >= s.consNum THEN number[s.highest] + 1 ELSE s.consNum
           r == [s EXCEPT !.acks = forget, !.unc = NoBlock, !.uncNum = 0, !.consNum = next]
<1>1. s.highest \in Block /\ s.consNum \in Nat
  BY DEF NodeState
<1>2. number[s.highest] \in Nat
  BY <1>1, BlockAssumption
<1>3. next \in Nat /\ next = number[s.highest] + 1
  BY <1>1, <1>2 DEF SealInv
<1>4. forget \in [Block -> SUBSET Node]
  BY DEF NodeState, MaybeBlock
<1>5. t = r
  BY DEF forgetUncommitted
<1> HIDE DEF forget, next, t
<1>6. r \in NodeState
  BY <1>1, <1>3, <1>4 DEF NodeState, MaybeBlock
<1>7. /\ r.role = s.role /\ r.running = s.running /\ r.report = s.report
      /\ r.term = s.term /\ r.lastLeaderTerm = s.lastLeaderTerm
      /\ r.thread = s.thread /\ r.block = s.block /\ r.tip = s.tip
      /\ r.highest = s.highest /\ r.unc = NoBlock /\ r.consNum = next
  BY DEF NodeState
<1> QED
  BY <1>3, <1>5, <1>6, <1>7 DEF t

-----------------------------------------------------------------------------
(* Elections.                                                              *)

\* A leader at work grants a vote only to a candidate of a higher term.
LEMMA VoteRequestKeeps ==
    ASSUME NEW s \in NodeState, TermInv(s), SealInv(s), s.running,
           NEW m \in Packet, m.type = "voteReq", PacketInv(m)
    PROVE  Keeps(s, handleVoteRequest(s, m))
<1>1. m.term \in Nat /\ m.lastLeaderTerm \in Nat /\ m.lastLeaderTerm < m.term
  BY DEF Packet, PacketInv
<1>2. CASE VoteFlag(s, m) = "granted"
  <2> DEFINE s1 == [s EXCEPT !.term = m.term, !.firstVote = TRUE]
  <2>1. s1 \in NodeState
    BY <1>1 DEF NodeState
  <2>2. SealInv(s1)
    BY DEF NodeState, SealInv, BetweenHalves, Stranded, Waiting
  <2>3. /\ s1.lastLeaderTerm = s.lastLeaderTerm /\ s1.term = m.term /\ s1.role = s.role
        /\ s1.report = s.report /\ s.report = "none"
    BY DEF NodeState, TermInv
  <2>9. Stranded(s1) => Stranded(s)
    BY DEF NodeState, Stranded, Waiting
  <2>4. s.role # "leader" => m.term > s.term
    BY <1>1, <1>2 DEF VoteFlag, NodeState
  <2>5. m.lastLeaderTerm >= s.lastLeaderTerm
    BY <1>1, <1>2 DEF VoteFlag, NodeState
  <2>6. m.term > s.lastLeaderTerm /\ (s.role = "leader" => m.term > s.term)
    BY <1>1, <2>5 DEF TermInv, NodeState
  <2> HIDE DEF s1
  <2>7. CASE s.role = "follower"
    <3>1. handleVoteRequest(s, m) = s1
      BY <1>2, <2>7 DEF handleVoteRequest, s1
    <3>2. TermInv(s1)
      BY <1>1, <2>3, <2>6, <2>7 DEF TermInv, NodeState
    <3>3. Upward(s, s1) /\ Awake(s, s1)
      BY <2>3, <2>7, <2>9 DEF Upward, Awake, NodeState
    <3> QED
      BY <2>1, <2>2, <3>1, <3>2, <3>3 DEF Keeps
  <2>8. CASE s.role # "follower"
    <3>1. handleVoteRequest(s, m) = switchToFollower(s1)
      BY <1>2, <2>8 DEF handleVoteRequest, s1
    <3>2. s1.lastLeaderTerm <= s1.term
      BY <1>1, <2>3, <2>6 DEF NodeState
    <3>3. /\ switchToFollower(s1) \in NodeState
          /\ TermInv(switchToFollower(s1)) /\ SealInv(switchToFollower(s1))
          /\ ~ Stranded(switchToFollower(s1))
          /\ switchToFollower(s1).term = m.term
          /\ switchToFollower(s1).lastLeaderTerm = s.lastLeaderTerm
      BY <2>1, <2>2, <2>3, <3>2, FollowerKeeps
    <3>4. Upward(s, switchToFollower(s1)) /\ Awake(s, switchToFollower(s1))
      BY <1>1, <2>6, <3>3 DEF Upward, Awake, NodeState
    <3> QED
      BY <3>1, <3>3, <3>4 DEF Keeps
  <2> QED
    BY <2>7, <2>8
<1>3. CASE VoteFlag(s, m) = "firstVote"
  <2> DEFINE t == [s EXCEPT !.firstVote = TRUE]
  <2>1. handleVoteRequest(s, m) = t
    BY <1>3 DEF handleVoteRequest
  <2>2. t \in NodeState
    BY DEF NodeState
  <2>3. SameRole(s, t)
    BY DEF SameRole, NodeState, Stranded, Waiting
  <2>4. SealInv(t)
    BY DEF SealInv, NodeState, BetweenHalves, Stranded, Waiting
  <2> QED
    BY <2>1, <2>2, <2>3, <2>4, SameRoleKeeps
<1>4. CASE VoteFlag(s, m) \notin {"granted", "firstVote"}
  <2>1. handleVoteRequest(s, m) = s
    BY <1>4 DEF handleVoteRequest
  <2> QED
    BY <2>1, SameRoleKeeps DEF SameRole
<1> QED
  BY <1>2, <1>3, <1>4

LEMMA VoteFlagType ==
    ASSUME NEW s, NEW m
    PROVE  VoteFlag(s, m) \in VoteRespFlag \ {"leaderReject"}
BY DEF VoteFlag, VoteRespFlag

LEMMA VoteResponseKeeps ==
    ASSUME NEW s \in NodeState, TermInv(s), SealInv(s), s.role = "candidate",
           NEW m \in Packet, m.type = "voteResp", PacketInv(m)
    PROVE  Keeps(s, handleVoteResponse(s, m))
<1> DEFINE s1 == [s EXCEPT !.votes[m.flag] = @ + 1]
           s2 == [s1 EXCEPT !.term = @ - 1]
<1>1. m.term \in Nat /\ m.flag \in VoteRespFlag /\ m.flag # "leaderReject"
  BY DEF Packet, PacketInv
<1>2. [s.votes EXCEPT ![m.flag] = @ + 1] \in [VoteRespFlag -> Nat]
  BY <1>1 DEF NodeState
<1>3. s1 \in NodeState
  BY <1>2 DEF NodeState
<1>4. SameRole(s, s1)
  BY DEF NodeState, SameRole, Stranded, Waiting
<1>5. SealInv(s1)
  BY DEF NodeState, SealInv, BetweenHalves, Stranded, Waiting
<1>6. s.lastLeaderTerm < s.term /\ s.term - 1 \in Nat /\ s.lastLeaderTerm <= s.term - 1
  BY DEF TermInv, NodeState
<1> HIDE DEF s1
<1>7. /\ s1.term = s.term /\ s1.lastLeaderTerm = s.lastLeaderTerm
      /\ s1.report = "none" /\ (Stranded(s1) => Stranded(s))
  BY <1>4 DEF SameRole, TermInv, NodeState
<1>8. s2 \in NodeState
  BY <1>3, <1>6, <1>7 DEF NodeState
<1>9. s2.lastLeaderTerm = s.lastLeaderTerm /\ s2.term = s.term - 1 /\ s2.report = "none"
  BY <1>3, <1>7 DEF NodeState
<1>10. SealInv(s2)
  BY <1>3, <1>5 DEF SealInv, NodeState, BetweenHalves, Stranded, Waiting
<1>11. Keeps(s, s) /\ Keeps(s, s1)
  BY <1>3, <1>4, <1>5, SameRoleKeeps DEF SameRole
<1>12. Keeps(s, switchToLeader(s1))
  <2> DEFINE t == switchToLeader(s1)
  <2>1. t \in NodeState
    BY <1>3, NoVotesType DEF switchToLeader, NodeState
  <2>2. t.term = s.term /\ t.lastLeaderTerm = s.lastLeaderTerm /\ t.role = "leader"
        /\ t.running = FALSE /\ t.report = "none"
    BY <1>3, <1>7 DEF switchToLeader, NodeState
  <2>3. SealInv(t)
    BY <1>3, <1>5 DEF switchToLeader, SealInv, NodeState, BetweenHalves, Stranded, Waiting
  <2>4. Stranded(t) => Stranded(s1)
    BY <1>3 DEF switchToLeader, NodeState, Stranded, Waiting
  <2>5. TermInv(t)
    BY <1>6, <2>2 DEF TermInv, NodeState
  <2>6. Upward(s, t) /\ Awake(s, t)
    BY <1>6, <1>7, <2>2, <2>4 DEF Upward, Awake, NodeState
  <2> QED
    BY <2>1, <2>3, <2>5, <2>6 DEF Keeps
<1>13. Keeps(s, switchToFollower(s1))
  <2>1. s1.lastLeaderTerm <= s1.term
    BY <1>6, <1>7 DEF NodeState
  <2> QED
    BY <1>3, <1>5, <1>7, <2>1, FollowerKeeps DEF Keeps, Upward, Awake, NodeState
<1>14. Keeps(s, switchToFollower(s2))
  BY <1>6, <1>8, <1>9, <1>10, FollowerKeeps DEF Keeps, Upward, Awake, NodeState
<1>15. handleVoteResponse(s, m) \in
          {s, s1, switchToLeader(s1), switchToFollower(s1), switchToFollower(s2)}
  BY <1>1 DEF handleVoteResponse, s1
<1> QED
  BY <1>11, <1>12, <1>13, <1>14, <1>15

-----------------------------------------------------------------------------
(* Heartbeats and commit.                                                  *)

LEMMA HeartbeatKeeps ==
    ASSUME NEW s \in NodeState, TermInv(s), SealInv(s), s.running,
           NEW m \in Packet, m.type = "heartbeat",
           ~ StaleHeartbeat(s, m), ~ WrongHeight(s, m)
    PROVE  Keeps(s, handleHeartbeat(s, m))
<1> DEFINE s1 == IF m.b # NoBlock THEN [s EXCEPT !.unc = m.b, !.uncNum = m.num] ELSE s
           s2 == IF StepDown(s, m) THEN [s1 EXCEPT !.term = m.term] ELSE s1
           s3 == clearFirstVoteCache(s2)
           s4 == [s3 EXCEPT !.lastLeaderTerm = m.term]
<1>1. m.term \in Nat /\ m.b \in MaybeBlock /\ m.num \in Nat
  BY DEF Packet
<1>2. s1 \in NodeState
  BY <1>1 DEF NodeState
<1>3. SameRole(s, s1)
  BY <1>1 DEF NodeState, SameRole, Stranded, Waiting
<1>4. SealInv(s1)
  <2>1. number[s.highest] \in Nat
    BY BlockAssumption DEF NodeState
  <2>2. m.b # NoBlock => m.num = number[s.highest] + 1
    BY <1>1, <2>1 DEF WrongHeight
  <2>3. CASE m.b # NoBlock
    <3>1. /\ s1.unc = m.b /\ s1.uncNum = m.num /\ s1.consNum = s.consNum
          /\ s1.highest = s.highest /\ s1.tip = s.tip /\ s1.thread = s.thread
          /\ s1.block = s.block /\ s1.report = s.report
      BY <2>3 DEF NodeState
    <3>2. ~ Stranded(s1)
      BY <2>3, <3>1 DEF Stranded
    <3> QED
      BY <2>2, <2>3, <3>1, <3>2 DEF SealInv, BetweenHalves
  <2>4. CASE m.b = NoBlock
    BY <2>4
  <2> QED
    BY <2>3, <2>4
<1> HIDE DEF s1
<1>5. s2 \in NodeState
  BY <1>1, <1>2 DEF NodeState
<1>6. SealInv(s2)
  BY <1>2, <1>4 DEF NodeState, SealInv, BetweenHalves, Stranded, Waiting
<1>7. /\ s2.role = s.role /\ s2.running = s.running /\ s2.report = s.report
      /\ s2.term = IF StepDown(s, m) THEN m.term ELSE s.term
  BY <1>2, <1>3 DEF SameRole, NodeState
<1>17. Stranded(s2) => Stranded(s)
  BY <1>2, <1>3 DEF SameRole, NodeState, Stranded, Waiting
<1> HIDE DEF s2
<1>8. /\ s3 \in NodeState /\ SealInv(s3)
      /\ s3.role = s.role /\ s3.running = s.running /\ s3.report = s.report
      /\ s3.term = IF StepDown(s, m) THEN m.term ELSE s.term
      /\ Stranded(s3) => Stranded(s)
  BY <1>5, <1>6, <1>7, <1>17, ClearKeeps
<1> HIDE DEF s3
<1>9. s4 \in NodeState
  BY <1>1, <1>8 DEF NodeState
<1>10. SealInv(s4)
  BY <1>8 DEF SealInv, NodeState, BetweenHalves, Stranded, Waiting
<1>18. s.report = "none"
  BY DEF TermInv, NodeState
<1>11. /\ s4.role = s.role /\ s4.running = s.running /\ s4.lastLeaderTerm = m.term
       /\ s4.term = IF StepDown(s, m) THEN m.term ELSE s.term
       /\ s4.report = "none"
  BY <1>8, <1>18 DEF NodeState
<1>19. Stranded(s4) => Stranded(s)
  BY <1>8 DEF NodeState, Stranded, Waiting
<1> HIDE DEF s4
<1>12. m.term >= s.lastLeaderTerm
  BY <1>1 DEF StaleHeartbeat, TermInv, NodeState
<1>13. ~ StepDown(s, m) => m.term = s.term /\ s.role # "candidate"
  BY <1>1 DEF StaleHeartbeat, StepDown, TermInv, NodeState
<1>14. s4.term = m.term
  BY <1>11, <1>13
<1>15. CASE StepDown(s, m) /\ s.role # "follower"
  <2>1. handleHeartbeat(s, m) = switchToFollower(s4)
    BY <1>15 DEF handleHeartbeat, s1, s2, s3, s4
  <2>2. s.role = "leader" => m.term > s.term
    BY <1>1, <1>15 DEF StepDown, TermInv, NodeState
  <2>3. s4.lastLeaderTerm <= s4.term
    BY <1>1, <1>11, <1>14
  <2>4. /\ switchToFollower(s4) \in NodeState
        /\ TermInv(switchToFollower(s4)) /\ SealInv(switchToFollower(s4))
        /\ ~ Stranded(switchToFollower(s4))
        /\ switchToFollower(s4).term = m.term
        /\ switchToFollower(s4).lastLeaderTerm = m.term
    BY <1>9, <1>10, <1>11, <1>14, <2>3, FollowerKeeps
  <2>5. Upward(s, switchToFollower(s4)) /\ Awake(s, switchToFollower(s4))
    BY <1>12, <2>2, <2>4 DEF Upward, Awake
  <2> QED
    BY <2>1, <2>4, <2>5 DEF Keeps
<1>16. CASE ~ (StepDown(s, m) /\ s.role # "follower")
  <2>1. handleHeartbeat(s, m) = s4
    BY <1>16 DEF handleHeartbeat, s1, s2, s3, s4
  <2>2. s4.role # "candidate"
    BY <1>11, <1>13, <1>16
  <2>3. TermInv(s4)
    BY <1>1, <1>11, <1>14, <2>2 DEF TermInv
  <2>4. Upward(s, s4) /\ Awake(s, s4)
    BY <1>11, <1>12, <1>19 DEF Upward, Awake
  <2> QED
    BY <1>9, <1>10, <2>1, <2>3, <2>4 DEF Keeps
<1> QED
  BY <1>15, <1>16

\* A leader at work may end in the middle of its own reportBlock.
LEMMA CommitUncommittedKeeps ==
    ASSUME NEW s \in NodeState, TermInv(s), SealInv(s), s.unc # NoBlock,
           s.role = "leader", s.running
    PROVE  Keeps(s, CommitUncommitted(s))
<1>1. s.unc \in Block /\ s.report = "none" /\ s.lastLeaderTerm = s.term
  BY DEF NodeState, MaybeBlock, TermInv
<1>2. CASE Waiting(s)
  <2> DEFINE t == [s EXCEPT !.ready = TRUE]
  <2>1. CommitUncommitted(s) = t
    BY <1>2 DEF CommitUncommitted
  <2>2. t \in NodeState
    BY DEF NodeState
  <2>3. SameRole(s, t)
    BY DEF NodeState, SameRole, Stranded
  <2>4. SealInv(t)
    BY DEF NodeState, SealInv, BetweenHalves, Stranded
  <2> HIDE DEF t
  <2> QED
    BY <2>1, <2>2, <2>3, <2>4, SameRoleKeeps
<1>3. CASE ~ Waiting(s)
  <2> DEFINE x == checkAndExecute(s, s.unc)
             t == [x EXCEPT !.running = FALSE, !.report = "highest"]
  <2>1. CommitUncommitted(s) = t
    BY <1>3 DEF CommitUncommitted
  <2>2. x \in NodeState /\ SameRole(s, x) /\ SealInv(x)
    BY <1>1, ExecuteKeeps
  <2>3. x.thread = s.thread
    BY DEF checkAndExecute, NodeState
  <2> HIDE DEF x
  <2>4. t \in NodeState
    BY <2>2 DEF NodeState
  <2>5. /\ t.role = "leader" /\ t.term = s.term /\ t.lastLeaderTerm = s.term
        /\ t.running = FALSE /\ t.report = "highest" /\ t.thread = s.thread
        /\ t.consNum = x.consNum /\ t.highest = x.highest /\ t.tip = x.tip
        /\ t.unc = x.unc /\ t.uncNum = x.uncNum /\ t.block = x.block
    BY <1>1, <2>2, <2>3 DEF SameRole, NodeState
  <2>6. ~ Stranded(t)
    BY <1>3, <2>5 DEF Stranded, Waiting
  <2>7. x.report = "none" /\ x.thread = s.thread
    BY <1>1, <2>2, <2>3 DEF SameRole
  <2> HIDE DEF t
  <2>8. TermInv(t) /\ Upward(s, t) /\ Awake(s, t)
    BY <1>1, <2>5, <2>6 DEF TermInv, Upward, Awake, NodeState
  <2>9. SealInv(t)
    BY <2>2, <2>5, <2>6, <2>7 DEF SealInv, BetweenHalves
  <2> QED
    BY <2>1, <2>4, <2>8, <2>9 DEF Keeps
<1> QED
  BY <1>2, <1>3

\* A block of another height is given up only while the sealer thread is in reportBlock,
\* so never under a waiting thread.
LEMMA TryCommitKeeps ==
    ASSUME NEW s \in NodeState, TermInv(s), SealInv(s), s.role = "leader", s.running,
           NEW m \in Packet, m.type = "heartbeatResp"
    PROVE  Keeps(s, tryCommitUncommitedBlock(s, m))
<1> DEFINE s1 == [s EXCEPT !.acks[s.unc] = @ \cup {m.from}]
           s0 == [s EXCEPT !.unc = NoBlock, !.uncNum = 0]
<1>1. m.from \in Node
  BY DEF Packet
<1>2. Keeps(s, s)
  BY SameRoleKeeps DEF SameRole
<1>3. CASE s.unc = NoBlock
  BY <1>2, <1>3 DEF tryCommitUncommitedBlock
<1>4. CASE s.unc # NoBlock /\ s.uncNum # s.consNum
  <2>1. tryCommitUncommitedBlock(s, m) = s0
    BY <1>4 DEF tryCommitUncommitedBlock
  <2>6. s.report = "none"
    BY DEF TermInv
  <2>7. BetweenHalves(s)
    BY <1>4 DEF SealInv
  <2>2. s.report = "none" /\ s.thread = "reporting"
    BY <2>6, <2>7 DEF BetweenHalves
  <2>3. s0 \in NodeState
    BY DEF NodeState, MaybeBlock
  <2>4. SameRole(s, s0)
    BY <2>2 DEF SameRole, NodeState, Stranded, Waiting
  <2>5. SealInv(s0)
    BY <2>2 DEF SealInv, NodeState, BetweenHalves, Stranded, Waiting
  <2> HIDE DEF s0
  <2> QED
    BY <2>1, <2>3, <2>4, <2>5, SameRoleKeeps
<1>5. CASE s.unc # NoBlock /\ s.uncNum = s.consNum
  <2>2. s.unc \in Block
    BY <1>5 DEF NodeState, MaybeBlock
  <2>3. [s.acks EXCEPT ![s.unc] = @ \cup {m.from}] \in [Block -> SUBSET Node]
    BY <1>1, <2>2 DEF NodeState
  <2>4. s1 \in NodeState
    BY <2>3 DEF NodeState
  <2>5. SameRole(s, s1)
    BY DEF SameRole, NodeState, Stranded, Waiting
  <2>6. SealInv(s1) /\ s1.unc # NoBlock
    BY <1>5 DEF SealInv, NodeState, BetweenHalves, Stranded, Waiting
  <2> HIDE DEF s1
  <2>7. tryCommitUncommitedBlock(s, m) \in {s, s1, CommitUncommitted(s), CommitUncommitted(s1)}
    BY <1>5 DEF tryCommitUncommitedBlock, s1
  <2>8. Keeps(s, CommitUncommitted(s))
    BY <1>5, CommitUncommittedKeeps
  <2>9. Keeps(s, s1) /\ TermInv(s1) /\ s1.role = "leader" /\ s1.running
    BY <2>4, <2>5, <2>6, SameRoleKeeps DEF SameRole, Keeps
  <2>10. Keeps(s1, CommitUncommitted(s1))
    BY <2>4, <2>6, <2>9, CommitUncommittedKeeps
  <2>11. Keeps(s, CommitUncommitted(s1))
    BY <2>5, <2>10, SameRoleThenKeeps
  <2> QED
    BY <1>2, <2>7, <2>8, <2>9, <2>11
<1> QED
  BY <1>3, <1>4, <1>5

-----------------------------------------------------------------------------
(* Steps.                                                                  *)

Progress ==
    \A p \in Node : /\ Upward(node[p], node'[p]) \/ restarts' > restarts
                    /\ Awake(node[p], node'[p])

LEMMA StepKeeps ==
    ASSUME EngineInv, NEW n \in Node, NEW t, Keeps(node[n], t), NEW in, NEW out,
           out \subseteq Packet, \A m \in out : PacketInv(m), Step(n, t, in, out)
    PROVE  EngineInv' /\ Progress
<1>1. node \in [Node -> NodeState] /\ net \subseteq Packet /\ restarts \in Nat
  BY DEF EngineInv, TypeOK
<1>2. node' = [node EXCEPT ![n] = t] /\ net' = Queued(net \ in, out) /\ restarts' = restarts
  BY DEF Step
<1>3. t \in NodeState /\ TermInv(t) /\ SealInv(t) /\ Upward(node[n], t) /\ Awake(node[n], t)
  BY DEF Keeps
<1>4. node' \in [Node -> NodeState]
  BY <1>1, <1>2, <1>3
<1>5. net' \subseteq net \cup out
  BY <1>2 DEF Queued
<1>6. \A p \in Node : node'[p] = IF p = n THEN t ELSE node[p]
  BY <1>1, <1>2
<1>7. \A p \in Node : TermInv(node'[p]) /\ SealInv(node'[p])
  BY <1>3, <1>6 DEF EngineInv
<1>8. \A m \in net' : PacketInv(m)
  BY <1>5 DEF EngineInv
<1>9. \A p \in Node : Upward(node[p], node[p]) /\ Awake(node[p], node[p])
  BY <1>1 DEF Upward, Awake, NodeState
<1>10. Progress
  BY <1>3, <1>6, <1>9 DEF Progress
<1>11. TypeOK'
  BY <1>1, <1>2, <1>4, <1>5 DEF TypeOK
<1>12. EngineInv'
  BY <1>7, <1>8, <1>11 DEF EngineInv
<1> QED
  BY <1>10, <1>12

LEMMA NodeFacts ==
    ASSUME EngineInv, NEW n \in Node
    PROVE  node[n] \in NodeState /\ TermInv(node[n]) /\ SealInv(node[n])
BY DEF EngineInv, TypeOK

LEMMA PacketFacts ==
    ASSUME EngineInv, NEW n, NEW t, NEW m \in Incoming(n, t)
    PROVE  m \in Packet /\ PacketInv(m) /\ m.type = t
BY DEF EngineInv, TypeOK, Incoming

LEMMA SelfKeeps ==
    ASSUME NEW s \in NodeState, TermInv(s), SealInv(s)
    PROVE  Keeps(s, s)
BY SameRoleKeeps DEF SameRole

LEMMA HandleVoteRequestKeeps ==
    ASSUME EngineInv, NEW n \in Node, HandleVoteRequest(n)
    PROVE  EngineInv' /\ Progress
<1> DEFINE s == node[n]
<1>1. PICK m \in Incoming(n, "voteReq") :
        /\ s.running
        /\ Step(n, handleVoteRequest(s, m), {m}, {voteResp(n, s, m, VoteFlag(s, m))})
  BY DEF HandleVoteRequest
<1>2. s \in NodeState /\ TermInv(s) /\ SealInv(s)
  BY NodeFacts
<1>3. m \in Packet /\ PacketInv(m) /\ m.type = "voteReq"
  BY PacketFacts
<1>4. m.from \in Node /\ m.term \in Nat
  BY <1>3 DEF Packet
<1>5. VoteFlag(s, m) \in VoteRespFlag /\ VoteFlag(s, m) # "leaderReject"
  BY VoteFlagType
<1> DEFINE r == voteResp(n, s, m, VoteFlag(s, m))
<1>6. r \in Packet
  <2>1. s.term \in Nat /\ s.lastLeaderTerm \in Nat
    BY <1>2 DEF NodeState
  <2> QED
    BY <1>4, <1>5, <2>1 DEF voteResp, Packet
<1>7. PacketInv(r)
  BY <1>5 DEF voteResp, PacketInv
<1>8. Keeps(s, handleVoteRequest(s, m))
  BY <1>1, <1>2, <1>3, VoteRequestKeeps
<1> HIDE DEF r
<1> QED
  BY <1>1, <1>6, <1>7, <1>8, StepKeeps DEF r

LEMMA HandleVoteResponseKeeps ==
    ASSUME EngineInv, NEW n \in Node, HandleVoteResponse(n)
    PROVE  EngineInv' /\ Progress
<1>1. PICK m \in Incoming(n, "voteResp") :
        /\ node[n].role = "candidate"
        /\ Step(n, handleVoteResponse(node[n], m), {m}, {})
  BY DEF HandleVoteResponse
<1>2. node[n] \in NodeState /\ TermInv(node[n]) /\ SealInv(node[n])
  BY NodeFacts
<1>3. m \in Packet /\ PacketInv(m) /\ m.type = "voteResp"
  BY PacketFacts
<1>4. Keeps(node[n], handleVoteResponse(node[n], m))
  BY <1>1, <1>2, <1>3, VoteResponseKeeps
<1> QED
  BY <1>1, <1>4, StepKeeps

LEMMA RunAsCandidateKeeps ==
    ASSUME EngineInv, NEW n \in Node, RunAsCandidate(n)
    PROVE  EngineInv' /\ Progress
<1> DEFINE s == node[n]
           req(p) == [type |-> "voteReq", from |-> n, to |-> p, term |-> s.term,
                      lastLeaderTerm |-> s.lastLeaderTerm, num |-> lastBlockNumber(s)]
           own == [NoVotes EXCEPT !["granted"] = 1]
           t == [s EXCEPT !.votes = own, !.firstVote = TRUE, !.running = TRUE]
           out == {req(p) : p \in Connected(n)}
<1>1. s.role = "candidate" /\ Step(n, t, {}, out)
  BY DEF RunAsCandidate
<1>2. s \in NodeState /\ TermInv(s) /\ SealInv(s)
  BY NodeFacts
<1>3. own \in [VoteRespFlag -> Nat]
  BY NoVotesType DEF VoteRespFlag
<1> HIDE DEF own
<1>4. t \in NodeState
  BY <1>2, <1>3 DEF NodeState
<1>5. /\ t.role = s.role /\ t.term = s.term /\ t.lastLeaderTerm = s.lastLeaderTerm
      /\ t.report = s.report /\ (Stranded(t) => Stranded(s))
  BY <1>2 DEF NodeState, Stranded, Waiting
<1>6. SealInv(t)
  BY <1>2 DEF SealInv, NodeState, BetweenHalves, Stranded, Waiting
<1>7. Keeps(s, t)
  BY <1>1, <1>2, <1>4, <1>5, <1>6 DEF Keeps, TermInv, Upward, Awake, NodeState
<1>8. s.term \in Nat /\ s.lastLeaderTerm \in Nat /\ s.lastLeaderTerm < s.term
  BY <1>1, <1>2 DEF NodeState, TermInv
<1>9. lastBlockNumber(s) \in Nat
  BY <1>2, BlockAssumption DEF lastBlockNumber, NodeState
<1>10. \A p \in Node : req(p) \in Packet /\ PacketInv(req(p))
  BY <1>8, <1>9 DEF Packet, PacketInv
<1>11. out \subseteq Packet /\ \A m \in out : PacketInv(m)
  BY <1>10 DEF Connected
<1> HIDE DEF out, t
<1> QED
  BY <1>1, <1>7, <1>11, StepKeeps

LEMMA TimeoutKeeps ==
    ASSUME EngineInv, NEW n \in Node,
           FollowerTimeout(n) \/ CandidateTimeout(n) \/ HeartbeatTimeout(n)
    PROVE  EngineInv' /\ Progress
<1> DEFINE s == node[n]
           down == [s EXCEPT !.term = @ - 1]
<1>1. s \in NodeState /\ TermInv(s) /\ SealInv(s)
  BY NodeFacts
<1>2. CASE s.report = "none" /\ Step(n, switchToCandidate(s), {}, {})
  BY <1>1, <1>2, CandidateKeeps, StepKeeps
<1>3. CASE s.role = "candidate" /\ Step(n, switchToFollower(down), {}, {})
  <2>1. s.term - 1 \in Nat /\ s.lastLeaderTerm <= s.term - 1
    BY <1>1, <1>3 DEF NodeState, TermInv
  <2>2. down \in NodeState
    BY <1>1, <2>1 DEF NodeState
  <2>3. /\ down.term = s.term - 1 /\ down.lastLeaderTerm = s.lastLeaderTerm
        /\ down.report = "none"
    BY <1>1, <1>3 DEF NodeState, TermInv
  <2>4. SealInv(down)
    BY <1>1 DEF SealInv, NodeState, BetweenHalves, Stranded, Waiting
  <2> HIDE DEF down
  <2>5. Keeps(s, switchToFollower(down))
    BY <1>1, <1>3, <2>1, <2>2, <2>3, <2>4, FollowerKeeps DEF Keeps, Upward, Awake, NodeState
  <2> QED
    BY <1>3, <2>5, StepKeeps
<1>4. s.report # "none" => s.role = "leader" /\ s.running = FALSE
  BY <1>1 DEF TermInv
<1> QED
  BY <1>2, <1>3, <1>4 DEF FollowerTimeout, CandidateTimeout, HeartbeatTimeout

LEMMA RunAsLeaderKeeps ==
    ASSUME EngineInv, NEW n \in Node, RunAsLeader(n)
    PROVE  EngineInv' /\ Progress
<1> DEFINE s == node[n]
           t == [s EXCEPT !.firstVote = FALSE, !.lastLeaderTerm = s.term, !.running = TRUE]
<1>1. s.role = "leader" /\ s.report = "none" /\ Step(n, t, {}, {})
  BY DEF RunAsLeader
<1>2. s \in NodeState /\ TermInv(s) /\ SealInv(s)
  BY NodeFacts
<1>3. t \in NodeState
  BY <1>2 DEF NodeState
<1>4. /\ t.role = s.role /\ t.term = s.term /\ t.lastLeaderTerm = s.term
      /\ t.report = s.report /\ (Stranded(t) => Stranded(s))
  BY <1>2 DEF NodeState, Stranded, Waiting
<1>5. SealInv(t)
  BY <1>2 DEF SealInv, NodeState, BetweenHalves, Stranded, Waiting
<1>6. Keeps(s, t)
  BY <1>1, <1>2, <1>3, <1>4, <1>5 DEF Keeps, TermInv, Upward, Awake, NodeState
<1> HIDE DEF t
<1> QED
  BY <1>1, <1>6, StepKeeps

LEMMA BroadcastHeartbeatKeeps ==
    ASSUME EngineInv, NEW n \in Node, BroadcastHeartbeat(n)
    PROVE  EngineInv' /\ Progress
<1> DEFINE s == node[n]
           hb(p) == [type |-> "heartbeat", from |-> n, to |-> p, term |-> s.term, b |-> s.unc,
                     num |-> IF s.unc # NoBlock THEN s.consNum ELSE 0]
           c == IF s.unc # NoBlock THEN [s EXCEPT !.acks[s.unc] = @ \cup {n}] ELSE s
           t == clearFirstVoteCache(c)
           out == {hb(p) : p \in Connected(n)}
<1>1. Step(n, t, {}, out)
  BY DEF BroadcastHeartbeat
<1>2. s \in NodeState /\ TermInv(s) /\ SealInv(s)
  BY NodeFacts
<1>3. s.unc # NoBlock => [s.acks EXCEPT ![s.unc] = @ \cup {n}] \in [Block -> SUBSET Node]
  BY <1>2 DEF NodeState, MaybeBlock
<1>4. c \in NodeState
  BY <1>2, <1>3 DEF NodeState
<1>5. SameRole(s, c)
  BY <1>2 DEF SameRole, NodeState, Stranded, Waiting
<1>6. SealInv(c)
  BY <1>2 DEF SealInv, NodeState, BetweenHalves, Stranded, Waiting
<1> HIDE DEF c
<1>7. t \in NodeState /\ SameRole(s, t) /\ SealInv(t)
  BY <1>4, <1>5, <1>6, ClearKeeps DEF SameRole
<1>8. Keeps(s, t)
  BY <1>2, <1>7, SameRoleKeeps
<1>9. \A p \in Node : hb(p) \in Packet /\ PacketInv(hb(p))
  <2>1. s.term \in Nat /\ s.unc \in MaybeBlock /\ s.consNum \in Nat
    BY <1>2 DEF NodeState
  <2> QED
    BY <2>1 DEF Packet, PacketInv
<1>10. out \subseteq Packet /\ \A m \in out : PacketInv(m)
  BY <1>9 DEF Connected
<1> HIDE DEF out, t
<1> QED
  BY <1>1, <1>8, <1>10, StepKeeps

LEMMA HandleHeartbeatKeeps ==
    ASSUME EngineInv, NEW n \in Node, HandleHeartbeat(n)
    PROVE  EngineInv' /\ Progress
<1> DEFINE s == node[n]
<1>1. PICK m \in Incoming(n, "heartbeat") :
        /\ s.running
        /\ IF StaleHeartbeat(s, m) \/ WrongHeight(s, m)
           THEN Step(n, s, {m}, {})
           ELSE Step(n, handleHeartbeat(s, m), {m}, {heartbeatResp(n, s, m)})
  BY DEF HandleHeartbeat
<1>2. s \in NodeState /\ TermInv(s) /\ SealInv(s)
  BY NodeFacts
<1>3. m \in Packet /\ m.type = "heartbeat"
  BY PacketFacts
<1>4. CASE StaleHeartbeat(s, m) \/ WrongHeight(s, m)
  BY <1>1, <1>2, <1>4, SelfKeeps, StepKeeps
<1>5. CASE ~ StaleHeartbeat(s, m) /\ ~ WrongHeight(s, m)
  <2> DEFINE r == heartbeatResp(n, s, m)
  <2>1. Keeps(s, handleHeartbeat(s, m))
    BY <1>1, <1>2, <1>3, <1>5, HeartbeatKeeps
  <2>2. m.from \in Node /\ m.b \in MaybeBlock /\ s.term \in Nat /\ s.highest \in Block
    BY <1>2, <1>3 DEF Packet, NodeState
  <2>3. r \in Packet /\ PacketInv(r)
    BY <2>2 DEF heartbeatResp, Packet, PacketInv
  <2>4. Step(n, handleHeartbeat(s, m), {m}, {r})
    BY <1>1, <1>5
  <2> HIDE DEF r
  <2> QED
    BY <2>1, <2>3, <2>4, StepKeeps
<1> QED
  BY <1>4, <1>5

LEMMA HandleHeartbeatRespKeeps ==
    ASSUME EngineInv, NEW n \in Node, HandleHeartbeatResp(n)
    PROVE  EngineInv' /\ Progress
<1> DEFINE s == node[n]
           s1(m) == [s EXCEPT !.member[m.from] = m.tip]
<1>1. PICK m \in Incoming(n, "heartbeatResp") :
        /\ s.role = "leader" /\ s.running
        /\ Step(n, IF m.term = s.term THEN tryCommitUncommitedBlock(s1(m), m) ELSE s, {m}, {})
  BY DEF HandleHeartbeatResp
<1>2. s \in NodeState /\ TermInv(s) /\ SealInv(s)
  BY NodeFacts
<1>3. m \in Packet /\ m.type = "heartbeatResp"
  BY PacketFacts
<1>4. m.from \in Node /\ m.tip \in Block
  BY <1>3 DEF Packet
<1>5. [s.member EXCEPT ![m.from] = m.tip] \in [Node -> MaybeBlock]
  BY <1>2, <1>4 DEF NodeState, MaybeBlock
<1> DEFINE x == s1(m)
<1>6. x \in NodeState
  BY <1>2, <1>5 DEF NodeState
<1>7. SameRole(s, x)
  BY <1>2 DEF SameRole, NodeState, Stranded, Waiting
<1>8. SealInv(x)
  BY <1>2 DEF SealInv, NodeState, BetweenHalves, Stranded, Waiting
<1> HIDE DEF x
<1> DEFINE t == tryCommitUncommitedBlock(x, m)
<1>9. Keeps(x, t)
  <2>1. TermInv(x) /\ x.role = "leader" /\ x.running
    BY <1>1, <1>2, <1>6, <1>7, <1>8, SameRoleKeeps DEF SameRole, Keeps
  <2> QED
    BY <1>3, <1>6, <1>8, <2>1, TryCommitKeeps
<1>10. Keeps(s, t)
  BY <1>7, <1>9, SameRoleThenKeeps
<1>11. CASE m.term = s.term
  <2>1. Step(n, t, {m}, {})
    BY <1>1, <1>11 DEF x
  <2> QED
    BY <1>10, <2>1, StepKeeps
<1>12. CASE m.term # s.term
  <2>1. Step(n, s, {m}, {})
    BY <1>1, <1>12
  <2> QED
    BY <1>2, <2>1, SelfKeeps, StepKeeps
<1> QED
  BY <1>11, <1>12

LEMMA IgnoreResponseKeeps ==
    ASSUME EngineInv, NEW n \in Node, IgnoreResponse(n)
    PROVE  EngineInv' /\ Progress
<1>1. PICK m : Step(n, node[n], {m}, {})
  BY DEF IgnoreResponse
<1>2. Keeps(node[n], node[n])
  BY NodeFacts, SelfKeeps
<1> QED
  BY <1>1, <1>2, StepKeeps

-----------------------------------------------------------------------------
(* The sealer thread, block sync and restarts.                             *)

LEMMA SealKeeps ==
    ASSUME EngineInv, NEW n \in Node, Seal(n)
    PROVE  EngineInv' /\ Progress
<1> DEFINE s == node[n]
           t(b) == [s EXCEPT !.thread = "sealing", !.block = b]
<1>1. PICK b \in Block : s.thread = "idle" /\ Step(n, t(b), {}, {})
  BY DEF Seal
<1>2. s \in NodeState /\ TermInv(s) /\ SealInv(s)
  BY NodeFacts
<1> DEFINE x == t(b)
<1>3. x \in NodeState
  BY <1>2 DEF NodeState, MaybeBlock
<1>4. SameRole(s, x)
  BY <1>2 DEF SameRole, NodeState, Stranded, Waiting
<1>5. SealInv(x)
  BY <1>1, <1>2, BlockAssumption DEF SealInv, NodeState, BetweenHalves, Stranded, Waiting
<1>6. Step(n, x, {}, {})
  BY <1>1
<1> HIDE DEF x
<1> QED
  BY <1>2, <1>3, <1>4, <1>5, <1>6, SameRoleKeeps, StepKeeps

LEMMA CommitKeeps ==
    ASSUME EngineInv, NEW n \in Node, Commit(n)
    PROVE  EngineInv' /\ Progress
<1> DEFINE s == node[n]
           x == [s EXCEPT !.thread = "waiting", !.unc = s.block, !.uncNum = s.consNum,
                          !.ready = FALSE]
<1>1. s.thread = "sealing" /\ Step(n, x, {}, {})
  BY DEF Commit
<1>2. s \in NodeState /\ TermInv(s) /\ SealInv(s)
  BY NodeFacts
<1>3. x \in NodeState
  BY <1>2 DEF NodeState
<1>4. SameRole(s, x)
  BY <1>1, <1>2 DEF SameRole, NodeState, Stranded, SealInv
<1>5. SealInv(x)
  BY <1>1, <1>2 DEF SealInv, NodeState, BetweenHalves, Stranded
<1> HIDE DEF x
<1> QED
  BY <1>1, <1>2, <1>3, <1>4, <1>5, SameRoleKeeps, StepKeeps

LEMMA WakeKeeps ==
    ASSUME EngineInv, NEW n \in Node, Wake(n)
    PROVE  EngineInv' /\ Progress
<1> DEFINE s == node[n]
           gave == [s EXCEPT !.thread = "idle", !.ready = FALSE, !.block = NoBlock]
           go == [s EXCEPT !.thread = "committing", !.ready = FALSE, !.unc = NoBlock,
                           !.uncNum = 0]
<1>1. /\ s.thread = "waiting"
      /\ Step(n, gave, {}, {}) \/ Step(n, go, {}, {})
  BY DEF Wake, Waiting
<1>2. s \in NodeState /\ TermInv(s) /\ SealInv(s)
  BY NodeFacts
<1>3. gave \in NodeState
  BY <1>2 DEF NodeState, MaybeBlock
<1>4. go \in NodeState
  BY <1>2 DEF NodeState, MaybeBlock
<1>5. SameRole(s, gave) /\ SameRole(s, go)
  BY <1>2 DEF SameRole, NodeState, Stranded, Waiting
<1>6. SealInv(gave)
  BY <1>1, <1>2 DEF SealInv, NodeState, BetweenHalves, Stranded, Waiting
<1>7. SealInv(go)
  BY <1>1, <1>2 DEF SealInv, NodeState, BetweenHalves, Stranded, Waiting
<1> HIDE DEF gave, go
<1>8. Keeps(s, gave) /\ Keeps(s, go)
  BY <1>2, <1>3, <1>4, <1>5, <1>6, <1>7, SameRoleKeeps
<1> QED
  BY <1>1, <1>8, StepKeeps

LEMMA StoreSealedKeeps ==
    ASSUME EngineInv, NEW n \in Node, StoreSealed(n)
    PROVE  EngineInv' /\ Progress
<1> DEFINE s == node[n]
           x == [s EXCEPT !.thread = "idle", !.block = NoBlock]
           y == checkAndExecute(x, s.block)
<1>1. s.thread = "committing" /\ Step(n, IF s.role = "leader" THEN y ELSE x, {}, {})
  BY DEF StoreSealed
<1>2. s \in NodeState /\ TermInv(s) /\ SealInv(s)
  BY NodeFacts
<1>3. s.block \in Block
  BY <1>1, <1>2 DEF SealInv, NodeState, MaybeBlock
<1>4. x \in NodeState
  BY <1>2 DEF NodeState, MaybeBlock
<1>5. SameRole(s, x)
  BY <1>2 DEF SameRole, NodeState, Stranded, Waiting
<1>6. SealInv(x)
  BY <1>1, <1>2 DEF SealInv, NodeState, BetweenHalves, Stranded, Waiting
<1> HIDE DEF x
<1>7. y \in NodeState /\ SameRole(x, y) /\ SealInv(y)
  BY <1>3, <1>4, <1>6, ExecuteKeeps
<1>8. SameRole(s, y)
  BY <1>5, <1>7 DEF SameRole
<1>9. Keeps(s, x) /\ Keeps(s, y)
  BY <1>2, <1>4, <1>5, <1>6, <1>7, <1>8, SameRoleKeeps
<1> HIDE DEF y
<1> QED
  BY <1>1, <1>9, StepKeeps

\* The first halves of reportBlock, of the sealer thread and of the engine's own.
LEMMA ReportFirstKeeps ==
    ASSUME EngineInv, NEW n \in Node, ReportNewBlock(n) \/ ReportHighest(n)
    PROVE  EngineInv' /\ Progress
<1> DEFINE s == node[n]
           r == [s EXCEPT !.highest = s.tip, !.thread = "reporting"]
           b == [s EXCEPT !.highest = s.tip, !.report = "block"]
           c == [s EXCEPT !.running = TRUE, !.report = "none"]
<1>1. s \in NodeState /\ TermInv(s) /\ SealInv(s)
  BY NodeFacts
<1>2. s.tip \in Block /\ s.highest \in Block /\ s.consNum \in Nat
  BY <1>1 DEF NodeState
<1>3. number[s.tip] \in Nat /\ number[s.highest] \in Nat
  BY <1>2, BlockAssumption
<1>4. s.consNum <= number[s.tip] + 1
  BY <1>1, <1>2, <1>3 DEF SealInv
<1>5. CASE s.thread = "idle" /\ Step(n, r, {}, {})
  <2>1. r \in NodeState
    BY <1>1, <1>2 DEF NodeState
  <2>2. SameRole(s, r)
    BY <1>1 DEF SameRole, NodeState, Stranded, Waiting
  <2>3. /\ r.highest = s.tip /\ r.tip = s.tip /\ r.consNum = s.consNum
        /\ r.thread = "reporting"
    BY <1>1 DEF NodeState
  <2> HIDE DEF r
  <2>4. SealInv(r)
    BY <1>3, <1>4, <2>3 DEF SealInv, BetweenHalves, Stranded, Waiting
  <2> QED
    BY <1>1, <1>5, <2>1, <2>2, <2>4, SameRoleKeeps, StepKeeps
<1>6. CASE s.report = "highest" /\ Step(n, b, {}, {})
  <2>1. b \in NodeState
    BY <1>1, <1>2 DEF NodeState
  <2>2. /\ b.role = s.role /\ b.running = s.running /\ b.term = s.term
        /\ b.lastLeaderTerm = s.lastLeaderTerm /\ b.report = "block"
        /\ b.highest = s.tip /\ b.tip = s.tip /\ b.consNum = s.consNum
        /\ b.thread = s.thread /\ b.block = s.block
    BY <1>1 DEF NodeState
  <2>3. Stranded(b) => Stranded(s)
    BY <1>1 DEF NodeState, Stranded, Waiting
  <2> HIDE DEF b
  <2>4. SealInv(b)
    BY <1>1, <1>3, <1>4, <2>2, <2>3 DEF SealInv, BetweenHalves
  <2>5. TermInv(b)
    BY <1>1, <1>6, <2>2 DEF TermInv
  <2>6. Upward(s, b) /\ Awake(s, b)
    BY <1>1, <2>2, <2>3 DEF Upward, Awake, NodeState
  <2>7. Keeps(s, b)
    BY <2>1, <2>4, <2>5, <2>6 DEF Keeps
  <2> QED
    BY <1>6, <2>7, StepKeeps
<1>7. CASE s.report = "highest" /\ Step(n, c, {}, {})
  <2>1. c \in NodeState
    BY <1>1 DEF NodeState
  <2>2. /\ c.role = s.role /\ c.running = TRUE /\ c.term = s.term
        /\ c.lastLeaderTerm = s.lastLeaderTerm /\ c.report = "none"
    BY <1>1 DEF NodeState
  <2>3. Stranded(c) => Stranded(s)
    BY <1>1 DEF NodeState, Stranded, Waiting
  <2>4. SealInv(c)
    BY <1>1, <1>7 DEF SealInv, NodeState, BetweenHalves, Stranded, Waiting
  <2> HIDE DEF c
  <2>5. TermInv(c)
    BY <1>1, <1>7, <2>2 DEF TermInv, NodeState
  <2>6. Upward(s, c) /\ Awake(s, c)
    BY <1>1, <2>2, <2>3 DEF Upward, Awake, NodeState
  <2>7. Keeps(s, c)
    BY <2>1, <2>4, <2>5, <2>6 DEF Keeps
  <2> QED
    BY <1>7, <2>7, StepKeeps
<1> QED
  BY <1>5, <1>6, <1>7 DEF ReportNewBlock, ReportHighest

\* The second halves: of these the engine's own may strand the sealer thread.
LEMMA ReportSecondKeeps ==
    ASSUME EngineInv, NEW n \in Node, ForgetReported(n) \/ ReportBlock(n)
    PROVE  EngineInv' /\ Progress
<1> DEFINE s == node[n]
           f == forgetUncommitted(s)
           i == [f EXCEPT !.thread = "idle"]
           c == [f EXCEPT !.running = TRUE, !.report = "none"]
<1>1. s \in NodeState /\ TermInv(s) /\ SealInv(s)
  BY NodeFacts
<1>2. /\ f \in NodeState
      /\ f.role = s.role /\ f.running = s.running /\ f.report = s.report
      /\ f.term = s.term /\ f.lastLeaderTerm = s.lastLeaderTerm
      /\ f.thread = s.thread /\ f.block = s.block /\ f.tip = s.tip
      /\ f.highest = s.highest /\ f.unc = NoBlock
      /\ f.consNum = number[s.highest] + 1
  BY <1>1, ForgetKeeps
<1>3. number[s.highest] \in Nat /\ number[s.highest] <= number[s.tip]
  BY <1>1, BlockAssumption DEF NodeState, SealInv
<1> HIDE DEF f
<1>4. CASE s.thread = "reporting" /\ Step(n, i, {}, {})
  <2>1. i \in NodeState
    BY <1>2 DEF NodeState
  <2>2. /\ i.role = s.role /\ i.running = s.running /\ i.report = s.report
        /\ i.term = s.term /\ i.lastLeaderTerm = s.lastLeaderTerm
        /\ i.thread = "idle" /\ i.tip = s.tip
        /\ i.highest = s.highest /\ i.unc = NoBlock
        /\ i.consNum = number[s.highest] + 1
    BY <1>2 DEF NodeState
  <2> HIDE DEF i
  <2>3. ~ Stranded(i)
    BY <2>2 DEF Stranded, Waiting
  <2>4. SameRole(s, i)
    BY <2>2, <2>3 DEF SameRole
  <2>5. SealInv(i)
    BY <1>3, <2>2, <2>3 DEF SealInv
  <2> QED
    BY <1>1, <1>4, <2>1, <2>4, <2>5, SameRoleKeeps, StepKeeps
<1>5. CASE s.report = "block" /\ Step(n, c, {}, {})
  <2>1. c \in NodeState
    BY <1>2 DEF NodeState
  <2>2. /\ c.role = s.role /\ c.running = TRUE /\ c.report = "none"
        /\ c.term = s.term /\ c.lastLeaderTerm = s.lastLeaderTerm
        /\ c.thread = s.thread /\ c.block = s.block /\ c.tip = s.tip
        /\ c.highest = s.highest /\ c.unc = NoBlock
        /\ c.consNum = number[s.highest] + 1
    BY <1>2 DEF NodeState
  <2> HIDE DEF c
  <2>3. s.role = "leader" /\ s.lastLeaderTerm = s.term
    BY <1>1, <1>5 DEF TermInv
  <2>4. SealInv(c)
    BY <1>1, <1>3, <2>2, <2>3 DEF SealInv
  <2>5. TermInv(c)
    BY <1>1, <2>2, <2>3 DEF TermInv, NodeState
  <2>6. Upward(s, c) /\ Awake(s, c)
    BY <1>1, <1>5, <2>2 DEF Upward, Awake, NodeState
  <2>7. Keeps(s, c)
    BY <2>1, <2>4, <2>5, <2>6 DEF Keeps
  <2> QED
    BY <1>5, <2>7, StepKeeps
<1> QED
  BY <1>4, <1>5 DEF ForgetReported, ReportBlock, f

LEMMA SyncBlockKeeps ==
    ASSUME EngineInv, NEW n \in Node, SyncBlock(n)
    PROVE  EngineInv' /\ Progress
<1>1. PICK p \in Connected(n) : \E b \in node[p].chain :
          Step(n, checkAndExecute(node[n], b), {}, {})
  BY DEF SyncBlock
<1> PICK b \in node[p].chain : Step(n, checkAndExecute(node[n], b), {}, {})
  BY <1>1
<1>2. node[n] \in NodeState /\ TermInv(node[n]) /\ SealInv(node[n])
  BY NodeFacts
<1>3. b \in Block
  <2>1. node[p] \in NodeState
    BY NodeFacts DEF Connected
  <2> QED
    BY <2>1 DEF NodeState
<1>4. Keeps(node[n], checkAndExecute(node[n], b))
  BY <1>2, <1>3, ExecuteKeeps, SameRoleKeeps
<1> QED
  BY <1>4, StepKeeps

LEMMA SyncPauseKeeps ==
    ASSUME EngineInv, NEW n \in Node, SyncPause(n)
    PROVE  EngineInv' /\ Progress
<1> DEFINE s == node[n]
           t == [s EXCEPT !.running = FALSE, !.votes = NoVotes]
<1>1. s.running /\ Step(n, t, {}, {})
  BY DEF SyncPause
<1>2. s \in NodeState /\ TermInv(s) /\ SealInv(s)
  BY NodeFacts
<1>3. t \in NodeState
  BY <1>2, NoVotesType DEF NodeState
<1>4. /\ t.role = s.role /\ t.term = s.term /\ t.lastLeaderTerm = s.lastLeaderTerm
      /\ t.running = FALSE /\ t.report = s.report /\ (Stranded(t) => Stranded(s))
  BY <1>2 DEF NodeState, Stranded, Waiting
<1>5. SealInv(t)
  BY <1>2 DEF SealInv, NodeState, BetweenHalves, Stranded, Waiting
<1>6. Keeps(s, t)
  BY <1>1, <1>2, <1>3, <1>4, <1>5 DEF Keeps, TermInv, Upward, Awake, NodeState
<1> HIDE DEF t
<1> QED
  BY <1>1, <1>6, StepKeeps

LEMMA StartKeeps ==
    ASSUME NEW b \in Block, NEW c \in SUBSET Block
    PROVE  Start(b, c) \in NodeState /\ TermInv(Start(b, c)) /\ SealInv(Start(b, c))
<1> DEFINE t == Start(b, c)
<1>1. number[b] \in Nat /\ number[b] + 1 \in Nat
  BY BlockAssumption
<1>2. [p \in Node |-> NoBlock] \in [Node -> MaybeBlock]
  BY DEF MaybeBlock
<1>3. [x \in Block |-> {}] \in [Block -> SUBSET Node]
  OBVIOUS
<1>4. t \in NodeState
  BY <1>1, <1>2, <1>3, NoVotesType DEF Start, NodeState, MaybeBlock
<1>5. TermInv(t)
  BY DEF Start, TermInv
<1>6. SealInv(t)
  BY <1>1 DEF Start, SealInv, BetweenHalves, Stranded, Waiting
<1> QED
  BY <1>4, <1>5, <1>6

LEMMA RestartKeeps ==
    ASSUME EngineInv, NEW n \in Node, Restart(n)
    PROVE  EngineInv' /\ Progress
<1> DEFINE t == Start(node[n].tip, node[n].chain)
<1>1. node' = [node EXCEPT ![n] = t] /\ net' = net /\ restarts' = restarts + 1
  BY DEF Restart
<1>2. node \in [Node -> NodeState] /\ net \subseteq Packet /\ restarts \in Nat
  BY DEF EngineInv, TypeOK
<1>3. node[n].tip \in Block /\ node[n].chain \in SUBSET Block
  BY <1>2 DEF NodeState
<1>4. t \in NodeState /\ TermInv(t) /\ SealInv(t)
  BY <1>3, StartKeeps
<1> HIDE DEF t
<1>5. TypeOK'
  BY <1>1, <1>2, <1>4 DEF TypeOK
<1>6. \A p \in Node : node'[p] = IF p = n THEN t ELSE node[p]
  BY <1>1, <1>2
<1>7. \A p \in Node : TermInv(node'[p]) /\ SealInv(node'[p])
  BY <1>4, <1>6 DEF EngineInv
<1>8. \A m \in net' : PacketInv(m)
  BY <1>1 DEF EngineInv
<1>9. Progress
  <2>1. ~ Stranded(t)
    BY DEF t, Start, Stranded, Waiting
  <2>2. \A p \in Node : Awake(node[p], node'[p])
    BY <1>6, <2>1 DEF Awake
  <2> QED
    BY <1>1, <1>2, <2>2 DEF Progress
<1>10. EngineInv'
  BY <1>5, <1>7, <1>8 DEF EngineInv
<1> QED
  BY <1>9, <1>10

-----------------------------------------------------------------------------
(* Theorems.                                                               *)

LEMMA InitEngineInv == Init => EngineInv
<1> SUFFICES ASSUME Init PROVE EngineInv
  OBVIOUS
<1> DEFINE t == Start(Genesis, {Genesis})
<1>1. t \in NodeState /\ TermInv(t) /\ SealInv(t)
  BY BlockAssumption, StartKeeps
<1>2. node = [n \in Node |-> t] /\ net = {} /\ restarts = 0
  BY DEF Init
<1> HIDE DEF t
<1> QED
  BY <1>1, <1>2 DEF EngineInv, TypeOK

LEMMA NextKeeps ==
    ASSUME EngineInv, [Next]_vars
    PROVE  EngineInv' /\ (Progress \/ UNCHANGED vars)
<1>1. CASE UNCHANGED vars
  BY <1>1 DEF vars, EngineInv, TypeOK
<1>2. CASE Next
  <2>1. PICK n \in Node :
          \/ HandleVoteRequest(n) \/ HandleVoteResponse(n) \/ RunAsCandidate(n)
          \/ FollowerTimeout(n) \/ CandidateTimeout(n) \/ RunAsLeader(n)
          \/ BroadcastHeartbeat(n) \/ HeartbeatTimeout(n) \/ HandleHeartbeat(n)
          \/ HandleHeartbeatResp(n) \/ ReportHighest(n) \/ ReportBlock(n)
          \/ IgnoreResponse(n) \/ Seal(n) \/ Commit(n) \/ Wake(n) \/ StoreSealed(n)
          \/ ReportNewBlock(n) \/ ForgetReported(n) \/ SyncBlock(n) \/ SyncPause(n)
          \/ Restart(n)
    BY <1>2 DEF Next
  <2>2. CASE HandleVoteRequest(n)
    BY <2>2, HandleVoteRequestKeeps
  <2>3. CASE HandleVoteResponse(n)
    BY <2>3, HandleVoteResponseKeeps
  <2>4. CASE RunAsCandidate(n)
    BY <2>4, RunAsCandidateKeeps
  <2>5. CASE FollowerTimeout(n) \/ CandidateTimeout(n) \/ HeartbeatTimeout(n)
    BY <2>5, TimeoutKeeps
  <2>6. CASE RunAsLeader(n)
    BY <2>6, RunAsLeaderKeeps
  <2>7. CASE BroadcastHeartbeat(n)
    BY <2>7, BroadcastHeartbeatKeeps
  <2>8. CASE HandleHeartbeat(n)
    BY <2>8, HandleHeartbeatKeeps
  <2>9. CASE HandleHeartbeatResp(n)
    BY <2>9, HandleHeartbeatRespKeeps
  <2>10. CASE IgnoreResponse(n)
    BY <2>10, IgnoreResponseKeeps
  <2>11. CASE Seal(n)
    BY <2>11, SealKeeps
  <2>12. CASE Commit(n)
    BY <2>12, CommitKeeps
  <2>13. CASE Wake(n)
    BY <2>13, WakeKeeps
  <2>14. CASE StoreSealed(n)
    BY <2>14, StoreSealedKeeps
  <2>15. CASE ReportNewBlock(n) \/ ReportHighest(n)
    BY <2>15, ReportFirstKeeps
  <2>19. CASE ForgetReported(n) \/ ReportBlock(n)
    BY <2>19, ReportSecondKeeps
  <2>16. CASE SyncBlock(n)
    BY <2>16, SyncBlockKeeps
  <2>17. CASE SyncPause(n)
    BY <2>17, SyncPauseKeeps
  <2>18. CASE Restart(n)
    BY <2>18, RestartKeeps
  <2> QED
    BY <2>1, <2>2, <2>3, <2>4, <2>5, <2>6, <2>7, <2>8, <2>9, <2>10, <2>11, <2>12, <2>13,
       <2>14, <2>15, <2>16, <2>17, <2>18, <2>19
<1> QED
  BY <1>1, <1>2

LEMMA EngineInvHolds == Spec => []EngineInv
<1>1. EngineInv /\ [Next]_vars => EngineInv'
  BY NextKeeps
<1> QED
  BY InitEngineInv, <1>1, PTL DEF Spec

\* Every state the engine reaches is well typed: the terms never go below zero where
\* m_term is lowered, and every ack and vote counted is of a node and a block.
THEOREM RaftTypeCorrect == Spec => []TypeOK
<1>1. EngineInv => TypeOK
  BY DEF EngineInv
<1> QED
  BY EngineInvHolds, <1>1, PTL

\* On every node the last leader's term is never ahead of the own one, strictly behind
\* it for a candidate and equal to it for a leader at work.
THEOREM RaftTermsOrdered == Spec => []TermAheadOfLastLeader
<1>1. EngineInv => TermAheadOfLastLeader
  BY DEF EngineInv, TermInv, TermAheadOfLastLeader
<1> QED
  BY EngineInvHolds, <1>1, PTL

\* Only the second half of the engine's own reportBlock, which comes after ul.unlock(),
\* can leave a sealer thread asleep in RaftEngine::commit without a block.
THEOREM RaftStrandedByReport == Spec => StrandedByReport
<1>1. EngineInv /\ [Next]_vars =>
        [\A n \in Node : Stranded(node'[n]) => Stranded(node[n]) \/ node[n].report = "block"]_vars
  <2> SUFFICES ASSUME EngineInv, [Next]_vars, NEW n \in Node, Stranded(node'[n]),
                      ~ UNCHANGED vars
               PROVE  Stranded(node[n]) \/ node[n].report = "block"
    OBVIOUS
  <2> QED
    BY NextKeeps DEF Progress, Upward, Awake
<1> QED
  BY EngineInvHolds, <1>1, PTL DEF Spec, StrandedByReport

\* On a follower no sealer thread is asleep in RaftEngine::commit without a block: every
\* way out of leadership wakes it.
THEOREM RaftNoStrandedFollower == Spec => []NoStrandedFollower
<1>1. EngineInv => NoStrandedFollower
  BY DEF EngineInv, SealInv, NoStrandedFollower
<1> QED
  BY EngineInvHolds, <1>1, PTL

\* A leader gives up its role only for a higher term or by a restart.
THEOREM RaftLeaderYields == Spec => LeaderYieldsUpward
<1>1. EngineInv /\ [Next]_vars =>
        [\A n \in Node : node[n].role = "leader" /\ node'[n].role # "leader"
            => node'[n].term > node[n].term \/ restarts' > restarts]_vars
  BY NextKeeps DEF Progress, Upward, Awake
<1> QED
  BY EngineInvHolds, <1>1, PTL DEF Spec, LeaderYieldsUpward

\* While a process lives, the last leader's term it remembers never goes down.
THEOREM RaftLastLeaderGrows == Spec => LastLeaderTermGrows
<1>1. EngineInv /\ [Next]_vars =>
        [\A n \in Node : node'[n].lastLeaderTerm >= node[n].lastLeaderTerm
            \/ restarts' > restarts]_vars
  BY NextKeeps DEF Progress, Upward, Awake
<1> QED
  BY EngineInvHolds, <1>1, PTL DEF Spec, LastLeaderTermGrows
=============================================================================
