---------------------------- MODULE SealerGroup ----------------------------
(***************************************************************************)
(* The consensus group of ConsensusEngineBase: the sealers, how many may   *)
(* be faulty, the quorum, and the blocks they can propose.                 *)
(***************************************************************************)
EXTENDS Integers, FiniteSets

CONSTANTS
    NodeNum,    \* m_nodeNum: how many sealers the group has
    Faulty,     \* the sealers that do not run this code (what they may send: FaultyMessage)
    Block,      \* the blocks that can be proposed, the genesis block included
    number      \* number[b]: the height in the header of block b

\* A sealer is known by its index in the sorted m_sealerList.
Node == 0 .. (NodeNum - 1)
Correct == Node \ Faulty

\* resetConfig: m_f = (m_nodeNum - 1) / 3, and minValidNodes() = m_nodeNum - m_f.
F == (NodeNum - 1) \div 3

\* Mistake to detect: a quorum of one sealer less.
minValidNodesShort == NodeNum - F - 1

minValidNodes == NodeNum - F

ASSUME NodeNumAssumption == NodeNum \in Nat \ {0}
ASSUME FaultyAssumption == Faulty \subseteq Node /\ Cardinality(Faulty) <= F
ASSUME NumberAssumption == number \in [Block -> Nat]

(***************************************************************************)
(* The sealers that may be counted for b when the correct ones have voted  *)
(* as v says: a faulty sealer may vote for anything.                       *)
(***************************************************************************)
Supporters(v, b) == Faulty \cup {n \in Correct : b \in v[n]}
Chosen(v, b) == Cardinality(Supporters(v, b)) >= minValidNodes
=============================================================================
