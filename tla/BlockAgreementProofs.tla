------------------------ MODULE BlockAgreementProofs ------------------------
(***************************************************************************)
(* BlockAgreement is safe for every number of sealers, every set of at     *)
(* most F faulty ones and every set of blocks.  The facts about the group  *)
(* come first: why the quorum has the size it has.  PBFTEngineProofs rests *)
(* on them too.                                                            *)
(***************************************************************************)
EXTENDS BlockAgreement, FiniteSetTheorems, TLAPS

(***************************************************************************)
(* The arithmetic of resetConfig: the sealers are finitely many, and       *)
(* NodeNum >= 3F + 1 with F = (NodeNum - 1) \div 3.                        *)
(***************************************************************************)
LEMMA GroupSize ==
    /\ IsFiniteSet(Node) /\ Cardinality(Node) = NodeNum
    /\ F \in Nat /\ 3 * F + 1 <= NodeNum
    /\ minValidNodes = NodeNum - F /\ minValidNodes \in Nat
<1>1. NodeNum \in Nat /\ NodeNum >= 1
  BY NodeNumAssumption
<1>2. IsFiniteSet(Node) /\ Cardinality(Node) = NodeNum
  BY <1>1, FS_Interval DEF Node
<1>3. F \in Nat /\ 3 * F + 1 <= NodeNum
  BY <1>1 DEF F
<1> QED
  BY <1>1, <1>2, <1>3 DEF minValidNodes

(***************************************************************************)
(* Two quorums of minValidNodes() sealers share a correct one, which is    *)
(* what the size N - F of the sign and commit quorums is chosen for.       *)
(***************************************************************************)
LEMMA QuorumsIntersect ==
    ASSUME NEW Q1 \in SUBSET Node, NEW Q2 \in SUBSET Node,
           Cardinality(Q1) >= minValidNodes, Cardinality(Q2) >= minValidNodes
    PROVE  \E n \in Correct : n \in Q1 /\ n \in Q2
<1>1. IsFiniteSet(Q1) /\ IsFiniteSet(Q2)
  BY GroupSize, FS_Subset
<1>2. Cardinality(Q1 \cup Q2) <= NodeNum
  <2>1. Q1 \cup Q2 \in SUBSET Node
    OBVIOUS
  <2> QED
    BY <2>1, GroupSize, FS_Subset
<1>3. /\ IsFiniteSet(Q1 \cup Q2)
      /\ Cardinality(Q1 \cup Q2) = Cardinality(Q1) + Cardinality(Q2) - Cardinality(Q1 \cap Q2)
  BY <1>1, FS_Union
<1>4. /\ Cardinality(Q1) \in Nat /\ Cardinality(Q2) \in Nat
      /\ Cardinality(Q1 \cap Q2) \in Nat /\ Cardinality(Q1 \cup Q2) \in Nat
  BY <1>1, <1>3, FS_CardinalityType, FS_Intersection
<1>5. Cardinality(Q1 \cap Q2) > F
  BY <1>2, <1>3, <1>4, GroupSize, NodeNumAssumption
<1>6. IsFiniteSet(Faulty) /\ Cardinality(Faulty) \in Nat /\ Cardinality(Faulty) <= F
  BY FaultyAssumption, GroupSize, FS_Subset, FS_CardinalityType
<1>7. ~ (Q1 \cap Q2 \subseteq Faulty)
  <2>1. SUFFICES ASSUME Q1 \cap Q2 \in SUBSET Faulty
                 PROVE  FALSE
    OBVIOUS
  <2>2. Cardinality(Q1 \cap Q2) <= Cardinality(Faulty)
    BY <2>1, <1>6, FS_Subset
  <2> QED
    BY <2>2, <1>4, <1>5, <1>6, GroupSize
<1> QED
  BY <1>7 DEF Correct

(***************************************************************************)
(* When nobody votes twice at one height, at most one block of a height    *)
(* can be chosen.                                                          *)
(***************************************************************************)
LEMMA ChosenUnique ==
    ASSUME NEW v \in [Correct -> SUBSET Block],
           \A n \in Correct : \A b, c \in v[n] : number[b] = number[c] => b = c,
           NEW b1 \in Block, NEW b2 \in Block, number[b1] = number[b2],
           Chosen(v, b1), Chosen(v, b2)
    PROVE  b1 = b2
<1>1. Supporters(v, b1) \in SUBSET Node /\ Supporters(v, b2) \in SUBSET Node
  BY FaultyAssumption DEF Supporters, Correct
<1>2. PICK n \in Correct : n \in Supporters(v, b1) /\ n \in Supporters(v, b2)
  BY <1>1, QuorumsIntersect DEF Chosen
<1>3. b1 \in v[n] /\ b2 \in v[n]
  BY <1>2 DEF Supporters, Correct
<1> QED
  BY <1>3

(***************************************************************************)
(* A block stays chosen while the votes only grow.                         *)
(***************************************************************************)
LEMMA ChosenStable ==
    ASSUME NEW v \in [Correct -> SUBSET Block], NEW w \in [Correct -> SUBSET Block],
           \A n \in Correct : v[n] \subseteq w[n],
           NEW b \in Block, Chosen(v, b)
    PROVE  Chosen(w, b)
<1>1. Supporters(w, b) \in SUBSET Node /\ Supporters(v, b) \in SUBSET Supporters(w, b)
  BY FaultyAssumption DEF Supporters, Correct
<1>2. IsFiniteSet(Supporters(w, b)) /\ IsFiniteSet(Supporters(v, b))
  BY <1>1, GroupSize, FS_Subset
<1>3. Cardinality(Supporters(v, b)) <= Cardinality(Supporters(w, b))
  BY <1>1, <1>2, FS_Subset
<1> QED
  BY <1>2, <1>3, GroupSize, FS_CardinalityType DEF Chosen

-----------------------------------------------------------------------------
(* The abstract specification.                                             *)

LEMMA AbstractInvInit == AbstractInit => AbstractInv
BY DEF AbstractInit, AbstractInv, AbstractTypeOK, VotesOnce, DecidedChosen

\* A vote that FreeToVote allows keeps the votes of every node apart.
LEMMA VoteKeepsInv ==
    ASSUME AbstractInv, NEW n \in Correct, NEW b \in Block, FreeToVote(n, b),
           voted' = [voted EXCEPT ![n] = @ \cup {b}]
    PROVE  /\ voted' \in [Correct -> SUBSET Block]
           /\ VotesOnce'
           /\ \A k \in Correct : voted[k] \subseteq voted'[k]
BY DEF AbstractInv, AbstractTypeOK, VotesOnce, FreeToVote

LEMMA AbstractInvNext == AbstractInv /\ [AbstractNext]_abstractVars => AbstractInv'
<1> SUFFICES ASSUME AbstractInv, [AbstractNext]_abstractVars
             PROVE  AbstractInv'
  OBVIOUS
<1> USE DEF AbstractInv
<1>1. CASE UNCHANGED abstractVars
  BY <1>1 DEF abstractVars, AbstractTypeOK, VotesOnce, DecidedChosen, Chosen, Supporters
<1>2. ASSUME NEW n \in Correct, NEW b \in Block, Vote(n, b)
      PROVE  AbstractInv'
  <2>1. /\ voted' \in [Correct -> SUBSET Block] /\ VotesOnce'
        /\ \A k \in Correct : voted[k] \subseteq voted'[k]
    BY <1>2, VoteKeepsInv DEF Vote
  <2>2. decided' = decided
    BY <1>2 DEF Vote
  <2>3. DecidedChosen'
    BY <2>1, <2>2, ChosenStable DEF DecidedChosen, AbstractTypeOK
  <2> QED
    BY <2>1, <2>2, <2>3 DEF AbstractTypeOK
<1>3. ASSUME NEW n \in Correct, NEW b \in Block, Decide(n, b)
      PROVE  AbstractInv'
  <2>1. voted' = voted /\ Chosen(voted, b) /\ decided' = [decided EXCEPT ![n] = @ \cup {b}]
    BY <1>3 DEF Decide
  <2>2. DecidedChosen'
    BY <2>1 DEF DecidedChosen, AbstractTypeOK, Chosen, Supporters
  <2> QED
    BY <2>1, <2>2 DEF AbstractTypeOK, VotesOnce
<1>4. ASSUME NEW n \in Correct, NEW b \in Block, VoteAndDecide(n, b)
      PROVE  AbstractInv'
  <2>1. /\ voted' \in [Correct -> SUBSET Block] /\ VotesOnce'
        /\ \A k \in Correct : voted[k] \subseteq voted'[k]
    BY <1>4, VoteKeepsInv DEF VoteAndDecide
  <2>2. Chosen(voted', b) /\ decided' = [decided EXCEPT ![n] = @ \cup {b}]
    BY <1>4 DEF VoteAndDecide
  <2>3. DecidedChosen'
    BY <2>1, <2>2, ChosenStable DEF DecidedChosen, AbstractTypeOK
  <2> QED
    BY <2>1, <2>2, <2>3 DEF AbstractTypeOK
<1> QED
  BY <1>1, <1>2, <1>3, <1>4 DEF AbstractNext

LEMMA AbstractInvImpliesNoFork == AbstractInv => NoFork
<1> SUFFICES ASSUME AbstractInv, NEW n1 \in Correct, NEW n2 \in Correct,
                    NEW b1 \in decided[n1], NEW b2 \in decided[n2],
                    number[b1] = number[b2]
             PROVE  b1 = b2
  BY DEF NoFork
<1>1. b1 \in Block /\ b2 \in Block
  BY DEF AbstractInv, AbstractTypeOK
<1>2. Chosen(voted, b1) /\ Chosen(voted, b2)
  BY DEF AbstractInv, DecidedChosen
<1> QED
  BY <1>1, <1>2, ChosenUnique DEF AbstractInv, AbstractTypeOK, VotesOnce

(***************************************************************************)
(* What the consensus layer promises holds for every group: when each      *)
(* sealer gives its commit request to one block per height and a block is  *)
(* stored on minValidNodes() of them, no two correct nodes fork.           *)
(***************************************************************************)
THEOREM AgreementSafe == AbstractSpec => []NoFork
<1>1. AbstractSpec => []AbstractInv
  BY AbstractInvInit, AbstractInvNext, PTL DEF AbstractSpec
<1> QED
  BY <1>1, AbstractInvImpliesNoFork, PTL
=============================================================================
