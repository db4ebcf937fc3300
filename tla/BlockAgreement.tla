--------------------------- MODULE BlockAgreement ---------------------------
(***************************************************************************)
(* What the consensus layer promises the rest of a node, without leaders,  *)
(* views, caches or messages: a sealer gives its binding vote (the commit  *)
(* request of PBFTEngine::broadcastCommitReq) to at most one block of each *)
(* height, and a node stores a block only when a quorum of sealers, the    *)
(* minValidNodes() of ConsensusEngineBase, has voted for it.               *)
(*                                                                         *)
(* PBFTEngine.tla is shown to implement this specification.                *)
(***************************************************************************)
EXTENDS SealerGroup

VARIABLES
    voted,      \* voted[n]: the blocks n has given its binding vote
    decided     \* decided[n]: the blocks n has stored on its chain

abstractVars == <<voted, decided>>

AbstractTypeOK ==
    /\ voted \in [Correct -> SUBSET Block]
    /\ decided \in [Correct -> SUBSET Block]

FreeToVote(n, b) == \A c \in voted[n] : number[c] = number[b] => c = b

AbstractInit ==
    /\ voted = [n \in Correct |-> {}]
    /\ decided = [n \in Correct |-> {}]

Vote(n, b) ==
    /\ FreeToVote(n, b)
    /\ voted' = [voted EXCEPT ![n] = @ \cup {b}]
    /\ UNCHANGED decided

Decide(n, b) ==
    /\ Chosen(voted, b)
    /\ decided' = [decided EXCEPT ![n] = @ \cup {b}]
    /\ UNCHANGED voted

\* The vote of n completes the quorum, and n stores the block in the same step.
VoteAndDecide(n, b) ==
    /\ FreeToVote(n, b)
    /\ voted' = [voted EXCEPT ![n] = @ \cup {b}]
    /\ Chosen(voted', b)
    /\ decided' = [decided EXCEPT ![n] = @ \cup {b}]

AbstractNext ==
    \E n \in Correct, b \in Block : Vote(n, b) \/ Decide(n, b) \/ VoteAndDecide(n, b)

AbstractSpec == AbstractInit /\ [][AbstractNext]_abstractVars

-----------------------------------------------------------------------------
(***************************************************************************)
(* No fork: two correct nodes never store different blocks of one height.  *)
(***************************************************************************)
NoFork ==
    \A n1, n2 \in Correct : \A b1 \in decided[n1], b2 \in decided[n2] :
        number[b1] = number[b2] => b1 = b2

(***************************************************************************)
(* The inductive strengthening: nobody votes twice at one height, and what *)
(* is stored was chosen.                                                   *)
(***************************************************************************)
VotesOnce ==
    \A n \in Correct : \A b, c \in voted[n] : number[b] = number[c] => b = c
DecidedChosen ==
    \A n \in Correct : \A b \in decided[n] : Chosen(voted, b)

AbstractInv == AbstractTypeOK /\ VotesOnce /\ DecidedChosen
=============================================================================
