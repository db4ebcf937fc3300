---------------------------- MODULE MCRaftEngine ----------------------------
(***************************************************************************)
(* Concrete blocks with which TLC checks RaftEngine.                       *)
(***************************************************************************)
EXTENDS RaftEngine, TLC

CONSTANTS g, a1, b1

\* A single block of height 1, sealed by node 0.
OneBlock == {g, a1}
OneNumber == (g :> 0) @@ (a1 :> 1)
OneParent == [b \in OneBlock |-> g]
OneSealer == [b \in OneBlock |-> 0]

\* Two rivals of height 1, one of each node.
RivalBlocks == {g, a1, b1}
RivalNumber == (g :> 0) @@ (a1 :> 1) @@ (b1 :> 1)
RivalParent == [b \in RivalBlocks |-> g]
RivalSealer == (g :> 0) @@ (a1 :> 0) @@ (b1 :> 1)

\* Node 0 may lead term 1, node 1 a term up to 2; node 2 only votes.
TakeOver == (0 :> 1) @@ (1 :> 2) @@ (2 :> 0)

\* Node 0 may lead before and after node 1.
BackAgain == (0 :> 3) @@ (1 :> 2)

\* Nodes 0 and 2 both reach node 1 and not each other.
Apart == {<<0, 1>>, <<1, 0>>, <<1, 2>>, <<2, 1>>}
\* Everyone reaches everyone.
Mesh == {l \in Node \X Node : l[1] # l[2]}
=============================================================================
