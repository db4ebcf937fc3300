---------------------------- MODULE MCPBFTEngine ----------------------------
(***************************************************************************)
(* Concrete blocks and faulty behaviours with which TLC checks PBFTEngine. *)
(***************************************************************************)
EXTENDS PBFTEngine, TLC

CONSTANTS g, a1, b1, c1, a2, x1

\* Two rivals of height 1, and a block of height 2.
TwoHeightBlocks == {g, a1, b1, a2}
TwoHeightNumber == (g :> 0) @@ (a1 :> 1) @@ (b1 :> 1) @@ (a2 :> 2)
TwoHeightParent == (g :> g) @@ (a1 :> g) @@ (b1 :> g) @@ (a2 :> a1)

\* A single block of height 1.
SingleBlocks == {g, a1}
SingleNumber == (g :> 0) @@ (a1 :> 1)
SingleParent == [b \in SingleBlocks |-> g]

\* Three rivals and a block of height 1 whose parent is not the genesis block.
OrphanBlocks == {g, a1, b1, c1, x1}
OrphanNumber == [b \in OrphanBlocks |-> IF b = g THEN 0 ELSE 1]
OrphanParent == [b \in OrphanBlocks |-> IF b = x1 THEN a1 ELSE g]

\* Sealer 0 proposes and signs the orphan as leader of view 0, proposes c1 in view 1 that
\* it does not lead, takes part in the view change, and signs what the leader of view 1
\* may propose: a1 in the wrong view, b1 with one signature and, signed anew, with another.
StrayVotes ==
    [type : {"prepare", "sign"}, b : {x1}, view : {0}, idx : {0}, sig : {0}]
        \cup [type : {"prepare"}, b : {c1}, view : {1}, idx : {0}, sig : {0}]
        \cup [type : {"sign"}, b : {a1}, view : {2}, idx : {0}, sig : {0}]
        \cup [type : {"sign"}, b : {b1}, view : {1}, idx : {0}, sig : {0, 1}]
        \cup [type : {"viewchange"}, b : {g}, view : {1}, idx : {0}, sig : {0}]

\* The faulty sealer is off.
Silent == {}
=============================================================================
