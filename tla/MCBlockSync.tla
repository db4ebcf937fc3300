---------------------------- MODULE MCBlockSync ----------------------------
(* Instances of BlockSync for TLC. *)
EXTENDS BlockSync

CONSTANTS g, b1, b2, b3, x2

\* A chain of three blocks, and a block without signatures in place of the second.
Blocks == {g, b1, b2, b3, x2}
BlockNumber == g :> 0 @@ b1 :> 1 @@ b2 :> 2 @@ b3 :> 3 @@ x2 :> 2
BlockParent == g :> g @@ b1 :> g @@ b2 :> b1 @@ b3 :> b2 @@ x2 :> b1
SealedBlocks == {b1, b2, b3}
\* The second block is larger than a packet may be.
BlockWeight == g :> 1 @@ b1 :> 1 @@ b2 :> 3 @@ b3 :> 1 @@ x2 :> 1

Both == {<<0, 1>>, <<1, 0>>}
Star == Both \cup {<<0, 2>>, <<2, 0>>}

\* A new node and one with the whole chain.
NewNode == 0 :> <<>> @@ 1 :> <<b1, b2, b3>>
\* Three nodes, each one block behind the next.
Lagging == 0 :> <<b1>> @@ 1 :> <<b1, b2>> @@ 2 :> <<b1, b2, b3>>

NoPackets == {}
Forgery == {[type |-> "blocks", from |-> 1, to |-> 0, shard |-> <<x2>>]}
=============================================================================
