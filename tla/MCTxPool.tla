------------------------------ MODULE MCTxPool ------------------------------
(***************************************************************************)
(* Transactions with which TLC checks TxPool.                              *)
(***************************************************************************)
EXTENDS TxPool, TLC

CONSTANTS a, b, c

\* Three transactions with one nonce, the last of another group.  With a window of three
\* blocks the nonce of block 1 leaves the window with block 5, while b is still valid:
\* also when b was stored in the meantime.
Transactions == {a, b, c}
SameNonce == [t \in Transactions |-> 1]
Limits == (a :> 3) @@ (b :> 6) @@ (c :> 4)
=============================================================================
