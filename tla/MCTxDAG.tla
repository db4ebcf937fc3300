------------------------------ MODULE MCTxDAG ------------------------------
(***************************************************************************)
(* Critical lists with which TLC checks TxDAG.                             *)
(***************************************************************************)
EXTENDS TxDAG

\* No field, one of two fields, both, or the same one twice (a transfer to oneself).
MixedCriticals == {<<>>, <<1>>, <<2>>, <<1, 2>>, <<1, 1>>}
=============================================================================
