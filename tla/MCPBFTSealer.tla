---------------------------- MODULE MCPBFTSealer ----------------------------
(***************************************************************************)
(* Symmetric transactions with which TLC checks PBFTSealer.                *)
(***************************************************************************)
EXTENDS PBFTSealer, TLC

CONSTANTS a, b

TxSymmetry == Permutations(Tx)
=============================================================================
