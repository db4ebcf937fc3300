---------------------------- MODULE MCMemoryTable ----------------------------
(***************************************************************************)
(* Conditions and genesis rows with which TLC checks MemoryTable.          *)
(***************************************************************************)
EXTENDS MemoryTable

CONSTANTS k1, exec, rpc, a, b

\* A condition accepts every row of the key, or one value.
AnyValue == {Value} \cup {{v} : v \in Value}

\* A key without rows, or with two: one that a block changes and one that goes along.
TwoRowsOrNone == {[k \in Key |-> <<>>]} \cup
                 {[k \in Key |-> <<row(2, v, FALSE), row(3, w, FALSE)>>] :
                  v \in Value, w \in Value}
OneRow == {[k \in Key |-> <<row(2, v, FALSE)>>] : v \in Value}

Symmetric == Permutations(Value)
=============================================================================
