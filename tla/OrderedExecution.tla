-------------------------- MODULE OrderedExecution --------------------------
(***************************************************************************)
(* What parallel execution of a block promises: every transaction runs     *)
(* once, and two transactions that conflict run one after the other in the *)
(* order of the block, as BlockVerifier::serialExecuteBlock would run them.*)
(*                                                                         *)
(* TxDAG.tla is shown to implement this specification.                     *)
(***************************************************************************)
EXTENDS Integers, Sequences

CONSTANTS
    TxNum,      \* how many transactions the block has
    FieldNum    \* how many different critical fields they name

ASSUME TxNumAssumption == TxNum \in Nat
ASSUME FieldNumAssumption == FieldNum \in Nat

Tx == 0 .. (TxNum - 1)
Field == 1 .. FieldNum

VARIABLES
    tx,         \* tx[i]: what ExecutiveContext::getTxCriticals says of transaction i
    status      \* status[i]: whether transaction i waits, runs or is done

orderVars == <<tx, status>>

\* A null result makes a transaction normal; otherwise it is a list of critical fields.
TxInfo == [normal : BOOLEAN, criticals : Seq(Field)]
Status == {"waiting", "running", "done", "thrown"}

Fields(i) == {tx[i].criticals[k] : k \in DOMAIN tx[i].criticals}

\* i and j may touch the same state, as far as their critical fields tell.  A list
\* without fields declares that the transaction conflicts with nothing.
Tagged(i) == tx[i].normal \/ tx[i].criticals # <<>>
Conflict(i, j) ==
    \/ tx[i].normal /\ Tagged(j)
    \/ tx[j].normal /\ Tagged(i)
    \/ ~ tx[i].normal /\ ~ tx[j].normal /\ Fields(i) \cap Fields(j) # {}

OrderInit ==
    /\ tx \in [Tx -> TxInfo]
    /\ status = [i \in Tx |-> "waiting"]

Start(i) ==
    /\ status[i] = "waiting"
    /\ \A j \in Tx : j < i /\ Conflict(j, i) => status[j] = "done"
    /\ status' = [status EXCEPT ![i] = "running"]
    /\ UNCHANGED tx

\* The transaction ends, or an exception ends the execution of the block.
Finish(i) ==
    /\ status[i] = "running"
    /\ \E r \in {"done", "thrown"} : status' = [status EXCEPT ![i] = r]
    /\ UNCHANGED tx

OrderNext == \E i \in Tx : Start(i) \/ Finish(i)

OrderSpec == OrderInit /\ [][OrderNext]_orderVars
=============================================================================
