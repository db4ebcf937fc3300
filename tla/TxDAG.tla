------------------------------- MODULE TxDAG -------------------------------
(***************************************************************************)
(* libblockverifier: TxDAG and DAG with the loop of                        *)
(* BlockVerifier::parallelExecuteBlock.  One thread builds the graph of a  *)
(* block's transactions (TxDAG::init, DAG::generate); then the threads of  *)
(* tbb::parallel_for take transactions from m_topLevel, run them and       *)
(* release their successors (executeUnit, waitPop, consume).               *)
(*                                                                         *)
(* An edge is a record: via tells apart the edges between the same two     *)
(* transactions, which DAG::addEdge adds once per critical field.          *)
(* m_totalConsume and the condition variable only shorten the 10 ms wait   *)
(* of waitPop; they leave no trace in the state.                           *)
(***************************************************************************)
EXTENDS OrderedExecution, FiniteSets

CONSTANTS
    Thread,     \* the threads of parallel_for
    Criticals,  \* bound: the critical lists a transaction of the block may have
    MaxThrow    \* bound: how many transactions end in an exception

ASSUME CriticalsAssumption == Criticals \subseteq Seq(Field)
ASSUME MaxThrowAssumption == MaxThrow \in Nat

VARIABLES
    added,      \* TxDAG::init: how many transactions are in the graph
    scanned,    \* DAG::generate: how many vertices have been looked at
    latest,     \* CriticalField::m_criticals
    latestAll,  \* CriticalField::m_criticalAll
    edges,      \* Vertex::outEdge of all vertices
    inDegree,   \* Vertex::inDegree
    topLevel,   \* DAG::m_topLevel
    exeCnt,     \* TxDAG::m_exeCnt
    thread,     \* what each thread is doing
    throws      \* how many transactions ended in an exception

graphVars == <<added, scanned, latest, latestAll, edges>>
vars == <<tx, status, graphVars, inDegree, topLevel, exeCnt, thread, throws>>

INVALID_ID == -1
MaybeTx == Tx \cup {INVALID_ID}
Edge == [from : Tx, to : Tx, via : Nat]

ThreadState ==
    [pc : {"check", "pop", "start", "run", "consume", "left"},
     id : MaybeTx,              \* executeUnit: id
     nextId : MaybeTx,          \* consume: nextId
     todo : SUBSET Edge]        \* consume: the out edges that are left

TypeOK ==
    /\ tx \in [Tx -> TxInfo]
    /\ status \in [Tx -> Status]
    /\ added \in 0 .. TxNum /\ scanned \in 0 .. TxNum
    /\ latest \in [Field -> MaybeTx] /\ latestAll \in MaybeTx
    /\ edges \subseteq Edge
    /\ inDegree \in [Tx -> Nat]
    /\ topLevel \in Seq(Tx)
    /\ exeCnt \in Nat /\ throws \in Nat
    /\ thread \in [Thread -> ThreadState]

Init ==
    /\ tx \in [Tx -> [normal : {FALSE}, criticals : Criticals]
                        \cup [normal : {TRUE}, criticals : {<<>>}]]
    /\ status = [i \in Tx |-> "waiting"]
    /\ added = 0 /\ scanned = 0
    /\ latest = [c \in Field |-> INVALID_ID] /\ latestAll = INVALID_ID
    /\ edges = {}
    /\ inDegree = [i \in Tx |-> 0]
    /\ topLevel = <<>>
    /\ exeCnt = 0 /\ throws = 0
    /\ thread = [t \in Thread |->
                    [pc |-> "check", id |-> INVALID_ID, nextId |-> INVALID_ID, todo |-> {}]]

-----------------------------------------------------------------------------
(* The graph.                                                              *)

\* CriticalField::get
get(c) == IF latest[c] = INVALID_ID THEN latestAll ELSE latest[c]

\* Mistake to detect: a field nobody has used since the last normal transaction is free.
fieldEdgesIgnoringAll(id) ==
    {[from |-> latest[tx[id].criticals[k]], to |-> id, via |-> k] :
        k \in {x \in DOMAIN tx[id].criticals : latest[tx[id].criticals[x]] # INVALID_ID}}

\* A transaction with critical fields follows the last user of each of them.
fieldEdges(id) ==
    {[from |-> get(tx[id].criticals[k]), to |-> id, via |-> k] :
        k \in {x \in DOMAIN tx[id].criticals : get(tx[id].criticals[x]) # INVALID_ID}}

\* foreachField: a normal transaction follows the last user of every field, and the
\* last normal transaction.
allEdges(id) ==
    {[from |-> latest[c], to |-> id, via |-> c] : c \in {x \in Field : latest[x] # INVALID_ID}}
        \cup {[from |-> p, to |-> id, via |-> 0] : p \in {latestAll} \ {INVALID_ID}}

NewEdges(id) == IF tx[id].normal THEN allEdges(id) ELSE fieldEdges(id)

\* Mistake to detect: edges from the same transaction are counted once.
degreeOfSources(id) == Cardinality({e.from : e \in NewEdges(id)})

degree(id) == Cardinality(NewEdges(id))

\* One turn of the loop of TxDAG::init.
AddTx ==
    /\ added < TxNum
    /\ added' = added + 1
    /\ edges' = edges \cup NewEdges(added)
    /\ inDegree' = [inDegree EXCEPT ![added] = degree(added)]
    /\ latest' = [c \in Field |-> IF tx[added].normal THEN INVALID_ID
                                  ELSE IF c \in Fields(added) THEN added ELSE latest[c]]
    /\ latestAll' = IF tx[added].normal THEN added ELSE latestAll
    /\ UNCHANGED <<tx, status, scanned, topLevel, exeCnt, thread, throws>>

\* One turn of the loop of DAG::generate.
ScanVertex ==
    /\ added = TxNum /\ scanned < TxNum
    /\ scanned' = scanned + 1
    /\ topLevel' = IF inDegree[scanned] = 0 THEN Append(topLevel, scanned) ELSE topLevel
    /\ UNCHANGED <<tx, status, added, latest, latestAll, edges, inDegree, exeCnt, thread, throws>>

-----------------------------------------------------------------------------
(* The threads.                                                            *)

Running == added = TxNum /\ scanned = TxNum
At(t, label) == Running /\ thread[t].pc = label
Goto(t, label) == thread' = [thread EXCEPT ![t].pc = label]

\* Mistake to detect: the last transaction is not waited for.
hasFinishedEarly == exeCnt + 1 >= TxNum

hasFinished == exeCnt >= TxNum

CheckFinished(t) ==
    /\ At(t, "check")
    /\ Goto(t, IF hasFinished THEN "left" ELSE "pop")
    /\ UNCHANGED <<tx, status, graphVars, inDegree, topLevel, exeCnt, throws>>

WaitPop(t) ==
    /\ At(t, "pop")
    /\ topLevel # <<>>
    /\ topLevel' = Tail(topLevel)
    /\ thread' = [thread EXCEPT ![t].pc = "start", ![t].id = Head(topLevel)]
    /\ UNCHANGED <<tx, status, graphVars, inDegree, exeCnt, throws>>

\* waitPop returns INVALID_ID after 10 ms without a transaction.
WaitPopTimeout(t) ==
    /\ At(t, "pop")
    /\ topLevel = <<>>
    /\ Goto(t, "check")
    /\ UNCHANGED <<tx, status, graphVars, inDegree, topLevel, exeCnt, throws>>

\* m_exeCnt is increased before the transaction runs.
StartTx(t) ==
    /\ At(t, "start")
    /\ exeCnt' = exeCnt + 1
    /\ status' = [status EXCEPT ![thread[t].id] = "running"]
    /\ Goto(t, "run")
    /\ UNCHANGED <<tx, graphVars, inDegree, topLevel, throws>>

FinishTx(t) ==
    /\ At(t, "run")
    /\ status' = [status EXCEPT ![thread[t].id] = "done"]
    /\ thread' = [thread EXCEPT ![t].pc = "consume", ![t].nextId = INVALID_ID,
                                ![t].todo = {e \in edges : e.from = thread[t].id}]
    /\ UNCHANGED <<tx, graphVars, inDegree, topLevel, exeCnt, throws>>

\* f_executeTx throws: the thread leaves parallel_for and releases nothing.
ThrowTx(t) ==
    /\ At(t, "run")
    /\ throws < MaxThrow
    /\ throws' = throws + 1
    /\ status' = [status EXCEPT ![thread[t].id] = "thrown"]
    /\ Goto(t, "left")
    /\ UNCHANGED <<tx, graphVars, inDegree, topLevel, exeCnt>>

\* Mistake to detect: a successor is taken as soon as one predecessor is done.
AnyRelease(i) == inDegree[i] >= 1

\* fetch_sub returned 1.
LastRelease(i) == inDegree[i] = 1

\* Mistake to detect: the thread forgets the other successors it has freed.
pushFreedForgetting(t, i) == topLevel' = topLevel

\* The first successor a thread frees is its own next one, the others are queued.
pushFreed(t, i) ==
    topLevel' = IF thread[t].nextId # INVALID_ID THEN Append(topLevel, i) ELSE topLevel

\* One turn of the loop of consume.  outEdge is in the order of the block.
ReleaseEdge(t) ==
    /\ At(t, "consume")
    /\ \E e \in thread[t].todo :
        /\ \A f \in thread[t].todo : e.to <= f.to
        /\ inDegree' = [inDegree EXCEPT ![e.to] = @ - 1]
        /\ \/ /\ ~ LastRelease(e.to)
              /\ thread' = [thread EXCEPT ![t].todo = @ \ {e}]
              /\ UNCHANGED topLevel
           \/ /\ LastRelease(e.to)
              /\ thread' = [thread EXCEPT ![t].todo = @ \ {e},
                                          ![t].nextId = IF @ = INVALID_ID THEN e.to ELSE @]
              /\ pushFreed(t, e.to)
    /\ UNCHANGED <<tx, status, graphVars, exeCnt, throws>>

FinishConsume(t) ==
    /\ At(t, "consume")
    /\ thread[t].todo = {}
    /\ thread' = [thread EXCEPT ![t].pc = IF thread[t].nextId = INVALID_ID THEN "check" ELSE "start",
                                ![t].id = thread[t].nextId]
    /\ UNCHANGED <<tx, status, graphVars, inDegree, topLevel, exeCnt, throws>>

-----------------------------------------------------------------------------
ThreadStep(t) ==
    \/ CheckFinished(t)
    \/ WaitPop(t)
    \/ WaitPopTimeout(t)
    \/ StartTx(t)
    \/ FinishTx(t)
    \/ ThrowTx(t)
    \/ ReleaseEdge(t)
    \/ FinishConsume(t)

Next == AddTx \/ ScanVertex \/ \E t \in Thread : ThreadStep(t)

Spec == Init /\ [][Next]_vars

\* The building thread and every thread of parallel_for keep running.
FairSpec ==
    Spec /\ WF_vars(AddTx \/ ScanVertex) /\ \A t \in Thread : WF_vars(ThreadStep(t))

-----------------------------------------------------------------------------
AllLeft == \A t \in Thread : thread[t].pc = "left"

(***************************************************************************)
(* Conflicting transactions run in the order of the block: when one has    *)
(* started, all earlier ones it conflicts with are done, although the      *)
(* graph only has edges to the LAST user of each field and the releases of *)
(* several threads interleave.                                             *)
(***************************************************************************)
ConflictsInOrder ==
    \A i, j \in Tx : i < j /\ Conflict(i, j) /\ status[j] # "waiting" => status[i] = "done"

(***************************************************************************)
(* When parallel_for returns without an exception, every transaction has   *)
(* been executed, although hasFinished counts transactions that are still  *)
(* running and waitPop gives up after 10 ms.                               *)
(***************************************************************************)
AllRunWhenLeft ==
    AllLeft /\ throws = 0 /\ Thread # {} => \A i \in Tx : status[i] = "done"

(***************************************************************************)
(* Parallel execution of a block comes to an end (parallel_for in          *)
(* BlockVerifier::parallelExecuteBlock), unless the execution of a         *)
(* transaction throws: the other threads then wait for it for ever.        *)
(***************************************************************************)
ExecutionReturns == <>(AllLeft \/ throws > 0)

(***************************************************************************)
(* "Normal transaction: Conflict with all transaction" (TxDAG.cpp:75): no  *)
(* other transaction of the block runs before an earlier normal one, or    *)
(* an earlier one before a normal one, is done.                            *)
(***************************************************************************)
NormalConflictsWithAll ==
    \A i, j \in Tx :
        i < j /\ (tx[i].normal \/ tx[j].normal) /\ status[j] # "waiting" => status[i] = "done"

(***************************************************************************)
(* Parallel execution implements ordered execution: transactions run once, *)
(* and in the order of the block where they conflict.                      *)
(***************************************************************************)
Ordered == INSTANCE OrderedExecution
ImplementsOrder == Ordered!OrderSpec
=============================================================================
