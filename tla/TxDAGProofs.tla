---------------------------- MODULE TxDAGProofs ----------------------------
(***************************************************************************)
(* Parallel execution of a block keeps the order of conflicting            *)
(* transactions, loses none and runs none twice, for every block and every *)
(* number of threads.                                                      *)
(*                                                                         *)
(* BuildInv is about the graph: for every conflict there is an edge to the *)
(* later transaction, from the earlier one or from one in between that     *)
(* conflicts with it.  RunInv is about the threads: in-degrees count the   *)
(* edges that are not released, and what is queued or held by a thread is  *)
(* free of them.                                                           *)
(***************************************************************************)
EXTENDS TxDAG, FiniteSetTheorems, SequenceTheorems, TLAPS

\* The graph is complete before anything runs.
PhaseInv ==
    /\ scanned > 0 => added = TxNum
    /\ ~ Running => /\ \A i \in Tx : status[i] = "waiting"
                    /\ \A t \in Thread : thread[t].pc = "check"

EdgesInv ==
    /\ \A e \in edges : e.from < e.to /\ e.to < added
    /\ IsFiniteSet(edges)

\* CriticalField knows the last transaction of each field and the last normal one.
LatestInv ==
    /\ \A c \in Field : latest[c] # INVALID_ID =>
            /\ latest[c] < added /\ latestAll < latest[c]
            /\ ~ tx[latest[c]].normal /\ c \in Fields(latest[c])
    /\ latestAll # INVALID_ID => latestAll < added /\ tx[latestAll].normal
    /\ \A i \in Tx : i < added =>
            /\ tx[i].normal => i <= latestAll
            /\ ~ tx[i].normal => \A c \in Fields(i) : i <= get(c)

\* The edge that keeps j behind i.
Covers(e, i, j) == e.to = j /\ (e.from = i \/ (i < e.from /\ Conflict(i, e.from)))

CoverInv ==
    \A i, j \in Tx : i < j /\ j < added /\ Conflict(i, j) => \E e \in edges : Covers(e, i, j)

BuildInv == PhaseInv /\ EdgesInv /\ LatestInv /\ CoverInv

-----------------------------------------------------------------------------
\* The edges to i that are not released yet.
Pending(i) ==
    {e \in edges : e.to = i /\ (status[e.from] # "done" \/ \E t \in Thread : e \in thread[t].todo)}

Ready(i) == status[i] = "waiting" /\ Pending(i) = {}
Queued(i) == \E p \in DOMAIN topLevel : topLevel[p] = i

\* The transaction a thread runs next, and the one it runs or has just run.
Holds(t, i) ==
    \/ thread[t].pc = "start" /\ i = thread[t].id
    \/ thread[t].pc = "consume" /\ i = thread[t].nextId
Works(t, i) == thread[t].pc \in {"run", "consume"} /\ i = thread[t].id
Owns(t, i) == Holds(t, i) \/ Works(t, i)

DegreeInv ==
    /\ \A i \in Tx : inDegree[i] = Cardinality(Pending(i))
    /\ \A i \in Tx : status[i] # "waiting" => Pending(i) = {}

QueueInv ==
    /\ \A i \in Tx : Queued(i) => i < scanned /\ Ready(i)
    /\ \A p, q \in DOMAIN topLevel : topLevel[p] = topLevel[q] => p = q

ThreadInv ==
    \A t \in Thread :
        /\ thread[t].pc \in {"start", "run", "consume"} => thread[t].id \in Tx
        /\ \A i \in Tx : Holds(t, i) => Ready(i) /\ ~ Queued(i)
        /\ \A i \in Tx : Works(t, i) =>
                status[i] = IF thread[t].pc = "run" THEN "running" ELSE "done"
        /\ \A e \in thread[t].todo : thread[t].pc = "consume" /\ e \in edges /\ e.from = thread[t].id

OwnerInv ==
    \A t, u \in Thread : \A i \in Tx : Owns(t, i) /\ Owns(u, i) => t = u

RunInv == DegreeInv /\ QueueInv /\ ThreadInv /\ OwnerInv

DAGInv == TypeOK /\ BuildInv /\ RunInv /\ ConflictsInOrder

Started == {i \in Tx : status[i] # "waiting"}

\* What is left when the threads have left.
CountInv ==
    /\ exeCnt = Cardinality(Started)
    /\ \A i \in Tx : status[i] = "running" => \E t \in Thread : thread[t].pc = "run" /\ thread[t].id = i
    /\ \A i \in Tx : status[i] = "thrown" => throws > 0
    /\ \A t \in Thread : thread[t].pc = "left" => exeCnt >= TxNum \/ throws > 0

-----------------------------------------------------------------------------
(* Sequences.                                                              *)

\* What Append and Tail do to the positions of a queue.
LEMMA AppendElements ==
    ASSUME NEW S, NEW s \in Seq(S), NEW x \in S
    PROVE  /\ Append(s, x) \in Seq(S)
           /\ \A p \in DOMAIN Append(s, x) :
                 \/ p \in DOMAIN s /\ Append(s, x)[p] = s[p]
                 \/ p = Len(s) + 1 /\ Append(s, x)[p] = x
           /\ Len(s) + 1 \notin DOMAIN s
<1>1. /\ Append(s, x) \in Seq(S)
      /\ Len(Append(s, x)) = Len(s) + 1
      /\ \A p \in 1 .. Len(s) : Append(s, x)[p] = s[p]
      /\ Append(s, x)[Len(s) + 1] = x
  BY AppendProperties
<1>2. Len(s) \in Nat /\ DOMAIN s = 1 .. Len(s)
  BY LenProperties
<1>3. DOMAIN Append(s, x) = 1 .. Len(s) + 1
  BY <1>1, LenProperties
<1> QED
  BY <1>1, <1>2, <1>3

LEMMA TailElements ==
    ASSUME NEW S, NEW s \in Seq(S), s # <<>>
    PROVE  /\ Tail(s) \in Seq(S)
           /\ 1 \in DOMAIN s /\ s[1] = Head(s) /\ Head(s) \in S
           /\ \A p \in DOMAIN Tail(s) : p + 1 \in DOMAIN s /\ p \in Nat \ {0} /\ Tail(s)[p] = s[p + 1]
<1>1. /\ Head(s) \in S /\ Tail(s) \in Seq(S)
      /\ Len(Tail(s)) = Len(s) - 1
      /\ \A p \in 1 .. Len(Tail(s)) : Tail(s)[p] = s[p + 1]
  BY HeadTailProperties
<1>2. Len(s) \in Nat \ {0} /\ DOMAIN s = 1 .. Len(s)
  BY LenProperties, EmptySeq
<1>3. DOMAIN Tail(s) = 1 .. Len(s) - 1
  BY <1>1, LenProperties
<1>4. s[1] = Head(s)
  OBVIOUS
<1> QED
  BY <1>1, <1>2, <1>3, <1>4

-----------------------------------------------------------------------------
(* The graph.                                                              *)

\* The edges a transaction gets come from earlier transactions, end at it and are finite.
LEMMA NewEdgesProperties ==
    ASSUME TypeOK, LatestInv, added < TxNum
    PROVE  /\ added \in Tx
           /\ \A e \in NewEdges(added) : e \in Edge /\ e.to = added /\ e.from < added
           /\ IsFiniteSet(NewEdges(added))
<1> USE TxNumAssumption, FieldNumAssumption
<1>1. added \in Tx /\ added \in Nat
  BY DEF TypeOK, Tx
<1>2. /\ tx[added].criticals \in Seq(Field)
      /\ \A k \in DOMAIN tx[added].criticals : tx[added].criticals[k] \in Field /\ k \in Nat
  <2>1. tx[added].criticals \in Seq(Field)
    BY <1>1 DEF TypeOK, TxInfo
  <2> QED
    BY <2>1, LenProperties, ElementOfSeq
<1>3. /\ \A c \in Field : latest[c] # INVALID_ID => latest[c] \in Tx /\ latest[c] < added
      /\ latestAll # INVALID_ID => latestAll \in Tx /\ latestAll < added
  BY DEF TypeOK, LatestInv, MaybeTx
<1>4. \A c \in Field : get(c) # INVALID_ID => get(c) \in Tx /\ get(c) < added
  BY <1>3 DEF get
<1>5. \A e \in fieldEdges(added) : e \in Edge /\ e.to = added /\ e.from < added
  BY <1>1, <1>2, <1>4 DEF fieldEdges, Edge
<1>6. \A e \in allEdges(added) : e \in Edge /\ e.to = added /\ e.from < added
  BY <1>1, <1>3 DEF allEdges, Edge, Field
<1>7. IsFiniteSet(fieldEdges(added))
  <2> DEFINE f == [e \in fieldEdges(added) |-> e.via]
             n == Len(tx[added].criticals)
  <2>1. n \in Nat /\ DOMAIN tx[added].criticals = 1 .. n
    BY <1>2, LenProperties
  <2>2. \A e \in fieldEdges(added) :
            \E k \in 1 .. n : e = [from |-> get(tx[added].criticals[k]), to |-> added, via |-> k]
    BY <2>1 DEF fieldEdges
  <2>3. f \in Injection(fieldEdges(added), 1 .. n)
    BY <2>2 DEF Injection, IsInjective
  <2>4. IsFiniteSet(1 .. n)
    BY <2>1, FS_Interval
  <2> QED
    BY <2>3, <2>4, FS_Injection
<1>8. IsFiniteSet(allEdges(added))
  <2> DEFINE f == [e \in allEdges(added) |-> e.via]
  <2>1. \A e \in allEdges(added) :
            \/ \E c \in Field : e = [from |-> latest[c], to |-> added, via |-> c]
            \/ e = [from |-> latestAll, to |-> added, via |-> 0]
    BY DEF allEdges
  <2>2. f \in Injection(allEdges(added), 0 .. FieldNum)
    BY <2>1 DEF Injection, IsInjective, Field
  <2>3. IsFiniteSet(0 .. FieldNum)
    BY FS_Interval
  <2> QED
    BY <2>2, <2>3, FS_Injection
<1> QED
  BY <1>1, <1>5, <1>6, <1>7, <1>8 DEF NewEdges

\* Fields are fields, and a list of fields that is not empty has one.
LEMMA FieldsProperties ==
    ASSUME TypeOK, NEW i \in Tx
    PROVE  /\ Fields(i) \subseteq Field
           /\ tx[i].criticals # <<>> <=> Fields(i) # {}
           /\ \A c \in Fields(i) : \E k \in DOMAIN tx[i].criticals : tx[i].criticals[k] = c
<1>1. tx[i].criticals \in Seq(Field)
  BY DEF TypeOK, TxInfo
<1>2. DOMAIN tx[i].criticals = 1 .. Len(tx[i].criticals)
  BY <1>1, LenProperties
<1>3. tx[i].criticals # <<>> => 1 \in DOMAIN tx[i].criticals
  BY <1>1, <1>2, EmptySeq
<1>4. tx[i].criticals = <<>> => DOMAIN tx[i].criticals = {}
  BY <1>1, <1>2, EmptySeq
<1>5. \A k \in DOMAIN tx[i].criticals : tx[i].criticals[k] \in Field
  BY <1>1, <1>2, ElementOfSeq
<1> QED
  BY <1>3, <1>4, <1>5 DEF Fields

\* Whatever a new transaction conflicts with is covered by one of its edges: the last user
\* of a common field, or the last normal transaction.
LEMMA NewEdgesCover ==
    ASSUME TypeOK, LatestInv, added < TxNum,
           NEW i \in Tx, i < added, Conflict(i, added)
    PROVE  \E e \in NewEdges(added) : Covers(e, i, added)
<1> USE TxNumAssumption, FieldNumAssumption
<1>1. added \in Tx /\ i \in Nat
  BY DEF TypeOK, Tx
<1> DEFINE j == added
           fieldEdge(c) == [from |-> latest[c], to |-> j, via |-> c]
           allEdge == [from |-> latestAll, to |-> j, via |-> 0]
           criticalEdge(k) == [from |-> get(tx[j].criticals[k]), to |-> j, via |-> k]
<1> HIDE DEF j
<1>2. /\ Fields(i) \subseteq Field /\ Fields(j) \subseteq Field
      /\ tx[i].criticals # <<>> <=> Fields(i) # {}
      /\ tx[j].criticals # <<>> <=> Fields(j) # {}
      /\ \A c \in Fields(j) : \E k \in DOMAIN tx[j].criticals : tx[j].criticals[k] = c
  BY <1>1, FieldsProperties DEF j
<1>3. /\ \A c \in Field : latest[c] \in MaybeTx
      /\ latestAll \in MaybeTx
  BY DEF TypeOK
<1>4. latestAll # INVALID_ID => latestAll \in Tx /\ tx[latestAll].normal
  BY <1>3 DEF LatestInv, MaybeTx
<1>5. \A c \in Field : latest[c] # INVALID_ID =>
        /\ latest[c] \in Tx /\ latestAll < latest[c]
        /\ ~ tx[latest[c]].normal /\ c \in Fields(latest[c])
        /\ tx[latest[c]].criticals # <<>>
  <2> TAKE c \in Field
  <2> HAVE latest[c] # INVALID_ID
  <2>1. latest[c] \in Tx /\ latestAll < latest[c] /\ ~ tx[latest[c]].normal /\ c \in Fields(latest[c])
    BY <1>3 DEF LatestInv, MaybeTx
  <2> QED
    BY <2>1, FieldsProperties
<1>6. tx[i].normal => i <= latestAll
  BY DEF LatestInv
<1>7. ~ tx[i].normal => \A c \in Fields(i) : i <= get(c)
  BY DEF LatestInv
\* The last normal transaction or the last user of a field i uses comes after i or is i.
<1>8. ASSUME i <= latestAll, Tagged(i)
      PROVE  /\ latestAll # INVALID_ID
             /\ latestAll = i \/ (i < latestAll /\ Conflict(i, latestAll))
  <2>1. latestAll # INVALID_ID /\ latestAll \in Int
    BY <1>1, <1>3, <1>8 DEF INVALID_ID, MaybeTx, Tx
  <2> QED
    BY <1>1, <1>4, <1>8, <2>1 DEF Conflict
<1>9. ASSUME NEW c \in Fields(i), ~ tx[i].normal, latest[c] # INVALID_ID
      PROVE  latest[c] = i \/ (i < latest[c] /\ Conflict(i, latest[c]))
  <2>1. i <= latest[c] /\ c \in Field
    BY <1>2, <1>7, <1>9 DEF get
  <2>2. latest[c] \in Nat
    BY <1>5, <1>9, <2>1 DEF Tx
  <2>3. c \in Fields(latest[c]) /\ ~ tx[latest[c]].normal
    BY <1>5, <1>9, <2>1
  <2> QED
    BY <1>1, <1>9, <2>1, <2>2, <2>3 DEF Conflict
<1>10. CASE tx[j].normal
  <2>1. Tagged(i)
    BY <1>10 DEF Conflict, Tagged, j
  <2>2. ASSUME latestAll # INVALID_ID
        PROVE  allEdge \in NewEdges(j)
    BY <1>10, <2>2 DEF NewEdges, allEdges
  <2>3. ASSUME NEW c \in Field, latest[c] # INVALID_ID
        PROVE  fieldEdge(c) \in NewEdges(j)
    BY <1>10, <2>3 DEF NewEdges, allEdges
  <2>4. CASE i <= latestAll
    BY <1>8, <2>1, <2>2, <2>4 DEF Covers, j
  <2>5. CASE ~ (i <= latestAll)
    <3>1. ~ tx[i].normal
      BY <1>6, <2>5
    <3>2. PICK c \in Fields(i) : c \in Field
      BY <1>2, <2>1, <3>1 DEF Tagged
    <3>3. latest[c] # INVALID_ID
      BY <1>7, <2>5, <3>1 DEF get
    <3>4. latest[c] = i \/ (i < latest[c] /\ Conflict(i, latest[c]))
      BY <1>9, <3>1, <3>3
    <3> QED
      BY <2>3, <3>2, <3>3, <3>4 DEF Covers, j
  <2> QED
    BY <2>4, <2>5
<1>11. CASE ~ tx[j].normal
  <2>1. ASSUME NEW k \in DOMAIN tx[j].criticals, get(tx[j].criticals[k]) # INVALID_ID
        PROVE  criticalEdge(k) \in NewEdges(j)
    BY <1>11, <2>1 DEF NewEdges, fieldEdges
  <2>2. CASE tx[i].normal
    <3>1. PICK k \in DOMAIN tx[j].criticals : tx[j].criticals[k] \in Field
      <4>1. Fields(j) # {}
        BY <1>2, <1>11, <2>2 DEF Conflict, Tagged, j
      <4> QED
        BY <1>2, <4>1
    <3> DEFINE c == tx[j].criticals[k]
    <3>2. Tagged(i)
      BY <2>2 DEF Tagged
    <3>3. CASE latest[c] # INVALID_ID
      <4>1. latest[c] \in Tx /\ latestAll < latest[c] /\ Tagged(latest[c])
        BY <1>5, <3>1, <3>3 DEF Tagged
      <4>2. i < latest[c]
        BY <1>1, <1>3, <1>6, <2>2, <4>1 DEF MaybeTx, Tx, INVALID_ID
      <4>3. Conflict(i, latest[c])
        BY <2>2, <4>1 DEF Conflict
      <4>4. get(c) = latest[c]
        BY <3>3 DEF get
      <4>5. criticalEdge(k) \in NewEdges(j)
        BY <2>1, <3>3, <4>4
      <4> QED
        BY <4>2, <4>3, <4>4, <4>5 DEF Covers, j
    <3>4. CASE latest[c] = INVALID_ID
      <4>1. get(c) = latestAll
        BY <3>4 DEF get
      <4>2. latestAll # INVALID_ID /\ (latestAll = i \/ (i < latestAll /\ Conflict(i, latestAll)))
        BY <1>6, <1>8, <2>2, <3>2
      <4>3. criticalEdge(k) \in NewEdges(j)
        BY <2>1, <4>1, <4>2
      <4> QED
        BY <4>1, <4>2, <4>3 DEF Covers, j
    <3> QED
      BY <3>3, <3>4
  <2>3. CASE ~ tx[i].normal
    <3>1. PICK c \in Fields(i) : c \in Fields(j)
      BY <1>11, <2>3 DEF Conflict, j
    <3>2. PICK k \in DOMAIN tx[j].criticals : tx[j].criticals[k] = c
      BY <1>2, <3>1
    <3>3. Tagged(i)
      BY <1>2, <3>1 DEF Tagged
    <3>4. /\ get(c) # INVALID_ID
          /\ get(c) = i \/ (i < get(c) /\ Conflict(i, get(c)))
      <4>1. CASE latest[c] # INVALID_ID
        BY <1>9, <2>3, <4>1 DEF get
      <4>2. CASE latest[c] = INVALID_ID
        BY <1>7, <1>8, <2>3, <3>3, <4>2 DEF get
      <4> QED
        BY <4>1, <4>2
    <3>5. criticalEdge(k) \in NewEdges(j)
      BY <2>1, <3>2, <3>4
    <3> QED
      BY <3>2, <3>4, <3>5 DEF Covers, j
  <2> QED
    BY <2>2, <2>3
<1> QED
  BY <1>10, <1>11

LEMMA InitInv == Init => DAGInv
<1> SUFFICES ASSUME Init PROVE DAGInv
  OBVIOUS
<1> USE TxNumAssumption, FieldNumAssumption DEF Init
<1>1. TypeOK
  <2>1. tx \in [Tx -> TxInfo]
    <3>1. <<>> \in Seq(Field)
      BY EmptySeq
    <3> QED
      BY <3>1, CriticalsAssumption DEF TxInfo
  <2>2. <<>> \in Seq(Tx)
    BY EmptySeq
  <2> QED
    BY <2>1, <2>2 DEF TypeOK, Status, MaybeTx, ThreadState
<1>2. PhaseInv
  BY DEF PhaseInv
<1>3. EdgesInv
  BY FS_EmptySet DEF EdgesInv
<1>4. LatestInv
  BY DEF LatestInv, INVALID_ID, Tx
<1>5. CoverInv
  BY DEF CoverInv, Tx
<1>6. \A i \in Tx : Pending(i) = {}
  BY DEF Pending
<1>7. DegreeInv
  BY <1>6, FS_EmptySet DEF DegreeInv
<1>8. DOMAIN topLevel = {}
  OBVIOUS
<1>9. QueueInv
  BY <1>8 DEF QueueInv, Queued
<1>10. ThreadInv /\ OwnerInv
  BY DEF ThreadInv, OwnerInv, Owns, Holds, Works
<1>11. ConflictsInOrder
  BY DEF ConflictsInOrder
<1> QED
  BY <1>1, <1>2, <1>3, <1>4, <1>5, <1>7, <1>9, <1>10, <1>11 DEF DAGInv, BuildInv, RunInv

\* The graph grows by one transaction and the edges to it.
LEMMA AddTxBuilds ==
    ASSUME DAGInv, AddTx
    PROVE  TypeOK' /\ BuildInv'
<1> USE TxNumAssumption, FieldNumAssumption DEF AddTx
<1> TypeOK /\ PhaseInv /\ EdgesInv /\ LatestInv /\ CoverInv
  BY DEF DAGInv, BuildInv
<1>1. /\ added \in Tx /\ added \in Nat /\ added + 1 \in 0 .. TxNum
      /\ \A e \in NewEdges(added) : e \in Edge /\ e.to = added /\ e.from < added
      /\ IsFiniteSet(NewEdges(added))
  BY NewEdgesProperties DEF TypeOK
<1>2. degree(added) \in Nat
  BY <1>1, FS_CardinalityType DEF degree
<1>3. TypeOK'
  BY <1>1, <1>2 DEF TypeOK, MaybeTx
<1>4. PhaseInv'
  BY <1>1 DEF PhaseInv, Running, TypeOK
<1>5. EdgesInv'
  <2>1. \A e \in edges' : e.from < e.to /\ e.to < added'
    <3>1. \A e \in edges : e.from < e.to /\ e.to < added /\ e.to \in Int
      BY DEF EdgesInv, TypeOK, Edge, Tx
    <3> QED
      BY <1>1, <3>1
  <2>2. IsFiniteSet(edges')
    BY <1>1, FS_Union DEF EdgesInv
  <2> QED
    BY <2>1, <2>2 DEF EdgesInv
<1>6. LatestInv'
  <2>1. \A i \in Tx : Fields(i)' = Fields(i) /\ Fields(i) \subseteq Field
    BY FieldsProperties DEF Fields
  <2>2. /\ \A c \in Field : latest[c] \in MaybeTx
        /\ latestAll \in MaybeTx
    BY DEF TypeOK
  <2>3. CASE tx[added].normal
    <3>1. latestAll' = added /\ \A c \in Field : latest'[c] = INVALID_ID
      BY <2>3
    <3>2. \A c \in Field : get(c)' = added
      BY <3>1 DEF get
    <3>3. \A i \in Tx : i < added' => i <= added
      BY <1>1 DEF Tx
    <3> QED
      BY <1>1, <2>1, <2>3, <3>1, <3>2, <3>3 DEF LatestInv
  <2>4. CASE ~ tx[added].normal
    <3>1. /\ latestAll' = latestAll
          /\ \A c \in Field : latest'[c] = IF c \in Fields(added) THEN added ELSE latest[c]
      BY <2>4
    <3>2. added # INVALID_ID /\ latestAll < added
      BY <1>1, <2>2 DEF INVALID_ID, LatestInv, MaybeTx
    <3>3. \A c \in Field : get(c)' = IF c \in Fields(added) THEN added ELSE get(c)
      BY <3>1, <3>2 DEF get
    <3>4. \A c \in Field : latest'[c] # INVALID_ID =>
                /\ latest'[c] < added' /\ latestAll' < latest'[c]
                /\ ~ tx'[latest'[c]].normal /\ c \in Fields(latest[c])'
      <4> TAKE c \in Field
      <4> HAVE latest'[c] # INVALID_ID
      <4>1. CASE c \in Fields(added)
        <5>1. latest'[c] = added
          BY <3>1, <4>1
        <5>2. c \in Fields(latest[c])'
          BY <4>1, <5>1 DEF Fields
        <5> QED
          BY <1>1, <2>4, <3>1, <3>2, <5>1, <5>2
      <4>2. CASE c \notin Fields(added)
        <5>1. latest'[c] = latest[c] /\ latest[c] \in Tx
          BY <2>2, <3>1, <4>2 DEF MaybeTx
        <5>2. /\ latest[c] < added /\ latestAll < latest[c]
              /\ ~ tx[latest[c]].normal /\ c \in Fields(latest[c])
          BY <5>1 DEF LatestInv
        <5>3. latest[c] < added + 1
          BY <1>1, <5>1, <5>2 DEF Tx
        <5>4. c \in Fields(latest[c])'
          BY <5>1, <5>2 DEF Fields
        <5> QED
          BY <3>1, <5>1, <5>2, <5>3, <5>4
      <4> QED
        BY <4>1, <4>2
    <3>5. latestAll' # INVALID_ID => latestAll' < added' /\ tx'[latestAll'].normal
      BY <1>1, <2>2, <3>1 DEF LatestInv, MaybeTx, Tx
    <3>6. ASSUME NEW i \in Tx, i < added'
          PROVE  /\ tx'[i].normal => i <= latestAll'
                 /\ ~ tx'[i].normal => \A c \in Fields(i)' : i <= get(c)'
      <4>1. i = added \/ (i < added /\ i <= added)
        BY <1>1, <3>6 DEF Tx
      <4>2. CASE i = added
        BY <1>1, <2>1, <2>4, <3>3, <4>2
      <4>3. CASE i < added /\ i <= added
        <5>1. /\ tx[i].normal => i <= latestAll
              /\ ~ tx[i].normal => \A c \in Fields(i) : i <= get(c)
          BY <4>3 DEF LatestInv
        <5> QED
          BY <2>1, <3>1, <3>3, <4>3, <5>1
      <4> QED
        BY <4>1, <4>2, <4>3
    <3> QED
      BY <3>4, <3>5, <3>6 DEF LatestInv
  <2> QED
    BY <2>3, <2>4
<1>7. CoverInv'
  <2>1. \A i, j : Conflict(i, j)' <=> Conflict(i, j)
    BY DEF Conflict, Tagged, Fields
  <2>2. \A e, i, j : Covers(e, i, j)' <=> Covers(e, i, j)
    <3>1. tx' = tx
      OBVIOUS
    <3> QED
      BY <3>1, Zenon DEF Covers, Conflict, Tagged, Fields
  <2> SUFFICES ASSUME NEW i \in Tx, NEW j \in Tx, i < j, j < added', Conflict(i, j)
               PROVE  \E e \in edges' : Covers(e, i, j)
    BY <2>1, <2>2 DEF CoverInv
  <2>3. j < added \/ j = added
    BY <1>1 DEF Tx
  <2>4. CASE j < added
    BY <2>4 DEF CoverInv
  <2>5. CASE j = added
    <3>1. \E e \in NewEdges(added) : Covers(e, i, added)
      BY <2>5, NewEdgesCover
    <3> QED
      BY <2>5, <3>1
  <2> QED
    BY <2>3, <2>4, <2>5
<1> QED
  BY <1>3, <1>4, <1>5, <1>6, <1>7 DEF BuildInv

\* While the graph is built nothing is queued and no thread holds anything.
LEMMA NothingRuns ==
    ASSUME DAGInv, ~ Running
    PROVE  /\ \A i \in Tx : status[i] = "waiting"
           /\ \A t \in Thread : thread[t].pc = "check" /\ thread[t].todo = {}
           /\ \A i \in Tx : Pending(i) = {e \in edges : e.to = i}
           /\ scanned = 0 => DOMAIN topLevel = {}
<1>1. /\ \A i \in Tx : status[i] = "waiting"
      /\ \A t \in Thread : thread[t].pc = "check" /\ thread[t].todo = {}
  BY DEF DAGInv, BuildInv, PhaseInv, RunInv, ThreadInv
<1>2. \A e \in edges : e.from \in Tx
  BY DEF DAGInv, TypeOK, Edge
<1>3. \A i \in Tx : Pending(i) = {e \in edges : e.to = i}
  BY <1>1, <1>2 DEF Pending
<1>4. \A p \in DOMAIN topLevel : topLevel[p] \in Tx
  BY LenProperties, ElementOfSeq DEF DAGInv, TypeOK
<1>5. scanned = 0 => DOMAIN topLevel = {}
  <2> SUFFICES ASSUME scanned = 0, NEW p \in DOMAIN topLevel PROVE FALSE
    OBVIOUS
  <2>1. topLevel[p] < scanned
    BY <1>4 DEF DAGInv, RunInv, QueueInv, Queued
  <2> QED
    BY <1>4, <2>1 DEF Tx
<1> QED
  BY <1>1, <1>3, <1>5

LEMMA AddTxStep ==
    ASSUME DAGInv, AddTx
    PROVE  DAGInv'
<1> TypeOK /\ EdgesInv /\ LatestInv /\ PhaseInv /\ DegreeInv /\ ThreadInv /\ ConflictsInOrder
  BY DEF DAGInv, BuildInv, RunInv
<1>1. TypeOK' /\ BuildInv'
  BY AddTxBuilds
<1>2. ~ Running /\ scanned = 0 /\ added \in Tx
  BY NewEdgesProperties, TxNumAssumption DEF AddTx, Running, PhaseInv, TypeOK
<1>3. /\ \A i \in Tx : status[i] = "waiting"
      /\ \A t \in Thread : thread[t].pc = "check" /\ thread[t].todo = {}
      /\ \A i \in Tx : Pending(i) = {e \in edges : e.to = i}
      /\ DOMAIN topLevel = {}
  BY <1>2, NothingRuns
<1>4. \A e \in edges' : e.from \in Tx
  BY <1>1 DEF TypeOK, Edge
<1>5. \A i \in Tx : Pending(i)' = {e \in edges' : e.to = i}
  BY <1>3, <1>4 DEF Pending, AddTx
<1>6. /\ edges' = edges \cup NewEdges(added)
      /\ \A e \in NewEdges(added) : e.to = added
      /\ \A e \in edges : e.to # added
  BY NewEdgesProperties DEF AddTx, EdgesInv, TypeOK, Edge, Tx
<1>7. ASSUME NEW i \in Tx
      PROVE  Pending(i)' = IF i = added THEN NewEdges(added) ELSE Pending(i)
  <2>1. {e \in edges' : e.to = i} = IF i = added THEN NewEdges(added) ELSE {e \in edges : e.to = i}
    BY <1>6
  <2> QED
    BY <1>3, <1>5, <2>1
<1>8. \A i \in Tx : inDegree'[i] = IF i = added THEN Cardinality(NewEdges(added)) ELSE inDegree[i]
  BY <1>2 DEF AddTx, degree, TypeOK
<1>9. DegreeInv'
  <2>1. \A i \in Tx : inDegree'[i] = Cardinality(Pending(i)')
    BY <1>7, <1>8 DEF DegreeInv
  <2> QED
    BY <1>3, <2>1 DEF DegreeInv, AddTx
<1>10. QueueInv' /\ ThreadInv' /\ OwnerInv'
  BY <1>3 DEF QueueInv, Queued, ThreadInv, OwnerInv, Owns, Holds, Works, AddTx
<1>11. ConflictsInOrder'
  BY <1>3 DEF ConflictsInOrder, AddTx
<1> QED
  BY <1>1, <1>9, <1>10, <1>11 DEF DAGInv, RunInv

\* Steps that leave the graph alone keep what is known of it.
LEMMA GraphStays ==
    ASSUME DAGInv, UNCHANGED <<tx, added, latest, latestAll, edges>>
    PROVE  EdgesInv' /\ LatestInv' /\ CoverInv'
<1>1. EdgesInv'
  BY DEF DAGInv, BuildInv, EdgesInv
<1>2. LatestInv'
  BY Zenon DEF DAGInv, BuildInv, LatestInv, Fields, get
<1>3. CoverInv'
  <2>1. tx' = tx
    OBVIOUS
  <2>2. \A i, j : Conflict(i, j)' <=> Conflict(i, j)
    BY <2>1 DEF Conflict, Tagged, Fields
  <2>3. \A e, i, j : Covers(e, i, j)' <=> Covers(e, i, j)
    BY <2>2, Zenon DEF Covers
  <2> QED
    BY <2>2, <2>3 DEF DAGInv, BuildInv, CoverInv
<1> QED
  BY <1>1, <1>2, <1>3

LEMMA ScanVertexStep ==
    ASSUME DAGInv, ScanVertex
    PROVE  DAGInv'
<1> USE TxNumAssumption
<1> TypeOK /\ EdgesInv /\ PhaseInv /\ DegreeInv /\ ThreadInv /\ QueueInv /\ ConflictsInOrder
  BY DEF DAGInv, BuildInv, RunInv
<1>1. ~ Running /\ scanned \in Tx /\ scanned \in Nat /\ scanned + 1 \in 0 .. TxNum
  BY DEF ScanVertex, Running, TypeOK, Tx
<1>2. /\ \A i \in Tx : status[i] = "waiting"
      /\ \A t \in Thread : thread[t].pc = "check" /\ thread[t].todo = {}
  BY <1>1, NothingRuns
<1>3. topLevel \in Seq(Tx) /\ Len(topLevel) + 1 \notin DOMAIN topLevel
  BY <1>1, AppendElements DEF TypeOK
<1>4. /\ Append(topLevel, scanned) \in Seq(Tx)
      /\ \A p \in DOMAIN Append(topLevel, scanned) :
            \/ p \in DOMAIN topLevel /\ Append(topLevel, scanned)[p] = topLevel[p]
            \/ p = Len(topLevel) + 1 /\ Append(topLevel, scanned)[p] = scanned
  BY <1>1, <1>3, AppendElements
<1>5. TypeOK'
  BY <1>1, <1>3, <1>4 DEF TypeOK, ScanVertex
<1>6. PhaseInv'
  BY <1>1, <1>2 DEF PhaseInv, Running, ScanVertex
<1>7. EdgesInv' /\ LatestInv' /\ CoverInv'
  BY GraphStays DEF ScanVertex
<1>8. \A i \in Tx : Pending(i)' = Pending(i) /\ (Ready(i)' <=> Ready(i))
  BY DEF Pending, Ready, ScanVertex
<1>9. DegreeInv'
  BY <1>8 DEF DegreeInv, ScanVertex
<1>10. \A i \in Tx : Queued(i) => i < scanned /\ i < scanned + 1 /\ Ready(i)
  BY <1>1 DEF QueueInv, Tx
<1>11. QueueInv'
  <2>1. CASE inDegree[scanned] = 0
    <3>1. IsFiniteSet(Pending(scanned))
      BY FS_Subset DEF EdgesInv, Pending
    <3>2. Ready(scanned)
      BY <1>1, <1>2, <2>1, <3>1, FS_EmptySet DEF DegreeInv, Ready
    <3>3. topLevel' = Append(topLevel, scanned) /\ scanned' = scanned + 1
      BY <2>1 DEF ScanVertex
    <3>4. \A p \in DOMAIN topLevel' :
            \/ p \in DOMAIN topLevel /\ topLevel'[p] = topLevel[p]
            \/ p = Len(topLevel) + 1 /\ topLevel'[p] = scanned
      BY <1>4, <3>3
    <3>5. \A i \in Tx : Queued(i)' => Queued(i) \/ i = scanned
      BY <3>4 DEF Queued
    <3>6. \A i \in Tx : Queued(i)' => i < scanned' /\ Ready(i)'
      BY <1>1, <1>8, <1>10, <3>2, <3>3, <3>5
    <3>7. \A p \in DOMAIN topLevel : topLevel[p] # scanned
      BY <1>1, <1>10 DEF Queued
    <3>8. \A p, q \in DOMAIN topLevel' : topLevel'[p] = topLevel'[q] => p = q
      BY <3>4, <3>7 DEF QueueInv
    <3> QED
      BY <3>6, <3>8 DEF QueueInv
  <2>2. CASE inDegree[scanned] # 0
    <3>1. topLevel' = topLevel /\ scanned' = scanned + 1
      BY <2>2 DEF ScanVertex
    <3>2. \A i \in Tx : Queued(i)' <=> Queued(i)
      BY <3>1 DEF Queued
    <3> QED
      BY <1>8, <1>10, <3>1, <3>2 DEF QueueInv
  <2> QED
    BY <2>1, <2>2
<1>12. ThreadInv' /\ OwnerInv'
  BY <1>2 DEF ThreadInv, OwnerInv, Owns, Holds, Works, ScanVertex
<1>13. ConflictsInOrder'
  BY <1>2 DEF ConflictsInOrder, ScanVertex
<1> QED
  BY <1>5, <1>6, <1>7, <1>9, <1>11, <1>12, <1>13 DEF DAGInv, BuildInv, RunInv

-----------------------------------------------------------------------------
(* The threads.                                                            *)

LEMMA BuildStays ==
    ASSUME DAGInv, Running, UNCHANGED <<tx, graphVars>>
    PROVE  BuildInv'
<1>1. EdgesInv' /\ LatestInv' /\ CoverInv'
  BY GraphStays DEF graphVars
<1>2. PhaseInv'
  BY DEF PhaseInv, Running, graphVars
<1> QED
  BY <1>1, <1>2 DEF BuildInv

\* A step of one thread changes its record only.
LEMMA ThreadUpdate ==
    ASSUME TypeOK, NEW t \in Thread, NEW r \in ThreadState, thread' = [thread EXCEPT ![t] = r]
    PROVE  /\ thread' \in [Thread -> ThreadState]
           /\ thread'[t] = r
           /\ \A u \in Thread : u # t => thread'[u] = thread[u]
BY DEF TypeOK

LEMMA OrderStays ==
    ASSUME ConflictsInOrder, UNCHANGED <<tx, status>>
    PROVE  ConflictsInOrder'
<1>1. \A i, j : Conflict(i, j)' <=> Conflict(i, j)
  BY DEF Conflict, Tagged, Fields
<1> QED
  BY <1>1 DEF ConflictsInOrder

\* A thread that holds nothing looks at the counter or waits for the queue.
LEMMA IdleStep ==
    ASSUME DAGInv, Running, NEW t \in Thread, thread[t].pc \in {"check", "pop"},
           NEW l \in {"check", "pop", "left"}, thread' = [thread EXCEPT ![t].pc = l],
           UNCHANGED <<tx, status, graphVars, inDegree, topLevel, exeCnt, throws>>
    PROVE  DAGInv'
<1> USE DEF graphVars
<1> TypeOK /\ DegreeInv /\ QueueInv /\ ThreadInv /\ OwnerInv /\ ConflictsInOrder
  BY DEF DAGInv, RunInv
<1>1. TypeOK'
  BY DEF TypeOK, ThreadState
<1>2. BuildInv'
  BY BuildStays
<1>3. /\ thread'[t] = [thread[t] EXCEPT !.pc = l]
      /\ \A u \in Thread : u # t => thread'[u] = thread[u]
      /\ \A u \in Thread : thread'[u].todo = thread[u].todo
  BY DEF TypeOK, ThreadState
<1>4. \A i \in Tx : Pending(i)' = Pending(i)
  BY <1>3 DEF Pending
<1>5. \A i \in Tx : (Ready(i)' <=> Ready(i)) /\ (Queued(i)' <=> Queued(i))
  BY <1>4 DEF Ready, Queued
<1>6. DegreeInv' /\ QueueInv'
  BY <1>4, <1>5 DEF DegreeInv, QueueInv
<1>7. \A u \in Thread : \A i \in Tx : (Holds(u, i)' => Holds(u, i)) /\ (Works(u, i)' => Works(u, i) /\ u # t)
  BY <1>3 DEF Holds, Works
<1>8. ThreadInv'
  BY <1>3, <1>5, <1>7 DEF ThreadInv, TypeOK, ThreadState
<1>9. OwnerInv'
  BY <1>7 DEF OwnerInv, Owns
<1>10. ConflictsInOrder'
  BY OrderStays
<1> QED
  BY <1>1, <1>2, <1>6, <1>8, <1>9, <1>10 DEF DAGInv, RunInv

\* The head of the queue is free and nobody holds it.
LEMMA WaitPopStep ==
    ASSUME DAGInv, NEW t \in Thread, WaitPop(t)
    PROVE  DAGInv'
<1> TypeOK /\ DegreeInv /\ QueueInv /\ ThreadInv /\ OwnerInv /\ ConflictsInOrder
  BY DEF DAGInv, RunInv
<1> DEFINE h == Head(topLevel)
           r == [thread[t] EXCEPT !.pc = "start", !.id = h]
<1>1. /\ topLevel' = Tail(topLevel) /\ topLevel' \in Seq(Tx)
      /\ 1 \in DOMAIN topLevel /\ topLevel[1] = h /\ h \in Tx
      /\ \A p \in DOMAIN topLevel' :
            p + 1 \in DOMAIN topLevel /\ p \in Nat \ {0} /\ topLevel'[p] = topLevel[p + 1]
  BY TailElements DEF TypeOK, WaitPop
<1>2. /\ Running /\ thread[t].pc = "pop"
      /\ thread' = [thread EXCEPT ![t].pc = "start", ![t].id = h]
      /\ UNCHANGED <<tx, status, added, scanned, latest, latestAll, edges, inDegree, exeCnt, throws>>
  BY DEF WaitPop, At, graphVars
<1> HIDE DEF h
<1>3. /\ r \in ThreadState /\ thread' = [thread EXCEPT ![t] = r]
      /\ r.pc = "start" /\ r.id = h /\ r.todo = thread[t].todo
  <2>1. thread[t] \in ThreadState
    BY DEF TypeOK
  <2>2. r \in ThreadState /\ r.pc = "start" /\ r.id = h /\ r.todo = thread[t].todo
    BY <1>1, <2>1 DEF ThreadState, MaybeTx
  <2>3. thread' = [thread EXCEPT ![t] = r]
    BY <1>2 DEF TypeOK
  <2> QED
    BY <2>2, <2>3
<1> HIDE DEF r
<1>4. /\ thread' \in [Thread -> ThreadState]
      /\ thread'[t] = r
      /\ \A u \in Thread : u # t => thread'[u] = thread[u]
      /\ \A u \in Thread : thread'[u].todo = thread[u].todo
  BY <1>3, ThreadUpdate
<1>5. TypeOK' /\ BuildInv'
  BY <1>1, <1>2, <1>4, BuildStays DEF TypeOK, graphVars
<1>6. \A i \in Tx : Pending(i)' = Pending(i) /\ (Ready(i)' <=> Ready(i))
  BY <1>2, <1>4 DEF Pending, Ready
<1>7. DegreeInv'
  BY <1>2, <1>6 DEF DegreeInv
<1>8. Queued(h) /\ Ready(h)
  BY <1>1 DEF Queued, QueueInv
<1>9. \A i \in Tx : Queued(i)' => Queued(i) /\ i # h
  <2> SUFFICES ASSUME NEW i \in Tx, NEW p \in DOMAIN topLevel', topLevel'[p] = i
               PROVE  Queued(i) /\ i # h
    BY DEF Queued
  <2>1. p + 1 \in DOMAIN topLevel /\ topLevel[p + 1] = i /\ p + 1 # 1
    BY <1>1
  <2> QED
    BY <1>1, <2>1 DEF Queued, QueueInv
<1>10. QueueInv'
  <2>1. \A i \in Tx : Queued(i)' => i < scanned' /\ Ready(i)'
    BY <1>2, <1>6, <1>9 DEF QueueInv
  <2>2. ASSUME NEW p \in DOMAIN topLevel', NEW q \in DOMAIN topLevel', topLevel'[p] = topLevel'[q]
        PROVE  p = q
    <3>1. p + 1 = q + 1
      BY <1>1, <2>2 DEF QueueInv
    <3> QED
      BY <1>1, <3>1
  <2> QED
    BY <2>1, <2>2 DEF QueueInv
<1>11. \A u \in Thread : ~ Owns(u, h)
  BY <1>1, <1>8 DEF Owns, ThreadInv, Ready
<1>12. /\ \A i \in Tx : (Holds(t, i)' <=> i = h) /\ ~ Works(t, i)'
       /\ \A u \in Thread : u # t =>
            \A i \in Tx : (Holds(u, i)' <=> Holds(u, i)) /\ (Works(u, i)' <=> Works(u, i))
  BY <1>3, <1>4 DEF Holds, Works
<1>13. ThreadInv'
  <2> SUFFICES ASSUME NEW u \in Thread
               PROVE  /\ thread'[u].pc \in {"start", "run", "consume"} => thread'[u].id \in Tx
                      /\ \A i \in Tx : Holds(u, i)' => Ready(i)' /\ ~ Queued(i)'
                      /\ \A i \in Tx : Works(u, i)' =>
                            status'[i] = IF thread'[u].pc = "run" THEN "running" ELSE "done"
                      /\ \A e \in thread'[u].todo :
                            thread'[u].pc = "consume" /\ e \in edges' /\ e.from = thread'[u].id
    BY DEF ThreadInv
  <2>1. CASE u = t
    <3>1. thread[t].todo = {}
      BY <1>2 DEF ThreadInv
    <3> QED
      BY <1>1, <1>3, <1>4, <1>6, <1>8, <1>9, <1>12, <2>1, <3>1
  <2>2. CASE u # t
    BY <1>2, <1>4, <1>6, <1>9, <1>12, <2>2 DEF ThreadInv
  <2> QED
    BY <2>1, <2>2
<1>14. OwnerInv'
  BY <1>11, <1>12 DEF OwnerInv, Owns
<1>15. ConflictsInOrder'
  BY <1>2, OrderStays
<1> QED
  BY <1>5, <1>7, <1>10, <1>13, <1>14, <1>15 DEF DAGInv, RunInv

\* What a free transaction conflicts with and comes before it is done.
LEMMA ReadyIsClear ==
    ASSUME DAGInv, Running, NEW d \in Tx, Ready(d)
    PROVE  \A j \in Tx : j < d /\ Conflict(j, d) => status[j] = "done"
<1> SUFFICES ASSUME NEW j \in Tx, j < d, Conflict(j, d) PROVE status[j] = "done"
  OBVIOUS
<1>1. d < added
  BY TxNumAssumption DEF Running, Tx
<1>2. PICK e \in edges : Covers(e, j, d)
  BY <1>1 DEF DAGInv, BuildInv, CoverInv
<1>3. status[e.from] = "done" /\ e.from \in Tx
  BY <1>2 DEF Ready, Pending, Covers, DAGInv, TypeOK, Edge
<1> QED
  BY <1>2, <1>3 DEF Covers, DAGInv, ConflictsInOrder

\* The transaction that starts is held by its thread alone.
LEMMA StartTxStep ==
    ASSUME DAGInv, NEW t \in Thread, StartTx(t)
    PROVE  DAGInv'
<1> TypeOK /\ DegreeInv /\ QueueInv /\ ThreadInv /\ OwnerInv /\ ConflictsInOrder
  BY DEF DAGInv, RunInv
<1> DEFINE d == thread[t].id
           r == [thread[t] EXCEPT !.pc = "run"]
<1>1. /\ Running /\ thread[t].pc = "start"
      /\ status' = [status EXCEPT ![d] = "running"]
      /\ thread' = [thread EXCEPT ![t].pc = "run"]
      /\ exeCnt' = exeCnt + 1
      /\ UNCHANGED <<tx, added, scanned, latest, latestAll, edges, inDegree, topLevel, throws>>
  BY DEF StartTx, At, Goto, graphVars
<1>2. d \in Tx /\ Holds(t, d) /\ Ready(d) /\ ~ Queued(d)
  BY <1>1 DEF ThreadInv, Holds
<1>3. /\ r \in ThreadState /\ thread' = [thread EXCEPT ![t] = r]
      /\ r.pc = "run" /\ r.id = d /\ r.todo = thread[t].todo
  <2>1. thread[t] \in ThreadState
    BY DEF TypeOK
  <2>2. r \in ThreadState /\ r.pc = "run" /\ r.id = d /\ r.todo = thread[t].todo
    BY <2>1 DEF ThreadState
  <2>3. thread' = [thread EXCEPT ![t] = r]
    BY <1>1 DEF TypeOK
  <2> QED
    BY <2>2, <2>3
<1> HIDE DEF r, d
<1>4. /\ thread' \in [Thread -> ThreadState]
      /\ thread'[t] = r
      /\ \A u \in Thread : u # t => thread'[u] = thread[u]
      /\ \A u \in Thread : thread'[u].todo = thread[u].todo
  BY <1>3, ThreadUpdate
<1>5. \A i \in Tx : status'[i] = IF i = d THEN "running" ELSE status[i]
  BY <1>1 DEF TypeOK
<1>6. TypeOK' /\ BuildInv'
  <2>1. exeCnt' \in Nat
    BY <1>1 DEF TypeOK
  <2>2. status' \in [Tx -> Status]
    BY <1>1 DEF TypeOK, Status
  <2> QED
    BY <1>1, <1>4, <2>1, <2>2, BuildStays DEF TypeOK, graphVars
<1>7. \A i \in Tx : /\ Pending(i)' = Pending(i)
                    /\ Ready(i)' <=> Ready(i) /\ i # d
                    /\ Queued(i)' <=> Queued(i)
  <2>1. \A e \in edges : status'[e.from] # "done" <=> status[e.from] # "done"
    BY <1>2, <1>5 DEF TypeOK, Edge, Ready
  <2>2. \A i \in Tx : Pending(i)' = Pending(i)
    BY <1>1, <1>4, <2>1 DEF Pending
  <2> QED
    BY <1>1, <1>5, <2>2 DEF Ready, Queued
<1>8. DegreeInv'
  BY <1>1, <1>2, <1>5, <1>7 DEF DegreeInv, Ready
<1>9. QueueInv'
  BY <1>1, <1>2, <1>7 DEF QueueInv
<1>10. /\ \A i \in Tx : ~ Holds(t, i)' /\ (Works(t, i)' <=> i = d)
       /\ \A u \in Thread : u # t =>
            \A i \in Tx : (Holds(u, i)' <=> Holds(u, i)) /\ (Works(u, i)' <=> Works(u, i))
  BY <1>3, <1>4 DEF Holds, Works
<1>11. \A u \in Thread : u # t => ~ Holds(u, d) /\ ~ Works(u, d)
  BY <1>2 DEF OwnerInv, Owns
<1>12. ThreadInv'
  <2> SUFFICES ASSUME NEW u \in Thread
               PROVE  /\ thread'[u].pc \in {"start", "run", "consume"} => thread'[u].id \in Tx
                      /\ \A i \in Tx : Holds(u, i)' => Ready(i)' /\ ~ Queued(i)'
                      /\ \A i \in Tx : Works(u, i)' =>
                            status'[i] = IF thread'[u].pc = "run" THEN "running" ELSE "done"
                      /\ \A e \in thread'[u].todo :
                            thread'[u].pc = "consume" /\ e \in edges' /\ e.from = thread'[u].id
    BY DEF ThreadInv
  <2>1. CASE u = t
    <3>1. thread[t].todo = {}
      BY <1>1 DEF ThreadInv
    <3> QED
      BY <1>2, <1>3, <1>4, <1>5, <1>10, <2>1, <3>1
  <2>2. CASE u # t
    BY <1>1, <1>4, <1>5, <1>7, <1>10, <1>11, <2>2 DEF ThreadInv
  <2> QED
    BY <2>1, <2>2
<1>13. OwnerInv'
  BY <1>10, <1>11 DEF OwnerInv, Owns
<1>14. ConflictsInOrder'
  <2>1. \A i, j : Conflict(i, j)' <=> Conflict(i, j)
    BY <1>1 DEF Conflict, Tagged, Fields
  <2>2. \A i \in Tx : i < d /\ Conflict(i, d) => status[i] = "done"
    BY <1>1, <1>2, ReadyIsClear
  <2> SUFFICES ASSUME NEW i \in Tx, NEW j \in Tx, i < j, Conflict(i, j), status'[j] # "waiting"
               PROVE  status'[i] = "done"
    BY <2>1 DEF ConflictsInOrder
  <2>3. status[i] = "done"
    BY <1>5, <2>2 DEF ConflictsInOrder
  <2> QED
    BY <1>2, <1>5, <2>3 DEF Ready
<1> QED
  BY <1>6, <1>8, <1>9, <1>12, <1>13, <1>14 DEF DAGInv, RunInv

\* The edges of a transaction that is done stay unreleased until its thread has been there.
LEMMA FinishTxStep ==
    ASSUME DAGInv, NEW t \in Thread, FinishTx(t)
    PROVE  DAGInv'
<1> TypeOK /\ DegreeInv /\ QueueInv /\ ThreadInv /\ OwnerInv /\ ConflictsInOrder
  BY DEF DAGInv, RunInv
<1> DEFINE d == thread[t].id
           out == {e \in edges : e.from = d}
           r == [thread[t] EXCEPT !.pc = "consume", !.nextId = INVALID_ID, !.todo = out]
<1>1. /\ Running /\ thread[t].pc = "run"
      /\ status' = [status EXCEPT ![d] = "done"]
      /\ thread' = [thread EXCEPT ![t].pc = "consume", ![t].nextId = INVALID_ID, ![t].todo = out]
      /\ UNCHANGED <<tx, added, scanned, latest, latestAll, edges, inDegree, topLevel, exeCnt, throws>>
  BY DEF FinishTx, At, graphVars
<1>2. d \in Tx /\ Works(t, d) /\ status[d] = "running" /\ thread[t].todo = {}
  BY <1>1 DEF ThreadInv, Works
<1>3. /\ r \in ThreadState /\ thread' = [thread EXCEPT ![t] = r]
      /\ r.pc = "consume" /\ r.id = d /\ r.todo = out /\ r.nextId = INVALID_ID
  <2>1. thread[t] \in ThreadState /\ out \in SUBSET Edge
    BY DEF TypeOK
  <2> HIDE DEF out
  <2>2. r \in ThreadState /\ r.pc = "consume" /\ r.id = d /\ r.todo = out /\ r.nextId = INVALID_ID
    BY <2>1 DEF ThreadState, MaybeTx
  <2>3. thread' = [thread EXCEPT ![t] = r]
    BY <1>1 DEF TypeOK
  <2> QED
    BY <2>2, <2>3
<1> HIDE DEF r, d
<1>4. /\ thread' \in [Thread -> ThreadState]
      /\ thread'[t] = r
      /\ \A u \in Thread : u # t => thread'[u] = thread[u]
  BY <1>3, ThreadUpdate
<1>5. \A i \in Tx : status'[i] = IF i = d THEN "done" ELSE status[i]
  BY <1>1 DEF TypeOK
<1>6. TypeOK' /\ BuildInv'
  <2>1. status' \in [Tx -> Status]
    BY <1>1 DEF TypeOK, Status
  <2> QED
    BY <1>1, <1>4, <2>1, BuildStays DEF TypeOK, graphVars
<1>7. \A i \in Tx : /\ Pending(i)' = Pending(i)
                    /\ Ready(i)' <=> Ready(i)
                    /\ Queued(i)' <=> Queued(i)
  <2>1. ASSUME NEW e \in edges
        PROVE  \/ status'[e.from] # "done"
               \/ \E u \in Thread : e \in thread'[u].todo
               <=>
               \/ status[e.from] # "done"
               \/ \E u \in Thread : e \in thread[u].todo
    <3>1. e.from \in Tx
      BY DEF TypeOK, Edge
    <3>2. CASE e.from = d
      BY <1>2, <1>3, <1>4, <3>2
    <3>3. CASE e.from # d
      BY <1>2, <1>3, <1>4, <1>5, <3>1, <3>3
    <3> QED
      BY <3>2, <3>3
  <2>2. \A i \in Tx : Pending(i)' = Pending(i)
    BY <1>1, <2>1 DEF Pending
  <2> QED
    BY <1>1, <1>2, <1>5, <2>2 DEF Ready, Queued
<1>8. DegreeInv'
  BY <1>1, <1>2, <1>5, <1>7 DEF DegreeInv
<1>9. QueueInv'
  BY <1>1, <1>7 DEF QueueInv
<1>10. /\ \A i \in Tx : ~ Holds(t, i)' /\ (Works(t, i)' <=> i = d)
       /\ \A u \in Thread : u # t =>
            \A i \in Tx : (Holds(u, i)' <=> Holds(u, i)) /\ (Works(u, i)' <=> Works(u, i))
  BY <1>3, <1>4 DEF Holds, Works, INVALID_ID, Tx
<1>11. \A u \in Thread : u # t => ~ Holds(u, d) /\ ~ Works(u, d)
  BY <1>2 DEF OwnerInv, Owns
<1>12. ThreadInv'
  <2> SUFFICES ASSUME NEW u \in Thread
               PROVE  /\ thread'[u].pc \in {"start", "run", "consume"} => thread'[u].id \in Tx
                      /\ \A i \in Tx : Holds(u, i)' => Ready(i)' /\ ~ Queued(i)'
                      /\ \A i \in Tx : Works(u, i)' =>
                            status'[i] = IF thread'[u].pc = "run" THEN "running" ELSE "done"
                      /\ \A e \in thread'[u].todo :
                            thread'[u].pc = "consume" /\ e \in edges' /\ e.from = thread'[u].id
    BY DEF ThreadInv
  <2>1. CASE u = t
    BY <1>1, <1>2, <1>3, <1>4, <1>5, <1>10, <2>1
  <2>2. CASE u # t
    BY <1>1, <1>4, <1>5, <1>7, <1>10, <1>11, <2>2 DEF ThreadInv
  <2> QED
    BY <2>1, <2>2
<1>13. OwnerInv'
  BY <1>10, <1>11 DEF OwnerInv, Owns
<1>14. ConflictsInOrder'
  <2>1. \A i, j : Conflict(i, j)' <=> Conflict(i, j)
    BY <1>1 DEF Conflict, Tagged, Fields
  <2> QED
    BY <1>2, <1>5, <2>1 DEF ConflictsInOrder
<1> QED
  BY <1>6, <1>8, <1>9, <1>12, <1>13, <1>14 DEF DAGInv, RunInv

LEMMA ThrowTxStep ==
    ASSUME DAGInv, NEW t \in Thread, ThrowTx(t)
    PROVE  DAGInv'
<1> TypeOK /\ DegreeInv /\ QueueInv /\ ThreadInv /\ OwnerInv /\ ConflictsInOrder
  BY DEF DAGInv, RunInv
<1> DEFINE d == thread[t].id
           r == [thread[t] EXCEPT !.pc = "left"]
<1>1. /\ Running /\ thread[t].pc = "run"
      /\ status' = [status EXCEPT ![d] = "thrown"]
      /\ thread' = [thread EXCEPT ![t].pc = "left"]
      /\ throws' = throws + 1
      /\ UNCHANGED <<tx, added, scanned, latest, latestAll, edges, inDegree, topLevel, exeCnt>>
  BY DEF ThrowTx, At, Goto, graphVars
<1>2. d \in Tx /\ Works(t, d) /\ status[d] = "running" /\ thread[t].todo = {}
  BY <1>1 DEF ThreadInv, Works
<1>3. /\ r \in ThreadState /\ thread' = [thread EXCEPT ![t] = r]
      /\ r.pc = "left" /\ r.todo = thread[t].todo
  <2>1. thread[t] \in ThreadState
    BY DEF TypeOK
  <2>2. r \in ThreadState /\ r.pc = "left" /\ r.todo = thread[t].todo
    BY <2>1 DEF ThreadState
  <2>3. thread' = [thread EXCEPT ![t] = r]
    BY <1>1 DEF TypeOK
  <2> QED
    BY <2>2, <2>3
<1> HIDE DEF r, d
<1>4. /\ thread' \in [Thread -> ThreadState]
      /\ thread'[t] = r
      /\ \A u \in Thread : u # t => thread'[u] = thread[u]
      /\ \A u \in Thread : thread'[u].todo = thread[u].todo
  BY <1>3, ThreadUpdate
<1>5. \A i \in Tx : status'[i] = IF i = d THEN "thrown" ELSE status[i]
  BY <1>1 DEF TypeOK
<1>6. TypeOK' /\ BuildInv'
  <2>1. throws' \in Nat
    BY <1>1 DEF TypeOK
  <2>2. status' \in [Tx -> Status]
    BY <1>1 DEF TypeOK, Status
  <2> QED
    BY <1>1, <1>4, <2>1, <2>2, BuildStays DEF TypeOK, graphVars
<1>7. \A i \in Tx : /\ Pending(i)' = Pending(i)
                    /\ Ready(i)' <=> Ready(i)
                    /\ Queued(i)' <=> Queued(i)
  <2>1. \A e \in edges : status'[e.from] # "done" <=> status[e.from] # "done"
    BY <1>2, <1>5 DEF TypeOK, Edge
  <2>2. \A i \in Tx : Pending(i)' = Pending(i)
    BY <1>1, <1>4, <2>1 DEF Pending
  <2> QED
    BY <1>1, <1>2, <1>5, <2>2 DEF Ready, Queued
<1>8. DegreeInv'
  BY <1>1, <1>2, <1>5, <1>7 DEF DegreeInv
<1>9. QueueInv'
  BY <1>1, <1>7 DEF QueueInv
<1>10. /\ \A i \in Tx : ~ Holds(t, i)' /\ ~ Works(t, i)'
       /\ \A u \in Thread : u # t =>
            \A i \in Tx : (Holds(u, i)' <=> Holds(u, i)) /\ (Works(u, i)' <=> Works(u, i))
  BY <1>3, <1>4 DEF Holds, Works
<1>11. \A u \in Thread : u # t => ~ Holds(u, d) /\ ~ Works(u, d)
  BY <1>2 DEF OwnerInv, Owns
<1>12. ThreadInv'
  <2> SUFFICES ASSUME NEW u \in Thread
               PROVE  /\ thread'[u].pc \in {"start", "run", "consume"} => thread'[u].id \in Tx
                      /\ \A i \in Tx : Holds(u, i)' => Ready(i)' /\ ~ Queued(i)'
                      /\ \A i \in Tx : Works(u, i)' =>
                            status'[i] = IF thread'[u].pc = "run" THEN "running" ELSE "done"
                      /\ \A e \in thread'[u].todo :
                            thread'[u].pc = "consume" /\ e \in edges' /\ e.from = thread'[u].id
    BY DEF ThreadInv
  <2>1. CASE u = t
    BY <1>2, <1>3, <1>4, <1>10, <2>1
  <2>2. CASE u # t
    BY <1>1, <1>4, <1>5, <1>7, <1>10, <1>11, <2>2 DEF ThreadInv
  <2> QED
    BY <2>1, <2>2
<1>13. OwnerInv'
  BY <1>10, <1>11 DEF OwnerInv, Owns
<1>14. ConflictsInOrder'
  <2>1. \A i, j : Conflict(i, j)' <=> Conflict(i, j)
    BY <1>1 DEF Conflict, Tagged, Fields
  <2> QED
    BY <1>2, <1>5, <2>1 DEF ConflictsInOrder
<1> QED
  BY <1>6, <1>8, <1>9, <1>12, <1>13, <1>14 DEF DAGInv, RunInv

\* An edge that is released was counted once, and its target was held by nobody.
LEMMA ReleasedEdge ==
    ASSUME DAGInv, Running, NEW t \in Thread, NEW e \in thread[t].todo,
           inDegree' = [inDegree EXCEPT ![e.to] = @ - 1],
           thread' \in [Thread -> ThreadState],
           thread'[t].todo = thread[t].todo \ {e},
           \A u \in Thread : u # t => thread'[u] = thread[u],
           UNCHANGED <<status, edges>>
    PROVE  /\ e.to \in Tx /\ e \in edges /\ status[e.to] = "waiting"
           /\ \A i \in Tx : Pending(i)' = Pending(i) \ {e}
           /\ ~ Queued(e.to) /\ \A u \in Thread : ~ Owns(u, e.to)
           /\ inDegree' \in [Tx -> Nat]
           /\ DegreeInv'
           /\ inDegree[e.to] = 1 => Pending(e.to) \ {e} = {}
<1> TypeOK /\ DegreeInv /\ QueueInv /\ ThreadInv /\ OwnerInv /\ EdgesInv
  BY DEF DAGInv, RunInv, BuildInv
<1> DEFINE k == e.to
<1>1. /\ thread[t].pc = "consume" /\ e \in edges /\ e.from = thread[t].id /\ e.from \in Tx
      /\ k \in Tx /\ Works(t, e.from) /\ status[e.from] = "done"
  BY DEF ThreadInv, Works, TypeOK, Edge
<1>2. e \in Pending(k)
  BY <1>1 DEF Pending
<1>3. \A u \in Thread : e \in thread[u].todo => u = t
  BY <1>1 DEF ThreadInv, OwnerInv, Owns, Works
<1>4. \A i \in Tx : Pending(i)' = Pending(i) \ {e}
  <2>1. ASSUME NEW f \in edges
        PROVE  (\E u \in Thread : f \in thread'[u].todo) <=> (f # e /\ \E u \in Thread : f \in thread[u].todo)
    <3>1. CASE f = e
      BY <1>3, <3>1
    <3>2. CASE f # e
      BY <3>2
    <3> QED
      BY <3>1, <3>2
  <2> QED
    BY <1>1, <2>1 DEF Pending
<1>5. \A i \in Tx : IsFiniteSet(Pending(i))
  <2> TAKE i \in Tx
  <2>1. Pending(i) \in SUBSET edges
    BY DEF Pending
  <2> QED
    BY <2>1, FS_Subset DEF EdgesInv
<1>6. status[k] = "waiting"
  BY <1>1, <1>2 DEF DegreeInv
<1>7. ~ Ready(k) /\ ~ Queued(k) /\ \A u \in Thread : ~ Owns(u, k)
  BY <1>1, <1>2, <1>6 DEF Ready, QueueInv, ThreadInv, Owns
<1>8. Cardinality(Pending(k)) \in Nat /\ Cardinality(Pending(k)) # 0 /\ inDegree[k] = Cardinality(Pending(k))
  BY <1>1, <1>2, <1>5, FS_CardinalityType, FS_EmptySet DEF DegreeInv
<1>9. IsFiniteSet(Pending(k) \ {e}) /\ Cardinality(Pending(k) \ {e}) = Cardinality(Pending(k)) - 1
  BY <1>1, <1>2, <1>5, FS_RemoveElement
<1>10. \A i \in Tx : i # k => Pending(i) \ {e} = Pending(i)
  BY DEF Pending
<1>11. inDegree' \in [Tx -> Nat] /\ \A i \in Tx : inDegree'[i] = IF i = k THEN inDegree[k] - 1 ELSE inDegree[i]
  <2>1. inDegree[k] - 1 \in Nat
    BY <1>8
  <2> QED
    BY <1>1, <2>1 DEF TypeOK
<1>12. \A i \in Tx : inDegree'[i] = Cardinality(Pending(i)')
  <2> TAKE i \in Tx
  <2>1. CASE i = k
    <3>1. Pending(i)' = Pending(k) \ {e}
      BY <1>4, <2>1
    <3> QED
      BY <1>8, <1>9, <1>11, <2>1, <3>1
  <2>2. CASE i # k
    <3>1. Pending(i)' = Pending(i)
      BY <1>4, <1>10, <2>2
    <3> QED
      BY <1>11, <2>2, <3>1 DEF DegreeInv
  <2> QED
    BY <2>1, <2>2
<1>13. DegreeInv'
  BY <1>4, <1>12 DEF DegreeInv
<1>14. inDegree[k] = 1 => Pending(k) \ {e} = {}
  BY <1>8, <1>9, FS_EmptySet
<1> QED
  BY <1>1, <1>4, <1>6, <1>7, <1>11, <1>13, <1>14

\* The last edge frees its target: the thread keeps it, or queues it if it has one already.
LEMMA ReleaseEdgeStep ==
    ASSUME DAGInv, NEW t \in Thread, ReleaseEdge(t)
    PROVE  DAGInv'
<1> TypeOK /\ DegreeInv /\ QueueInv /\ ThreadInv /\ OwnerInv /\ ConflictsInOrder
  BY DEF DAGInv, RunInv
<1>1. /\ Running /\ thread[t].pc = "consume"
      /\ UNCHANGED <<tx, status, added, scanned, latest, latestAll, edges, exeCnt, throws>>
  BY DEF ReleaseEdge, At, graphVars
<1>2. PICK e \in thread[t].todo :
        /\ inDegree' = [inDegree EXCEPT ![e.to] = @ - 1]
        /\ \/ /\ ~ LastRelease(e.to)
              /\ thread' = [thread EXCEPT ![t].todo = @ \ {e}]
              /\ UNCHANGED topLevel
           \/ /\ LastRelease(e.to)
              /\ thread' = [thread EXCEPT ![t].todo = @ \ {e},
                                          ![t].nextId = IF @ = INVALID_ID THEN e.to ELSE @]
              /\ pushFreed(t, e.to)
  BY DEF ReleaseEdge
<1> DEFINE k == e.to
           next == IF LastRelease(k) /\ thread[t].nextId = INVALID_ID THEN k ELSE thread[t].nextId
           r == [thread[t] EXCEPT !.todo = @ \ {e}, !.nextId = next]
<1>3. thread[t] \in ThreadState /\ e \in Edge /\ k \in Tx
  BY DEF TypeOK, ThreadState, Edge
<1>4. next \in MaybeTx
  BY <1>3 DEF ThreadState, MaybeTx
<1>5. thread' = [thread EXCEPT ![t] = r]
  <2>1. CASE LastRelease(k)
    BY <1>2, <2>1 DEF TypeOK
  <2>2. CASE ~ LastRelease(k)
    <3>1. next = thread[t].nextId
      BY <2>2
    <3>2. [thread[t] EXCEPT !.todo = @ \ {e}] = r
      BY <1>3, <3>1 DEF ThreadState
    <3>3. thread' = [thread EXCEPT ![t] = [thread[t] EXCEPT !.todo = @ \ {e}]]
      BY <1>2, <2>2 DEF TypeOK
    <3> QED
      BY <3>2, <3>3
  <2> QED
    BY <2>1, <2>2
<1> HIDE DEF next
<1>6. /\ r \in ThreadState /\ r.pc = "consume" /\ r.id = thread[t].id
      /\ r.nextId = next /\ r.todo = thread[t].todo \ {e}
  BY <1>1, <1>3, <1>4 DEF ThreadState
<1> HIDE DEF r
<1>7. /\ thread' \in [Thread -> ThreadState]
      /\ thread'[t] = r
      /\ \A u \in Thread : u # t => thread'[u] = thread[u]
  BY <1>5, <1>6, ThreadUpdate
<1>8. /\ e \in edges /\ status[k] = "waiting"
      /\ \A i \in Tx : Pending(i)' = Pending(i) \ {e}
      /\ ~ Queued(k) /\ \A u \in Thread : ~ Owns(u, k)
      /\ inDegree' \in [Tx -> Nat]
      /\ DegreeInv'
      /\ inDegree[k] = 1 => Pending(k) \ {e} = {}
  BY <1>1, <1>2, <1>6, <1>7, ReleasedEdge
<1>9. /\ \A i \in Tx : Ready(i) => Ready(i)'
      /\ LastRelease(k) => \A i \in Tx : i = k => Ready(i)'
  BY <1>1, <1>8 DEF Ready, LastRelease
<1> DEFINE push == LastRelease(k) /\ thread[t].nextId # INVALID_ID
<1>10. topLevel' = IF push THEN Append(topLevel, k) ELSE topLevel
  BY <1>2 DEF pushFreed
<1>11. /\ topLevel' \in Seq(Tx)
       /\ \A p \in DOMAIN topLevel' :
             \/ p \in DOMAIN topLevel /\ topLevel'[p] = topLevel[p]
             \/ push /\ p = Len(topLevel) + 1 /\ topLevel'[p] = k
  <2>1. topLevel \in Seq(Tx)
    BY DEF TypeOK
  <2>2. /\ Append(topLevel, k) \in Seq(Tx)
        /\ \A p \in DOMAIN Append(topLevel, k) :
              \/ p \in DOMAIN topLevel /\ Append(topLevel, k)[p] = topLevel[p]
              \/ p = Len(topLevel) + 1 /\ Append(topLevel, k)[p] = k
    BY <1>3, <2>1, AppendElements
  <2> QED
    BY <1>10, <2>1, <2>2
<1>12. \A i \in Tx : Queued(i)' => Queued(i) \/ (push /\ i = k)
  BY <1>11 DEF Queued
<1>13. TypeOK' /\ BuildInv'
  BY <1>1, <1>7, <1>8, <1>11, BuildStays DEF TypeOK, graphVars
<1>14. QueueInv'
  <2>1. \A i \in Tx : Queued(i)' => i < scanned' /\ Ready(i)'
    BY <1>1, <1>3, <1>9, <1>12, TxNumAssumption DEF QueueInv, Running, Tx
  <2>2. \A p \in DOMAIN topLevel : topLevel[p] # k
    BY <1>8 DEF Queued
  <2>3. \A p, q \in DOMAIN topLevel' : topLevel'[p] = topLevel'[q] => p = q
    BY <1>11, <2>2 DEF QueueInv
  <2> QED
    BY <2>1, <2>3 DEF QueueInv
<1>15. /\ \A i \in Tx : Holds(t, i)' => Holds(t, i) \/ (LastRelease(k) /\ ~ push /\ i = k)
       /\ \A i \in Tx : Works(t, i)' <=> Works(t, i)
       /\ \A u \in Thread : u # t =>
            \A i \in Tx : (Holds(u, i)' <=> Holds(u, i)) /\ (Works(u, i)' <=> Works(u, i))
  BY <1>1, <1>6, <1>7 DEF Holds, Works, next
<1>16. ThreadInv'
  <2> SUFFICES ASSUME NEW u \in Thread
               PROVE  /\ thread'[u].pc \in {"start", "run", "consume"} => thread'[u].id \in Tx
                      /\ \A i \in Tx : Holds(u, i)' => Ready(i)' /\ ~ Queued(i)'
                      /\ \A i \in Tx : Works(u, i)' =>
                            status'[i] = IF thread'[u].pc = "run" THEN "running" ELSE "done"
                      /\ \A f \in thread'[u].todo :
                            thread'[u].pc = "consume" /\ f \in edges' /\ f.from = thread'[u].id
    BY DEF ThreadInv
  <2>1. \A i \in Tx : Holds(u, i) => Ready(i)' /\ ~ Queued(i)'
    BY <1>8, <1>9, <1>12 DEF ThreadInv, Owns
  <2>2. CASE u = t
    <3>1. \A i \in Tx : Holds(t, i)' => Ready(i)' /\ ~ Queued(i)'
      BY <1>8, <1>9, <1>12, <1>15, <2>1, <2>2
    <3> QED
      BY <1>1, <1>6, <1>7, <1>15, <2>2, <3>1 DEF ThreadInv
  <2>3. CASE u # t
    BY <1>1, <1>7, <1>15, <2>1, <2>3 DEF ThreadInv
  <2> QED
    BY <2>2, <2>3
<1>17. OwnerInv'
  <2>1. \A u \in Thread : \A i \in Tx : Owns(u, i)' => Owns(u, i) \/ (u = t /\ i = k)
    BY <1>15 DEF Owns
  <2> QED
    BY <1>8, <2>1 DEF OwnerInv
<1>18. ConflictsInOrder'
  BY <1>1, OrderStays
<1> QED
  BY <1>8, <1>13, <1>14, <1>16, <1>17, <1>18 DEF DAGInv, RunInv

LEMMA FinishConsumeStep ==
    ASSUME DAGInv, NEW t \in Thread, FinishConsume(t)
    PROVE  DAGInv'
<1> TypeOK /\ DegreeInv /\ QueueInv /\ ThreadInv /\ OwnerInv /\ ConflictsInOrder
  BY DEF DAGInv, RunInv
<1> DEFINE n == thread[t].nextId
           l == IF n = INVALID_ID THEN "check" ELSE "start"
           r == [thread[t] EXCEPT !.pc = l, !.id = n]
<1>1. /\ Running /\ thread[t].pc = "consume" /\ thread[t].todo = {}
      /\ thread' = [thread EXCEPT ![t].pc = l, ![t].id = n]
      /\ UNCHANGED <<tx, status, added, scanned, latest, latestAll, edges, inDegree, topLevel, exeCnt, throws>>
  BY DEF FinishConsume, At, graphVars
<1>2. thread[t] \in ThreadState /\ n \in MaybeTx /\ l \in {"check", "start"}
  BY DEF TypeOK, ThreadState
<1>3. thread' = [thread EXCEPT ![t] = r]
  BY <1>1 DEF TypeOK
<1>4. l = "start" => n \in Tx
  BY <1>2 DEF MaybeTx
<1> HIDE DEF l, n
<1>5. r \in ThreadState /\ r.pc = l /\ r.id = n /\ r.todo = {}
  BY <1>1, <1>2 DEF ThreadState
<1> HIDE DEF r
<1>6. /\ thread' \in [Thread -> ThreadState]
      /\ thread'[t] = r
      /\ \A u \in Thread : u # t => thread'[u] = thread[u]
      /\ \A u \in Thread : thread'[u].todo = thread[u].todo
  BY <1>1, <1>3, <1>5, ThreadUpdate
<1>7. TypeOK' /\ BuildInv'
  BY <1>1, <1>6, BuildStays DEF TypeOK, graphVars
<1>8. \A i \in Tx : /\ Pending(i)' = Pending(i)
                    /\ Ready(i)' <=> Ready(i)
                    /\ Queued(i)' <=> Queued(i)
  BY <1>1, <1>6 DEF Pending, Ready, Queued
<1>9. DegreeInv' /\ QueueInv'
  BY <1>1, <1>8 DEF DegreeInv, QueueInv
<1>10. /\ \A i \in Tx : (Holds(t, i)' => Holds(t, i)) /\ ~ Works(t, i)'
       /\ \A u \in Thread : u # t =>
            \A i \in Tx : (Holds(u, i)' <=> Holds(u, i)) /\ (Works(u, i)' <=> Works(u, i))
  BY <1>1, <1>2, <1>5, <1>6 DEF Holds, Works, n
<1>11. ThreadInv'
  <2> SUFFICES ASSUME NEW u \in Thread
               PROVE  /\ thread'[u].pc \in {"start", "run", "consume"} => thread'[u].id \in Tx
                      /\ \A i \in Tx : Holds(u, i)' => Ready(i)' /\ ~ Queued(i)'
                      /\ \A i \in Tx : Works(u, i)' =>
                            status'[i] = IF thread'[u].pc = "run" THEN "running" ELSE "done"
                      /\ \A f \in thread'[u].todo :
                            thread'[u].pc = "consume" /\ f \in edges' /\ f.from = thread'[u].id
    BY DEF ThreadInv
  <2>1. CASE u = t
    BY <1>2, <1>4, <1>5, <1>6, <1>8, <1>10, <2>1 DEF ThreadInv
  <2>2. CASE u # t
    BY <1>1, <1>6, <1>8, <1>10, <2>2 DEF ThreadInv
  <2> QED
    BY <2>1, <2>2
<1>12. OwnerInv'
  BY <1>10 DEF OwnerInv, Owns
<1>13. ConflictsInOrder'
  BY <1>1, OrderStays
<1> QED
  BY <1>7, <1>9, <1>11, <1>12, <1>13 DEF DAGInv, RunInv

-----------------------------------------------------------------------------
(* The theorems.                                                           *)

LEMMA NextStep ==
    ASSUME DAGInv, [Next]_vars
    PROVE  DAGInv'
<1>1. CASE AddTx
  BY <1>1, AddTxStep
<1>2. CASE ScanVertex
  BY <1>2, ScanVertexStep
<1>3. ASSUME NEW t \in Thread, ThreadStep(t)
      PROVE  DAGInv'
  <2>1. CASE CheckFinished(t)
    <3> DEFINE l == IF hasFinished THEN "left" ELSE "pop"
    <3>1. /\ Running /\ thread[t].pc = "check" /\ l \in {"check", "pop", "left"}
          /\ thread' = [thread EXCEPT ![t].pc = l]
          /\ UNCHANGED <<tx, status, graphVars, inDegree, topLevel, exeCnt, throws>>
      BY <2>1 DEF CheckFinished, At, Goto
    <3> HIDE DEF l
    <3> QED
      BY <3>1, IdleStep
  <2>2. CASE WaitPop(t)
    BY <2>2, WaitPopStep
  <2>3. CASE WaitPopTimeout(t)
    <3>1. /\ Running /\ thread[t].pc = "pop"
          /\ thread' = [thread EXCEPT ![t].pc = "check"]
          /\ UNCHANGED <<tx, status, graphVars, inDegree, topLevel, exeCnt, throws>>
      BY <2>3 DEF WaitPopTimeout, At, Goto
    <3> QED
      BY <3>1, IdleStep
  <2>4. CASE StartTx(t)
    BY <2>4, StartTxStep
  <2>5. CASE FinishTx(t)
    BY <2>5, FinishTxStep
  <2>6. CASE ThrowTx(t)
    BY <2>6, ThrowTxStep
  <2>7. CASE ReleaseEdge(t)
    BY <2>7, ReleaseEdgeStep
  <2>8. CASE FinishConsume(t)
    BY <2>8, FinishConsumeStep
  <2> QED
    BY <1>3, <2>1, <2>2, <2>3, <2>4, <2>5, <2>6, <2>7, <2>8 DEF ThreadStep
<1>4. CASE UNCHANGED vars
  <2>1. /\ UNCHANGED <<tx, added, latest, latestAll, edges>> /\ UNCHANGED <<tx, status>>
        /\ UNCHANGED <<scanned, inDegree, topLevel, exeCnt, thread, throws>>
    BY <1>4 DEF vars, graphVars
  <2>2. TypeOK' /\ PhaseInv'
    BY <2>1 DEF DAGInv, BuildInv, TypeOK, PhaseInv, Running
  <2>3. \A i \in Tx : /\ Pending(i)' = Pending(i)
                      /\ Ready(i)' <=> Ready(i)
                      /\ Queued(i)' <=> Queued(i)
    BY <2>1 DEF Pending, Ready, Queued
  <2>4. \A t, i : (Holds(t, i)' <=> Holds(t, i)) /\ (Works(t, i)' <=> Works(t, i))
    BY <2>1 DEF Holds, Works
  <2>5. DegreeInv' /\ QueueInv'
    BY <2>1, <2>3 DEF DAGInv, RunInv, DegreeInv, QueueInv
  <2>6. ThreadInv' /\ OwnerInv'
    BY <2>1, <2>3, <2>4 DEF DAGInv, RunInv, ThreadInv, OwnerInv, Owns
  <2>7. EdgesInv' /\ LatestInv' /\ CoverInv'
    BY <2>1, GraphStays
  <2>8. ConflictsInOrder'
    BY <2>1, OrderStays DEF DAGInv
  <2> QED
    BY <2>2, <2>5, <2>6, <2>7, <2>8 DEF DAGInv, BuildInv, RunInv
<1> QED
  BY <1>1, <1>2, <1>3, <1>4 DEF Next

LEMMA DAGInvariant == Spec => []DAGInv
<1>1. Init => DAGInv
  BY InitInv
<1>2. DAGInv /\ [Next]_vars => DAGInv'
  BY NextStep
<1> QED
  BY <1>1, <1>2, PTL DEF Spec

(***************************************************************************)
(* The graph, the in-degrees and the threads of parallelExecuteBlock stay  *)
(* well formed; above all no in-degree goes below zero.                    *)
(***************************************************************************)
THEOREM DAGTypeCorrect == Spec => []TypeOK
<1>1. DAGInv => TypeOK
  BY DEF DAGInv
<1> QED
  BY <1>1, DAGInvariant, PTL

(***************************************************************************)
(* TxDAG runs conflicting transactions in the order of the block, for      *)
(* every block, all critical fields and every number of threads.           *)
(***************************************************************************)
THEOREM ConflictsRunInOrder == Spec => []ConflictsInOrder
<1>1. DAGInv => ConflictsInOrder
  BY DEF DAGInv
<1> QED
  BY <1>1, DAGInvariant, PTL

(***************************************************************************)
(* Parallel execution implements ordered execution: no transaction starts  *)
(* twice, and each starts after all earlier ones it conflicts with.        *)
(***************************************************************************)
THEOREM DAGImplementsOrder == Spec => ImplementsOrder
<1>1. Init => Ordered!OrderInit
  <2> SUFFICES ASSUME Init PROVE Ordered!OrderInit
    OBVIOUS
  <2>1. TypeOK
    BY InitInv DEF DAGInv
  <2> QED
    BY <2>1 DEF Init, TypeOK, Ordered!OrderInit, Ordered!Tx, Ordered!TxInfo, Ordered!Field, Tx, TxInfo, Field
<1>2. DAGInv /\ [Next]_vars => [Ordered!OrderNext]_(Ordered!orderVars)
  <2> SUFFICES ASSUME DAGInv, [Next]_vars
               PROVE  Ordered!OrderNext \/ UNCHANGED <<tx, status>>
    BY DEF Ordered!orderVars
  <2>1. CASE AddTx \/ ScanVertex \/ UNCHANGED vars
    BY <2>1 DEF AddTx, ScanVertex, vars
  <2>2. ASSUME NEW t \in Thread, ThreadStep(t)
        PROVE  Ordered!OrderNext \/ UNCHANGED <<tx, status>>
    <3>1. CASE \/ CheckFinished(t) \/ WaitPop(t) \/ WaitPopTimeout(t)
               \/ ReleaseEdge(t) \/ FinishConsume(t)
      BY <3>1 DEF CheckFinished, WaitPop, WaitPopTimeout, ReleaseEdge, FinishConsume
    <3>2. CASE StartTx(t)
      <4> DEFINE d == thread[t].id
      <4>1. /\ Running /\ d \in Tx /\ Ready(d)
            /\ status' = [status EXCEPT ![d] = "running"] /\ UNCHANGED tx
        BY <3>2 DEF StartTx, At, DAGInv, RunInv, ThreadInv, Holds
      <4>2. \A j \in Tx : j < d /\ Conflict(j, d) => status[j] = "done"
        BY <4>1, ReadyIsClear
      <4>3. Ordered!Start(d)
        BY <4>1, <4>2 DEF Ordered!Start, Ordered!Tx, Ordered!Conflict, Ordered!Tagged, Ordered!Fields,
                          Tx, Conflict, Tagged, Fields, Ready
      <4> QED
        BY <4>1, <4>3 DEF Ordered!OrderNext, Ordered!Tx, Tx
    <3>3. CASE FinishTx(t) \/ ThrowTx(t)
      <4> DEFINE d == thread[t].id
      <4>1. /\ d \in Tx /\ status[d] = "running" /\ UNCHANGED tx
            /\ \E x \in {"done", "thrown"} : status' = [status EXCEPT ![d] = x]
        BY <3>3 DEF FinishTx, ThrowTx, At, DAGInv, RunInv, ThreadInv, Works
      <4>2. Ordered!Finish(d)
        BY <4>1 DEF Ordered!Finish
      <4> QED
        BY <4>1, <4>2 DEF Ordered!OrderNext, Ordered!Tx, Tx
    <3> QED
      BY <2>2, <3>1, <3>2, <3>3 DEF ThreadStep
  <2> QED
    BY <2>1, <2>2 DEF Next
<1> QED
  BY <1>1, <1>2, DAGInvariant, PTL DEF Spec, ImplementsOrder, Ordered!OrderSpec

\* m_exeCnt counts the transactions that have started.
LEMMA CountStep ==
    ASSUME DAGInv, CountInv, [Next]_vars
    PROVE  CountInv'
<1> TypeOK /\ ThreadInv
  BY DEF DAGInv, RunInv
<1> DEFINE RunnerInv == \A i \in Tx : status[i] = "running" =>
                            \E t \in Thread : thread[t].pc = "run" /\ thread[t].id = i
           ThrownInv == \A i \in Tx : status[i] = "thrown" => throws > 0
           LeftInv == \A t \in Thread : thread[t].pc = "left" => exeCnt >= TxNum \/ throws > 0
<1>1. exeCnt = Cardinality(Started) /\ RunnerInv /\ ThrownInv /\ LeftInv
  BY DEF CountInv
<1>2. SUFFICES exeCnt' = Cardinality(Started') /\ RunnerInv' /\ ThrownInv' /\ LeftInv'
  BY DEF CountInv
<1>3. exeCnt \in Nat /\ throws \in Nat /\ TxNum \in Nat
  BY TxNumAssumption DEF TypeOK
<1>4. CASE AddTx \/ ScanVertex \/ UNCHANGED vars
  <2>1. UNCHANGED <<status, exeCnt, thread, throws>>
    BY <1>4 DEF AddTx, ScanVertex, vars
  <2>2. Started' = Started
    BY <2>1 DEF Started
  <2> QED
    BY <1>1, <2>1, <2>2
<1>5. ASSUME NEW t \in Thread, ThreadStep(t)
      PROVE  exeCnt' = Cardinality(Started') /\ RunnerInv' /\ ThrownInv' /\ LeftInv'
  <2>1. ASSUME UNCHANGED <<status, exeCnt, throws>>,
               \A u \in Thread : thread[u].pc = "run" =>
                    thread'[u].pc = "run" /\ thread'[u].id = thread[u].id,
               \A u \in Thread : thread'[u].pc = "left" => thread[u].pc = "left" \/ exeCnt >= TxNum
        PROVE  exeCnt' = Cardinality(Started') /\ RunnerInv' /\ ThrownInv' /\ LeftInv'
    <3>1. Started' = Started
      BY <2>1 DEF Started
    <3> QED
      BY <1>1, <2>1, <3>1
  <2>2. CASE CheckFinished(t)
    <3>1. /\ thread[t].pc = "check" /\ UNCHANGED <<status, exeCnt, throws>>
          /\ thread' = [thread EXCEPT ![t].pc = IF exeCnt >= TxNum THEN "left" ELSE "pop"]
      BY <2>2 DEF CheckFinished, At, Goto, hasFinished
    <3> QED
      BY <2>1, <3>1 DEF TypeOK, ThreadState
  <2>3. CASE WaitPop(t)
    <3>1. /\ thread[t].pc = "pop" /\ UNCHANGED <<status, exeCnt, throws>>
          /\ thread' = [thread EXCEPT ![t].pc = "start", ![t].id = Head(topLevel)]
      BY <2>3 DEF WaitPop, At
    <3> QED
      BY <2>1, <3>1 DEF TypeOK, ThreadState
  <2>4. CASE WaitPopTimeout(t)
    <3>1. /\ thread[t].pc = "pop" /\ UNCHANGED <<status, exeCnt, throws>>
          /\ thread' = [thread EXCEPT ![t].pc = "check"]
      BY <2>4 DEF WaitPopTimeout, At, Goto
    <3> QED
      BY <2>1, <3>1 DEF TypeOK, ThreadState
  <2>5. CASE ReleaseEdge(t)
    <3>1. /\ thread[t].pc = "consume" /\ UNCHANGED <<status, exeCnt, throws>>
          /\ thread'[t].pc = "consume"
          /\ \A u \in Thread : u # t => thread'[u] = thread[u]
      BY <2>5 DEF ReleaseEdge, At, TypeOK, ThreadState
    <3> QED
      BY <2>1, <3>1
  <2>6. CASE FinishConsume(t)
    <3>1. /\ thread[t].pc = "consume" /\ UNCHANGED <<status, exeCnt, throws>>
          /\ thread'[t].pc \in {"check", "start"}
          /\ \A u \in Thread : u # t => thread'[u] = thread[u]
      BY <2>6 DEF FinishConsume, At, TypeOK, ThreadState
    <3> QED
      BY <2>1, <3>1
  <2>7. CASE StartTx(t)
    <3> DEFINE d == thread[t].id
    <3>1. /\ thread[t].pc = "start" /\ exeCnt' = exeCnt + 1 /\ UNCHANGED throws
          /\ status' = [status EXCEPT ![d] = "running"]
          /\ thread' = [thread EXCEPT ![t].pc = "run"]
      BY <2>7 DEF StartTx, At, Goto
    <3>2. d \in Tx /\ status[d] = "waiting"
      BY <3>1 DEF ThreadInv, Holds, Ready
    <3>3. /\ thread'[t].pc = "run" /\ thread'[t].id = d
          /\ \A u \in Thread : u # t => thread'[u] = thread[u]
      BY <3>1 DEF TypeOK, ThreadState
    <3>4. \A i \in Tx : status'[i] = IF i = d THEN "running" ELSE status[i]
      BY <3>1 DEF TypeOK
    <3>5. Started' = Started \cup {d} /\ d \notin Started
      BY <3>2, <3>4 DEF Started
    <3>6. IsFiniteSet(Started)
      <4>1. IsFiniteSet(Tx) /\ Started \in SUBSET Tx
        BY <1>3, FS_Interval DEF Tx, Started
      <4> QED
        BY <4>1, FS_Subset
    <3>7. exeCnt' = Cardinality(Started')
      <4>1. Cardinality(Started \cup {d}) = Cardinality(Started) + 1
        BY <3>5, <3>6, FS_AddElement
      <4> QED
        BY <1>1, <3>1, <3>5, <4>1
    <3>8. RunnerInv'
      BY <1>1, <3>1, <3>3, <3>4
    <3>9. ThrownInv' /\ LeftInv'
      BY <1>1, <1>3, <3>1, <3>3, <3>4
    <3> QED
      BY <3>7, <3>8, <3>9
  <2>8. CASE FinishTx(t) \/ ThrowTx(t)
    <3> DEFINE d == thread[t].id
    <3>1. /\ thread[t].pc = "run" /\ UNCHANGED exeCnt
          /\ \/ /\ status' = [status EXCEPT ![d] = "done"] /\ throws' = throws
                /\ thread'[t].pc = "consume"
             \/ /\ status' = [status EXCEPT ![d] = "thrown"] /\ throws' = throws + 1
                /\ thread'[t].pc = "left"
          /\ \A u \in Thread : u # t => thread'[u] = thread[u]
      BY <2>8 DEF FinishTx, ThrowTx, At, Goto, TypeOK, ThreadState
    <3>2. d \in Tx /\ status[d] = "running"
      BY <3>1 DEF ThreadInv, Works
    <3>3. /\ status'[d] \in {"done", "thrown"} /\ throws' >= throws /\ throws' \in Nat
          /\ status'[d] = "thrown" \/ thread'[t].pc = "left" => throws' > 0
          /\ \A i \in Tx : i # d => status'[i] = status[i]
      BY <1>3, <3>1, <3>2 DEF TypeOK
    <3>4. Started' = Started
      BY <3>2, <3>3 DEF Started
    <3>5. RunnerInv'
      BY <1>1, <3>1, <3>3
    <3>6. ThrownInv'
      BY <1>1, <1>3, <3>3
    <3>7. LeftInv'
      BY <1>1, <1>3, <3>1, <3>3
    <3> QED
      BY <1>1, <3>1, <3>4, <3>5, <3>6, <3>7
  <2> QED
    BY <1>5, <2>2, <2>3, <2>4, <2>5, <2>6, <2>7, <2>8 DEF ThreadStep
<1> QED
  BY <1>4, <1>5 DEF Next

(***************************************************************************)
(* When all threads have left parallel_for without an exception, every     *)
(* transaction of the block has been executed.                             *)
(***************************************************************************)
THEOREM NothingIsLeftOut == Spec => []AllRunWhenLeft
<1>1. Init => CountInv
  <2> SUFFICES ASSUME Init PROVE CountInv
    OBVIOUS
  <2>1. Started = {}
    BY DEF Init, Started
  <2> QED
    BY <2>1, FS_EmptySet DEF Init, CountInv
<1>2. DAGInv /\ CountInv /\ [Next]_vars => CountInv'
  BY CountStep
<1>3. DAGInv /\ CountInv => AllRunWhenLeft
  <2> SUFFICES ASSUME DAGInv, CountInv, AllLeft, throws = 0, Thread # {}
               PROVE  \A i \in Tx : status[i] = "done"
    BY DEF AllRunWhenLeft
  <2>1. exeCnt >= TxNum
    BY DEF CountInv, AllLeft
  <2>2. /\ IsFiniteSet(Tx) /\ Cardinality(Tx) = TxNum
        /\ Started \in SUBSET Tx
    BY TxNumAssumption, FS_Interval DEF Tx, Started
  <2>3. Cardinality(Started) <= TxNum
    BY <2>2, FS_Subset
  <2>4. Cardinality(Started) = TxNum
    BY <2>1, <2>3, TxNumAssumption DEF CountInv, DAGInv, TypeOK
  <2>5. Started = Tx
    BY <2>2, <2>4, FS_Subset
  <2>6. \A i \in Tx : status[i] # "waiting" /\ status[i] # "running" /\ status[i] # "thrown"
    BY <2>5 DEF Started, CountInv, AllLeft
  <2> QED
    BY <2>6 DEF DAGInv, TypeOK, Status
<1> QED
  BY <1>1, <1>2, <1>3, DAGInvariant, PTL DEF Spec

=============================================================================
