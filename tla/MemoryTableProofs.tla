------------------------- MODULE MemoryTableProofs -------------------------
(***************************************************************************)
(* The storage below a block's tables, the tables and their change log,    *)
(* for every number of keys, threads, values, operations, blocks and       *)
(* restarts and every m_maxForwardBlock.                                   *)
(*                                                                         *)
(* CountInv, about the block numbers the commit thread, the flush thread   *)
(* and the backend keep: the tasks in the queue are the blocks between the *)
(* last one on disk and the last one committed, one task each and in       *)
(* order.  m_syncNum may be behind the disk (a restart sets it to 0) but   *)
(* never ahead, and m_commitNum is the last committed block whenever       *)
(* something is still to be flushed; so the difference commit waits for is *)
(* never smaller than what a crash would lose.                             *)
(*                                                                         *)
(* StorageInv, about rows and objects: ids grow from task to task, each    *)
(* block is what its task makes of the one before, the rows a task points  *)
(* at are still where they were, and an object belongs to one key.         *)
(* TableInv, about the table: it names only rows on disk or in the queue,  *)
(* the log only rows of the table, and a commit has an empty log.          *)
(*                                                                         *)
(* CleanInv, about the keys that are not tainted: whoever works on such a  *)
(* key has the object that is in m_caches; that object is loaded as long   *)
(* as a task for the key is unflushed, and shows the last block with what  *)
(* the commit under way has written; the disk shows its own block but for  *)
(* rows it has early from a later one, which are all in the queue.         *)
(*                                                                         *)
(* LogInv, about the log: undoing it down to a change restores the table   *)
(* the change was made in.                                                 *)
(***************************************************************************)
EXTENDS MemoryTable, SequenceTheorems, FiniteSetTheorems, FunctionTheorems,
        WellFoundedInduction, TLAPS

IsSeq(s) == \E S : s \in Seq(S)

TaskInv ==
    /\ IsSeq(blocks) /\ IsSeq(queue)
    /\ backend.num \in Nat
    /\ Len(blocks) = backend.num + Len(queue) + 1
    /\ \A i \in 1 .. Len(queue) : queue[i].num = backend.num + i

NumInv ==
    /\ "pc" \in DOMAIN commit
    /\ syncNum \in Nat /\ commitNum \in Nat
    /\ syncNum <= backend.num /\ syncNum <= commitNum
    /\ queue # <<>> \/ commit.pc = "wait" => commitNum = num - 1

CountInv == TaskInv /\ NumInv /\ LossBounded

countVars == <<commitNum, syncNum, queue, backend, blocks>>

-----------------------------------------------------------------------------
(* Sequences of whatever they hold.                                        *)

LEMMA AppendIsSeq ==
    ASSUME NEW s, IsSeq(s), NEW e
    PROVE  /\ IsSeq(Append(s, e)) /\ Append(s, e) # <<>>
           /\ Len(s) \in Nat /\ Len(Append(s, e)) = Len(s) + 1
           /\ \A i \in 1 .. Len(s) : Append(s, e)[i] = s[i]
           /\ Append(s, e)[Len(s) + 1] = e
<1>1. PICK S : s \in Seq(S)
  BY DEF IsSeq
<1> DEFINE T == S \cup {e}
<1>2. s \in Seq(T)
  BY <1>1
<1> HIDE DEF T
<1>3. e \in T
  BY DEF T
<1>4. Append(s, e) \in Seq(T)
  BY <1>2, <1>3
<1> QED
  BY <1>2, <1>3, <1>4, AppendProperties, LenProperties DEF IsSeq

LEMMA TailIsSeq ==
    ASSUME NEW s, IsSeq(s), s # <<>>
    PROVE  /\ IsSeq(Tail(s))
           /\ Len(s) \in Nat /\ Len(s) > 0 /\ Len(Tail(s)) = Len(s) - 1
           /\ Head(s) = s[1]
           /\ \A i \in 1 .. Len(Tail(s)) : Tail(s)[i] = s[i + 1]
<1>1. PICK S : s \in Seq(S)
  BY DEF IsSeq
<1>2. /\ Tail(s) \in Seq(S) /\ Len(Tail(s)) = Len(s) - 1 /\ Head(s) = s[1]
      /\ \A i \in 1 .. Len(s) - 1 : Tail(s)[i] = s[i + 1]
  BY <1>1, HeadTailProperties
<1>3. Len(s) \in Nat /\ Len(s) > 0
  BY <1>1, EmptySeq, LenProperties
<1> QED
  BY <1>2, <1>3 DEF IsSeq

LEMMA PrefixIsSeq ==
    ASSUME NEW s, IsSeq(s), NEW n \in 1 .. Len(s)
    PROVE  IsSeq(SubSeq(s, 1, n)) /\ Len(SubSeq(s, 1, n)) = n
<1>1. PICK S : s \in Seq(S)
  BY DEF IsSeq
<1>2. Len(s) \in Nat
  BY <1>1, LenProperties
<1>3. SubSeq(s, 1, n) \in Seq(S) /\ Len(SubSeq(s, 1, n)) = n
  BY <1>1, <1>2, SubSeqProperties
<1> QED
  BY <1>3 DEF IsSeq

-----------------------------------------------------------------------------
(* The steps that count.                                                   *)

LEMMA CountInit == Init => CountInv
<1> SUFFICES ASSUME Init
             PROVE  CountInv
  OBVIOUS
<1>1. PICK rows \in Genesis : InitStorage(rows)
  BY DEF Init
<1>2. /\ blocks = <<rows>> /\ queue = <<>> /\ backend.num = 0
      /\ commitNum = 0 /\ syncNum = 0 /\ commit.pc = "idle" /\ "pc" \in DOMAIN commit
  BY <1>1 DEF InitStorage, IdleCommit
<1>3. blocks \in Seq({rows}) /\ Len(blocks) = 1 /\ queue \in Seq({rows}) /\ Len(queue) = 0
  BY <1>2
<1> QED
  BY <1>2, <1>3, ForwardAssumption DEF CountInv, TaskInv, NumInv, LossBounded, IsSeq, num

\* Steps that leave the counts alone and neither begin nor end the wait.
LEMMA CountKept ==
    ASSUME CountInv, UNCHANGED countVars, "pc" \in DOMAIN commit',
           commit'.pc = "wait" <=> commit.pc = "wait"
    PROVE  CountInv'
BY DEF CountInv, TaskInv, NumInv, LossBounded, countVars, num

\* The block becomes the last task of the queue, and its commit waits.
LEMMA CountSubmit ==
    ASSUME CountInv, SubmitTask
    PROVE  CountInv'
<1> DEFINE task == [num |-> num, id |-> ID, data |-> commit.data]
           after == [k \in Key |-> Normal(After(Committed[k], commit.data[k]))]
<1>1. /\ queue' = Append(queue, task) /\ blocks' = Append(blocks, after)
      /\ commitNum' = num /\ syncNum' = syncNum /\ backend' = backend
      /\ commit.pc = "touch" /\ commit'.pc = "wait" /\ task.num = num
      /\ "pc" \in DOMAIN commit'
  BY DEF SubmitTask, IdleCommit
<1> HIDE DEF task, after
<1>2. /\ IsSeq(blocks') /\ Len(blocks) \in Nat /\ Len(blocks') = Len(blocks) + 1
      /\ IsSeq(queue') /\ Len(queue) \in Nat /\ Len(queue') = Len(queue) + 1
      /\ \A i \in 1 .. Len(queue) : queue'[i] = queue[i]
      /\ queue'[Len(queue) + 1] = task
  BY <1>1, AppendIsSeq DEF CountInv, TaskInv
<1>3. TaskInv'
  <2>1. \A i \in 1 .. Len(queue') : queue'[i].num = backend'.num + i
    <3> SUFFICES ASSUME NEW i \in 1 .. Len(queue')
                 PROVE  queue'[i].num = backend.num + i
      BY <1>1
    <3>1. CASE i \in 1 .. Len(queue)
      BY <1>2, <3>1 DEF CountInv, TaskInv
    <3>2. CASE i = Len(queue) + 1
      BY <1>1, <1>2, <3>2 DEF CountInv, TaskInv, num
    <3> QED
      BY <1>2, <3>1, <3>2
  <2>2. Len(blocks') = backend'.num + Len(queue') + 1 /\ backend'.num \in Nat
    BY <1>1, <1>2 DEF CountInv, TaskInv
  <2> QED
    BY <1>2, <2>1, <2>2 DEF TaskInv
<1>4. NumInv'
  BY <1>1, <1>2 DEF CountInv, TaskInv, NumInv, num
<1>5. LossBounded'
  BY <1>1, <1>2, ForwardAssumption DEF CountInv, TaskInv, LossBounded, num
<1> QED
  BY <1>3, <1>4, <1>5 DEF CountInv

\* What the wait tests is at least what is not on disk.
LEMMA CountReturns ==
    ASSUME CountInv, CommitReturns
    PROVE  CountInv'
<1>1. /\ UNCHANGED countVars /\ commit.pc = "wait" /\ commit'.pc = "idle"
      /\ commitNum - syncNum <= MaxForwardBlock /\ "pc" \in DOMAIN commit'
  BY DEF CommitReturns, IdleCommit, countVars
<1>2. Len(blocks) \in Nat
  BY LenProperties DEF CountInv, TaskInv, IsSeq
<1>3. LossBounded'
  BY <1>1, <1>2, ForwardAssumption DEF CountInv, NumInv, TaskInv, LossBounded, num, countVars
<1> QED
  BY <1>1, <1>3 DEF CountInv, TaskInv, NumInv, num, countVars

\* The flush thread writes the first task, the block after the last one on disk.
LEMMA CountFlush ==
    ASSUME CountInv, commitBackend
    PROVE  CountInv'
<1>1. /\ queue # <<>> /\ queue' = Tail(queue)
      /\ backend'.num = Head(queue).num /\ syncNum' = Head(queue).num
      /\ commitNum' = commitNum /\ commit' = commit /\ blocks' = blocks
  BY DEF commitBackend
<1>2. /\ IsSeq(queue') /\ Len(queue) \in Nat /\ Len(queue) > 0 /\ Len(queue') = Len(queue) - 1
      /\ Head(queue) = queue[1]
      /\ \A i \in 1 .. Len(queue') : queue'[i] = queue[i + 1]
  BY <1>1, TailIsSeq DEF CountInv, TaskInv
<1>3. backend'.num = backend.num + 1 /\ backend.num \in Nat
  BY <1>1, <1>2 DEF CountInv, TaskInv
<1>4. TaskInv'
  <2>1. \A i \in 1 .. Len(queue') : queue'[i].num = backend'.num + i
    <3> SUFFICES ASSUME NEW i \in 1 .. Len(queue')
                 PROVE  queue'[i].num = backend'.num + i
      OBVIOUS
    <3>1. i \in Int /\ i + 1 \in 1 .. Len(queue) /\ queue'[i] = queue[i + 1]
      BY <1>2
    <3>2. queue[i + 1].num = backend.num + (i + 1)
      BY <3>1 DEF CountInv, TaskInv
    <3>3. queue'[i].num = backend.num + (i + 1)
      BY <3>1, <3>2
    <3>4. backend.num + (i + 1) = (backend.num + 1) + i
      BY <1>3, <3>1
    <3> QED
      BY <1>3, <3>3, <3>4
  <2> QED
    BY <1>1, <1>2, <1>3, <2>1 DEF CountInv, TaskInv
<1>5. NumInv'
  BY <1>1, <1>2, <1>3 DEF CountInv, TaskInv, NumInv, num
<1>6. LossBounded'
  BY <1>1, <1>2, <1>3, ForwardAssumption DEF CountInv, TaskInv, LossBounded, num
<1> QED
  BY <1>4, <1>5, <1>6 DEF CountInv

\* A restart goes back to the block on disk.
LEMMA CountRestart ==
    ASSUME CountInv, Restart
    PROVE  CountInv'
<1>1. /\ queue' = <<>> /\ blocks' = SubSeq(blocks, 1, backend.num + 1) /\ backend' = backend
      /\ commitNum' = 0 /\ syncNum' = 0 /\ commit'.pc = "idle"
      /\ "pc" \in DOMAIN commit'
  BY DEF Restart, IdleCommit
<1>2. Len(queue) \in Nat /\ backend.num \in Nat /\ backend.num + 1 \in 1 .. Len(blocks)
  BY LenProperties DEF CountInv, TaskInv, IsSeq
<1>3. IsSeq(blocks') /\ Len(blocks') = backend.num + 1
  BY <1>1, <1>2, PrefixIsSeq DEF CountInv, TaskInv
<1>4. IsSeq(queue') /\ Len(queue') = 0
  <2>1. queue' \in Seq({0})
    BY <1>1
  <2> QED
    BY <1>1, <2>1 DEF IsSeq
<1>5. TaskInv'
  BY <1>1, <1>2, <1>3, <1>4 DEF TaskInv
<1>6. NumInv'
  BY <1>1, <1>2 DEF NumInv
<1>7. LossBounded'
  BY <1>1, <1>2, <1>3, ForwardAssumption DEF LossBounded, num
<1> QED
  BY <1>5, <1>6, <1>7 DEF CountInv

-----------------------------------------------------------------------------
(* Every step.                                                             *)

LEMMA CommitKeepsCount ==
    ASSUME CountInv, Commit
    PROVE  CountInv'
<1>1. CASE WriteDirty \/ WriteNew
  <2>1. /\ UNCHANGED countVars /\ commit.pc # "wait" /\ commit'.pc # "wait"
        /\ "pc" \in DOMAIN commit'
    BY <1>1 DEF CountInv, NumInv, WriteDirty, WriteNew, Written, Exit, countVars
  <2> QED
    BY <2>1, CountKept
<1>2. ASSUME NEW w \in commit.dirty \cup commit.new, TouchRow(w)
      PROVE  CountInv'
  <2>1. /\ UNCHANGED countVars /\ commit.pc # "wait" /\ commit'.pc # "wait"
        /\ "pc" \in DOMAIN commit'
    BY <1>2 DEF CountInv, NumInv, TouchRow, countVars
  <2> QED
    BY <2>1, CountKept
<1> QED
  BY <1>1, <1>2, CountSubmit, CountReturns DEF Commit

LEMMA ExecuteKeepsCount ==
    ASSUME CountInv, Execute
    PROVE  CountInv'
<1>1. CASE commitDB
  <2>1. /\ UNCHANGED countVars /\ commit.pc # "wait" /\ commit'.pc # "wait"
        /\ "pc" \in DOMAIN commit'
    BY <1>1 DEF commitDB, StartCommit, IdleCommit, countVars
  <2> QED
    BY <2>1, CountKept
<1>2. CASE ~ commitDB
  <2>1. UNCHANGED countVars /\ commit' = commit
    BY <1>2 DEF Execute, insert, insertForced, update, remove, Change, rollback,
                commitTransaction, DropBlock, SelectRows, storage, countVars
  <2> QED
    BY <2>1, CountKept DEF CountInv, NumInv
<1> QED
  BY <1>1, <1>2

LEMMA SelectKeepsCount ==
    ASSUME CountInv, Select \/ \E k \in Key : checkAndClear(k)
    PROVE  CountInv'
<1>1. UNCHANGED countVars /\ commit' = commit
  BY DEF Select, SelectRows, SelectTouch, checkAndClear, countVars
<1> QED
  BY <1>1, CountKept DEF CountInv, NumInv

LEMMA CountNext == CountInv /\ [Next]_vars => CountInv'
<1> SUFFICES ASSUME CountInv, [Next]_vars
             PROVE  CountInv'
  OBVIOUS
<1>1. CASE UNCHANGED vars
  BY <1>1, CountKept DEF vars, storage, countVars, CountInv, NumInv
<1>2. CASE Execute
  BY <1>2, ExecuteKeepsCount
<1>3. CASE Storage
  BY <1>3, CommitKeepsCount, SelectKeepsCount, CountFlush DEF Storage
<1>4. CASE End
  BY <1>4, CountRestart DEF End
<1> QED
  BY <1>1, <1>2, <1>3, <1>4 DEF Next

(***************************************************************************)
(* A process that ends loses at most MaxForwardBlock committed blocks and  *)
(* the one whose commit() has not returned: the loop at the end of         *)
(* CachedStorage::commit tests m_commitNum - m_syncNum, which is reset by  *)
(* a restart, and still bounds what the flush thread has left to write.    *)
(***************************************************************************)
THEOREM CrashLosesLittle == Spec => []LossBounded
<1>1. CountInv => LossBounded
  BY DEF CountInv
<1> QED
  BY <1>1, CountInit, CountNext, PTL DEF Spec

-----------------------------------------------------------------------------
(* Induction over numbers, from the well-foundedness of <.                 *)

LEMMA LeastNumber ==
    ASSUME NEW S \in SUBSET Nat, S # {}
    PROVE  \E m \in S : \A k \in S : m <= k
<1>1. PICK x \in S : \A y \in S : <<y, x>> \notin OpToRel(<, Nat)
  BY NatLessThanWellFounded, WFMin, Zenon
<1>2. ASSUME NEW y \in S
      PROVE  x <= y
  <2>1. <<y, x>> \notin OpToRel(<, Nat)
    BY <1>1
  <2>2. ~ (y < x)
    BY <2>1, Zenon DEF OpToRel
  <2> QED
    BY <2>2
<1> QED
  BY <1>2

LEMMA Induction ==
    ASSUME NEW S, 0 \in S, \A n \in Nat : n \in S => n + 1 \in S
    PROVE  Nat \subseteq S
<1> SUFFICES ASSUME Nat \ S # {}
             PROVE  FALSE
  OBVIOUS
<1>1. PICK m \in Nat \ S : \A k \in Nat \ S : m <= k
  BY LeastNumber
<1>2. m - 1 \in Nat /\ m - 1 \in S
  BY <1>1
<1> QED
  BY <1>1, <1>2

\* A function is defined by its first value and by how each value follows from the last one.
Follows(f, S, n, a, F) ==
    f \in [0 .. n -> S] /\ f[0] = a /\ \A i \in 1 .. n : f[i] = F[i][f[i - 1]]

LEMMA Recursion ==
    ASSUME NEW S, NEW n \in Nat, NEW a \in S, NEW F \in [1 .. n -> [S -> S]]
    PROVE  \E f : Follows(f, S, n, a, F)
<1> DEFINE Upto(k) == \E f : Follows(f, S, k, a, F)
           D == {k \in Nat : k <= n => Upto(k)}
<1>1. 0 \in D
  <2> DEFINE f == [i \in 0 .. 0 |-> a]
  <2>1. f \in [0 .. 0 -> S] /\ f[0] = a /\ \A i \in 1 .. 0 : f[i] = F[i][f[i - 1]]
    OBVIOUS
  <2>2. Upto(0)
    BY <2>1 DEF Follows
  <2> QED
    BY <2>2
<1>2. ASSUME NEW k \in Nat, k \in D PROVE k + 1 \in D
  <2> SUFFICES ASSUME k + 1 <= n PROVE Upto(k + 1)
    OBVIOUS
  <2>1. PICK f : Follows(f, S, k, a, F)
    BY <1>2
  <2> f \in [0 .. k -> S] /\ f[0] = a /\ \A i \in 1 .. k : f[i] = F[i][f[i - 1]]
    BY <2>1 DEF Follows
  <2>2. F[k + 1][f[k]] \in S
    <3>1. f[k] \in S /\ k + 1 \in 1 .. n
      OBVIOUS
    <3> QED
      BY <3>1
  <2> DEFINE x == F[k + 1][f[k]]
             g == [i \in 0 .. k + 1 |-> IF i = k + 1 THEN x ELSE f[i]]
  <2> HIDE DEF x
  <2>3. g \in [0 .. k + 1 -> S] /\ g[0] = a
    BY <2>1, <2>2 DEF x
  <2>4. ASSUME NEW i \in 1 .. k + 1 PROVE g[i] = F[i][g[i - 1]]
    <3>1. CASE i = k + 1
      <4>1. g[i] = x /\ g[i - 1] = f[k]
        BY <3>1
      <4> QED
        BY <3>1, <4>1 DEF x
    <3>2. CASE i # k + 1
      <4>1. i \in 1 .. k /\ g[i] = f[i] /\ g[i - 1] = f[i - 1]
        BY <3>2
      <4> QED
        BY <2>1, <4>1
    <3> QED
      BY <3>1, <3>2
  <2> HIDE DEF g
  <2> QED
    BY <2>3, <2>4 DEF Follows
<1> HIDE DEF D, Upto
<1>3. Nat \subseteq D
  BY <1>1, <1>2, Induction
<1>4. n \in D
  BY <1>3
<1>5. Upto(n)
  BY <1>4 DEF D
<1> QED
  BY <1>5, Zenon DEF Upto

LEMMA FiniteMax ==
    ASSUME NEW S \in SUBSET Int, IsFiniteSet(S), S # {}
    PROVE  \E m \in S : \A x \in S : m >= x
<1>1. PICK n \in Nat : ExistsBijection(1 .. n, S)
  <2>1. Cardinality(S) \in Nat /\ ExistsBijection(1 .. Cardinality(S), S)
    BY FS_CardinalityType, FS_Bijection, Zenon
  <2> QED
    BY <2>1, Zenon
<1>2. PICK f \in [1 .. n -> S] : \A x \in S : \E i \in 1 .. n : f[i] = x
  <2>1. PICK f \in Bijection(1 .. n, S) : TRUE
    BY <1>1 DEF ExistsBijection
  <2>2. f \in [1 .. n -> S] /\ \A x \in S : \E i \in 1 .. n : f[i] = x
    BY <2>1 DEF Bijection, Surjection, Injection
  <2> QED
    BY <2>2
<1> DEFINE Top(k) == \E m \in S : \A i \in 1 .. k : m >= f[i]
           D == {k \in Nat : k <= n => Top(k)}
<1>3. 0 \in D
  <2>1. PICK m \in S : TRUE
    OBVIOUS
  <2>2. \A i \in 1 .. 0 : m >= f[i]
    OBVIOUS
  <2> QED
    BY <2>2
<1>4. ASSUME NEW k \in Nat, k \in D PROVE k + 1 \in D
  <2> SUFFICES ASSUME k + 1 <= n PROVE Top(k + 1)
    OBVIOUS
  <2>1. PICK m \in S : \A i \in 1 .. k : m >= f[i]
    BY <1>4
  <2> DEFINE e == f[k + 1]
  <2>2. e \in S
    OBVIOUS
  <2>3. CASE m >= e
    <3>1. \A i \in 1 .. k + 1 : m >= f[i]
      <4> TAKE i \in 1 .. k + 1
      <4>1. i \in 1 .. k \/ i = k + 1
        OBVIOUS
      <4> QED
        BY <2>1, <2>3, <4>1
    <3> QED
      BY <3>1
  <2>4. CASE ~ (m >= e)
    <3>1. \A i \in 1 .. k + 1 : e >= f[i]
      <4> TAKE i \in 1 .. k + 1
      <4>1. i \in 1 .. k \/ i = k + 1
        OBVIOUS
      <4>2. f[i] \in Int /\ e \in Int /\ m \in Int
        <5>1. i \in 1 .. n
          OBVIOUS
        <5>2. f[i] \in S
          BY <5>1
        <5> QED
          BY <2>2, <5>2
      <4> HIDE DEF e
      <4>3. CASE i \in 1 .. k
        BY <2>1, <2>4, <4>2, <4>3
      <4>4. CASE i = k + 1
        BY <4>2, <4>4 DEF e
      <4> QED
        BY <4>1, <4>3, <4>4
    <3> HIDE DEF e
    <3> QED
      BY <2>2, <3>1
  <2> QED
    BY <2>3, <2>4
<1> HIDE DEF D, Top
<1>5. n \in D
  BY <1>3, <1>4, Induction
<1>6. Top(n)
  BY <1>5 DEF D
<1>7. PICK m \in S : \A i \in 1 .. n : m >= f[i]
  BY <1>6 DEF Top
<1>8. \A x \in S : m >= x
  <2> TAKE x \in S
  <2>1. PICK i \in 1 .. n : f[i] = x
    BY <1>2
  <2> QED
    BY <1>7, <2>1
<1> QED
  BY <1>8

-----------------------------------------------------------------------------
(* Rows of a key.                                                          *)

Row == [id : Nat \ {0}, val : Value, removed : BOOLEAN]

\* A select of rows s shows r.
Has(s, r) == ~ r.removed /\ \E i \in 1 .. Len(s) : s[i] = r

InOrder(s) == \A i, j \in 1 .. Len(s) : i < j => s[i].id < s[j].id

NoneRemoved(s) == \A i \in 1 .. Len(s) : ~ s[i].removed

LEMMA SameRows ==
    ASSUME NEW s \in Seq(Row), NEW t \in Seq(Row), InOrder(s), InOrder(t),
           NoneRemoved(s), NoneRemoved(t), \A r \in Row : Has(s, r) <=> Has(t, r)
    PROVE  s = t
<1> DEFINE Same(i) == i \in 1 .. Len(s) /\ i \in 1 .. Len(t) /\ s[i] = t[i]
           B == {i \in Nat : (i \in 1 .. Len(s) \/ i \in 1 .. Len(t)) /\ ~ Same(i)}
<1>1. \A i \in 1 .. Len(s) : \E j \in 1 .. Len(t) : t[j] = s[i]
  <2> TAKE i \in 1 .. Len(s)
  <2>1. s[i] \in Row /\ Has(s, s[i])
    BY DEF Has, NoneRemoved
  <2>2. Has(t, s[i])
    BY <2>1
  <2> QED
    BY <2>2 DEF Has
<1>2. \A i \in 1 .. Len(t) : \E j \in 1 .. Len(s) : s[j] = t[i]
  <2> TAKE i \in 1 .. Len(t)
  <2>1. t[i] \in Row /\ Has(t, t[i])
    BY DEF Has, NoneRemoved
  <2>2. Has(s, t[i])
    BY <2>1
  <2> QED
    BY <2>2 DEF Has
<1>3. \A i \in 1 .. Len(s) : s[i].id \in Nat
  <2> TAKE i \in 1 .. Len(s)
  <2>1. s[i] \in Row
    OBVIOUS
  <2> QED
    BY <2>1 DEF Row
<1>4. \A i \in 1 .. Len(t) : t[i].id \in Nat
  <2> TAKE i \in 1 .. Len(t)
  <2>1. t[i] \in Row
    OBVIOUS
  <2> QED
    BY <2>1 DEF Row
<1>5. Len(s) \in Nat /\ Len(t) \in Nat
  OBVIOUS
<1>6. ASSUME B # {}
      PROVE  FALSE
  <2>1. PICK m \in B : \A k \in B : m <= k
    <3>1. B \in SUBSET Nat
      OBVIOUS
    <3> HIDE DEF B
    <3> QED
      BY <1>6, <3>1, LeastNumber
  <2>2. \A j \in Nat : j < m /\ (j \in 1 .. Len(s) \/ j \in 1 .. Len(t)) => Same(j)
    <3> TAKE j \in Nat
    <3>1. j \in B => m <= j
      BY <2>1
    <3> QED
      BY <3>1
  <2>3. CASE m \in 1 .. Len(s)
    <3>1. PICK j \in 1 .. Len(t) : t[j] = s[m]
      BY <1>1, <2>3
    <3>2. ~ (j < m)
      <4> SUFFICES ASSUME j < m PROVE FALSE
        OBVIOUS
      <4>1. s[j] = s[m] /\ j \in 1 .. Len(s)
        BY <2>2, <3>1
      <4>2. s[j].id < s[m].id
        BY <2>3, <4>1 DEF InOrder
      <4> QED
        BY <1>3, <2>3, <4>1, <4>2
    <3>3. m \in 1 .. Len(t)
      BY <2>1, <3>2
    <3>4. PICK l \in 1 .. Len(s) : s[l] = t[m]
      BY <1>2, <3>3
    <3>5. ~ (l < m)
      <4> SUFFICES ASSUME l < m PROVE FALSE
        OBVIOUS
      <4>1. t[l] = t[m] /\ l \in 1 .. Len(t)
        BY <2>2, <3>4
      <4>2. t[l].id < t[m].id
        BY <3>3, <4>1 DEF InOrder
      <4> QED
        BY <1>4, <3>3, <4>1, <4>2
    <3>6. j # m /\ l # m
      BY <2>1, <2>3, <3>1, <3>3, <3>4
    <3>7. m < j /\ m < l
      BY <2>1, <3>2, <3>5, <3>6
    <3>8. t[m].id < t[j].id /\ s[m].id < s[l].id
      BY <2>3, <3>3, <3>7 DEF InOrder
    <3> QED
      BY <1>3, <1>4, <2>3, <3>1, <3>3, <3>4, <3>8
  <2>4. CASE m \notin 1 .. Len(s)
    <3>1. m \in 1 .. Len(t)
      BY <2>1, <2>4
    <3>2. PICK l \in 1 .. Len(s) : s[l] = t[m]
      BY <1>2, <3>1
    <3>3. l < m
      BY <1>5, <2>4, <3>1
    <3>4. t[l] = t[m] /\ l \in 1 .. Len(t)
      BY <2>2, <3>2, <3>3
    <3>5. t[l].id < t[m].id
      BY <3>1, <3>3, <3>4 DEF InOrder
    <3> QED
      BY <1>4, <3>1, <3>4, <3>5
  <2> QED
    BY <2>3, <2>4
<1>7. \A i \in 1 .. Len(s) : Same(i)
  <2> TAKE i \in 1 .. Len(s)
  <2>1. i \in Nat /\ i \notin B
    BY <1>6
  <2> QED
    BY <2>1
<1>8. \A i \in 1 .. Len(t) : i \in 1 .. Len(s)
  <2> TAKE i \in 1 .. Len(t)
  <2>1. i \in Nat /\ i \notin B
    BY <1>6
  <2> QED
    BY <2>1
<1>9. Len(s) = Len(t)
  <2>1. Len(s) <= Len(t)
    <3>1. CASE Len(s) = 0
      BY <1>5, <3>1
    <3>2. CASE Len(s) # 0
      <4>1. Len(s) \in 1 .. Len(s)
        BY <1>5, <3>2
      <4> QED
        BY <1>7, <4>1
    <3> QED
      BY <3>1, <3>2
  <2>2. Len(t) <= Len(s)
    <3>1. CASE Len(t) = 0
      BY <1>5, <3>1
    <3>2. CASE Len(t) # 0
      <4>1. Len(t) \in 1 .. Len(t)
        BY <1>5, <3>2
      <4> QED
        BY <1>8, <4>1
    <3> QED
      BY <3>1, <3>2
  <2> QED
    BY <1>5, <2>1, <2>2
<1>10. \A i \in 1 .. Len(s) : s[i] = t[i]
  BY <1>7
<1> HIDE DEF B, Same
<1> QED
  BY <1>9, <1>10, SeqEqual

-----------------------------------------------------------------------------
(* The rows that are not removed.                                          *)

LEMMA AppendFacts ==
    ASSUME NEW T, NEW s \in Seq(T), NEW e \in T
    PROVE  /\ Append(s, e) \in Seq(T) /\ Len(Append(s, e)) = Len(s) + 1
           /\ Len(s) \in Nat
           /\ \A i \in 1 .. Len(s) : Append(s, e)[i] = s[i]
           /\ Append(s, e)[Len(s) + 1] = e
BY AppendProperties

LEMMA HasAppend ==
    ASSUME NEW s \in Seq(Row), NEW e \in Row, NEW r \in Row
    PROVE  Has(Append(s, e), r) <=> Has(s, r) \/ (~ r.removed /\ r = e)
<1>1. /\ Append(s, e) \in Seq(Row) /\ Len(Append(s, e)) = Len(s) + 1
      /\ Len(s) \in Nat
      /\ \A i \in 1 .. Len(s) : Append(s, e)[i] = s[i]
      /\ Append(s, e)[Len(s) + 1] = e
  BY AppendFacts
<1> DEFINE u == Append(s, e)
<1> HIDE DEF u
<1>2. ASSUME Has(u, r) PROVE Has(s, r) \/ (~ r.removed /\ r = e)
  <2>1. PICK i \in 1 .. Len(u) : u[i] = r
    BY <1>2 DEF Has
  <2>2. i \in 1 .. Len(s) \/ i = Len(s) + 1
    BY <1>1 DEF u
  <2> QED
    BY <1>1, <1>2, <2>1, <2>2 DEF Has, u
<1>3. ASSUME Has(s, r) PROVE Has(u, r)
  <2>1. PICK i \in 1 .. Len(s) : s[i] = r
    BY <1>3 DEF Has
  <2>2. i \in 1 .. Len(u) /\ u[i] = r
    BY <1>1, <2>1 DEF u
  <2> QED
    BY <1>3, <2>2 DEF Has
<1>4. ASSUME ~ r.removed, r = e PROVE Has(u, r)
  <2>1. Len(s) + 1 \in 1 .. Len(u) /\ u[Len(s) + 1] = r
    BY <1>1, <1>4 DEF u
  <2> QED
    BY <1>4, <2>1 DEF Has
<1> QED
  BY <1>2, <1>3, <1>4 DEF u

LEMMA OrderAppend ==
    ASSUME NEW s \in Seq(Row), NEW e \in Row, InOrder(s),
           \A i \in 1 .. Len(s) : s[i].id < e.id
    PROVE  InOrder(Append(s, e))
<1>1. /\ Append(s, e) \in Seq(Row) /\ Len(Append(s, e)) = Len(s) + 1
      /\ Len(s) \in Nat
      /\ \A i \in 1 .. Len(s) : Append(s, e)[i] = s[i]
      /\ Append(s, e)[Len(s) + 1] = e
  BY AppendFacts
<1> DEFINE u == Append(s, e)
<1> HIDE DEF u
<1> SUFFICES ASSUME NEW i \in 1 .. Len(u), NEW j \in 1 .. Len(u), i < j
             PROVE  u[i].id < u[j].id
  BY DEF InOrder, u
<1>2. i \in 1 .. Len(s) /\ u[i] = s[i]
  BY <1>1 DEF u
<1>3. CASE j \in 1 .. Len(s)
  BY <1>1, <1>2, <1>3 DEF InOrder, u
<1>4. CASE j = Len(s) + 1
  BY <1>1, <1>2, <1>4 DEF u
<1> QED
  BY <1>1, <1>3, <1>4 DEF u

\* What Normal keeps of the first i rows.
Kept(u, s, i) ==
    /\ NoneRemoved(u)
    /\ \A r \in Row : Has(u, r) <=> (~ r.removed /\ \E j \in 1 .. i : s[j] = r)
    /\ \A j \in 1 .. Len(u) : \E l \in 1 .. i : u[j] = s[l]
    /\ InOrder(s) => InOrder(u)

LEMMA KeptStep ==
    ASSUME NEW T \in SUBSET Row, NEW s \in Seq(T), NEW u \in Seq(T), NEW i \in Nat,
           i + 1 \in 1 .. Len(s), Kept(u, s, i)
    PROVE  LET v == IF s[i + 1].removed THEN u ELSE Append(u, s[i + 1])
           IN  v \in Seq(T) /\ Kept(v, s, i + 1)
<1> DEFINE e == s[i + 1]
           v == IF e.removed THEN u ELSE Append(u, e)
<1>0. e \in T /\ e \in Row /\ u \in Seq(Row) /\ s \in Seq(Row)
  OBVIOUS
<1>1. \A r : (\E j \in 1 .. i + 1 : s[j] = r) <=> (\E j \in 1 .. i : s[j] = r) \/ r = e
  <2> TAKE r
  <2>1. \A j \in 1 .. i + 1 : j \in 1 .. i \/ j = i + 1
    OBVIOUS
  <2>2. i + 1 \in 1 .. i + 1 /\ \A j \in 1 .. i : j \in 1 .. i + 1
    OBVIOUS
  <2> QED
    BY <2>1, <2>2
<1>2. CASE e.removed
  <2>1. v = u
    BY <1>2
  <2>2. \A r \in Row : Has(u, r) <=> (~ r.removed /\ \E j \in 1 .. i + 1 : s[j] = r)
    BY <1>1, <1>2 DEF Kept
  <2>3. \A j \in 1 .. Len(u) : \E l \in 1 .. i + 1 : u[j] = s[l]
    <3> TAKE j \in 1 .. Len(u)
    <3>1. PICK l \in 1 .. i : u[j] = s[l]
      BY DEF Kept
    <3> QED
      BY <3>1
  <2> QED
    BY <2>1, <2>2, <2>3 DEF Kept
<1>3. CASE ~ e.removed
  <2> HIDE DEF e
  <2>1. /\ v = Append(u, e) /\ Append(u, e) \in Seq(T) /\ Len(Append(u, e)) = Len(u) + 1
        /\ Len(u) \in Nat
        /\ \A j \in 1 .. Len(u) : Append(u, e)[j] = u[j]
        /\ Append(u, e)[Len(u) + 1] = e
    BY <1>0, <1>3, AppendFacts
  <2>2. \A r \in Row : Has(v, r) <=> (~ r.removed /\ \E j \in 1 .. i + 1 : s[j] = r)
    <3> TAKE r \in Row
    <3>1. Has(v, r) <=> Has(u, r) \/ (~ r.removed /\ r = e)
      BY <1>0, <2>1, HasAppend
    <3>2. Has(u, r) <=> (~ r.removed /\ \E j \in 1 .. i : s[j] = r)
      BY DEF Kept
    <3> QED
      BY <1>1, <3>1, <3>2
  <2>3. ASSUME NEW j \in 1 .. Len(v)
        PROVE  ~ v[j].removed /\ \E l \in 1 .. i + 1 : v[j] = s[l]
    <3>1. CASE j \in 1 .. Len(u)
      <4>1. PICK l \in 1 .. i : u[j] = s[l]
        BY <3>1 DEF Kept
      <4>2. l \in 1 .. i + 1 /\ v[j] = s[l] /\ ~ u[j].removed
        BY <2>1, <3>1, <4>1 DEF Kept, NoneRemoved
      <4> QED
        BY <2>1, <3>1, <4>2
    <3>2. CASE j = Len(u) + 1
      <4>1. v[j] = e /\ i + 1 \in 1 .. i + 1
        BY <2>1, <3>2
      <4> QED
        BY <1>3, <4>1 DEF e
    <3> QED
      BY <2>1, <3>1, <3>2
  <2>4. ASSUME InOrder(s) PROVE InOrder(v)
    <3>1. \A j \in 1 .. Len(u) : u[j].id < e.id
      <4> TAKE j \in 1 .. Len(u)
      <4>1. PICK l \in 1 .. i : u[j] = s[l]
        BY DEF Kept
      <4>2. l \in 1 .. Len(s) /\ l < i + 1
        OBVIOUS
      <4> QED
        BY <2>4, <4>1, <4>2 DEF InOrder, e
    <3>2. InOrder(u)
      BY <2>4 DEF Kept
    <3> QED
      BY <1>0, <2>1, <3>1, <3>2, OrderAppend
  <2> QED
    BY <2>1, <2>2, <2>3, <2>4 DEF Kept, NoneRemoved, e
<1> QED
  BY <1>2, <1>3

LEMMA NormalKept ==
    ASSUME NEW T \in SUBSET Row, NEW s \in Seq(T)
    PROVE  Normal(s) \in Seq(T) /\ Kept(Normal(s), s, Len(s))
<1> DEFINE n == Len(s)
           G(x, i) == IF s[i].removed THEN x ELSE Append(x, s[i])
           P(f) == f = [i \in 0 .. n |-> IF i = 0 THEN <<>> ELSE G(f[i - 1], i)]
           F == [i \in 1 .. n |-> [x \in Seq(T) |-> G(x, i)]]
           kept == CHOOSE f : P(f)
<1>1. n \in Nat /\ \A i \in 1 .. n : s[i] \in T
  OBVIOUS
<1>2. \A x \in Seq(T), i \in 1 .. n : G(x, i) \in Seq(T)
  BY <1>1
<1>3. Normal(s) = kept[n]
  BY Zenon DEF Normal
<1>4. <<>> \in Seq(T)
  OBVIOUS
<1>40. \A i \in Nat, x \in Seq(T) : i + 1 \in 1 .. n /\ Kept(x, s, i) => Kept(G(x, i + 1), s, i + 1)
  BY KeptStep
<1> HIDE DEF G, n
<1>5. F \in [1 .. n -> [Seq(T) -> Seq(T)]]
  BY <1>2
<1>6. PICK f : Follows(f, Seq(T), n, <<>>, F)
  <2> HIDE DEF F
  <2> QED
    BY <1>1, <1>4, <1>5, Recursion
<1> f \in [0 .. n -> Seq(T)] /\ f[0] = <<>> /\ \A i \in 1 .. n : f[i] = F[i][f[i - 1]]
  BY <1>6 DEF Follows
<1>7. P(f)
  <2>1. \A i \in 1 .. n : f[i] = G(f[i - 1], i)
    <3> TAKE i \in 1 .. n
    <3>1. f[i - 1] \in Seq(T)
      BY <1>1
    <3> QED
      BY <3>1
  <2>2. \A i \in 0 .. n : f[i] = IF i = 0 THEN <<>> ELSE G(f[i - 1], i)
    BY <1>1, <2>1
  <2>3. f = [i \in 0 .. n |-> f[i]]
    BY <1>1
  <2> QED
    BY <2>2, <2>3
<1>8. P(kept)
  BY <1>7, Zenon
<1> HIDE DEF kept, F
<1>9. \A i \in 0 .. n : kept[i] = IF i = 0 THEN <<>> ELSE G(kept[i - 1], i)
  BY <1>8, Zenon
<1> DEFINE D == {i \in Nat : i <= n => kept[i] \in Seq(T) /\ Kept(kept[i], s, i)}
<1>10. 0 \in D
  <2>1. kept[0] = <<>>
    BY <1>1, <1>9
  <2>2. Kept(<<>>, s, 0)
    BY DEF Kept, NoneRemoved, Has, InOrder
  <2> QED
    BY <1>4, <2>1, <2>2
<1>11. ASSUME NEW i \in Nat, i \in D PROVE i + 1 \in D
  <2> SUFFICES ASSUME i + 1 <= n PROVE kept[i + 1] \in Seq(T) /\ Kept(kept[i + 1], s, i + 1)
    OBVIOUS
  <2>1. kept[i] \in Seq(T) /\ Kept(kept[i], s, i)
    BY <1>1, <1>11
  <2>2. i + 1 \in 1 .. n /\ i + 1 \in 0 .. n /\ (i + 1) - 1 = i
    BY <1>1
  <2>3. kept[i + 1] = G(kept[i], i + 1)
    BY <1>9, <2>2
  <2> HIDE DEF P
  <2> QED
    BY <1>2, <1>40, <2>1, <2>2, <2>3
<1> HIDE DEF D
<1>12. n \in D
  BY <1>1, <1>10, <1>11, Induction
<1> QED
  BY <1>1, <1>3, <1>12 DEF D, n

LEMMA NormalFacts ==
    ASSUME NEW T \in SUBSET Row, NEW s \in Seq(T)
    PROVE  /\ Normal(s) \in Seq(T) /\ NoneRemoved(Normal(s))
           /\ \A r \in Row : Has(Normal(s), r) <=> Has(s, r)
           /\ InOrder(s) => InOrder(Normal(s))
BY NormalKept DEF Kept, Has

\* Rows in the order of their ids that show the same show it in the same order.
LEMMA SameNormal ==
    ASSUME NEW s \in Seq(Row), NEW t \in Seq(Row), InOrder(s), InOrder(t), NoneRemoved(t),
           \A r \in Row : Has(s, r) <=> Has(t, r)
    PROVE  Normal(s) = t
<1>1. /\ Normal(s) \in Seq(Row) /\ NoneRemoved(Normal(s)) /\ InOrder(Normal(s))
      /\ \A r \in Row : Has(Normal(s), r) <=> Has(t, r)
  BY NormalFacts
<1> HIDE DEF Row
<1> QED
  BY <1>1, SameRows

-----------------------------------------------------------------------------
(* Concatenation.                                                          *)

LEMMA ConcatFacts ==
    ASSUME NEW T, NEW s \in Seq(T), NEW t \in Seq(T)
    PROVE  /\ s \o t \in Seq(T) /\ Len(s \o t) = Len(s) + Len(t)
           /\ Len(s) \in Nat /\ Len(t) \in Nat
           /\ \A i \in 1 .. Len(s) : (s \o t)[i] = s[i]
           /\ \A i \in 1 .. Len(t) : (s \o t)[Len(s) + i] = t[i]
<1>1. /\ s \o t \in Seq(T) /\ Len(s \o t) = Len(s) + Len(t)
      /\ Len(s) \in Nat /\ Len(t) \in Nat
      /\ \A i \in 1 .. Len(s) + Len(t) :
            (s \o t)[i] = IF i <= Len(s) THEN s[i] ELSE t[i - Len(s)]
  BY ConcatProperties
<1>2. ASSUME NEW i \in 1 .. Len(t) PROVE (s \o t)[Len(s) + i] = t[i]
  <2>1. /\ Len(s) + i \in 1 .. Len(s) + Len(t) /\ ~ (Len(s) + i <= Len(s))
        /\ (Len(s) + i) - Len(s) = i
    BY <1>1
  <2> QED
    BY <1>1, <2>1
<1>3. ASSUME NEW i \in 1 .. Len(s) PROVE (s \o t)[i] = s[i]
  <2>1. i \in 1 .. Len(s) + Len(t) /\ i <= Len(s)
    BY <1>1
  <2> QED
    BY <1>1, <2>1
<1> QED
  BY <1>1, <1>2, <1>3

\* Every place of s \o t is one of s or of t.
LEMMA ConcatPlaces ==
    ASSUME NEW T, NEW s \in Seq(T), NEW t \in Seq(T), NEW i \in 1 .. Len(s \o t)
    PROVE  \/ i \in 1 .. Len(s) /\ (s \o t)[i] = s[i]
           \/ /\ i - Len(s) \in 1 .. Len(t) /\ (s \o t)[i] = t[i - Len(s)]
              /\ ~ (i \in 1 .. Len(s))
<1> DEFINE u == s \o t
<1>1. /\ Len(u) = Len(s) + Len(t) /\ Len(s) \in Nat /\ Len(t) \in Nat
      /\ \A j \in 1 .. Len(s) : u[j] = s[j]
      /\ \A j \in 1 .. Len(t) : u[Len(s) + j] = t[j]
  BY ConcatFacts
<1> HIDE DEF u
<1>2. CASE i <= Len(s)
  BY <1>1, <1>2 DEF u
<1>3. CASE ~ (i <= Len(s))
  <2>1. i - Len(s) \in 1 .. Len(t) /\ Len(s) + (i - Len(s)) = i /\ ~ (i \in 1 .. Len(s))
    BY <1>1, <1>3 DEF u
  <2>2. u[Len(s) + (i - Len(s))] = t[i - Len(s)]
    BY <1>1, <2>1
  <2> QED
    BY <2>1, <2>2 DEF u
<1> QED
  BY <1>2, <1>3

LEMMA HasConcat ==
    ASSUME NEW T, NEW s \in Seq(T), NEW t \in Seq(T), NEW r
    PROVE  Has(s \o t, r) <=> Has(s, r) \/ Has(t, r)
<1> DEFINE u == s \o t
<1>1. /\ Len(u) = Len(s) + Len(t) /\ Len(s) \in Nat /\ Len(t) \in Nat
      /\ \A i \in 1 .. Len(s) : u[i] = s[i]
      /\ \A i \in 1 .. Len(t) : u[Len(s) + i] = t[i]
  BY ConcatFacts
<1>2. ASSUME Has(u, r) PROVE Has(s, r) \/ Has(t, r)
  <2>1. PICK i \in 1 .. Len(u) : u[i] = r
    BY <1>2 DEF Has
  <2>2. \/ i \in 1 .. Len(s) /\ u[i] = s[i]
        \/ i - Len(s) \in 1 .. Len(t) /\ u[i] = t[i - Len(s)]
    BY ConcatPlaces
  <2> HIDE DEF u
  <2> QED
    BY <1>2, <2>1, <2>2 DEF Has
<1> HIDE DEF u
<1>3. ASSUME Has(s, r) PROVE Has(u, r)
  <2>1. PICK i \in 1 .. Len(s) : s[i] = r
    BY <1>3 DEF Has
  <2>2. i \in 1 .. Len(u) /\ u[i] = r
    BY <1>1, <2>1
  <2> QED
    BY <1>3, <2>2 DEF Has
<1>4. ASSUME Has(t, r) PROVE Has(u, r)
  <2>1. PICK i \in 1 .. Len(t) : t[i] = r
    BY <1>4 DEF Has
  <2>2. Len(s) + i \in 1 .. Len(u) /\ u[Len(s) + i] = r
    BY <1>1, <2>1
  <2> QED
    BY <1>4, <2>2 DEF Has
<1> QED
  BY <1>2, <1>3, <1>4 DEF u

LEMMA OrderConcat ==
    ASSUME NEW T, NEW s \in Seq(T), NEW t \in Seq(T), InOrder(s), InOrder(t),
           \A i \in 1 .. Len(s), j \in 1 .. Len(t) : s[i].id < t[j].id
    PROVE  InOrder(s \o t)
<1> DEFINE u == s \o t
<1>1. /\ Len(u) = Len(s) + Len(t) /\ Len(s) \in Nat /\ Len(t) \in Nat
  BY ConcatFacts
<1> SUFFICES ASSUME NEW i \in 1 .. Len(u), NEW j \in 1 .. Len(u), i < j
             PROVE  u[i].id < u[j].id
  BY DEF InOrder
<1>2. \/ i \in 1 .. Len(s) /\ u[i] = s[i]
      \/ i - Len(s) \in 1 .. Len(t) /\ u[i] = t[i - Len(s)] /\ ~ (i \in 1 .. Len(s))
  BY ConcatPlaces
<1>3. \/ j \in 1 .. Len(s) /\ u[j] = s[j]
      \/ j - Len(s) \in 1 .. Len(t) /\ u[j] = t[j - Len(s)] /\ ~ (j \in 1 .. Len(s))
  BY ConcatPlaces
<1> HIDE DEF u
<1>4. CASE i \in 1 .. Len(s) /\ j \in 1 .. Len(s)
  BY <1>2, <1>3, <1>4 DEF InOrder
<1>5. CASE i \in 1 .. Len(s) /\ ~ (j \in 1 .. Len(s))
  BY <1>2, <1>3, <1>5
<1>6. CASE ~ (i \in 1 .. Len(s))
  <2>1. ~ (j \in 1 .. Len(s))
    BY <1>1, <1>6
  <2>2. i - Len(s) < j - Len(s)
    BY <1>1
  <2> QED
    BY <1>2, <1>3, <1>6, <2>1, <2>2 DEF InOrder
<1> QED
  BY <1>4, <1>5, <1>6

-----------------------------------------------------------------------------
(* Sorting by id.                                                          *)

\* p puts the first m rows in the order of their ids.
Sorts(p, s, m) ==
    /\ p \in [1 .. m -> 1 .. m]
    /\ \A i, j \in 1 .. m : p[i] = p[j] => i = j
    /\ \A x \in 1 .. m : \E i \in 1 .. m : p[i] = x
    /\ \A i, j \in 1 .. m : i < j => s[p[i]].id <= s[p[j]].id

LEMMA SortsStep ==
    ASSUME NEW s \in Seq(Row), NEW m \in Nat, m + 1 \in 1 .. Len(s), NEW p, Sorts(p, s, m)
    PROVE  \E q : Sorts(q, s, m + 1)
<1> DEFINE e == s[m + 1].id
           B == {i \in 1 .. m : s[p[i]].id > e}
<1>0. \A i \in 1 .. Len(s) : s[i].id \in Nat
  <2> TAKE i \in 1 .. Len(s)
  <2>1. s[i] \in Row
    OBVIOUS
  <2> QED
    BY <2>1 DEF Row
<1>01. e \in Nat /\ \A i \in 1 .. m : p[i] \in 1 .. m /\ s[p[i]].id \in Nat
  <2>1. \A i \in 1 .. m : p[i] \in 1 .. m
    BY DEF Sorts
  <2>2. \A i \in 1 .. m : i \in 1 .. Len(s)
    OBVIOUS
  <2> QED
    BY <1>0, <2>1, <2>2
<1>1. PICK c \in 0 .. m : /\ \A i \in 1 .. m : i <= c => s[p[i]].id <= e
                          /\ \A i \in 1 .. m : i > c => s[p[i]].id > e
  <2>1. CASE B = {}
    <3>1. \A i \in 1 .. m : s[p[i]].id <= e
      BY <1>01, <2>1
    <3>2. m \in 0 .. m /\ \A i \in 1 .. m : ~ (i > m)
      OBVIOUS
    <3> HIDE DEF e
    <3> QED
      BY <3>1, <3>2
  <2>2. CASE B # {}
    <3>1. B \in SUBSET Nat
      OBVIOUS
    <3>2. PICK b \in B : \A i \in B : b <= i
      <4> HIDE DEF B
      <4> QED
        BY <2>2, <3>1, LeastNumber
    <3>3. \A i \in 1 .. m : i <= b - 1 => s[p[i]].id <= e
      <4> TAKE i \in 1 .. m
      <4>1. i \in B => b <= i
        BY <3>2
      <4> QED
        BY <1>01, <3>2, <4>1
    <3>4. \A i \in 1 .. m : i > b - 1 => s[p[i]].id > e
      <4> TAKE i \in 1 .. m
      <4>1. CASE i = b
        BY <3>2, <4>1
      <4>2. CASE i > b
        <5>1. s[p[b]].id <= s[p[i]].id
          BY <3>2, <4>2 DEF Sorts
        <5> QED
          BY <1>01, <3>2, <5>1
      <4> QED
        BY <3>2, <4>1, <4>2
    <3>5. b - 1 \in 0 .. m
      BY <3>2
    <3> QED
      BY <3>3, <3>4, <3>5
  <2> QED
    BY <2>1, <2>2
<1> HIDE DEF B, e
<1> DEFINE q == [i \in 1 .. m + 1 |-> IF i <= c THEN p[i] ELSE IF i = c + 1 THEN m + 1 ELSE p[i - 1]]
<1>2. ASSUME NEW i \in 1 .. m + 1
      PROVE  \/ i <= c /\ i \in 1 .. m /\ q[i] = p[i]
             \/ i = c + 1 /\ q[i] = m + 1
             \/ i > c + 1 /\ i - 1 \in 1 .. m /\ q[i] = p[i - 1]
  OBVIOUS
<1>3. ASSUME NEW x \in 1 .. m + 1 PROVE \E i \in 1 .. m + 1 : q[i] = x
  <2>1. CASE x = m + 1
    <3>1. c + 1 \in 1 .. m + 1 /\ q[c + 1] = x
      BY <2>1
    <3> QED
      BY <3>1
  <2>2. CASE x \in 1 .. m
    <3>1. PICK i \in 1 .. m : p[i] = x
      BY <2>2 DEF Sorts
    <3>2. CASE i <= c
      <4>1. i \in 1 .. m + 1 /\ q[i] = x
        BY <3>1, <3>2
      <4> QED
        BY <4>1
    <3>3. CASE i > c
      <4>1. i + 1 \in 1 .. m + 1 /\ ~ (i + 1 <= c) /\ i + 1 # c + 1 /\ (i + 1) - 1 = i
        BY <3>3
      <4>2. q[i + 1] = x
        BY <3>1, <4>1
      <4> QED
        BY <4>1, <4>2
    <3> QED
      BY <3>2, <3>3
  <2> QED
    BY <2>1, <2>2
<1>4. q \in [1 .. m + 1 -> 1 .. m + 1]
  <2>1. \A i \in 1 .. m : p[i] \in 1 .. m + 1
    BY <1>01
  <2> QED
    BY <2>1
<1> HIDE DEF q
<1>5. ASSUME NEW i \in 1 .. m + 1, NEW j \in 1 .. m + 1, q[i] = q[j] PROVE i = j
  <2>1. \A a, b \in 1 .. m : p[a] = p[b] => a = b
    BY DEF Sorts
  <2>2. \A a \in 1 .. m : p[a] \in 1 .. m /\ p[a] # m + 1
    BY <1>01
  <2>3. \/ i <= c /\ i \in 1 .. m /\ q[i] = p[i]
        \/ i = c + 1 /\ q[i] = m + 1
        \/ i > c + 1 /\ i - 1 \in 1 .. m /\ q[i] = p[i - 1]
    BY <1>2
  <2>4. \/ j <= c /\ j \in 1 .. m /\ q[j] = p[j]
        \/ j = c + 1 /\ q[j] = m + 1
        \/ j > c + 1 /\ j - 1 \in 1 .. m /\ q[j] = p[j - 1]
    BY <1>2
  <2> QED
    BY <1>5, <2>1, <2>2, <2>3, <2>4
<1>6. ASSUME NEW i \in 1 .. m + 1, NEW j \in 1 .. m + 1, i < j
      PROVE  s[q[i]].id <= s[q[j]].id
  <2>1. \A a, b \in 1 .. m : a < b => s[p[a]].id <= s[p[b]].id
    BY DEF Sorts
  <2>2. \/ i <= c /\ i \in 1 .. m /\ q[i] = p[i]
        \/ i = c + 1 /\ q[i] = m + 1
        \/ i > c + 1 /\ i - 1 \in 1 .. m /\ q[i] = p[i - 1]
    BY <1>2
  <2>3. \/ j <= c /\ j \in 1 .. m /\ q[j] = p[j]
        \/ j = c + 1 /\ q[j] = m + 1
        \/ j > c + 1 /\ j - 1 \in 1 .. m /\ q[j] = p[j - 1]
    BY <1>2
  <2>4. CASE i = c + 1
    <3>1. s[q[i]].id = e
      BY <2>2, <2>4 DEF e
    <3>2. j - 1 \in 1 .. m /\ q[j] = p[j - 1] /\ j - 1 > c
      BY <1>6, <2>3, <2>4
    <3> QED
      BY <1>01, <1>1, <3>1, <3>2
  <2>5. CASE j = c + 1
    <3>1. s[q[j]].id = e
      BY <2>3, <2>5 DEF e
    <3>2. i \in 1 .. m /\ q[i] = p[i] /\ i <= c
      BY <1>6, <2>2, <2>5
    <3> QED
      BY <1>1, <3>1, <3>2
  <2>6. CASE i # c + 1 /\ j # c + 1
    <3>1. CASE i <= c /\ j <= c
      BY <1>6, <2>1, <2>2, <2>3, <3>1
    <3>2. CASE i <= c /\ j > c + 1
      <4>1. i \in 1 .. m /\ j - 1 \in 1 .. m /\ i < j - 1 /\ q[i] = p[i] /\ q[j] = p[j - 1]
        BY <1>6, <2>2, <2>3, <3>2
      <4> QED
        BY <2>1, <4>1
    <3>3. CASE i > c + 1 /\ j > c + 1
      <4>1. i - 1 \in 1 .. m /\ j - 1 \in 1 .. m /\ i - 1 < j - 1 /\ q[i] = p[i - 1] /\ q[j] = p[j - 1]
        BY <1>6, <2>2, <2>3, <3>3
      <4> QED
        BY <2>1, <4>1
    <3> QED
      BY <1>6, <2>6, <3>1, <3>2, <3>3
  <2> QED
    BY <2>4, <2>5, <2>6
<1>7. Sorts(q, s, m + 1)
  BY <1>3, <1>4, <1>5, <1>6 DEF Sorts
<1> QED
  BY <1>7

LEMMA SortExists ==
    ASSUME NEW s \in Seq(Row)
    PROVE  \E p : Sorts(p, s, Len(s))
<1> DEFINE D == {m \in Nat : m <= Len(s) => \E p : Sorts(p, s, m)}
<1>1. 0 \in D
  <2> DEFINE p == [i \in 1 .. 0 |-> i]
  <2>1. Sorts(p, s, 0)
    BY DEF Sorts
  <2> QED
    BY <2>1
<1>2. ASSUME NEW m \in Nat, m \in D PROVE m + 1 \in D
  <2> SUFFICES ASSUME m + 1 <= Len(s) PROVE \E p : Sorts(p, s, m + 1)
    OBVIOUS
  <2>1. m <= Len(s) /\ m + 1 \in 1 .. Len(s)
    OBVIOUS
  <2>2. PICK p : Sorts(p, s, m)
    BY <1>2, <2>1
  <2> QED
    BY <2>1, <2>2, SortsStep
<1>3. Len(s) \in Nat
  OBVIOUS
<1> HIDE DEF D
<1>4. Len(s) \in D
  BY <1>1, <1>2, <1>3, Induction
<1> QED
  BY <1>4 DEF D

LEMMA ByIdFacts ==
    ASSUME NEW T \in SUBSET Row, NEW s \in Seq(T)
    PROVE  /\ ById(s) \in Seq(T) /\ Len(ById(s)) = Len(s)
           /\ \A r : Has(ById(s), r) <=> Has(s, r)
           /\ (\A i, j \in 1 .. Len(s) : s[i].id = s[j].id => i = j) => InOrder(ById(s))
<1> DEFINE n == Len(s)
           S == Bijection(DOMAIN s, DOMAIN s)
           P(p) == \A i, j \in DOMAIN s : i < j => s[p[i]].id <= s[p[j]].id
           order == CHOOSE p \in S : P(p)
           t == ById(s)
<1>1. n \in Nat /\ DOMAIN s = 1 .. n /\ s \in Seq(Row) /\ \A i \in 1 .. n : s[i] \in T
  OBVIOUS
<1>2. t = [i \in 1 .. n |-> s[order[i]]]
  BY <1>1, Zenon DEF ById
<1>3. order \in S /\ P(order)
  <2>1. PICK p : Sorts(p, s, n)
    BY <1>1, SortExists
  <2>2. p \in S
    BY <1>1, <2>1 DEF Sorts, Bijection, Injection, Surjection, IsInjective
  <2>3. P(p)
    BY <1>1, <2>1 DEF Sorts
  <2> QED
    BY <2>2, <2>3, Zenon
<1> HIDE DEF order, t
<1>4. /\ \A i \in 1 .. n : order[i] \in 1 .. n
      /\ \A i, j \in 1 .. n : order[i] = order[j] => i = j
      /\ \A x \in 1 .. n : \E i \in 1 .. n : order[i] = x
  BY <1>1, <1>3 DEF Bijection, Injection, Surjection, IsInjective
<1>5. t \in Seq(T) /\ Len(t) = n
  <2>1. \A i \in 1 .. n : s[order[i]] \in T
    BY <1>1, <1>4
  <2>2. t \in [1 .. n -> T]
    BY <1>2, <2>1
  <2> QED
    BY <1>1, <2>2
<1>50. \A i \in 1 .. n : t[i] = s[order[i]]
  BY <1>2
<1> HIDE DEF n
<1>6. ASSUME NEW r PROVE Has(t, r) <=> Has(s, r)
  <2>1. ASSUME NEW i \in 1 .. n, t[i] = r PROVE \E j \in 1 .. n : s[j] = r
    BY <1>4, <1>50, <2>1
  <2>2. ASSUME NEW j \in 1 .. n, s[j] = r PROVE \E i \in 1 .. n : t[i] = r
    <3>1. PICK i \in 1 .. n : order[i] = j
      BY <1>4
    <3>2. t[i] = r
      BY <1>50, <2>2, <3>1
    <3> QED
      BY <3>2
  <2> QED
    BY <1>5, <2>1, <2>2 DEF Has, n
<1>7. ASSUME \A i, j \in 1 .. n : s[i].id = s[j].id => i = j
      PROVE  InOrder(t)
  <2> SUFFICES ASSUME NEW i \in 1 .. n, NEW j \in 1 .. n, i < j
               PROVE  t[i].id < t[j].id
    BY <1>5 DEF InOrder
  <2>1. t[i] = s[order[i]] /\ t[j] = s[order[j]] /\ order[i] \in 1 .. n /\ order[j] \in 1 .. n
    BY <1>4, <1>50
  <2>2. s[order[i]].id <= s[order[j]].id
    BY <1>1, <1>3
  <2>3. order[i] # order[j]
    BY <1>1, <1>4
  <2>4. s[order[i]].id # s[order[j]].id
    BY <1>7, <2>1, <2>3
  <2>5. s[order[i]] \in Row /\ s[order[j]] \in Row
    BY <1>1, <2>1
  <2>6. s[order[i]].id \in Nat /\ s[order[j]].id \in Nat
    BY <2>5 DEF Row
  <2> QED
    BY <2>1, <2>2, <2>4, <2>6
<1> QED
  BY <1>5, <1>6, <1>7 DEF t, n

-----------------------------------------------------------------------------
(* What a block writes to a key.                                           *)

Cache == [rows : Seq(Row), num : Nat, empty : BOOLEAN]
New == [row : Row, force : BOOLEAN]
Writes == [dirty : Seq(Row), obj : Obj \cup {NoObj}, len : Nat, but : Nat, new : Seq(New)]

News(d) == [i \in DOMAIN d.new |-> d.new[i].row]

Below(s, n) == \A i \in 1 .. Len(s) : s[i].id <= n

\* The dirty rows are older than lo, the new ones have ids after lo up to hi.
Within(d, lo, hi) ==
    /\ Below(d.dirty, lo)
    /\ \A i \in 1 .. Len(d.new) : lo < d.new[i].row.id /\ d.new[i].row.id <= hi
    /\ \A i, j \in 1 .. Len(d.new) : i < j => d.new[i].row.id < d.new[j].row.id
    /\ d.dirty = <<>> <=> d.obj = NoObj

\* The first len rows of cache object c are the ones up to id lo, and c is at block n or later.
Points(c, d, lo, n) ==
    /\ ~ c.empty /\ c.num >= n
    /\ d.but \in 1 .. d.len /\ d.len <= Len(c.rows)
    /\ \A i \in 1 .. Len(c.rows) : i <= d.len <=> c.rows[i].id <= lo

InDirty(d, x) == \E i \in 1 .. Len(d.dirty) : d.dirty[i].id = x

HasId(s, x) == \E i \in 1 .. Len(s) : s[i].id = x

\* Rows s after writes d show r.
Shows(s, d, r) ==
    \/ Has(s, r) /\ ~ InDirty(d, r.id)
    \/ Has(d.dirty, r)
    \/ Has(News(d), r)

LEMMA RowFacts ==
    ASSUME NEW s \in Seq(Row)
    PROVE  /\ Len(s) \in Nat /\ DOMAIN s = 1 .. Len(s)
           /\ \A i \in 1 .. Len(s) : /\ s[i] \in Row /\ s[i].id \in Nat /\ s[i].id > 0
                                     /\ s[i].val \in Value /\ s[i].removed \in BOOLEAN
<1>1. Len(s) \in Nat /\ DOMAIN s = 1 .. Len(s) /\ \A i \in 1 .. Len(s) : s[i] \in Row
  OBVIOUS
<1> QED
  BY <1>1 DEF Row

LEMMA WritesFacts ==
    ASSUME NEW d \in Writes
    PROVE  /\ d.dirty \in Seq(Row) /\ d.obj \in Obj \cup {NoObj} /\ d.len \in Nat /\ d.but \in Nat
           /\ d.new \in Seq(New) /\ DOMAIN d.new = 1 .. Len(d.new) /\ Len(d.new) \in Nat
           /\ \A i \in 1 .. Len(d.new) : /\ d.new[i].row \in Row /\ d.new[i].force \in BOOLEAN
                                         /\ d.new[i].row.id \in Nat /\ d.new[i].row.id > 0
<1>1. /\ d.dirty \in Seq(Row) /\ d.obj \in Obj \cup {NoObj} /\ d.len \in Nat /\ d.but \in Nat
      /\ d.new \in Seq(New)
  BY DEF Writes
<1>2. DOMAIN d.new = 1 .. Len(d.new) /\ Len(d.new) \in Nat
  BY <1>1
<1>3. \A i \in 1 .. Len(d.new) : d.new[i] \in New
  BY <1>1
<1>4. \A i \in 1 .. Len(d.new) : d.new[i].row \in Row /\ d.new[i].force \in BOOLEAN
  BY <1>3 DEF New
<1> QED
  BY <1>1, <1>2, <1>4 DEF Row

LEMMA NewsFacts ==
    ASSUME NEW d \in Writes
    PROVE  /\ News(d) \in Seq(Row) /\ Len(News(d)) = Len(d.new)
           /\ \A i \in 1 .. Len(d.new) : News(d)[i] = d.new[i].row
<1> DEFINE u == d.new
<1>1. DOMAIN u = 1 .. Len(u) /\ Len(u) \in Nat /\ \A i \in 1 .. Len(u) : u[i].row \in Row
  BY WritesFacts
<1>2. News(d) = [i \in 1 .. Len(u) |-> u[i].row]
  BY <1>1 DEF News
<1> HIDE DEF u
<1>3. News(d) \in [1 .. Len(u) -> Row]
  BY <1>1, <1>2
<1> QED
  BY <1>1, <1>2, <1>3 DEF u

LEMMA NewsOrder ==
    ASSUME NEW d \in Writes, NEW lo, NEW hi, Within(d, lo, hi)
    PROVE  InOrder(News(d)) /\ Below(News(d), hi) /\ \A i \in 1 .. Len(News(d)) : lo < News(d)[i].id
BY NewsFacts DEF InOrder, Below, Within

LEMMA BelowMore ==
    ASSUME NEW s \in Seq(Row), NEW m \in Nat, NEW n \in Nat, m <= n, Below(s, m)
    PROVE  Below(s, n)
BY RowFacts DEF Below

LEMMA BelowConcat ==
    ASSUME NEW s \in Seq(Row), NEW t \in Seq(Row), NEW n, Below(s, n), Below(t, n)
    PROVE  Below(s \o t, n)
<1> SUFFICES ASSUME NEW i \in 1 .. Len(s \o t)
             PROVE  (s \o t)[i].id <= n
  BY DEF Below
<1>1. \/ i \in 1 .. Len(s) /\ (s \o t)[i] = s[i]
      \/ i - Len(s) \in 1 .. Len(t) /\ (s \o t)[i] = t[i - Len(s)]
  BY ConcatPlaces
<1> QED
  BY <1>1 DEF Below

\* In rows in the order of their ids an id comes once.
LEMMA OnceInOrder ==
    ASSUME NEW s \in Seq(Row), InOrder(s), NEW i \in 1 .. Len(s), NEW j \in 1 .. Len(s),
           s[i].id = s[j].id
    PROVE  i = j
<1>1. s[i].id \in Nat /\ s[j].id \in Nat
  BY RowFacts
<1>2. ~ (i < j) /\ ~ (j < i)
  BY <1>1 DEF InOrder
<1> QED
  BY <1>2

\* The rows of the block before, each replaced by the copy the block made of it.
Updated(s, d) ==
    LET copy(r) == CHOOSE i \in DOMAIN d.dirty : d.dirty[i].id = r.id
        replaced(r) == IF r.id \in Ids(d.dirty) THEN d.dirty[copy(r)] ELSE r
    IN  [i \in DOMAIN s |-> replaced(s[i])]

LEMMA UpdatedFacts ==
    ASSUME NEW s \in Seq(Row), NEW d \in Writes
    PROVE  /\ Updated(s, d) \in Seq(Row) /\ Len(Updated(s, d)) = Len(s)
           /\ \A i \in 1 .. Len(s) :
                 /\ Updated(s, d)[i].id = s[i].id
                 /\ ~ InDirty(d, s[i].id) => Updated(s, d)[i] = s[i]
                 /\ InDirty(d, s[i].id) =>
                        \E j \in 1 .. Len(d.dirty) : /\ d.dirty[j].id = s[i].id
                                                     /\ Updated(s, d)[i] = d.dirty[j]
<1> DEFINE u == d.dirty
           copy(r) == CHOOSE i \in DOMAIN u : u[i].id = r.id
           replaced(r) == IF r.id \in Ids(u) THEN u[copy(r)] ELSE r
           t == Updated(s, d)
<1>1. u \in Seq(Row) /\ DOMAIN u = 1 .. Len(u) /\ DOMAIN s = 1 .. Len(s) /\ Len(s) \in Nat
  BY WritesFacts
<1>2. t = [i \in 1 .. Len(s) |-> replaced(s[i])]
  BY <1>1 DEF Updated
<1>3. \A x : x \in Ids(u) <=> InDirty(d, x)
  BY <1>1 DEF Ids, InDirty
<1>4. ASSUME NEW r \in Row
      PROVE  /\ replaced(r) \in Row /\ replaced(r).id = r.id
             /\ ~ InDirty(d, r.id) => replaced(r) = r
             /\ InDirty(d, r.id) => \E j \in 1 .. Len(u) : u[j].id = r.id /\ replaced(r) = u[j]
  <2>1. CASE InDirty(d, r.id)
    <3>1. \E j \in DOMAIN u : u[j].id = r.id
      BY <1>1, <2>1 DEF InDirty
    <3>2. copy(r) \in DOMAIN u /\ u[copy(r)].id = r.id
      BY <3>1, Zenon
    <3>3. replaced(r) = u[copy(r)]
      BY <1>3, <2>1
    <3> HIDE DEF replaced, copy, u
    <3>4. u[copy(r)] \in Row
      BY <1>1, <3>2
    <3> QED
      BY <1>1, <2>1, <3>2, <3>3, <3>4
  <2>2. CASE ~ InDirty(d, r.id)
    BY <1>3, <2>2
  <2> QED
    BY <2>1, <2>2
<1> HIDE DEF u, replaced, copy, t
<1>5. \A i \in 1 .. Len(s) : s[i] \in Row /\ t[i] = replaced(s[i])
  BY <1>2
<1>6. t \in [1 .. Len(s) -> Row]
  BY <1>2, <1>4, <1>5
<1>7. t \in Seq(Row) /\ Len(t) = Len(s)
  BY <1>1, <1>6
<1> QED
  BY <1>4, <1>5, <1>7 DEF t, u

LEMMA AfterIs == ASSUME NEW s, NEW d PROVE After(s, d) = Updated(s, d) \o News(d)
BY DEF After, Updated, News

LEMMA AfterFacts ==
    ASSUME NEW s \in Seq(Row), NEW d \in Writes, NEW lo \in Nat, NEW hi \in Nat, lo <= hi,
           InOrder(s), Below(s, lo), Within(d, lo, hi)
    PROVE  /\ After(s, d) \in Seq(Row) /\ InOrder(After(s, d)) /\ Below(After(s, d), hi)
<1> DEFINE t == Updated(s, d)
           v == News(d)
<1>1. t \in Seq(Row) /\ Len(t) = Len(s) /\ \A i \in 1 .. Len(s) : t[i].id = s[i].id
  BY UpdatedFacts
<1>2. v \in Seq(Row) /\ InOrder(v) /\ Below(v, hi) /\ \A i \in 1 .. Len(v) : lo < v[i].id
  BY NewsFacts, NewsOrder
<1> HIDE DEF t, v
<1>3. InOrder(t) /\ Below(t, lo)
  BY <1>1 DEF InOrder, Below
<1>4. \A i \in 1 .. Len(t), j \in 1 .. Len(v) : t[i].id < v[j].id
  BY <1>1, <1>2, <1>3, RowFacts DEF Below
<1>5. t \o v \in Seq(Row)
  BY <1>1, <1>2, ConcatFacts
<1>6. InOrder(t \o v)
  BY <1>1, <1>2, <1>3, <1>4, OrderConcat
<1>7. Below(t \o v, hi)
  BY <1>1, <1>2, <1>3, BelowMore, BelowConcat
<1> QED
  BY <1>5, <1>6, <1>7, AfterIs DEF t, v

LEMMA AfterHas ==
    ASSUME NEW s \in Seq(Row), NEW d \in Writes, InOrder(s), Len(d.dirty) <= 1,
           \A x : InDirty(d, x) => HasId(s, x), NEW r \in Row
    PROVE  Has(After(s, d), r) <=> Shows(s, d, r)
<1> DEFINE t == Updated(s, d)
           v == News(d)
           u == d.dirty
<1>1. /\ t \in Seq(Row) /\ Len(t) = Len(s)
      /\ \A i \in 1 .. Len(s) :
            /\ t[i].id = s[i].id
            /\ ~ InDirty(d, s[i].id) => t[i] = s[i]
            /\ InDirty(d, s[i].id) => \E j \in 1 .. Len(u) : u[j].id = s[i].id /\ t[i] = u[j]
  BY UpdatedFacts
<1>2. v \in Seq(Row) /\ u \in Seq(Row)
  BY NewsFacts, WritesFacts
<1>3. Has(After(s, d), r) <=> Has(t, r) \/ Has(v, r)
  <2> HIDE DEF t, v
  <2>1. Has(t \o v, r) <=> Has(t, r) \/ Has(v, r)
    BY <1>1, <1>2, HasConcat
  <2> QED
    BY <2>1, AfterIs DEF t, v
<1> HIDE DEF t, v
<1>4. ASSUME Has(t, r) PROVE (Has(s, r) /\ ~ InDirty(d, r.id)) \/ Has(u, r)
  <2>1. PICK i \in 1 .. Len(s) : t[i] = r
    BY <1>1, <1>4 DEF Has
  <2>2. r.id = s[i].id
    BY <1>1, <2>1
  <2>3. CASE InDirty(d, r.id)
    <3>1. \E j \in 1 .. Len(u) : u[j] = r
      BY <1>1, <2>1, <2>2, <2>3
    <3> QED
      BY <1>4, <3>1 DEF Has
  <2>4. CASE ~ InDirty(d, r.id)
    BY <1>1, <1>4, <2>1, <2>2, <2>4 DEF Has
  <2> QED
    BY <2>3, <2>4
<1>5. ASSUME Has(s, r), ~ InDirty(d, r.id) PROVE Has(t, r)
  BY <1>1, <1>5 DEF Has
<1>6. ASSUME Has(u, r) PROVE Has(t, r)
  <2>1. PICK j \in 1 .. Len(u) : u[j] = r
    BY <1>6 DEF Has
  <2>2. InDirty(d, r.id)
    BY <2>1 DEF InDirty
  <2>3. PICK i \in 1 .. Len(s) : s[i].id = r.id
    BY <2>2 DEF HasId
  <2>4. PICK l \in 1 .. Len(u) : u[l].id = s[i].id /\ t[i] = u[l]
    BY <1>1, <2>2, <2>3
  <2>5. Len(u) \in Nat /\ Len(u) <= 1
    BY <1>2
  <2>6. l = j
    BY <2>5
  <2> QED
    BY <1>1, <1>6, <2>1, <2>4, <2>6 DEF Has
<1> QED
  BY <1>3, <1>4, <1>5, <1>6 DEF Shows, v

-----------------------------------------------------------------------------
(* What the flush thread writes.                                           *)

Others(c, d) == [i \in 1 .. d.len - 1 |-> c.rows[IF i < d.but THEN i ELSE i + 1]]

LEMMA OthersFacts ==
    ASSUME NEW c \in Cache, NEW d \in Writes, NEW lo, NEW n, Points(c, d, lo, n)
    PROVE  /\ Others(c, d) \in Seq(Row) /\ Below(Others(c, d), lo)
           /\ \A i \in 1 .. Len(Others(c, d)) :
                 LET j == IF i < d.but THEN i ELSE i + 1
                 IN  j \in 1 .. d.len /\ j # d.but /\ Others(c, d)[i] = c.rows[j]
           /\ \A j \in 1 .. d.len : j # d.but =>
                 \E i \in 1 .. Len(Others(c, d)) : Others(c, d)[i] = c.rows[j]
<1> DEFINE s == c.rows
           m == d.len
           b == d.but
           p(i) == IF i < b THEN i ELSE i + 1
           o == Others(c, d)
<1>1. s \in Seq(Row)
  BY DEF Cache
<1>2. m \in Nat /\ b \in 1 .. m /\ m <= Len(s) /\ Len(s) \in Nat
  BY <1>1, WritesFacts DEF Points
<1>3. o = [i \in 1 .. m - 1 |-> s[p(i)]]
  BY DEF Others
<1>4. \A i \in 1 .. m : s[i] \in Row /\ s[i].id <= lo
  BY <1>1, <1>2 DEF Points
<1> HIDE DEF s, m, b, o
<1>5. \A i \in 1 .. m - 1 : p(i) \in 1 .. m /\ p(i) # b
  BY <1>2
<1>6. o \in [1 .. m - 1 -> Row]
  BY <1>3, <1>4, <1>5
<1>7. m - 1 \in Nat
  BY <1>2
<1>8. o \in Seq(Row) /\ Len(o) = m - 1
  BY <1>6, <1>7
<1>9. \A i \in 1 .. Len(o) : p(i) \in 1 .. m /\ p(i) # b /\ o[i] = s[p(i)]
  BY <1>3, <1>5, <1>8
<1>10. Below(o, lo)
  BY <1>4, <1>9 DEF Below
<1>11. ASSUME NEW j \in 1 .. m, j # b PROVE \E i \in 1 .. Len(o) : o[i] = s[j]
  <2>1. CASE j < b
    <3>1. j \in 1 .. Len(o) /\ p(j) = j
      BY <1>2, <1>8, <2>1
    <3> QED
      BY <1>9, <3>1
  <2>2. CASE j > b
    <3>1. j - 1 \in 1 .. Len(o) /\ p(j - 1) = j
      BY <1>2, <1>8, <2>2
    <3> QED
      BY <1>9, <3>1
  <2> QED
    BY <1>2, <1>11, <2>1, <2>2
<1> QED
  BY <1>8, <1>9, <1>10, <1>11 DEF s, m, b, o

LEMMA FlushDirty ==
    ASSUME NEW c \in Cache, NEW d \in Writes, NEW lo \in Nat, NEW n,
           Points(c, d, lo, n), Below(d.dirty, lo)
    PROVE  LET s == ById(d.dirty \o Others(c, d))
           IN  s \in Seq(Row) /\ Below(s, lo)
<1> DEFINE u == d.dirty
           o == Others(c, d)
           t == u \o o
           s == ById(t)
           T == {r \in Row : r.id <= lo}
<1>1. u \in Seq(Row) /\ o \in Seq(Row) /\ Below(o, lo)
  BY WritesFacts, OthersFacts
<1> HIDE DEF o
<1>2. t \in Seq(Row) /\ Below(t, lo)
  BY <1>1, ConcatFacts, BelowConcat
<1> HIDE DEF t
<1>3. t \in Seq(T)
  <2>1. \A i \in 1 .. Len(t) : t[i] \in T
    BY <1>2 DEF Below
  <2>2. t \in [1 .. Len(t) -> T] /\ Len(t) \in Nat
    BY <1>2, <2>1
  <2> QED
    BY <2>2
<1>4. T \in SUBSET Row
  OBVIOUS
<1> HIDE DEF T, s
<1>5. s \in Seq(T)
  BY <1>3, <1>4, ByIdFacts DEF s
<1>6. \A i \in 1 .. Len(s) : s[i] \in T
  BY <1>5
<1>7. s \in Seq(Row)
  BY <1>4, <1>5
<1>8. Below(s, lo)
  BY <1>6 DEF Below, T
<1> QED
  BY <1>7, <1>8 DEF s, t, o

\* One row changed: the store gets it and the others of the object up to lo.
LEMMA FlushOne ==
    ASSUME NEW c \in Cache, NEW d \in Writes, NEW lo \in Nat, NEW n,
           Points(c, d, lo, n), Below(d.dirty, lo), InOrder(c.rows), Len(d.dirty) = 1,
           d.dirty[1].id = c.rows[d.but].id
    PROVE  LET s == ById(d.dirty \o Others(c, d))
           IN  /\ InOrder(s)
               /\ \A r \in Row : Has(s, r) <=>
                     \/ Has(d.dirty, r)
                     \/ Has(c.rows, r) /\ r.id # d.dirty[1].id /\ r.id <= lo
<1> DEFINE u == d.dirty
           o == Others(c, d)
           t == u \o o
           q == c.rows
           s == ById(t)
<1>1. u \in Seq(Row) /\ o \in Seq(Row) /\ q \in Seq(Row)
  BY WritesFacts, OthersFacts DEF Cache
<1>2. /\ d.len \in Nat /\ d.but \in 1 .. d.len /\ d.len <= Len(q) /\ Len(q) \in Nat
      /\ \A i \in 1 .. Len(q) : i <= d.len <=> q[i].id <= lo
  BY <1>1, WritesFacts DEF Points
<1>3. /\ \A i \in 1 .. Len(o) :
            LET j == IF i < d.but THEN i ELSE i + 1
            IN  j \in 1 .. d.len /\ j # d.but /\ o[i] = q[j]
      /\ \A j \in 1 .. d.len : j # d.but => \E i \in 1 .. Len(o) : o[i] = q[j]
  BY OthersFacts
<1> HIDE DEF o
<1>4. t \in Seq(Row) /\ Len(t) = 1 + Len(o) /\ Len(o) \in Nat /\ t[1] = u[1]
      /\ \A i \in 1 .. Len(o) : t[1 + i] = o[i]
  <2>1. Len(u) = 1 /\ 1 \in 1 .. Len(u)
    OBVIOUS
  <2> HIDE DEF u, t
  <2>2. /\ u \o o \in Seq(Row) /\ Len(u \o o) = Len(u) + Len(o) /\ Len(o) \in Nat
        /\ \A i \in 1 .. Len(u) : (u \o o)[i] = u[i]
        /\ \A i \in 1 .. Len(o) : (u \o o)[Len(u) + i] = o[i]
    BY <1>1, ConcatFacts
  <2>3. t = u \o o
    BY DEF t
  <2> QED
    BY <2>1, <2>2, <2>3
<1>5. \A r : Has(t, r) <=> Has(u, r) \/ Has(o, r)
  BY <1>1, HasConcat
<1> HIDE DEF t, q, u
<1>6. ASSUME NEW i \in 1 .. Len(t), NEW j \in 1 .. Len(t), t[i].id = t[j].id PROVE i = j
  <2> DEFINE p(x) == IF x - 1 < d.but THEN x - 1 ELSE x
  <2>1. \A x \in 1 .. Len(t) : x = 1 \/ x - 1 \in 1 .. Len(o)
    BY <1>4
  <2>2. ASSUME NEW x \in 1 .. Len(t), x # 1
        PROVE  p(x) \in 1 .. d.len /\ p(x) # d.but /\ t[x] = q[p(x)]
    <3>1. x - 1 \in 1 .. Len(o) /\ 1 + (x - 1) = x /\ (x - 1) + 1 = x
      BY <2>1, <2>2
    <3>2. t[x] = o[x - 1]
      BY <1>4, <3>1
    <3> QED
      BY <1>3, <3>1, <3>2
  <2>3. \A a, b \in 1 .. d.len : q[a].id = q[b].id => a = b
    <3> TAKE a, b \in 1 .. d.len
    <3>1. a \in 1 .. Len(q) /\ b \in 1 .. Len(q)
      BY <1>2
    <3> QED
      BY <1>1, <3>1, OnceInOrder DEF q
  <2>4. t[1].id = q[d.but].id
    BY <1>4 DEF u, q
  <2>5. CASE i = 1 /\ j = 1
    BY <2>5
  <2>9. ASSUME NEW x \in 1 .. Len(t), x # 1, t[x].id = t[1].id PROVE FALSE
    <3>1. PICK y \in 1 .. d.len : y # d.but /\ t[x] = q[y]
      BY <2>2, <2>9
    <3>2. d.but \in 1 .. d.len /\ q[y].id = q[d.but].id
      BY <1>2, <2>4, <2>9, <3>1
    <3> QED
      BY <2>3, <3>1, <3>2
  <2>6. CASE i = 1 /\ j # 1
    BY <1>6, <2>6, <2>9
  <2>7. CASE i # 1 /\ j = 1
    BY <1>6, <2>7, <2>9
  <2>8. CASE i # 1 /\ j # 1
    <3>1. p(i) = p(j)
      BY <1>6, <2>2, <2>3, <2>8
    <3>2. p(i) # d.but /\ p(j) # d.but
      BY <2>2, <2>8
    <3> QED
      BY <1>2, <3>1, <3>2
  <2> QED
    BY <2>5, <2>6, <2>7, <2>8
<1>7. InOrder(s) /\ \A r : Has(s, r) <=> Has(t, r)
  <2>1. Row \in SUBSET Row
    OBVIOUS
  <2> QED
    BY <1>4, <1>6, <2>1, ByIdFacts
<1> HIDE DEF s
<1>8. ASSUME NEW r \in Row
      PROVE  Has(o, r) <=> Has(q, r) /\ r.id # u[1].id /\ r.id <= lo
  <2>1. ASSUME Has(o, r) PROVE Has(q, r) /\ r.id # u[1].id /\ r.id <= lo
    <3>1. PICK i \in 1 .. Len(o) : o[i] = r
      BY <2>1 DEF Has
    <3>2. PICK j \in 1 .. d.len : j # d.but /\ r = q[j]
      BY <1>3, <3>1
    <3>3. j \in 1 .. Len(q) /\ j <= d.len /\ d.but \in 1 .. Len(q)
      BY <1>2
    <3>4. r.id # u[1].id
      BY <1>1, <3>2, <3>3, OnceInOrder DEF u, q
    <3> QED
      BY <1>2, <2>1, <3>2, <3>3, <3>4 DEF Has
  <2>2. ASSUME Has(q, r), r.id # u[1].id, r.id <= lo PROVE Has(o, r)
    <3>1. PICK j \in 1 .. Len(q) : q[j] = r
      BY <2>2 DEF Has
    <3>2. j \in 1 .. d.len
      BY <1>2, <2>2, <3>1
    <3>3. j # d.but
      BY <2>2, <3>1 DEF u, q
    <3> QED
      BY <1>3, <2>2, <3>1, <3>2, <3>3 DEF Has
  <2> QED
    BY <2>1, <2>2
<1> QED
  BY <1>5, <1>7, <1>8 DEF s, t, u, q, o

-----------------------------------------------------------------------------
(* The storage.                                                            *)

Task == [num : Nat, id : Nat, data : [Key -> Writes]]
Backend == [rows : [Key -> Seq(Row)], num : Nat, id : Nat \ {0}, ahead : [Key -> Nat]]
DirtyWrite == [key : Key, row : Row]
NewWrite == [key : Key, at : Nat, force : BOOLEAN,
             row : [id : {0}, val : Value, removed : BOOLEAN]]
Committing == [pc : {"idle", "touch", "writeDirty", "writeNew", "wait", "exit"},
               dirty : SUBSET DirtyWrite, new : SUBSET NewWrite,
               write : {None} \cup DirtyWrite \cup NewWrite, obj : Obj \cup {NoObj},
               data : [Key -> Writes]]

\* The last row id and the rows after the i-th task of the queue; those of the disk are 0.
IdOf(i) == IF i = 0 THEN backend.id ELSE queue[i].id
BlockOf(i) == blocks[backend.num + 1 + i]
LastId == IdOf(Len(queue))

\* The last row id that a row may have.
Limit == IF commit.pc = "writeNew" THEN ID - 1 ELSE ID

StorageType ==
    /\ caches \in [Key -> Obj \cup {NoObj}] /\ obj \in [Obj -> Cache]
    /\ mru \subseteq Key /\ ID \in Nat \ {0}
    /\ select \in [Reader -> {IdleReader} \cup [key : Key, obj : Obj]]
    /\ queue \in Seq(Task) /\ backend \in Backend /\ blocks \in Seq([Key -> Seq(Row)])

CommitType ==
    /\ commit \in Committing
    /\ commit.pc \in {"idle", "touch", "wait"} => commit.obj = NoObj
    /\ commit.pc = "writeDirty" => commit.write \in DirtyWrite /\ commit.obj \in Obj
    /\ commit.pc = "writeNew" => commit.write \in NewWrite /\ commit.obj \in Obj
    /\ commit.pc \in {"idle", "wait"} =>
          commit.dirty = {} /\ commit.new = {} /\ commit.data = NoData

CommitIds ==
    /\ LastId <= Limit
    /\ commit.pc \in {"idle", "wait"} => ID = LastId
    /\ commit.pc = "writeDirty" \/ commit.dirty # {} =>
          ID = LastId /\ \A k \in Key : commit.data[k].new = <<>>
    /\ \A w \in commit.dirty : w.row.id <= LastId
    /\ commit.pc = "writeDirty" => commit.write.row.id <= LastId

\* The ids grow from task to task, and each block is what its task makes of the one before.
Sound(rows, n) == InOrder(rows) /\ NoneRemoved(rows) /\ Below(rows, n)

StoreFit ==
    /\ \A i, j \in 0 .. Len(queue) : i <= j => IdOf(i) <= IdOf(j)
    /\ \A k \in Key : Below(backend.rows[k], backend.id)
    /\ \A i \in 0 .. Len(queue), k \in Key : Sound(BlockOf(i)[k], IdOf(i))
    /\ \A i \in 1 .. Len(queue), k \in Key :
          BlockOf(i)[k] = Normal(After(BlockOf(i - 1)[k], queue[i].data[k]))

ObjFit ==
    /\ \A o \in Obj : Below(obj[o].rows, Limit) /\ obj[o].num <= num
    /\ \A k \in Key : caches[k] # NoObj /\ obj[caches[k]].empty => obj[caches[k]].rows = <<>>

Fit(objects, d, lo, hi, n) ==
    Within(d, lo, hi) /\ (d.obj # NoObj => Points(objects[d.obj], d, lo, n))

DataFit ==
    /\ \A i \in 1 .. Len(queue), k \in Key :
          Fit(obj, queue[i].data[k], IdOf(i - 1), IdOf(i), queue[i].num)
    /\ \A k \in Key : Fit(obj, commit.data[k], LastId, Limit, num)

\* An object belongs to one key, whoever refers to it.
Uses(o, k) ==
    \/ caches[k] = o
    \/ \E r \in Reader : select[r] = [key |-> k, obj |-> o]
    \/ commit.obj = o /\ commit.write.key = k
    \/ commit.data[k].obj = o
    \/ \E i \in 1 .. Len(queue) : queue[i].data[k].obj = o

\* A task refers to the object, or will.
Pointed(o, k) ==
    \/ commit.data[k].obj = o
    \/ \E i \in 1 .. Len(queue) : queue[i].data[k].obj = o

Owned == \A o \in Obj, k, l \in Key : Uses(o, k) /\ Uses(o, l) => k = l

StorageInv ==
    /\ StorageType /\ CommitType /\ CommitIds /\ StoreFit /\ ObjFit /\ DataFit /\ Owned

-----------------------------------------------------------------------------

LEMMA StorageFacts ==
    ASSUME StorageType
    PROVE  /\ \A k \in Key : caches[k] \in Obj \cup {NoObj}
           /\ \A o \in Obj : /\ obj[o] \in Cache /\ obj[o].rows \in Seq(Row) /\ obj[o].num \in Nat
                             /\ obj[o].empty \in BOOLEAN
           /\ Len(queue) \in Nat
           /\ \A i \in 1 .. Len(queue) : /\ queue[i] \in Task /\ queue[i].num \in Nat
                                         /\ queue[i].id \in Nat
                                         /\ \A k \in Key : queue[i].data[k] \in Writes
           /\ backend.num \in Nat /\ backend.id \in Nat /\ backend.id > 0
           /\ \A k \in Key : backend.rows[k] \in Seq(Row) /\ backend.ahead[k] \in Nat
           /\ Len(blocks) \in Nat
           /\ \A i \in 1 .. Len(blocks), k \in Key : blocks[i][k] \in Seq(Row)
           /\ NoObj \notin Obj /\ Obj \subseteq Nat
<1>1. \A o \in Obj : obj[o] \in Cache
  BY DEF StorageType
<1>2. \A o \in Obj : obj[o].rows \in Seq(Row) /\ obj[o].num \in Nat /\ obj[o].empty \in BOOLEAN
  BY <1>1 DEF Cache
<1>3. Len(queue) \in Nat /\ \A i \in 1 .. Len(queue) : queue[i] \in Task
  BY DEF StorageType
<1>4. \A i \in 1 .. Len(queue) : /\ queue[i].num \in Nat /\ queue[i].id \in Nat
                                 /\ \A k \in Key : queue[i].data[k] \in Writes
  BY <1>3 DEF Task
<1>5. /\ backend.num \in Nat /\ backend.id \in Nat /\ backend.id > 0
      /\ \A k \in Key : backend.rows[k] \in Seq(Row) /\ backend.ahead[k] \in Nat
  BY DEF StorageType, Backend
<1>6. Len(blocks) \in Nat /\ \A i \in 1 .. Len(blocks) : blocks[i] \in [Key -> Seq(Row)]
  BY DEF StorageType
<1>7. \A i \in 1 .. Len(blocks), k \in Key : blocks[i][k] \in Seq(Row)
  BY <1>6
<1>8. NoObj \notin Obj /\ Obj \subseteq Nat
  BY ObjAssumption DEF NoObj
<1>9. \A k \in Key : caches[k] \in Obj \cup {NoObj}
  BY DEF StorageType
<1> QED
  BY <1>1, <1>2, <1>3, <1>4, <1>5, <1>6, <1>7, <1>8, <1>9

LEMMA CommitFacts ==
    ASSUME CommitType
    PROVE  /\ commit.pc \in {"idle", "touch", "writeDirty", "writeNew", "wait", "exit"}
           /\ commit.obj \in Obj \cup {NoObj}
           /\ \A k \in Key : commit.data[k] \in Writes
           /\ commit.data \in [Key -> Writes]
           /\ \A w \in commit.dirty : w \in DirtyWrite /\ w.key \in Key /\ w.row \in Row
           /\ \A w \in commit.new : w \in NewWrite /\ w.key \in Key
           /\ DOMAIN commit = {"pc", "dirty", "new", "write", "obj", "data"}
BY DEF CommitType, Committing, DirtyWrite, NewWrite

LEMMA UsedInUse ==
    ASSUME StorageType, NEW o, NEW k \in Key, Uses(o, k)
    PROVE  o \in InUse
<1>1. caches[k] = o => o \in Range(caches)
  BY DEF StorageType, Range
<1>2. (\E r \in Reader : select[r] = [key |-> k, obj |-> o]) => o \in {select[r].obj : r \in Reader}
  OBVIOUS
<1>3. commit.data[k].obj = o => o \in Pointers(commit.data)
  BY DEF Pointers
<1>4. ASSUME NEW i \in 1 .. Len(queue), queue[i].data[k].obj = o
      PROVE  o \in UNION {Pointers(t.data) : t \in Range(queue)}
  <2>1. queue[i] \in Range(queue)
    BY DEF StorageType, Range
  <2>2. o \in Pointers(queue[i].data)
    BY <1>4 DEF Pointers
  <2> QED
    BY <2>1, <2>2
<1> QED
  BY <1>1, <1>2, <1>3, <1>4 DEF Uses, InUse

LEMMA UsedInUseNext ==
    ASSUME StorageType', NEW o, NEW k \in Key, Uses(o, k)'
    PROVE  o \in InUse'
<1>1. caches'[k] = o => o \in Range(caches')
  BY DEF StorageType, Range
<1>2. (\E r \in Reader : select'[r] = [key |-> k, obj |-> o]) => o \in {select'[r].obj : r \in Reader}
  OBVIOUS
<1>3. commit'.data[k].obj = o => o \in Pointers(commit'.data)
  BY DEF Pointers
<1>4. ASSUME NEW i \in 1 .. Len(queue'), queue'[i].data[k].obj = o
      PROVE  o \in UNION {Pointers(t.data) : t \in Range(queue')}
  <2>1. queue'[i] \in Range(queue')
    BY DEF StorageType, Range
  <2>2. o \in Pointers(queue'[i].data)
    BY <1>4 DEF Pointers
  <2> QED
    BY <2>1, <2>2
<1> QED
  BY <1>1, <1>2, <1>3, <1>4 DEF Uses, InUse

\* Nobody refers to an object that is not in use.
LEMMA MinFacts ==
    ASSUME NEW S \in SUBSET Nat, S # {}
    PROVE  Min(S) \in S
<1>1. \E x \in S : \A y \in S : x <= y
  BY LeastNumber
<1> QED
  BY <1>1 DEF Min

LEMMA NewCacheType == NewCache \in Cache /\ NewCache.rows = <<>> /\ NewCache.num = 0 /\ NewCache.empty
BY DEF NewCache, Cache

LEMMA TouchFacts ==
    ASSUME StorageType, NEW k \in Key, Touched(k, touchCache(k))
    PROVE  /\ touchCache(k) \in Obj
           /\ caches' = [caches EXCEPT ![k] = touchCache(k)]
           /\ obj' \in [Obj -> Cache]
           /\ \A x \in Obj : x \in InUse => obj'[x] = obj[x]
           /\ \A x \in Obj : obj'[x] = obj[x] \/ obj'[x] = NewCache
           /\ caches[k] # NoObj => touchCache(k) = caches[k] /\ obj' = obj
           /\ caches[k] = NoObj => /\ touchCache(k) \notin InUse
                                   /\ obj'[touchCache(k)] = NewCache
<1>1. obj \in [Obj -> Cache] /\ caches[k] \in Obj \cup {NoObj}
  BY DEF StorageType
<1>2. caches' = [caches EXCEPT ![k] = touchCache(k)]
  BY DEF Touched
<1>3. CASE caches[k] # NoObj
  <2>1. touchCache(k) = caches[k] /\ obj' = obj
    BY <1>3 DEF touchCache, Touched
  <2> QED
    BY <1>1, <1>2, <1>3, <2>1
<1>4. CASE caches[k] = NoObj
  <2>1. touchCache(k) = Min(Obj \ InUse) /\ Obj \ InUse # {}
    BY <1>4 DEF touchCache, Touched
  <2>2. touchCache(k) \in Obj \ InUse
    <3>1. Obj \ InUse \in SUBSET Nat
      BY ObjAssumption
    <3> QED
      BY <2>1, <3>1, MinFacts
  <2>3. obj' = [obj EXCEPT ![touchCache(k)] = NewCache]
    BY <1>4 DEF Touched
  <2> DEFINE o == touchCache(k)
  <2> HIDE DEF o
  <2>4. obj' = [obj EXCEPT ![o] = NewCache] /\ o \in Obj /\ o \notin InUse
    BY <2>2, <2>3 DEF o
  <2>5. obj' \in [Obj -> Cache] /\ obj'[o] = NewCache /\ \A x \in Obj : x # o => obj'[x] = obj[x]
    BY <1>1, <2>4, NewCacheType
  <2>6. \A x \in Obj : x \in InUse => obj'[x] = obj[x]
    BY <2>4, <2>5
  <2> QED
    BY <1>2, <1>4, <2>4, <2>5, <2>6 DEF o
<1> QED
  BY <1>3, <1>4

LEMMA OwnedKept ==
    ASSUME Owned, NEW o, NEW k \in Key, \A l \in Key : Uses(o, l) => l = k,
           \A x \in Obj, l \in Key : Uses(x, l)' => Uses(x, l) \/ (x = o /\ l = k)
    PROVE  Owned'
BY DEF Owned

LEMMA OwnedLess ==
    ASSUME Owned, \A x \in Obj, l \in Key : Uses(x, l)' => Uses(x, l)
    PROVE  Owned'
BY DEF Owned

LEMMA StoreKept ==
    ASSUME StoreFit, UNCHANGED <<queue, backend, blocks>>
    PROVE  StoreFit'
BY DEF StoreFit, IdOf, BlockOf

\* The tasks do not mind what happens to an object that none of them refers to.
LEMMA DataKept ==
    ASSUME StorageType, CommitType, DataFit, UNCHANGED <<queue, backend, blocks>>,
           commit'.data = commit.data, Limit' = Limit,
           \A x \in Obj, k \in Key : Pointed(x, k) /\ ~ obj[x].empty => obj'[x] = obj[x]
    PROVE  DataFit'
<1> USE DEF Fit
<1>1. num' = num /\ LastId' = LastId /\ \A i : IdOf(i)' = IdOf(i)
  BY DEF num, LastId, IdOf
<1>2. ASSUME NEW i \in 1 .. Len(queue'), NEW k \in Key
      PROVE  Fit(obj', queue'[i].data[k], IdOf(i - 1)', IdOf(i)', queue'[i].num)
  <2> DEFINE d == queue[i].data[k]
  <2>1. Fit(obj, d, IdOf(i - 1), IdOf(i), queue[i].num) /\ d.obj \in Obj \cup {NoObj}
    <3>1. d \in Writes
      BY StorageFacts
    <3> QED
      BY <3>1, WritesFacts DEF DataFit
  <2>2. d.obj # NoObj => obj'[d.obj] = obj[d.obj]
    BY <2>1 DEF Pointed, Points
  <2> QED
    BY <1>1, <2>1, <2>2
<1>3. ASSUME NEW k \in Key
      PROVE  Fit(obj', commit'.data[k], LastId', Limit', num')
  <2> DEFINE d == commit.data[k]
  <2>1. Fit(obj, d, LastId, Limit, num) /\ d.obj \in Obj \cup {NoObj}
    <3>1. d \in Writes
      BY CommitFacts
    <3> QED
      BY <3>1, WritesFacts DEF DataFit
  <2>2. d.obj # NoObj => obj'[d.obj] = obj[d.obj]
    BY <2>1 DEF Pointed, Points
  <2> QED
    BY <1>1, <2>1, <2>2
<1> QED
  BY <1>2, <1>3 DEF DataFit

-----------------------------------------------------------------------------
(* Steps that look up, load and clear objects.                             *)

LEMMA BelowEmpty == ASSUME NEW n PROVE Below(<<>>, n) /\ InOrder(<<>>) /\ NoneRemoved(<<>>)
BY DEF Below, InOrder, NoneRemoved

LEMMA TouchStorage ==
    ASSUME StorageInv, NEW k \in Key, Touched(k, touchCache(k)),
           UNCHANGED <<queue, backend, blocks>>, commit'.data = commit.data, Limit' = Limit
    PROVE  /\ ObjFit' /\ DataFit' /\ StoreFit'
           /\ caches' \in [Key -> Obj \cup {NoObj}] /\ obj' \in [Obj -> Cache]
           /\ \A l \in Key : Uses(touchCache(k), l) => l = k
<1> DEFINE o == touchCache(k)
<1>1. /\ o \in Obj
      /\ caches' = [caches EXCEPT ![k] = o]
      /\ obj' \in [Obj -> Cache]
      /\ \A x \in Obj : x \in InUse => obj'[x] = obj[x]
      /\ \A x \in Obj : obj'[x] = obj[x] \/ obj'[x] = NewCache
      /\ caches[k] # NoObj => o = caches[k] /\ obj' = obj
      /\ caches[k] = NoObj => o \notin InUse /\ obj'[o] = NewCache
  BY TouchFacts DEF StorageInv
<1> HIDE DEF o
<1>2. num' = num
  BY DEF num
<1>3. \A x \in Obj, l \in Key : Uses(x, l) => obj'[x] = obj[x]
  BY <1>1, UsedInUse DEF StorageInv
<1>4. ASSUME NEW x \in Obj PROVE Below(obj'[x].rows, Limit') /\ obj'[x].num <= num'
  <2>1. CASE obj'[x] = obj[x]
    BY <1>2, <2>1 DEF StorageInv, ObjFit
  <2>2. CASE obj'[x] = NewCache
    <3>1. num \in Nat
      BY StorageFacts DEF StorageInv, num
    <3> QED
      BY <1>2, <2>2, <3>1, NewCacheType, BelowEmpty
  <2> QED
    BY <1>1, <2>1, <2>2
<1>5. ASSUME NEW l \in Key, caches'[l] # NoObj, obj'[caches'[l]].empty
      PROVE  obj'[caches'[l]].rows = <<>>
  <2>1. CASE l = k /\ caches[k] = NoObj
    <3>1. caches'[l] = o
      BY <1>1, <2>1 DEF StorageInv, StorageType
    <3> QED
      BY <1>1, <2>1, <3>1, NewCacheType
  <2>2. CASE l # k \/ caches[k] # NoObj
    <3>1. caches'[l] = caches[l] /\ caches[l] # NoObj /\ caches[l] \in Obj
      BY <1>1, <1>5, <2>2 DEF StorageInv, StorageType
    <3>2. obj'[caches[l]] = obj[caches[l]]
      BY <1>3, <3>1 DEF Uses
    <3> QED
      BY <1>5, <3>1, <3>2 DEF StorageInv, ObjFit
  <2> QED
    BY <2>1, <2>2
<1>6. ObjFit'
  BY <1>4, <1>5 DEF ObjFit
<1>7. DataFit'
  <2>1. \A x \in Obj, l \in Key : Pointed(x, l) => Uses(x, l)
    BY DEF Pointed, Uses
  <2> QED
    BY <1>3, <2>1, DataKept DEF StorageInv
<1>8. StoreFit'
  BY StoreKept DEF StorageInv
<1>9. caches' \in [Key -> Obj \cup {NoObj}]
  BY <1>1 DEF StorageInv, StorageType
<1>10. ASSUME NEW l \in Key, Uses(o, l) PROVE l = k
  <2>1. CASE caches[k] = NoObj
    BY <1>1, <1>10, <2>1, UsedInUse DEF StorageInv
  <2>2. CASE caches[k] # NoObj
    <3>1. Uses(o, k)
      BY <1>1, <2>2 DEF Uses
    <3> QED
      BY <1>1, <1>10, <3>1 DEF StorageInv, Owned
  <2> QED
    BY <2>1, <2>2
<1> QED
  BY <1>1, <1>6, <1>7, <1>8, <1>9, <1>10 DEF o

LEMMA SelectTouchStorage ==
    ASSUME StorageInv, NEW r \in Reader, NEW k \in Key, SelectTouch(r, k)
    PROVE  StorageInv'
<1> DEFINE o == touchCache(k)
<1>1. /\ Touched(k, o) /\ select' = [select EXCEPT ![r] = [key |-> k, obj |-> o]]
      /\ UNCHANGED <<queue, backend, blocks, commit, ID, mru>>
  BY DEF SelectTouch
<1>2. Limit' = Limit
  BY <1>1 DEF Limit
<1>3. /\ ObjFit' /\ DataFit' /\ StoreFit'
      /\ caches' \in [Key -> Obj \cup {NoObj}] /\ obj' \in [Obj -> Cache]
      /\ \A l \in Key : Uses(o, l) => l = k
  BY <1>1, <1>2, TouchStorage
<1>4. o \in Obj /\ caches' = [caches EXCEPT ![k] = o]
  BY <1>1, TouchFacts DEF StorageInv
<1> HIDE DEF o
<1>5. StorageType'
  <2>1. [key |-> k, obj |-> o] \in [key : Key, obj : Obj]
    BY <1>4
  <2>2. select' \in [Reader -> {IdleReader} \cup [key : Key, obj : Obj]]
    BY <1>1, <2>1 DEF StorageInv, StorageType
  <2> QED
    BY <1>1, <1>3, <2>2 DEF StorageInv, StorageType
<1>6. CommitType' /\ CommitIds'
  BY <1>1 DEF StorageInv, CommitType, CommitIds, LastId, IdOf, Limit
<1>7. Owned'
  <2>1. ASSUME NEW x \in Obj, NEW l \in Key, Uses(x, l)'
        PROVE  Uses(x, l) \/ (x = o /\ l = k)
    <3>1. CASE caches'[l] = x
      BY <1>4, <3>1 DEF StorageInv, StorageType, Uses
    <3>2. CASE \E q \in Reader : select'[q] = [key |-> l, obj |-> x]
      <4>1. PICK q \in Reader : select'[q] = [key |-> l, obj |-> x]
        BY <3>2
      <4>2. CASE q = r
        <5>1. select'[q] = [key |-> k, obj |-> o]
          BY <1>1, <4>2 DEF StorageInv, StorageType
        <5>2. [key |-> k, obj |-> o] = [key |-> l, obj |-> x]
          BY <4>1, <5>1
        <5> QED
          BY <5>2
      <4>3. CASE q # r
        <5>1. select[q] = [key |-> l, obj |-> x]
          BY <1>1, <4>1, <4>3 DEF StorageInv, StorageType
        <5> QED
          BY <5>1 DEF Uses
      <4> QED
        BY <4>2, <4>3
    <3> QED
      BY <1>1, <2>1, <3>1, <3>2 DEF Uses
  <2> QED
    BY <1>3, <2>1, OwnedKept DEF StorageInv
<1> QED
  BY <1>3, <1>5, <1>6, <1>7 DEF StorageInv

LEMMA TouchRowStorage ==
    ASSUME StorageInv, NEW w \in commit.dirty \cup commit.new, TouchRow(w)
    PROVE  StorageInv'
<1> DEFINE new == commit.dirty = {}
           k == w.key
           o == touchCache(k)
<1>1. /\ commit.pc = "touch"
      /\ w \in IF new THEN commit.new ELSE commit.dirty
      /\ ID' = IF new THEN ID + 1 ELSE ID
      /\ Touched(k, o)
      /\ commit' = [commit EXCEPT !.pc = IF new THEN "writeNew" ELSE "writeDirty",
                                  !.dirty = @ \ {w}, !.new = IF new THEN @ \ {w} ELSE @,
                                  !.write = w, !.obj = o]
      /\ UNCHANGED <<queue, backend, blocks, select, mru>>
  BY DEF TouchRow
<1>2. /\ commit \in Committing /\ k \in Key
      /\ new => w \in NewWrite
      /\ ~ new => w \in DirtyWrite
      /\ commit.pc \in {"idle", "touch", "wait"} => commit.obj = NoObj
  BY <1>1, CommitFacts DEF StorageInv, CommitType
<1> HIDE DEF k, o, new
<1>3. /\ commit'.pc = IF new THEN "writeNew" ELSE "writeDirty"
      /\ commit'.dirty = commit.dirty \ {w} /\ commit'.data = commit.data
      /\ commit'.write = w /\ commit'.obj = o
      /\ commit'.new = IF new THEN commit.new \ {w} ELSE commit.new
  BY <1>1, <1>2 DEF Committing
<1>4. ID \in Nat \ {0}
  BY DEF StorageInv, StorageType
<1>5. Limit' = Limit /\ LastId' = LastId
  BY <1>1, <1>3, <1>4 DEF Limit, LastId, IdOf
<1>6. /\ ObjFit' /\ DataFit' /\ StoreFit'
      /\ caches' \in [Key -> Obj \cup {NoObj}] /\ obj' \in [Obj -> Cache]
      /\ \A l \in Key : Uses(o, l) => l = k
  BY <1>1, <1>2, <1>3, <1>5, TouchStorage DEF o
<1>7. o \in Obj /\ caches' = [caches EXCEPT ![k] = o]
  BY <1>1, <1>2, TouchFacts DEF StorageInv, o
<1>8. StorageType'
  BY <1>1, <1>4, <1>6 DEF StorageInv, StorageType
<1>9. CommitType'
  <2>1. commit' \in Committing
    BY <1>1, <1>2, <1>7 DEF Committing
  <2> QED
    BY <1>2, <1>3, <1>7, <2>1 DEF CommitType
<1>10. CommitIds'
  <2>1. commit.dirty # {} => ID = LastId /\ \A l \in Key : commit.data[l].new = <<>>
    BY DEF StorageInv, CommitIds
  <2>2. LastId' <= Limit'
    BY <1>5 DEF StorageInv, CommitIds
  <2>3. \A x \in commit.dirty : x.row.id <= LastId
    BY DEF StorageInv, CommitIds
  <2>4. CASE new
    <3>1. commit'.pc = "writeNew" /\ commit'.dirty = {}
      BY <1>3, <2>4 DEF new
    <3> QED
      BY <2>2, <3>1 DEF CommitIds
  <2>5. CASE ~ new
    <3>1. /\ commit'.pc = "writeDirty" /\ ID' = LastId' /\ w \in commit.dirty
          /\ \A l \in Key : commit'.data[l].new = <<>>
      BY <1>1, <1>3, <1>5, <2>1, <2>5 DEF new
    <3>2. \A x \in commit'.dirty : x.row.id <= LastId'
      BY <1>3, <1>5, <2>3
    <3>3. commit'.write.row.id <= LastId'
      BY <1>3, <1>5, <2>3, <3>1
    <3> QED
      BY <2>2, <3>1, <3>2, <3>3 DEF CommitIds
  <2> QED
    BY <2>4, <2>5
<1>11. Owned'
  <2>1. ASSUME NEW x \in Obj, NEW l \in Key, Uses(x, l)'
        PROVE  Uses(x, l) \/ (x = o /\ l = k)
    <3>1. CASE caches'[l] = x
      BY <1>7, <3>1 DEF StorageInv, StorageType, Uses
    <3>2. CASE commit'.obj = x /\ commit'.write.key = l
      BY <1>3, <3>2 DEF k
    <3> QED
      BY <1>1, <1>3, <2>1, <3>1, <3>2 DEF Uses
  <2>2. Owned /\ k \in Key /\ \A l \in Key : Uses(o, l) => l = k
    BY <1>2, <1>6 DEF StorageInv
  <2> QED
    BY <2>1, <2>2, OwnedKept
<1> QED
  BY <1>6, <1>8, <1>9, <1>10, <1>11 DEF StorageInv

LEMMA KeepFacts ==
    ASSUME NEW objects \in [Obj -> Cache], Keep(objects)
    PROVE  /\ obj' \in [Obj -> Cache]
           /\ \A x \in Obj : obj'[x] = objects[x] \/ obj'[x] = NewCache
           /\ \A x \in Obj : x \in InUse' => obj'[x] = objects[x]
BY NewCacheType DEF Keep

LEMMA NormalBelow ==
    ASSUME NEW s \in Seq(Row), NEW n, Below(s, n)
    PROVE  /\ Normal(s) \in Seq(Row) /\ Below(Normal(s), n) /\ NoneRemoved(Normal(s))
           /\ \A r \in Row : Has(Normal(s), r) <=> Has(s, r)
           /\ InOrder(s) => InOrder(Normal(s))
<1> DEFINE T == {r \in Row : r.id <= n}
           t == Normal(s)
<1>1. T \in SUBSET Row
  OBVIOUS
<1>2. s \in Seq(T)
  <2>1. \A i \in 1 .. Len(s) : s[i] \in T
    BY DEF Below
  <2>2. s \in [1 .. Len(s) -> T] /\ Len(s) \in Nat
    BY <2>1
  <2> QED
    BY <2>2
<1> HIDE DEF T, t
<1>3. /\ t \in Seq(T) /\ NoneRemoved(t) /\ \A r \in Row : Has(t, r) <=> Has(s, r)
      /\ InOrder(s) => InOrder(t)
  BY <1>1, <1>2, NormalFacts DEF t
<1>4. t \in Seq(Row)
  BY <1>1, <1>3
<1>5. \A i \in 1 .. Len(t) : t[i] \in T
  BY <1>3
<1>6. Below(t, n)
  BY <1>5 DEF Below, T
<1> QED
  BY <1>3, <1>4, <1>6 DEF t

LEMMA IdFacts ==
    ASSUME StorageInv
    PROVE  /\ \A i \in 0 .. Len(queue) : IdOf(i) \in Nat /\ backend.id <= IdOf(i) /\ IdOf(i) <= LastId
           /\ LastId \in Nat /\ Limit \in Nat /\ ID \in Nat /\ LastId <= Limit /\ Limit <= ID
           /\ backend.id <= LastId /\ Len(queue) \in Nat
<1>1. Len(queue) \in Nat /\ backend.id \in Nat /\ ID \in Nat \ {0}
  BY StorageFacts DEF StorageInv, StorageType
<1>2. \A i \in 0 .. Len(queue) : IdOf(i) \in Nat
  <2> TAKE i \in 0 .. Len(queue)
  <2>1. i = 0 \/ i \in 1 .. Len(queue)
    BY <1>1
  <2>2. i \in 1 .. Len(queue) => queue[i].id \in Nat
    BY StorageFacts DEF StorageInv
  <2> QED
    BY <1>1, <2>1, <2>2 DEF IdOf
<1>3. 0 \in 0 .. Len(queue) /\ Len(queue) \in 0 .. Len(queue) /\ IdOf(0) = backend.id
  BY <1>1 DEF IdOf
<1>4. \A i \in 0 .. Len(queue) : IdOf(0) <= IdOf(i) /\ IdOf(i) <= IdOf(Len(queue))
  <2>1. \A i, j \in 0 .. Len(queue) : i <= j => IdOf(i) <= IdOf(j)
    BY DEF StorageInv, StoreFit
  <2> TAKE i \in 0 .. Len(queue)
  <2>2. 0 <= i /\ i <= Len(queue)
    BY <1>1
  <2> QED
    BY <1>3, <2>1, <2>2
<1>5. LastId \in Nat /\ backend.id <= LastId
  BY <1>2, <1>3, <1>4 DEF LastId
<1>6. LastId <= Limit
  BY DEF StorageInv, CommitIds
<1>7. Limit \in Nat /\ Limit <= ID
  BY <1>1 DEF Limit
<1> QED
  BY <1>1, <1>2, <1>3, <1>4, <1>5, <1>6, <1>7 DEF LastId

LEMMA LoadFacts ==
    ASSUME StorageInv, NEW k \in Key
    PROVE  /\ Load(k) \in Seq(Row) /\ Below(Load(k), LastId) /\ NoneRemoved(Load(k))
           /\ \A r \in Row : Has(Load(k), r) <=> Has(backend.rows[k], r)
           /\ InOrder(backend.rows[k]) => InOrder(Load(k))
<1>1. backend.rows[k] \in Seq(Row) /\ Below(backend.rows[k], backend.id) /\ backend.id \in Nat
  BY StorageFacts DEF StorageInv, StoreFit
<1>2. Below(backend.rows[k], LastId)
  BY <1>1, IdFacts, BelowMore
<1> QED
  BY <1>1, <1>2, NormalBelow DEF Load

\* An object is loaded from the store.
Loaded(r) ==
    IF obj[select[r].obj].empty
    THEN [obj EXCEPT ![select[r].obj].rows = Load(select[r].key), ![select[r].obj].empty = FALSE]
    ELSE obj

LEMMA LoadedFacts ==
    ASSUME StorageInv, NEW r \in Reader, select[r] # IdleReader
    PROVE  /\ select[r].key \in Key /\ select[r].obj \in Obj
           /\ select[r] = [key |-> select[r].key, obj |-> select[r].obj]
           /\ Loaded(r) \in [Obj -> Cache]
           /\ \A x \in Obj : x # select[r].obj \/ ~ obj[x].empty => Loaded(r)[x] = obj[x]
           /\ obj[select[r].obj].empty =>
                 Loaded(r)[select[r].obj] = [rows |-> Load(select[r].key), empty |-> FALSE,
                                             num |-> obj[select[r].obj].num]
<1> DEFINE s == select[r]
           o == s.obj
           k == s.key
<1>1. s \in [key : Key, obj : Obj]
  BY DEF StorageInv, StorageType
<1>2. k \in Key /\ o \in Obj /\ s = [key |-> k, obj |-> o]
  BY <1>1
<1>3. obj \in [Obj -> Cache] /\ obj[o] \in Cache
  BY <1>2 DEF StorageInv, StorageType
<1>4. Load(k) \in Seq(Row)
  BY <1>2, LoadFacts
<1>5. Loaded(r) = IF obj[o].empty THEN [obj EXCEPT ![o].rows = Load(k), ![o].empty = FALSE] ELSE obj
  BY DEF Loaded
<1> DEFINE l == Load(k)
           L == Loaded(r)
<1> HIDE DEF s, o, k, l, L
<1>6. CASE obj[o].empty
  <2>1. L = [obj EXCEPT ![o] = [rows |-> l, num |-> obj[o].num, empty |-> FALSE]]
    BY <1>2, <1>3, <1>5, <1>6 DEF Cache, l, L
  <2>2. [rows |-> l, num |-> obj[o].num, empty |-> FALSE] \in Cache
    BY <1>3, <1>4 DEF Cache, l
  <2>3. /\ L \in [Obj -> Cache] /\ L[o] = [rows |-> l, num |-> obj[o].num, empty |-> FALSE]
        /\ \A x \in Obj : x # o => L[x] = obj[x]
    BY <1>2, <1>3, <2>1, <2>2
  <2> QED
    BY <1>2, <1>6, <2>3 DEF s, o, k, l, L
<1>7. CASE ~ obj[o].empty
  BY <1>2, <1>3, <1>5, <1>7 DEF s, o, k, L
<1> QED
  BY <1>6, <1>7

LEMMA SelectRowsStorage ==
    ASSUME StorageInv, NEW r \in Reader, SelectRows(r)
    PROVE  /\ StorageInv'
           /\ \A x \in Obj, k \in Key : Uses(x, k)' => obj'[x] = Loaded(r)[x]
<1>1. /\ select[r] # IdleReader /\ mru' = mru \cup {select[r].key}
      /\ select' = [select EXCEPT ![r] = IdleReader]
      /\ UNCHANGED <<caches, ID, queue, commit, backend, blocks>>
      /\ Keep(Loaded(r))
  BY DEF SelectRows, Loaded
<1> DEFINE o == select[r].obj
           k == select[r].key
           L == Loaded(r)
<1>2. /\ k \in Key /\ o \in Obj
      /\ L \in [Obj -> Cache]
      /\ \A x \in Obj : x # o \/ ~ obj[x].empty => L[x] = obj[x]
      /\ obj[o].empty => L[o] = [rows |-> Load(k), empty |-> FALSE, num |-> obj[o].num]
  BY <1>1, LoadedFacts
<1> HIDE DEF L
<1>3. /\ obj' \in [Obj -> Cache]
      /\ \A x \in Obj : obj'[x] = L[x] \/ obj'[x] = NewCache
      /\ \A x \in Obj : x \in InUse' => obj'[x] = L[x]
  BY <1>1, <1>2, KeepFacts DEF L
<1>4. StorageType'
  BY <1>1, <1>2, <1>3 DEF StorageInv, StorageType
<1>5. CommitType' /\ CommitIds' /\ StoreFit' /\ Limit' = Limit /\ num' = num
  BY <1>1, StoreKept DEF StorageInv, CommitType, CommitIds, LastId, IdOf, Limit, num
<1>6. \A x \in Obj, l \in Key : Uses(x, l)' => obj'[x] = L[x]
  BY <1>3, <1>4, UsedInUseNext
<1>7. ASSUME NEW x \in Obj
      PROVE  Below(L[x].rows, Limit) /\ L[x].num <= num
  <2>1. CASE x = o /\ obj[o].empty
    <3>1. Load(k) \in Seq(Row) /\ Below(Load(k), LastId)
      BY <1>2, LoadFacts
    <3>2. Below(Load(k), Limit)
      BY <3>1, BelowMore, IdFacts
    <3>3. L[x].rows = Load(k) /\ L[x].num = obj[x].num
      BY <1>2, <2>1
    <3> QED
      BY <3>2, <3>3 DEF StorageInv, ObjFit
  <2>2. CASE L[x] = obj[x]
    BY <2>2 DEF StorageInv, ObjFit
  <2> QED
    BY <1>2, <2>1, <2>2
<1>8. ObjFit'
  <2>1. ASSUME NEW x \in Obj PROVE Below(obj'[x].rows, Limit') /\ obj'[x].num <= num'
    <3>1. num \in Nat
      BY StorageFacts DEF StorageInv, num
    <3> QED
      BY <1>3, <1>5, <1>7, <3>1, NewCacheType, BelowEmpty
  <2>2. ASSUME NEW l \in Key, caches'[l] # NoObj, obj'[caches'[l]].empty
        PROVE  obj'[caches'[l]].rows = <<>>
    <3> DEFINE c == caches[l]
    <3>1. c \in Obj /\ caches'[l] = c
      BY <1>1, <2>2 DEF StorageInv, StorageType
    <3>2. Uses(c, l)'
      BY <3>1 DEF Uses
    <3>3. obj'[c] = L[c]
      BY <1>6, <3>1, <3>2
    <3>4. L[c] = obj[c]
      BY <1>2, <2>2, <3>1, <3>3
    <3> QED
      BY <2>2, <3>1, <3>3, <3>4 DEF StorageInv, ObjFit
  <2> QED
    BY <2>1, <2>2 DEF ObjFit
<1>9. DataFit'
  <2>1. \A x \in Obj, l \in Key : Pointed(x, l) => Uses(x, l)'
    BY <1>1 DEF Pointed, Uses
  <2>2. \A x \in Obj, l \in Key : Pointed(x, l) /\ ~ obj[x].empty => obj'[x] = obj[x]
    BY <1>2, <1>6, <2>1
  <2> QED
    BY <1>1, <1>5, <2>2, DataKept DEF StorageInv
<1>10. Owned'
  <2>1. ASSUME NEW x \in Obj, NEW l \in Key, Uses(x, l)'
        PROVE  Uses(x, l)
    <3>1. ASSUME NEW q \in Reader, select'[q] = [key |-> l, obj |-> x]
          PROVE  select[q] = [key |-> l, obj |-> x]
      <4>1. CASE q = r
        <5>1. select'[q] = IdleReader
          BY <1>1, <4>1 DEF StorageInv, StorageType
        <5>2. [key |-> l, obj |-> x] = [key |-> None, obj |-> NoObj]
          BY <3>1, <5>1 DEF IdleReader
        <5>3. x = NoObj
          BY <5>2
        <5> QED
          BY <5>3, StorageFacts DEF StorageInv
      <4>2. CASE q # r
        BY <1>1, <3>1, <4>2 DEF StorageInv, StorageType
      <4> QED
        BY <4>1, <4>2
    <3> QED
      BY <1>1, <2>1, <3>1 DEF Uses
  <2> QED
    BY <2>1, OwnedLess DEF StorageInv
<1> QED
  BY <1>4, <1>5, <1>6, <1>8, <1>9, <1>10 DEF StorageInv, L

LEMMA ClearedCache ==
    ASSUME NEW c \in Cache
    PROVE  [c EXCEPT !.empty = TRUE] = [rows |-> c.rows, num |-> c.num, empty |-> TRUE]
<1> DEFINE e == [c EXCEPT !.empty = TRUE]
           f == [rows |-> c.rows, num |-> c.num, empty |-> TRUE]
<1>1. DOMAIN c = {"rows", "num", "empty"}
  BY DEF Cache
<1>2. DOMAIN e = {"rows", "num", "empty"} /\ e.rows = c.rows /\ e.num = c.num /\ e.empty = TRUE
  BY <1>1
<1>3. e \in [rows : {c.rows}, num : {c.num}, empty : {TRUE}]
  BY <1>2 DEF Cache
<1> HIDE DEF e
<1>4. e = [rows |-> c.rows, num |-> c.num, empty |-> TRUE]
  BY <1>3
<1> QED
  BY <1>4 DEF e

Cleared(k) == IF caches[k] = NoObj THEN obj ELSE [obj EXCEPT ![caches[k]].empty = TRUE]

LEMMA ClearStorage ==
    ASSUME StorageInv, CountInv, NEW k \in Key, checkAndClear(k)
    PROVE  /\ StorageInv'
           /\ \A x \in Obj, l \in Key : Uses(x, l)' => obj'[x] = Cleared(k)[x]
           /\ \A x \in Obj : x # caches[k] => Cleared(k)[x] = obj[x]
           /\ caches[k] # NoObj => ~ Pointed(caches[k], k)
<1> DEFINE o == caches[k]
           L == Cleared(k)
<1>1. /\ o # NoObj => obj[o].num <= syncNum
      /\ mru' = mru \ {k}
      /\ caches' = [caches EXCEPT ![k] = NoObj]
      /\ UNCHANGED <<ID, queue, commit, select, backend, blocks>>
      /\ Keep(L)
  BY DEF checkAndClear, Cleared
<1>2. /\ o \in Obj \cup {NoObj} /\ L \in [Obj -> Cache]
      /\ \A x \in Obj : x # o => L[x] = obj[x]
      /\ \A x \in Obj : L[x].rows = obj[x].rows /\ L[x].num = obj[x].num
  <2>1. o \in Obj \cup {NoObj} /\ obj \in [Obj -> Cache]
    BY DEF StorageInv, StorageType
  <2>2. CASE o = NoObj
    BY <2>1, <2>2 DEF Cleared
  <2>3. CASE o # NoObj
    <3>1. L = [obj EXCEPT ![o].empty = TRUE] /\ o \in Obj /\ obj[o] \in Cache
      BY <2>1, <2>3 DEF Cleared
    <3> HIDE DEF L, o
    <3>2. L = [obj EXCEPT ![o] = [rows |-> obj[o].rows, num |-> obj[o].num, empty |-> TRUE]]
      <4>1. [obj[o] EXCEPT !.empty = TRUE]
              = [rows |-> obj[o].rows, num |-> obj[o].num, empty |-> TRUE]
        BY <3>1, ClearedCache
      <4>2. L = [obj EXCEPT ![o] = [obj[o] EXCEPT !.empty = TRUE]]
        BY <3>1
      <4> QED
        BY <4>1, <4>2
    <3>3. [rows |-> obj[o].rows, num |-> obj[o].num, empty |-> TRUE] \in Cache
      BY <3>1 DEF Cache
    <3>4. /\ L \in [Obj -> Cache] /\ L[o] = [rows |-> obj[o].rows, num |-> obj[o].num, empty |-> TRUE]
          /\ \A x \in Obj : x # o => L[x] = obj[x]
      BY <2>1, <3>1, <3>2, <3>3
    <3> QED
      BY <2>1, <3>4
  <2> QED
    BY <2>2, <2>3
<1>20. \A x \in Obj : x # caches[k] => L[x] = obj[x]
  BY <1>2
<1> HIDE DEF L
<1>3. /\ obj' \in [Obj -> Cache]
      /\ \A x \in Obj : obj'[x] = L[x] \/ obj'[x] = NewCache
      /\ \A x \in Obj : x \in InUse' => obj'[x] = L[x]
  BY <1>1, <1>2, KeepFacts
<1>4. StorageType'
  BY <1>1, <1>3 DEF StorageInv, StorageType
<1>5. CommitType' /\ CommitIds' /\ StoreFit' /\ Limit' = Limit /\ num' = num
  BY <1>1, StoreKept DEF StorageInv, CommitType, CommitIds, LastId, IdOf, Limit, num
<1>6. \A x \in Obj, l \in Key : Uses(x, l)' => obj'[x] = L[x]
  BY <1>3, <1>4, UsedInUseNext
<1>7. ASSUME NEW l \in Key, Pointed(o, l), o # NoObj PROVE FALSE
  <2>1. syncNum <= backend.num /\ syncNum \in Nat /\ backend.num \in Nat
        /\ Len(blocks) = backend.num + Len(queue) + 1 /\ Len(queue) \in Nat
        /\ \A i \in 1 .. Len(queue) : queue[i].num = backend.num + i
    BY StorageFacts DEF CountInv, NumInv, TaskInv, StorageInv
  <2>2. obj[o].num \in Nat /\ obj[o].num <= syncNum
    BY <1>1, <1>2, <1>7, StorageFacts DEF StorageInv
  <2>3. CASE commit.data[l].obj = o
    <3>1. obj[o].num >= num
      BY <1>7, <2>3 DEF StorageInv, DataFit, Fit, Points
    <3> QED
      BY <2>1, <2>2, <3>1 DEF num
  <2>4. ASSUME NEW i \in 1 .. Len(queue), queue[i].data[l].obj = o PROVE FALSE
    <3>1. obj[o].num >= queue[i].num
      BY <1>7, <2>4 DEF StorageInv, DataFit, Fit, Points
    <3> QED
      BY <2>1, <2>2, <3>1
  <2> QED
    BY <1>7, <2>3, <2>4 DEF Pointed
<1>8. ObjFit'
  <2>1. ASSUME NEW x \in Obj PROVE Below(obj'[x].rows, Limit') /\ obj'[x].num <= num'
    <3>1. num \in Nat
      BY StorageFacts DEF StorageInv, num
    <3>2. Below(L[x].rows, Limit) /\ L[x].num <= num
      BY <1>2 DEF StorageInv, ObjFit
    <3> QED
      BY <1>3, <1>5, <3>1, <3>2, NewCacheType, BelowEmpty
  <2>2. ASSUME NEW l \in Key, caches'[l] # NoObj, obj'[caches'[l]].empty
        PROVE  obj'[caches'[l]].rows = <<>>
    <3> DEFINE c == caches[l]
    <3>1. c \in Obj /\ caches'[l] = c /\ l # k
      BY <1>1, <2>2 DEF StorageInv, StorageType
    <3>2. Uses(c, l)'
      BY <3>1 DEF Uses
    <3>3. obj'[c] = L[c]
      BY <1>6, <3>1, <3>2
    <3>4. c # o
      BY <3>1 DEF StorageInv, Owned, Uses
    <3>5. L[c] = obj[c]
      BY <1>2, <3>1, <3>4
    <3> QED
      BY <2>2, <3>1, <3>3, <3>5 DEF StorageInv, ObjFit
  <2> QED
    BY <2>1, <2>2 DEF ObjFit
<1>9. DataFit'
  <2>1. \A x \in Obj, l \in Key : Pointed(x, l) => Uses(x, l)'
    BY <1>1 DEF Pointed, Uses
  <2>2. \A x \in Obj, l \in Key : Pointed(x, l) /\ ~ obj[x].empty => obj'[x] = obj[x]
    <3> TAKE x \in Obj, l \in Key
    <3>1. Pointed(x, l) => x # o
      BY <1>7, StorageFacts DEF StorageInv
    <3> QED
      BY <1>2, <1>6, <2>1, <3>1
  <2> QED
    BY <1>1, <1>5, <2>2, DataKept DEF StorageInv
<1>10. Owned'
  <2>1. ASSUME NEW x \in Obj, NEW l \in Key, Uses(x, l)'
        PROVE  Uses(x, l)
    <3>1. caches'[l] = x => caches[l] = x
      BY <1>1, StorageFacts DEF StorageInv, StorageType
    <3> QED
      BY <1>1, <2>1, <3>1 DEF Uses
  <2> QED
    BY <2>1, OwnedLess DEF StorageInv
<1>11. ~ Pointed(o, k) \/ o = NoObj
  BY <1>7
<1> QED
  BY <1>4, <1>5, <1>6, <1>8, <1>9, <1>10, <1>11, <1>20 DEF StorageInv, L

-----------------------------------------------------------------------------
(* Steps of the commit thread.                                             *)

LEMMA StartCommitStorage ==
    ASSUME StorageInv, NEW dirty \in SUBSET DirtyWrite, NEW new \in SUBSET NewWrite,
           \A w \in dirty : w.row.id <= LastId, StartCommit(dirty, new)
    PROVE  StorageInv'
<1>1. /\ commit.pc = "idle"
      /\ commit' = [IdleCommit EXCEPT !.pc = "touch", !.dirty = dirty, !.new = new]
      /\ UNCHANGED <<caches, obj, mru, ID, queue, select, backend, blocks>>
  BY DEF StartCommit
<1>2. commit.data = NoData /\ ID = LastId /\ commit.obj = NoObj
  BY <1>1 DEF StorageInv, CommitType, CommitIds
<1>3. NoData \in [Key -> Writes] /\ \A k \in Key : NoData[k].new = <<>>
  BY <1>2, CommitFacts DEF StorageInv, NoData, NoWrites
<1>4. commit' = [pc |-> "touch", dirty |-> dirty, new |-> new, write |-> None, obj |-> NoObj,
                 data |-> NoData]
  BY <1>1 DEF IdleCommit
<1>40. /\ commit'.pc = "touch" /\ commit'.dirty = dirty /\ commit'.data = NoData
       /\ commit'.obj = NoObj
  BY <1>4
<1>5. StorageType' /\ StoreFit' /\ Limit' = Limit /\ num' = num /\ LastId' = LastId
  BY <1>1, <1>4, StoreKept DEF StorageInv, StorageType, Limit, num, LastId, IdOf
<1>6. CommitType'
  <2>1. commit' \in Committing
    BY <1>3, <1>4 DEF Committing
  <2> QED
    BY <1>4, <2>1 DEF CommitType
<1>7. CommitIds'
  <2>1. LastId' <= Limit'
    BY <1>5 DEF StorageInv, CommitIds
  <2> QED
    BY <1>1, <1>2, <1>3, <1>40, <1>5, <2>1 DEF CommitIds
<1>8. ObjFit'
  BY <1>1, <1>5 DEF StorageInv, ObjFit
<1>9. DataFit'
  BY <1>1, <1>2, <1>40, <1>5, DataKept DEF StorageInv
<1>10. Owned'
  <2>1. \A x \in Obj, l \in Key : Uses(x, l)' => Uses(x, l)
    BY <1>1, <1>2, <1>40, StorageFacts DEF Uses, StorageInv
  <2> QED
    BY <2>1, OwnedLess DEF StorageInv
<1> QED
  BY <1>5, <1>6, <1>7, <1>8, <1>9, <1>10 DEF StorageInv

LEMMA ReturnsStorage ==
    ASSUME StorageInv, CommitReturns
    PROVE  StorageInv'
<1>1. /\ commit.pc = "wait" /\ commit' = IdleCommit
      /\ UNCHANGED <<caches, obj, mru, ID, queue, select, backend, blocks>>
  BY DEF CommitReturns
<1>2. commit.data = NoData /\ ID = LastId /\ commit.obj = NoObj
  BY <1>1 DEF StorageInv, CommitType, CommitIds
<1>3. NoData \in [Key -> Writes]
  BY <1>2, CommitFacts DEF StorageInv
<1>4. commit' = [pc |-> "idle", dirty |-> {}, new |-> {}, write |-> None, obj |-> NoObj,
                 data |-> NoData]
  BY <1>1 DEF IdleCommit
<1>5. StorageType' /\ StoreFit' /\ Limit' = Limit /\ num' = num /\ LastId' = LastId
  BY <1>1, <1>4, StoreKept DEF StorageInv, StorageType, Limit, num, LastId, IdOf
<1>6. CommitType'
  <2>1. commit' \in Committing
    BY <1>3, <1>4 DEF Committing
  <2> QED
    BY <1>4, <2>1 DEF CommitType
<1>7. CommitIds'
  BY <1>1, <1>2, <1>4, <1>5 DEF StorageInv, CommitIds
<1>8. ObjFit'
  BY <1>1, <1>5 DEF StorageInv, ObjFit
<1>9. DataFit'
  BY <1>1, <1>2, <1>4, <1>5, DataKept DEF StorageInv
<1>10. Owned'
  <2>1. \A x \in Obj, l \in Key : Uses(x, l)' => Uses(x, l)
    BY <1>1, <1>2, <1>4, StorageFacts DEF Uses, StorageInv
  <2> QED
    BY <2>1, OwnedLess DEF StorageInv
<1> QED
  BY <1>5, <1>6, <1>7, <1>8, <1>9, <1>10 DEF StorageInv

LEMMA WithinMore ==
    ASSUME NEW d \in Writes, NEW lo, NEW m \in Nat, NEW n \in Nat, m <= n, Within(d, lo, m)
    PROVE  Within(d, lo, n)
BY WritesFacts DEF Within

LEMMA ExitStorage ==
    ASSUME StorageInv, commit.pc \in {"writeDirty", "writeNew"}, Exit,
           UNCHANGED <<ID, queue, select, backend, blocks>>
    PROVE  StorageInv'
<1>1. commit' = [commit EXCEPT !.pc = "exit"] /\ UNCHANGED <<caches, obj, mru>>
  BY DEF Exit
<1>2. commit \in Committing
  BY DEF StorageInv, CommitType
<1>3. /\ commit'.pc = "exit" /\ commit'.dirty = commit.dirty /\ commit'.new = commit.new
      /\ commit'.write = commit.write /\ commit'.obj = commit.obj /\ commit'.data = commit.data
  BY <1>1, <1>2 DEF Committing
<1>4. StorageType' /\ StoreFit' /\ num' = num /\ LastId' = LastId
  BY <1>1, StoreKept DEF StorageInv, StorageType, num, LastId, IdOf
<1>5. Limit' = ID /\ Limit \in Nat /\ ID \in Nat /\ Limit <= ID /\ LastId \in Nat /\ LastId <= Limit
  BY <1>3, IdFacts DEF Limit
<1>6. CommitType'
  <2>1. commit' \in Committing
    BY <1>1, <1>2 DEF Committing
  <2> QED
    BY <1>3, <2>1 DEF CommitType
<1>7. CommitIds'
  <2>1. /\ commit.dirty # {} => ID = LastId /\ \A k \in Key : commit.data[k].new = <<>>
        /\ \A w \in commit.dirty : w.row.id <= LastId
    BY DEF StorageInv, CommitIds
  <2>2. LastId' <= Limit'
    BY <1>4, <1>5
  <2> QED
    BY <1>3, <1>4, <2>1, <2>2 DEF CommitIds
<1>8. ObjFit'
  <2>1. ASSUME NEW o \in Obj PROVE Below(obj'[o].rows, Limit') /\ obj'[o].num <= num'
    <3>1. Below(obj[o].rows, Limit) /\ obj[o].num <= num
      BY DEF StorageInv, ObjFit
    <3>2. Below(obj[o].rows, ID)
      BY <1>5, <3>1, BelowMore, StorageFacts DEF StorageInv
    <3> QED
      BY <1>1, <1>4, <1>5, <3>1, <3>2
  <2> QED
    BY <1>1, <2>1 DEF StorageInv, ObjFit
<1>9. DataFit'
  <2>1. ASSUME NEW k \in Key PROVE Fit(obj, commit.data[k], LastId, ID, num)
    <3>1. Fit(obj, commit.data[k], LastId, Limit, num) /\ commit.data[k] \in Writes
      BY CommitFacts DEF StorageInv, DataFit
    <3>2. Within(commit.data[k], LastId, ID)
      BY <1>5, <3>1, WithinMore DEF Fit
    <3> QED
      BY <3>1, <3>2 DEF Fit
  <2>2. ASSUME NEW i \in 1 .. Len(queue), NEW k \in Key
        PROVE  Fit(obj, queue[i].data[k], IdOf(i - 1), IdOf(i), queue[i].num)
    BY DEF StorageInv, DataFit
  <2>3. \A i : IdOf(i)' = IdOf(i)
    BY DEF IdOf
  <2> QED
    BY <1>1, <1>3, <1>4, <1>5, <2>1, <2>2, <2>3 DEF DataFit
<1>10. Owned'
  <2>1. \A x \in Obj, l \in Key : Uses(x, l)' => Uses(x, l)
    BY <1>1, <1>3 DEF Uses
  <2> QED
    BY <2>1, OwnedLess DEF StorageInv
<1> QED
  BY <1>4, <1>6, <1>7, <1>8, <1>9, <1>10 DEF StorageInv

\* The rows of an object change in place and grow at the end.
Grown(c, e, lo) ==
    /\ Len(c.rows) <= Len(e.rows) /\ e.num >= c.num /\ ~ e.empty
    /\ \A i \in 1 .. Len(e.rows) : IF i <= Len(c.rows) THEN e.rows[i].id = c.rows[i].id
                                   ELSE e.rows[i].id > lo

LEMMA GrownPoints ==
    ASSUME NEW c \in Cache, NEW e \in Cache, NEW d \in Writes, NEW lo \in Nat, NEW m \in Nat,
           lo <= m, NEW n \in Nat, Points(c, d, lo, n), Grown(c, e, m)
    PROVE  Points(e, d, lo, n)
<1> DEFINE s == c.rows
           t == e.rows
<1>1. s \in Seq(Row) /\ t \in Seq(Row) /\ c.num \in Nat /\ e.num \in Nat
  BY DEF Cache
<1>2. Len(s) \in Nat /\ Len(t) \in Nat /\ \A i \in 1 .. Len(t) : t[i].id \in Nat
  BY <1>1, RowFacts
<1>3. /\ c.num >= n /\ d.but \in 1 .. d.len /\ d.len <= Len(s) /\ d.len \in Nat
      /\ \A i \in 1 .. Len(s) : i <= d.len <=> s[i].id <= lo
  BY WritesFacts DEF Points
<1>4. /\ Len(s) <= Len(t) /\ e.num >= c.num /\ ~ e.empty
      /\ \A i \in 1 .. Len(t) : IF i <= Len(s) THEN t[i].id = s[i].id ELSE t[i].id > m
  BY DEF Grown
<1> HIDE DEF s, t
<1>5. ASSUME NEW i \in 1 .. Len(t) PROVE i <= d.len <=> t[i].id <= lo
  <2>1. CASE i <= Len(s)
    BY <1>2, <1>3, <1>4, <2>1
  <2>2. CASE ~ (i <= Len(s))
    BY <1>2, <1>3, <1>4, <2>2
  <2> QED
    BY <2>1, <2>2
<1>6. e.num >= n /\ d.len <= Len(t)
  BY <1>1, <1>2, <1>3, <1>4
<1> QED
  BY <1>3, <1>4, <1>5, <1>6 DEF Points, t

\* Whatever a block writes into the object of its key.
LEMMA WrittenStorage ==
    ASSUME StorageInv, commit.pc \in {"writeDirty", "writeNew"},
           NEW rows \in Seq(Row), NEW data \in [Key -> Writes], NEW restore \in BOOLEAN,
           Written(rows, data, restore), UNCHANGED <<ID, queue, select, backend, blocks>>,
           Below(rows, ID),
           ~ obj[commit.obj].empty =>
              Grown(obj[commit.obj], [rows |-> rows, num |-> num, empty |-> FALSE], LastId),
           \A l \in Key : Within(data[l], LastId, ID),
           \A l \in Key : \/ /\ data[l].obj = commit.data[l].obj
                             /\ data[l].len = commit.data[l].len /\ data[l].but = commit.data[l].but
                          \/ /\ l = commit.write.key /\ data[l].obj = commit.obj
                             /\ Points([rows |-> rows, num |-> num, empty |-> FALSE], data[l],
                                       LastId, num),
           commit.dirty # {} => ID = LastId /\ \A l \in Key : data[l].new = <<>>
    PROVE  StorageInv'
<1> DEFINE o == commit.obj
           k == commit.write.key
           e == [rows |-> rows, num |-> num, empty |-> FALSE]
<1>1. /\ obj' = [obj EXCEPT ![o] = e]
      /\ caches' = IF restore THEN [caches EXCEPT ![k] = o] ELSE caches
      /\ mru' = mru \cup {k}
      /\ commit' = [commit EXCEPT !.pc = "touch", !.write = None, !.obj = NoObj, !.data = data]
  BY DEF Written
<1>2. /\ commit \in Committing /\ o \in Obj /\ k \in Key
      /\ commit.write \in DirtyWrite \cup NewWrite
  BY DEF StorageInv, CommitType, DirtyWrite, NewWrite
<1>3. /\ commit'.pc = "touch" /\ commit'.dirty = commit.dirty /\ commit'.new = commit.new
      /\ commit'.write = None /\ commit'.obj = NoObj /\ commit'.data = data
  BY <1>1, <1>2 DEF Committing
<1>4. num \in Nat /\ num' = num /\ LastId' = LastId /\ \A i : IdOf(i)' = IdOf(i)
  BY StorageFacts DEF StorageInv, num, LastId, IdOf
<1>5. /\ Limit' = ID /\ Limit \in Nat /\ ID \in Nat /\ Limit <= ID /\ LastId \in Nat /\ LastId <= Limit
      /\ \A i \in 0 .. Len(queue) : IdOf(i) \in Nat /\ IdOf(i) <= LastId
      /\ Len(queue) \in Nat
  BY <1>3, IdFacts DEF Limit
<1>6. e \in Cache
  BY <1>4 DEF Cache
<1>7. /\ obj' \in [Obj -> Cache] /\ obj'[o] = e /\ \A x \in Obj : x # o => obj'[x] = obj[x]
      /\ obj \in [Obj -> Cache] /\ e.rows = rows /\ e.num = num /\ ~ e.empty
      /\ ~ obj[o].empty => Grown(obj[o], e, LastId)
  <2>1. obj \in [Obj -> Cache]
    BY DEF StorageInv, StorageType
  <2>2. e.rows = rows /\ e.num = num /\ ~ e.empty
    OBVIOUS
  <2> HIDE DEF e
  <2>3. ~ obj[o].empty => Grown(obj[o], e, LastId)
    BY DEF e
  <2> HIDE DEF o
  <2> QED
    BY <1>1, <1>2, <1>6, <2>1, <2>2, <2>3
<1>70. \A l \in Key : \/ /\ data[l].obj = commit.data[l].obj
                         /\ data[l].len = commit.data[l].len /\ data[l].but = commit.data[l].but
                      \/ l = k /\ data[l].obj = o /\ Points(e, data[l], LastId, num)
  OBVIOUS
<1> HIDE DEF e, o, k
<1>8. StorageType'
  <2>1. caches' \in [Key -> Obj \cup {NoObj}]
    BY <1>1, <1>2 DEF StorageInv, StorageType
  <2> QED
    BY <1>1, <1>2, <1>7, <2>1 DEF StorageInv, StorageType
<1>9. StoreFit'
  BY StoreKept DEF StorageInv
<1>10. CommitType'
  <2>1. commit' \in Committing
    BY <1>1, <1>2 DEF Committing
  <2> QED
    BY <1>3, <2>1 DEF CommitType
<1>11. CommitIds'
  <2>1. \A w \in commit.dirty : w.row.id <= LastId
    BY DEF StorageInv, CommitIds
  <2>2. LastId' <= Limit'
    BY <1>4, <1>5
  <2> QED
    BY <1>3, <1>4, <2>1, <2>2 DEF CommitIds
<1>12. ObjFit'
  <2>1. ASSUME NEW x \in Obj PROVE Below(obj'[x].rows, Limit') /\ obj'[x].num <= num'
    <3>1. CASE x = o
      BY <1>4, <1>5, <1>7, <3>1
    <3>2. CASE x # o
      <4>1. Below(obj[x].rows, Limit) /\ obj[x].num <= num
        BY DEF StorageInv, ObjFit
      <4>2. Below(obj[x].rows, ID)
        BY <1>5, <4>1, BelowMore, StorageFacts DEF StorageInv
      <4> QED
        BY <1>4, <1>5, <1>7, <3>2, <4>1, <4>2
    <3> QED
      BY <3>1, <3>2
  <2>2. ASSUME NEW l \in Key, caches'[l] # NoObj, obj'[caches'[l]].empty
        PROVE  obj'[caches'[l]].rows = <<>>
    <3>1. caches'[l] # o
      BY <1>7, <2>2
    <3>2. caches'[l] = caches[l] /\ caches[l] \in Obj
      BY <1>1, <2>2, <3>1, <1>2 DEF StorageInv, StorageType
    <3>3. obj'[caches[l]] = obj[caches[l]]
      BY <1>7, <3>1, <3>2
    <3> QED
      BY <2>2, <3>2, <3>3 DEF StorageInv, ObjFit
  <2> QED
    BY <2>1, <2>2 DEF ObjFit
<1>13. ASSUME NEW d \in Writes, NEW lo \in Nat, lo <= LastId, NEW n \in Nat, d.obj # NoObj,
              Points(obj[d.obj], d, lo, n)
       PROVE  Points(obj'[d.obj], d, lo, n)
  <2>1. d.obj \in Obj
    BY <1>13, WritesFacts
  <2>2. CASE d.obj = o
    <3>1. ~ obj[o].empty
      BY <1>13, <2>2 DEF Points
    <3>2. Grown(obj[o], e, LastId) /\ obj[o] \in Cache
      BY <1>2, <1>7, <3>1
    <3>3. Points(e, d, lo, n)
      BY <1>5, <1>6, <1>13, <2>2, <3>2, GrownPoints
    <3> QED
      BY <1>7, <2>2, <3>3
  <2>3. CASE d.obj # o
    BY <1>7, <1>13, <2>1, <2>3
  <2> QED
    BY <2>2, <2>3
<1>14. DataFit'
  <2>1. ASSUME NEW i \in 1 .. Len(queue), NEW l \in Key
        PROVE  Fit(obj', queue[i].data[l], IdOf(i - 1), IdOf(i), queue[i].num)
    <3> DEFINE d == queue[i].data[l]
    <3>1. Fit(obj, d, IdOf(i - 1), IdOf(i), queue[i].num) /\ d \in Writes /\ queue[i].num \in Nat
      BY StorageFacts DEF StorageInv, DataFit
    <3>2. IdOf(i - 1) \in Nat /\ IdOf(i - 1) <= LastId
      BY <1>5
    <3> HIDE DEF d
    <3> QED
      BY <1>13, <3>1, <3>2 DEF Fit, d
  <2>2. ASSUME NEW l \in Key
        PROVE  Fit(obj', data[l], LastId, ID, num)
    <3> DEFINE d == commit.data[l]
    <3>1. Fit(obj, d, LastId, Limit, num) /\ d \in Writes
      BY CommitFacts DEF StorageInv, DataFit
    <3>2. Within(data[l], LastId, ID) /\ data[l] \in Writes
      OBVIOUS
    <3>3. CASE data[l].obj = d.obj /\ data[l].len = d.len /\ data[l].but = d.but
      <4>1. d.obj # NoObj => Points(obj'[d.obj], d, LastId, num)
        BY <1>4, <1>5, <1>13, <3>1 DEF Fit
      <4>2. d.obj # NoObj => Points(obj'[d.obj], data[l], LastId, num)
        BY <3>3, <4>1 DEF Points
      <4> QED
        BY <3>2, <3>3, <4>2 DEF Fit
    <3>4. CASE data[l].obj = o /\ Points(e, data[l], LastId, num)
      BY <1>7, <3>2, <3>4 DEF Fit
    <3> QED
      BY <1>70, <3>3, <3>4
  <2> QED
    BY <1>3, <1>4, <1>5, <2>1, <2>2 DEF DataFit
<1>15. Owned'
  <2>1. ASSUME NEW x \in Obj, NEW l \in Key, Uses(x, l)'
        PROVE  Uses(x, l)
    <3>1. Uses(o, k)
      BY DEF Uses, o, k
    <3>2. CASE caches'[l] = x
      <4>1. caches[l] = x \/ (l = k /\ x = o)
        BY <1>1, <3>2 DEF StorageInv, StorageType
      <4> QED
        BY <3>1, <4>1 DEF Uses
    <3>3. CASE data[l].obj = x
      <4>1. commit.data[l].obj = x \/ (l = k /\ x = o)
        BY <1>70, <3>3
      <4> QED
        BY <3>1, <4>1 DEF Uses
    <3> QED
      BY <1>3, <2>1, <3>2, <3>3, StorageFacts DEF Uses, StorageInv
  <2> QED
    BY <2>1, OwnedLess DEF StorageInv
<1> QED
  BY <1>8, <1>9, <1>10, <1>11, <1>12, <1>14, <1>15 DEF StorageInv

LEMMA CachedFacts ==
    ASSUME StorageInv, commit.pc \in {"writeDirty", "writeNew"}
    PROVE  /\ commit.obj \in Obj /\ commit.write.key \in Key
           /\ CachedRows \in Seq(Row) /\ Below(CachedRows, Limit)
           /\ obj[commit.obj].rows \in Seq(Row) /\ Below(obj[commit.obj].rows, Limit)
           /\ ~ obj[commit.obj].empty => CachedRows = obj[commit.obj].rows
           /\ obj[commit.obj].empty => CachedRows = Load(commit.write.key)
<1>1. commit.obj \in Obj /\ commit.write.key \in Key
  BY DEF StorageInv, CommitType, DirtyWrite, NewWrite
<1>2. Load(commit.write.key) \in Seq(Row) /\ Below(Load(commit.write.key), LastId)
  BY <1>1, LoadFacts
<1>3. Below(Load(commit.write.key), Limit)
  BY <1>2, BelowMore, IdFacts
<1>4. obj[commit.obj].rows \in Seq(Row) /\ Below(obj[commit.obj].rows, Limit)
  BY <1>1, StorageFacts DEF StorageInv, ObjFit
<1> QED
  BY <1>1, <1>2, <1>3, <1>4 DEF CachedRows, Restoring

DirtyAt == IndexOf(CachedRows, commit.write.row.id)
DirtyRows == [CachedRows EXCEPT ![DirtyAt] = commit.write.row]
DirtyData ==
    LET k == commit.write.key
        d == commit.data[k]
        copied == [d EXCEPT !.dirty = Append(@, commit.write.row)]
    IN  [commit.data EXCEPT ![k] =
            IF d.obj /= NoObj THEN copied
            ELSE [copied EXCEPT !.obj = commit.obj, !.len = Len(CachedRows), !.but = DirtyAt]]

LEMMA WriteDirtyIs ==
    ASSUME WriteDirty
    PROVE  /\ commit.pc = "writeDirty"
           /\ IF RestoreFails \/ commit.write.row.id \notin Ids(CachedRows)
              THEN Exit ELSE Written(DirtyRows, DirtyData, Restoring)
           /\ UNCHANGED <<ID, queue, select, backend, blocks>>
           /\ tainted' = IF commit.data[commit.write.key].obj /= NoObj
                         THEN tainted \cup {commit.write.key} ELSE tainted
BY DEF WriteDirty, DirtyRows, DirtyData, DirtyAt

\* What a dirty row does to the cached rows and to the task.
LEMMA DirtyRowFacts ==
    ASSUME StorageInv, commit.pc = "writeDirty", commit.write.row.id \in Ids(CachedRows)
    PROVE  /\ commit.write.row \in Row /\ commit.write.row.id <= LastId
           /\ DirtyAt \in 1 .. Len(CachedRows)
           /\ CachedRows[DirtyAt].id = commit.write.row.id
           /\ DirtyRows \in Seq(Row) /\ Len(DirtyRows) = Len(CachedRows)
           /\ \A j \in 1 .. Len(CachedRows) :
                 DirtyRows[j] = IF j = DirtyAt THEN commit.write.row ELSE CachedRows[j]
           /\ Below(DirtyRows, LastId) /\ Below(CachedRows, LastId)
<1> DEFINE r == commit.write.row
           s == CachedRows
           i == DirtyAt
           S == {j \in DOMAIN s : s[j].id = r.id}
<1>1. s \in Seq(Row) /\ Below(s, Limit) /\ Len(s) \in Nat
  BY CachedFacts
<1>2. Limit = LastId
  BY DEF StorageInv, CommitIds, Limit
<1>3. r \in Row /\ r.id <= LastId
  BY DEF StorageInv, CommitIds, CommitType, DirtyWrite
<1> HIDE DEF s
<1>4. i \in DOMAIN s /\ s[i].id = r.id
  <2>1. S # {} /\ S \in SUBSET Nat
    BY <1>1 DEF Ids, s
  <2>2. i = Min(S)
    BY DEF DirtyAt, IndexOf, s
  <2> HIDE DEF i, S
  <2>3. i \in S
    BY <2>1, <2>2, MinFacts
  <2> QED
    BY <2>3 DEF S
<1>5. i \in 1 .. Len(s)
  BY <1>1, <1>4
<1>6. DirtyRows = [s EXCEPT ![i] = r]
  BY DEF DirtyRows, s
<1> DEFINE t == DirtyRows
<1> HIDE DEF i, r, t
<1>7. t = [s EXCEPT ![i] = r]
  BY <1>6 DEF t
<1>8. s \in [1 .. Len(s) -> Row]
  BY <1>1
<1>9. t \in [1 .. Len(s) -> Row] /\ \A j \in 1 .. Len(s) : t[j] = IF j = i THEN r ELSE s[j]
  BY <1>3, <1>5, <1>7, <1>8
<1>10. t \in Seq(Row) /\ Len(t) = Len(s)
  BY <1>1, <1>9
<1>11. Below(s, LastId)
  BY <1>1, <1>2
<1>12. Below(t, LastId)
  BY <1>3, <1>9, <1>10, <1>11 DEF Below
<1> QED
  BY <1>3, <1>4, <1>5, <1>9, <1>10, <1>11, <1>12 DEF s, t, i, r

LEMMA DirtyDataFacts ==
    ASSUME StorageInv, commit.pc = "writeDirty", commit.write.row.id \in Ids(CachedRows)
    PROVE  LET k == commit.write.key
               d == commit.data[k]
               e == DirtyData[k]
           IN  /\ DirtyData \in [Key -> Writes]
               /\ \A l \in Key : l # k => DirtyData[l] = commit.data[l]
               /\ e.dirty = Append(d.dirty, commit.write.row) /\ e.new = d.new
               /\ d.obj # NoObj => e.obj = d.obj /\ e.len = d.len /\ e.but = d.but
               /\ d.obj = NoObj => e.obj = commit.obj /\ e.len = Len(CachedRows) /\ e.but = DirtyAt
<1> DEFINE k == commit.write.key
           d == commit.data[k]
           r == commit.write.row
           n == Len(CachedRows)
           i == DirtyAt
           o == commit.obj
           e == IF d.obj # NoObj THEN [d EXCEPT !.dirty = Append(@, r)]
                ELSE [d EXCEPT !.dirty = Append(@, r), !.obj = o, !.len = n, !.but = i]
<1>1. /\ r \in Row /\ i \in 1 .. n /\ n \in Nat /\ o \in Obj /\ k \in Key
  <2>1. CachedRows \in Seq(Row) /\ commit.obj \in Obj /\ commit.write.key \in Key
    BY CachedFacts
  <2> QED
    BY <2>1, DirtyRowFacts
<1>2. d \in Writes /\ commit.data \in [Key -> Writes]
  BY <1>1, CommitFacts DEF StorageInv
<1>3. DirtyData = [commit.data EXCEPT ![k] = e]
  BY DEF DirtyData
<1> HIDE DEF d, r, n, i, o, k
<1>4. /\ d.dirty \in Seq(Row)
  BY <1>2, WritesFacts
<1>5. Append(d.dirty, r) \in Seq(Row)
  BY <1>1, <1>4, AppendFacts
<1> DEFINE a == Append(d.dirty, r)
<1>6. /\ e \in Writes
      /\ e.dirty = a /\ e.new = d.new
      /\ d.obj # NoObj => e.obj = d.obj /\ e.len = d.len /\ e.but = d.but
      /\ d.obj = NoObj => e.obj = o /\ e.len = n /\ e.but = i
  <2>1. e = IF d.obj # NoObj THEN [d EXCEPT !.dirty = a]
            ELSE [d EXCEPT !.dirty = a, !.obj = o, !.len = n, !.but = i]
    BY <1>2 DEF Writes
  <2>2. a \in Seq(Row)
    BY <1>5
  <2>3. i \in Nat
    BY <1>1
  <2> HIDE DEF a, e
  <2> QED
    BY <1>1, <1>2, <2>1, <2>2, <2>3 DEF Writes
<1> HIDE DEF e, a
<1>7. /\ DirtyData \in [Key -> Writes] /\ DirtyData[k] = e
      /\ \A l \in Key : l # k => DirtyData[l] = commit.data[l]
  BY <1>1, <1>2, <1>3, <1>6
<1> QED
  BY <1>6, <1>7 DEF d, r, n, i, o, k, a

LEMMA BelowAppend ==
    ASSUME NEW s \in Seq(Row), NEW r \in Row, NEW n, Below(s, n), r.id <= n
    PROVE  Below(Append(s, r), n)
<1> DEFINE t == Append(s, r)
<1>1. /\ Len(t) = Len(s) + 1 /\ Len(s) \in Nat
      /\ \A i \in 1 .. Len(s) : t[i] = s[i]
      /\ t[Len(s) + 1] = r
  BY AppendFacts
<1> HIDE DEF t
<1> SUFFICES ASSUME NEW i \in 1 .. Len(t)
             PROVE  t[i].id <= n
  BY DEF Below, t
<1>2. i \in 1 .. Len(s) \/ i = Len(s) + 1
  BY <1>1
<1> QED
  BY <1>1, <1>2 DEF Below

LEMMA WriteDirtyStorage ==
    ASSUME StorageInv, WriteDirty
    PROVE  StorageInv'
<1>1. CASE RestoreFails \/ commit.write.row.id \notin Ids(CachedRows)
  <2>1. Exit /\ commit.pc = "writeDirty" /\ UNCHANGED <<ID, queue, select, backend, blocks>>
    BY <1>1, WriteDirtyIs
  <2> QED
    BY <2>1, ExitStorage
<1>2. CASE ~ (RestoreFails \/ commit.write.row.id \notin Ids(CachedRows))
  <2> DEFINE k == commit.write.key
             r == commit.write.row
             o == commit.obj
             s == CachedRows
             t == DirtyRows
             d == commit.data[k]
             D == DirtyData
             e == [rows |-> t, num |-> num, empty |-> FALSE]
  <2>1. /\ commit.pc = "writeDirty" /\ Written(t, D, Restoring) /\ r.id \in Ids(s)
        /\ UNCHANGED <<ID, queue, select, backend, blocks>>
    BY <1>2, WriteDirtyIs
  <2>2. /\ r \in Row /\ r.id <= LastId /\ DirtyAt \in 1 .. Len(s) /\ s[DirtyAt].id = r.id
        /\ t \in Seq(Row) /\ Len(t) = Len(s)
        /\ \A j \in 1 .. Len(s) : t[j] = IF j = DirtyAt THEN r ELSE s[j]
        /\ Below(t, LastId)
    BY <2>1, DirtyRowFacts
  <2>3. /\ D \in [Key -> Writes]
        /\ \A l \in Key : l # k => D[l] = commit.data[l]
        /\ D[k].dirty = Append(d.dirty, r) /\ D[k].new = d.new
        /\ d.obj # NoObj => D[k].obj = d.obj /\ D[k].len = d.len /\ D[k].but = d.but
        /\ d.obj = NoObj => D[k].obj = o /\ D[k].len = Len(s) /\ D[k].but = DirtyAt
    BY <2>1, DirtyDataFacts
  <2>4. /\ o \in Obj /\ k \in Key /\ s \in Seq(Row)
        /\ ~ obj[o].empty => s = obj[o].rows
    BY <2>1, CachedFacts
  <2>5. ID = LastId /\ Limit = ID /\ LastId \in Nat /\ \A l \in Key : commit.data[l].new = <<>>
    BY <2>1, IdFacts DEF StorageInv, CommitIds, Limit
  <2>6. num \in Nat /\ obj[o].num \in Nat /\ obj[o].num <= num
    BY <2>4, StorageFacts DEF StorageInv, num, ObjFit
  <2>7. e.rows = t /\ e.num = num /\ ~ e.empty
    OBVIOUS
  <2>8. Restoring \in BOOLEAN
    BY <2>4, StorageFacts DEF StorageInv, Restoring
  <2> HIDE DEF t, s, D, d, k, r, o, e
  <2>9. ~ obj[o].empty => Grown(obj[o], e, LastId)
    <3>1. Len(s) \in Nat
      BY <2>4
    <3> QED
      BY <2>2, <2>4, <2>6, <2>7, <3>1 DEF Grown
  <2>10. Below(t, ID)
    BY <2>2, <2>5
  <2>11. ASSUME NEW l \in Key PROVE Within(D[l], LastId, ID)
    <3>1. Within(commit.data[l], LastId, ID)
      BY <2>5 DEF StorageInv, DataFit, Fit
    <3>2. CASE l = k
      <4>1. Within(d, LastId, ID) /\ d \in Writes
        BY <3>1, <3>2, CommitFacts DEF d, StorageInv
      <4>2. Below(Append(d.dirty, r), LastId) /\ Append(d.dirty, r) # <<>>
        <5>1. d.dirty \in Seq(Row)
          BY <4>1, WritesFacts
        <5>2. Below(d.dirty, LastId)
          BY <4>1 DEF Within
        <5>3. Below(Append(d.dirty, r), LastId)
          BY <2>2, <5>1, <5>2, BelowAppend
        <5>4. Append(d.dirty, r) # <<>>
          <6>1. Len(Append(d.dirty, r)) = Len(d.dirty) + 1 /\ Len(d.dirty) \in Nat
            BY <2>2, <5>1, AppendFacts
          <6>2. Len(<<>>) = 0
            OBVIOUS
          <6> QED
            BY <6>1, <6>2
        <5> QED
          BY <5>3, <5>4
      <4>3. D[k].obj # NoObj
        BY <2>3, <2>4, StorageFacts DEF StorageInv
      <4> QED
        BY <2>3, <3>2, <4>1, <4>2, <4>3 DEF Within
    <3>3. CASE l # k
      BY <2>3, <3>1, <3>3
    <3> QED
      BY <3>2, <3>3
  <2>12. ASSUME NEW l \in Key
         PROVE  \/ /\ D[l].obj = commit.data[l].obj
                   /\ D[l].len = commit.data[l].len /\ D[l].but = commit.data[l].but
                \/ l = k /\ D[l].obj = o /\ Points(e, D[l], LastId, num)
    <3>1. CASE l = k /\ d.obj = NoObj
      <4>1. /\ D[k].obj = o /\ D[k].len = Len(t) /\ D[k].but \in 1 .. Len(t) /\ Len(t) \in Nat
        BY <2>2, <2>3, <3>1
      <4>2. Points(e, D[k], LastId, num)
        BY <2>2, <2>6, <2>7, <4>1 DEF Points, Below
      <4> QED
        BY <3>1, <4>1, <4>2
    <3>2. CASE l = k /\ d.obj # NoObj
      BY <2>3, <3>2 DEF d
    <3>3. CASE l # k
      BY <2>3, <3>3
    <3> QED
      BY <3>1, <3>2, <3>3
  <2>13. \A l \in Key : D[l].new = <<>>
    BY <2>3, <2>5 DEF d
  <2> QED
    BY <2>1, <2>2, <2>3, <2>5, <2>8, <2>9, <2>10, <2>11, <2>12, <2>13, WrittenStorage DEF o, k, e
<1> QED
  BY <1>1, <1>2

NewRow == [commit.write.row EXCEPT !.id = ID]
NewBase == IF commit.write.force THEN obj[commit.obj].rows ELSE CachedRows
NewEntry == [row |-> NewRow, force |-> commit.write.force]
NewData == [commit.data EXCEPT ![commit.write.key].new = Append(@, NewEntry)]
NewLoads == Restoring /\ ~ commit.write.force

LEMMA WriteNewIs ==
    ASSUME WriteNew
    PROVE  /\ commit.pc = "writeNew"
           /\ IF NewLoads /\ RestoreFails
              THEN Exit ELSE Written(Append(NewBase, NewRow), NewData, NewLoads)
           /\ UNCHANGED <<ID, queue, select, backend, blocks, tainted>>
BY DEF WriteNew, NewRow, NewBase, NewEntry, NewData, NewLoads

LEMMA NewRowFacts ==
    ASSUME StorageInv, commit.pc = "writeNew"
    PROVE  /\ NewRow \in Row /\ NewRow.id = ID /\ Limit = ID - 1
           /\ commit.write.force \in BOOLEAN /\ NewEntry \in New
           /\ NewEntry.row = NewRow /\ NewEntry.force = commit.write.force
           /\ NewBase \in Seq(Row) /\ Below(NewBase, Limit)
           /\ ~ obj[commit.obj].empty => NewBase = obj[commit.obj].rows
           /\ obj[commit.obj].empty /\ ~ commit.write.force => NewBase = Load(commit.write.key)
           /\ obj[commit.obj].empty /\ commit.write.force => NewBase = obj[commit.obj].rows
           /\ commit.dirty = {}
<1>1. commit.write \in NewWrite /\ ID \in Nat \ {0}
  BY DEF StorageInv, CommitType, StorageType
<1>2. commit.write.row \in [id : {0}, val : Value, removed : BOOLEAN] /\ commit.write.force \in BOOLEAN
  BY <1>1 DEF NewWrite
<1>3. NewRow \in Row /\ NewRow.id = ID
  BY <1>1, <1>2 DEF NewRow, Row
<1>4. NewEntry \in New /\ NewEntry.row = NewRow /\ NewEntry.force = commit.write.force
  BY <1>2, <1>3 DEF NewEntry, New
<1>5. Limit = ID - 1
  BY DEF Limit
<1>6. commit.dirty = {}
  <2>1. LastId <= Limit /\ (commit.dirty # {} => ID = LastId)
    BY DEF StorageInv, CommitIds
  <2> QED
    BY <1>1, <1>5, <2>1
<1>7. /\ NewBase \in Seq(Row) /\ Below(NewBase, Limit)
      /\ ~ obj[commit.obj].empty => NewBase = obj[commit.obj].rows
      /\ obj[commit.obj].empty /\ ~ commit.write.force => NewBase = Load(commit.write.key)
      /\ obj[commit.obj].empty /\ commit.write.force => NewBase = obj[commit.obj].rows
  BY <1>2, CachedFacts DEF NewBase
<1> QED
  BY <1>2, <1>3, <1>4, <1>5, <1>6, <1>7

LEMMA NewDataFacts ==
    ASSUME StorageInv, commit.pc = "writeNew"
    PROVE  LET k == commit.write.key
               d == commit.data[k]
               e == NewData[k]
           IN  /\ NewData \in [Key -> Writes]
               /\ \A l \in Key : l # k => NewData[l] = commit.data[l]
               /\ e.new = Append(d.new, NewEntry)
               /\ e.dirty = d.dirty /\ e.obj = d.obj /\ e.len = d.len /\ e.but = d.but
<1> DEFINE k == commit.write.key
           d == commit.data[k]
           x == NewEntry
           a == Append(d.new, x)
           e == [d EXCEPT !.new = a]
<1>1. k \in Key /\ x \in New
  BY CachedFacts, NewRowFacts
<1>2. d \in Writes /\ commit.data \in [Key -> Writes]
  BY <1>1, CommitFacts DEF StorageInv
<1>3. NewData = [commit.data EXCEPT ![k] = e]
  <2>1. NewData = [commit.data EXCEPT ![k].new = Append(@, x)]
    BY DEF NewData
  <2> HIDE DEF k, x
  <2> QED
    BY <1>1, <1>2, <2>1 DEF Writes
<1> HIDE DEF d, k, x
<1>4. d.new \in Seq(New)
  BY <1>2, WritesFacts
<1>5. a \in Seq(New)
  BY <1>1, <1>4, AppendFacts
<1> HIDE DEF a
<1>6. /\ e \in Writes /\ e.new = a
      /\ e.dirty = d.dirty /\ e.obj = d.obj /\ e.len = d.len /\ e.but = d.but
  BY <1>2, <1>5 DEF Writes
<1> HIDE DEF e
<1>7. /\ NewData \in [Key -> Writes] /\ NewData[k] = e
      /\ \A l \in Key : l # k => NewData[l] = commit.data[l]
  BY <1>1, <1>2, <1>3, <1>6
<1> QED
  BY <1>6, <1>7 DEF d, k, a, x

LEMMA WithinAppend ==
    ASSUME NEW d \in Writes, NEW e \in Writes, NEW x \in New, NEW lo \in Nat, NEW n \in Nat,
           lo < n, Within(d, lo, n - 1), x.row.id = n, e.new = Append(d.new, x),
           e.dirty = d.dirty, e.obj = d.obj
    PROVE  Within(e, lo, n)
<1> DEFINE s == d.new
           t == e.new
           m == Len(s)
<1>1. /\ Len(t) = m + 1 /\ m \in Nat /\ t[m + 1] = x
      /\ \A i \in 1 .. m : t[i] = s[i]
  <2>1. s \in Seq(New)
    BY WritesFacts
  <2> QED
    BY <2>1, AppendFacts
<1>2. /\ Below(d.dirty, lo)
      /\ \A i \in 1 .. m : lo < s[i].row.id /\ s[i].row.id <= n - 1
      /\ \A i, j \in 1 .. m : i < j => s[i].row.id < s[j].row.id
      /\ d.dirty = <<>> <=> d.obj = NoObj
  BY DEF Within
<1>3. \A i \in 1 .. m : s[i].row.id \in Nat
  BY WritesFacts
<1> HIDE DEF s, t, m
<1>4. \A i \in 1 .. Len(t) : i \in 1 .. m \/ i = m + 1
  BY <1>1
<1>5. ASSUME NEW i \in 1 .. Len(t) PROVE lo < t[i].row.id /\ t[i].row.id <= n
  <2>1. CASE i \in 1 .. m
    BY <1>1, <1>2, <1>3, <2>1
  <2>2. CASE i = m + 1
    BY <1>1, <2>2
  <2> QED
    BY <1>4, <2>1, <2>2
<1>6. ASSUME NEW i \in 1 .. Len(t), NEW j \in 1 .. Len(t), i < j PROVE t[i].row.id < t[j].row.id
  <2>1. i \in 1 .. m
    BY <1>1, <1>6
  <2>2. CASE j \in 1 .. m
    BY <1>1, <1>2, <1>6, <2>1, <2>2
  <2>3. CASE j = m + 1
    BY <1>1, <1>2, <1>3, <2>1, <2>3
  <2> QED
    BY <1>4, <2>2, <2>3
<1> QED
  BY <1>2, <1>5, <1>6 DEF Within, t

LEMMA WriteNewStorage ==
    ASSUME StorageInv, WriteNew
    PROVE  StorageInv'
<1>1. CASE NewLoads /\ RestoreFails
  <2>1. Exit /\ commit.pc = "writeNew" /\ UNCHANGED <<ID, queue, select, backend, blocks>>
    BY <1>1, WriteNewIs
  <2> QED
    BY <2>1, ExitStorage
<1>2. CASE ~ (NewLoads /\ RestoreFails)
  <2> DEFINE k == commit.write.key
             r == NewRow
             o == commit.obj
             s == NewBase
             t == Append(s, r)
             d == commit.data[k]
             D == NewData
             e == [rows |-> t, num |-> num, empty |-> FALSE]
  <2>1. /\ commit.pc = "writeNew" /\ Written(t, D, NewLoads)
        /\ UNCHANGED <<ID, queue, select, backend, blocks>>
    BY <1>2, WriteNewIs
  <2>2. /\ r \in Row /\ r.id = ID /\ Limit = ID - 1 /\ NewEntry \in New /\ NewEntry.row = r
        /\ s \in Seq(Row) /\ Below(s, Limit) /\ commit.dirty = {}
        /\ ~ obj[o].empty => s = obj[o].rows
    BY <2>1, NewRowFacts
  <2>3. /\ D \in [Key -> Writes]
        /\ \A l \in Key : l # k => D[l] = commit.data[l]
        /\ D[k].new = Append(d.new, NewEntry)
        /\ D[k].dirty = d.dirty /\ D[k].obj = d.obj /\ D[k].len = d.len /\ D[k].but = d.but
    BY <2>1, NewDataFacts
  <2>4. o \in Obj /\ k \in Key
    BY <2>1, CachedFacts
  <2>5. ID \in Nat /\ Limit \in Nat /\ LastId \in Nat /\ LastId <= Limit /\ Limit <= ID
    BY IdFacts
  <2>6. num \in Nat /\ obj[o].num \in Nat /\ obj[o].num <= num
    BY <2>4, StorageFacts DEF StorageInv, num, ObjFit
  <2>7. e.rows = t /\ e.num = num /\ ~ e.empty
    OBVIOUS
  <2>8. NewLoads \in BOOLEAN
    BY <2>4, StorageFacts DEF StorageInv, NewLoads, Restoring
  <2>9. /\ t \in Seq(Row) /\ Len(t) = Len(s) + 1 /\ Len(s) \in Nat
        /\ \A i \in 1 .. Len(s) : t[i] = s[i]
        /\ t[Len(s) + 1] = r
    BY <2>2, AppendFacts
  <2>10. Below(t, ID)
    <3>1. Below(s, ID)
      BY <2>2, <2>5, BelowMore
    <3> QED
      BY <2>2, <2>5, <3>1, BelowAppend
  <2> HIDE DEF t, s, D, d, k, r, o, e
  <2>11. ~ obj[o].empty => Grown(obj[o], e, LastId)
    <3> SUFFICES ASSUME ~ obj[o].empty PROVE Grown(obj[o], e, LastId)
      OBVIOUS
    <3>1. ASSUME NEW i \in 1 .. Len(t)
          PROVE  IF i <= Len(s) THEN t[i].id = s[i].id ELSE t[i].id > LastId
      <4>1. CASE i <= Len(s)
        BY <2>9, <4>1
      <4>2. CASE ~ (i <= Len(s))
        <5>1. i = Len(s) + 1
          BY <2>9, <4>2
        <5>2. t[i].id = ID /\ ID > LastId
          BY <2>2, <2>5, <2>9, <5>1
        <5> QED
          BY <4>2, <5>2
      <4> QED
        BY <4>1, <4>2
    <3> QED
      BY <2>2, <2>6, <2>7, <2>9, <3>1 DEF Grown
  <2>12. ASSUME NEW l \in Key PROVE Within(D[l], LastId, ID)
    <3>1. Within(commit.data[l], LastId, Limit) /\ commit.data[l] \in Writes
      BY CommitFacts DEF StorageInv, DataFit, Fit
    <3>2. CASE l = k
      <4>1. Within(d, LastId, ID - 1) /\ d \in Writes /\ D[k] \in Writes /\ LastId < ID
        BY <2>2, <2>3, <2>4, <2>5, <3>1, <3>2 DEF d
      <4>2. NewEntry.row.id = ID
        BY <2>2
      <4> QED
        BY <2>2, <2>3, <2>5, <3>2, <4>1, <4>2, WithinAppend
    <3>3. CASE l # k
      BY <2>3, <2>5, <3>1, <3>3, WithinMore
    <3> QED
      BY <3>2, <3>3
  <2>13. ASSUME NEW l \in Key
         PROVE  /\ D[l].obj = commit.data[l].obj
                /\ D[l].len = commit.data[l].len /\ D[l].but = commit.data[l].but
    BY <2>3 DEF d
  <2> QED
    BY <2>1, <2>2, <2>3, <2>8, <2>9, <2>10, <2>11, <2>12, <2>13, WrittenStorage DEF o, k, e
<1> QED
  BY <1>1, <1>2

-----------------------------------------------------------------------------
(* A task is queued.                                                       *)

LEMMA NoWritesFacts ==
    /\ NoWrites \in Writes /\ NoWrites.obj = NoObj /\ NoWrites.dirty = <<>> /\ NoWrites.new = <<>>
    /\ NoData \in [Key -> Writes] /\ \A k \in Key : NoData[k] = NoWrites
    /\ \A lo, hi : Within(NoWrites, lo, hi)
<1>1. NoWrites \in Writes /\ NoWrites.obj = NoObj /\ NoWrites.dirty = <<>> /\ NoWrites.new = <<>>
  BY DEF NoWrites, Writes
<1>2. \A lo, hi : Within(NoWrites, lo, hi)
  <2>1. Len(<<>>) = 0
    OBVIOUS
  <2> QED
    BY <1>1, <2>1 DEF Within, Below
<1> QED
  BY <1>1, <1>2 DEF NoData

LEMMA CommittedFacts ==
    ASSUME StorageInv, CountInv
    PROVE  /\ Len(blocks) = backend.num + 1 + Len(queue) /\ Len(queue) \in Nat
           /\ backend.num \in Nat
           /\ Committed = BlockOf(Len(queue))
           /\ \A i \in 0 .. Len(queue), k \in Key :
                 BlockOf(i)[k] \in Seq(Row) /\ Sound(BlockOf(i)[k], IdOf(i))
           /\ \A i \in 1 .. Len(queue) : queue[i].num = backend.num + i
<1>1. /\ Len(blocks) = backend.num + 1 + Len(queue) /\ Len(queue) \in Nat /\ backend.num \in Nat
      /\ \A i \in 1 .. Len(queue) : queue[i].num = backend.num + i
  BY StorageFacts DEF StorageInv, CountInv, TaskInv
<1>2. Committed = BlockOf(Len(queue))
  BY <1>1 DEF Committed, BlockOf, Last
<1>3. \A i \in 0 .. Len(queue), k \in Key : BlockOf(i)[k] \in Seq(Row)
  <2> TAKE i \in 0 .. Len(queue), k \in Key
  <2>1. backend.num + 1 + i \in 1 .. Len(blocks)
    BY <1>1
  <2> QED
    BY <2>1, StorageFacts DEF BlockOf, StorageInv
<1> QED
  BY <1>1, <1>2, <1>3 DEF StorageInv, StoreFit

LEMMA SubmitFacts ==
    ASSUME StorageInv, CountInv, SubmitTask
    PROVE  /\ commit.pc = "touch" /\ Limit = ID /\ Limit' = ID
           /\ Len(queue') = Len(queue) + 1
           /\ \A i \in 1 .. Len(queue) : queue'[i] = queue[i]
           /\ queue'[Len(queue) + 1] = [num |-> num, id |-> ID, data |-> commit.data]
           /\ \A i \in 0 .. Len(queue) : IdOf(i)' = IdOf(i) /\ BlockOf(i)' = BlockOf(i)
           /\ LastId' = ID
           /\ \A i : i = Len(queue) + 1 =>
                 /\ IdOf(i)' = ID
                 /\ BlockOf(i)' = [k \in Key |-> Normal(After(Committed[k], commit.data[k]))]
           /\ Len(blocks') = Len(blocks) + 1
           /\ commit' = [pc |-> "wait", dirty |-> {}, new |-> {}, write |-> None, obj |-> NoObj,
                         data |-> NoData]
           /\ UNCHANGED <<caches, obj, mru, ID, select, backend>>
           /\ blocks' = Append(blocks, [k \in Key |-> Normal(After(Committed[k], commit.data[k]))])
           /\ queue' = Append(queue, [num |-> num, id |-> ID, data |-> commit.data])
<1> DEFINE t == [num |-> num, id |-> ID, data |-> commit.data]
           B == [k \in Key |-> Normal(After(Committed[k], commit.data[k]))]
<1>1. /\ commit.pc = "touch" /\ queue' = Append(queue, t) /\ blocks' = Append(blocks, B)
      /\ commit' = [IdleCommit EXCEPT !.pc = "wait"]
      /\ UNCHANGED <<caches, obj, mru, ID, select, backend>>
  BY DEF SubmitTask
<1>2. commit' = [pc |-> "wait", dirty |-> {}, new |-> {}, write |-> None, obj |-> NoObj,
                 data |-> NoData]
  BY <1>1 DEF IdleCommit
<1>3. Limit = ID /\ Limit' = ID
  BY <1>1, <1>2 DEF Limit
<1>4. t.id = ID
  OBVIOUS
<1> HIDE DEF t, B
<1>5. /\ Len(queue) \in Nat /\ Len(queue') = Len(queue) + 1
      /\ \A i \in 1 .. Len(queue) : queue'[i] = queue[i]
      /\ queue'[Len(queue) + 1] = t
      /\ Len(blocks) \in Nat /\ Len(blocks') = Len(blocks) + 1
      /\ \A i \in 1 .. Len(blocks) : blocks'[i] = blocks[i]
      /\ blocks'[Len(blocks) + 1] = B
  BY <1>1, AppendIsSeq DEF CountInv, TaskInv
<1>6. /\ Len(blocks) = backend.num + 1 + Len(queue) /\ backend.num \in Nat
  BY CommittedFacts
<1>7. ASSUME NEW i \in 0 .. Len(queue) PROVE IdOf(i)' = IdOf(i) /\ BlockOf(i)' = BlockOf(i)
  <2>1. backend.num + 1 + i \in 1 .. Len(blocks)
    BY <1>5, <1>6
  <2>2. i = 0 \/ i \in 1 .. Len(queue)
    BY <1>5
  <2> QED
    BY <1>1, <1>5, <2>1, <2>2 DEF IdOf, BlockOf
<1>8. ASSUME NEW i, i = Len(queue) + 1 PROVE IdOf(i)' = ID /\ BlockOf(i)' = B
  <2>0. backend'.num = backend.num
    BY <1>1
  <2> DEFINE a == backend.num
             m == Len(queue)
             n == Len(blocks)
  <2>01. a \in Nat /\ m \in Nat /\ n \in Nat /\ i = m + 1 /\ n = a + 1 + m
    BY <1>5, <1>6, <1>8
  <2> HIDE DEF a, m, n
  <2>02. a + 1 + i = n + 1 /\ i # 0
    BY <2>01
  <2>1. backend'.num + 1 + i = Len(blocks) + 1 /\ i # 0
    BY <2>0, <2>02 DEF a, n
  <2>2. queue'[i].id = ID /\ blocks'[backend'.num + 1 + i] = B
    BY <1>4, <1>5, <1>8, <2>1
  <2> QED
    BY <2>1, <2>2 DEF IdOf, BlockOf
<1>9. LastId' = ID
  <2>1. LastId' = IF Len(queue') = 0 THEN backend'.id ELSE queue'[Len(queue')].id
    BY DEF LastId, IdOf
  <2> QED
    BY <1>4, <1>5, <2>1
<1> QED
  BY <1>1, <1>2, <1>3, <1>5, <1>7, <1>8, <1>9 DEF t, B

LEMMA SubmitStorage ==
    ASSUME StorageInv, CountInv, SubmitTask
    PROVE  StorageInv'
<1> DEFINE m == Len(queue)
           t == [num |-> num, id |-> ID, data |-> commit.data]
           C == Committed
           B == [k \in Key |-> Normal(After(C[k], commit.data[k]))]
<1>1. /\ commit.pc = "touch" /\ Limit = ID /\ Limit' = ID
      /\ Len(queue') = m + 1
      /\ \A i \in 1 .. m : queue'[i] = queue[i]
      /\ queue'[m + 1] = t
      /\ \A i \in 0 .. m : IdOf(i)' = IdOf(i) /\ BlockOf(i)' = BlockOf(i)
      /\ \A i : i = m + 1 => IdOf(i)' = ID /\ BlockOf(i)' = B
      /\ LastId' = ID
      /\ Len(blocks') = Len(blocks) + 1
      /\ UNCHANGED <<caches, obj, mru, ID, select, backend>>
      /\ blocks' = Append(blocks, B)
      /\ queue' = Append(queue, t)
  BY SubmitFacts
<1>2. commit' = [pc |-> "wait", dirty |-> {}, new |-> {}, write |-> None, obj |-> NoObj,
                 data |-> NoData]
  BY SubmitFacts
<1>3. /\ commit'.pc = "wait" /\ commit'.dirty = {} /\ commit'.new = {} /\ commit'.obj = NoObj
      /\ commit'.data = NoData
  BY <1>2
<1>4. /\ m \in Nat /\ C = BlockOf(m) /\ ID \in Nat /\ LastId \in Nat /\ LastId <= ID
      /\ num \in Nat /\ LastId = IdOf(m)
  BY <1>1, CommittedFacts, IdFacts, StorageFacts DEF num, StorageInv, LastId
<1>5. ASSUME NEW k \in Key PROVE B[k] \in Seq(Row) /\ Sound(B[k], ID)
  <2> DEFINE d == commit.data[k]
             s == C[k]
             a == After(s, d)
  <2>1. d \in Writes /\ Within(d, LastId, ID)
    BY <1>1, CommitFacts DEF StorageInv, DataFit, Fit
  <2>2. s \in Seq(Row) /\ Sound(s, LastId)
    <3>1. m \in 0 .. m
      BY <1>4
    <3> QED
      BY <1>4, <3>1, CommittedFacts
  <2>3. B[k] = Normal(a)
    OBVIOUS
  <2> HIDE DEF d, s, B
  <2>4. a \in Seq(Row) /\ InOrder(a) /\ Below(a, ID)
    BY <1>4, <2>1, <2>2, AfterFacts DEF Sound
  <2> HIDE DEF a
  <2> QED
    BY <2>3, <2>4, NormalBelow DEF Sound
<1>6. t \in Task
  <2>1. commit.data \in [Key -> Writes]
    BY CommitFacts DEF StorageInv
  <2> QED
    BY <1>4, <2>1 DEF Task
<1>7. t.num = num /\ t.id = ID /\ t.data = commit.data
      /\ \A k \in Key : B[k] = Normal(After(C[k], commit.data[k]))
  OBVIOUS
<1>70. B \in [Key -> Seq(Row)]
  BY <1>5
<1> HIDE DEF t, B, C, m
<1>8. StorageType'
  <2>1. queue' \in Seq(Task)
    BY <1>1, <1>6, AppendFacts DEF StorageInv, StorageType
  <2>2. blocks' \in Seq([Key -> Seq(Row)])
    BY <1>1, <1>70, AppendFacts DEF StorageInv, StorageType
  <2> QED
    BY <1>1, <2>1, <2>2 DEF StorageInv, StorageType
<1>9. CommitType'
  <2>1. commit' \in Committing
    BY <1>2, NoWritesFacts DEF Committing
  <2> QED
    BY <1>3, <2>1 DEF CommitType
<1>10. CommitIds'
  BY <1>1, <1>3, <1>4 DEF CommitIds
<1>11. \A i \in 0 .. Len(queue') : i \in 0 .. m \/ i = m + 1
  BY <1>1, <1>4
<1>12. StoreFit'
  <2>1. ASSUME NEW i \in 0 .. Len(queue'), NEW j \in 0 .. Len(queue'), i <= j
        PROVE  IdOf(i)' <= IdOf(j)'
    <3>1. CASE j \in 0 .. m
      <4>1. i \in 0 .. m
        BY <1>4, <2>1, <3>1
      <4> QED
        BY <1>1, <2>1, <3>1, <4>1 DEF StorageInv, StoreFit, m
    <3>2. CASE j = m + 1 /\ i \in 0 .. m
      <4>1. IdOf(i) \in Nat /\ IdOf(i) <= LastId
        BY <3>2, IdFacts DEF m
      <4> QED
        BY <1>1, <1>4, <3>2, <4>1
    <3>3. CASE j = m + 1 /\ i = m + 1
      BY <1>1, <1>4, <3>3
    <3> QED
      BY <1>11, <3>1, <3>2, <3>3
  <2>2. ASSUME NEW i \in 0 .. Len(queue'), NEW k \in Key
        PROVE  Sound(BlockOf(i)'[k], IdOf(i)')
    <3>1. CASE i \in 0 .. m
      BY <1>1, <3>1, CommittedFacts DEF m
    <3>2. CASE i = m + 1
      BY <1>1, <1>5, <3>2
    <3> QED
      BY <1>11, <3>1, <3>2
  <2>3. ASSUME NEW i \in 1 .. Len(queue'), NEW k \in Key
        PROVE  BlockOf(i)'[k] = Normal(After(BlockOf(i - 1)'[k], queue'[i].data[k]))
    <3>1. CASE i \in 1 .. m
      <4>1. i \in 0 .. m /\ i - 1 \in 0 .. m
        BY <1>4, <3>1
      <4> QED
        BY <1>1, <3>1, <4>1 DEF StorageInv, StoreFit, m
    <3>2. CASE i = m + 1
      <4>1. i - 1 = m /\ m \in 0 .. m
        BY <1>4, <3>2
      <4> QED
        BY <1>1, <1>4, <1>7, <3>2, <4>1
    <3> QED
      BY <1>1, <1>4, <3>1, <3>2
  <2>4. \A k \in Key : Below(backend'.rows[k], backend'.id)
    BY <1>1 DEF StorageInv, StoreFit
  <2> QED
    BY <2>1, <2>2, <2>3, <2>4 DEF StoreFit
<1>13. num' = num + 1
  BY <1>1 DEF num
<1>14. ObjFit'
  <2>1. ASSUME NEW o \in Obj PROVE Below(obj'[o].rows, Limit') /\ obj'[o].num <= num'
    <3>1. Below(obj[o].rows, Limit) /\ obj[o].num <= num /\ obj[o].num \in Nat
      BY StorageFacts DEF StorageInv, ObjFit
    <3> QED
      BY <1>1, <1>4, <1>13, <3>1
  <2> QED
    BY <1>1, <2>1 DEF StorageInv, ObjFit
<1>15. DataFit'
  <2>1. ASSUME NEW i \in 1 .. Len(queue'), NEW k \in Key
        PROVE  Fit(obj', queue'[i].data[k], IdOf(i - 1)', IdOf(i)', queue'[i].num)
    <3>1. CASE i \in 1 .. m
      <4>1. i \in 0 .. m /\ i - 1 \in 0 .. m
        BY <1>4, <3>1
      <4> QED
        BY <1>1, <3>1, <4>1 DEF StorageInv, DataFit, m
    <3>2. CASE i = m + 1
      <4>1. i - 1 = m /\ m \in 0 .. m
        BY <1>4, <3>2
      <4>2. Fit(obj, commit.data[k], LastId, ID, num)
        BY <1>1 DEF StorageInv, DataFit
      <4> QED
        BY <1>1, <1>4, <1>7, <3>2, <4>1, <4>2
    <3> QED
      BY <1>1, <1>4, <3>1, <3>2
  <2>2. ASSUME NEW k \in Key PROVE Fit(obj', commit'.data[k], LastId', Limit', num')
    BY <1>3, NoWritesFacts DEF Fit
  <2> QED
    BY <2>1, <2>2 DEF DataFit
<1>16. Owned'
  <2>1. ASSUME NEW x \in Obj, NEW l \in Key, Uses(x, l)'
        PROVE  Uses(x, l)
    <3>1. x # NoObj
      BY StorageFacts DEF StorageInv
    <3>2. commit'.obj # x /\ commit'.data[l].obj # x
      BY <1>3, <3>1, NoWritesFacts
    <3>3. ASSUME NEW i \in 1 .. Len(queue'), queue'[i].data[l].obj = x
          PROVE  Uses(x, l)
      <4>1. CASE i \in 1 .. m
        BY <1>1, <3>3, <4>1 DEF Uses, m
      <4>2. CASE i = m + 1
        BY <1>1, <1>7, <3>3, <4>2 DEF Uses
      <4> QED
        BY <1>1, <1>4, <4>1, <4>2
    <3> QED
      BY <1>1, <2>1, <3>2, <3>3 DEF Uses
  <2> QED
    BY <2>1, OwnedLess DEF StorageInv
<1> QED
  BY <1>8, <1>9, <1>10, <1>12, <1>14, <1>15, <1>16 DEF StorageInv

-----------------------------------------------------------------------------
(* A task is flushed.                                                      *)

LEMMA FlushFacts ==
    ASSUME StorageInv, queue # <<>>, NEW k \in Key
    PROVE  LET d == queue[1].data[k]
           IN  /\ Len(queue) \in Nat /\ 1 \in 1 .. Len(queue) /\ d \in Writes
               /\ Fit(obj, d, backend.id, queue[1].id, queue[1].num)
               /\ backend.id \in Nat /\ queue[1].id \in Nat /\ backend.id <= queue[1].id
               /\ d.obj # NoObj => /\ d.obj \in Obj /\ obj[d.obj] \in Cache
                                   /\ Points(obj[d.obj], d, backend.id, queue[1].num)
               /\ d.dirty # <<>> => processNewEntries(k, d) =
                                       ById(d.dirty \o Others(obj[d.obj], d)) \o News(d)
               /\ d.dirty = <<>> => processNewEntries(k, d) =
                     (IF d.new # <<>> /\ d.new[1].force THEN <<>> ELSE backend.rows[k]) \o News(d)
               /\ processNewEntries(k, d) \in Seq(Row)
               /\ Below(processNewEntries(k, d), queue[1].id)
               /\ aheadOf(k, d) \in Nat
<1> DEFINE d == queue[1].data[k]
           lo == backend.id
           hi == queue[1].id
           n == queue[1].num
           P == processNewEntries(k, d)
<1>1. Len(queue) \in Nat /\ 1 \in 1 .. Len(queue)
  BY EmptySeq, LenProperties DEF StorageInv, StorageType
<1>2. /\ d \in Writes /\ lo \in Nat /\ hi \in Nat /\ n \in Nat /\ backend.rows[k] \in Seq(Row)
      /\ backend.ahead[k] \in Nat
  BY <1>1, StorageFacts DEF StorageInv
<1>3. IdOf(0) = lo /\ IdOf(1) = hi
  BY DEF IdOf
<1>4. Fit(obj, d, lo, hi, n)
  <2>1. 1 - 1 = 0
    OBVIOUS
  <2> QED
    BY <1>1, <1>3, <2>1 DEF StorageInv, DataFit
<1>5. lo <= hi
  BY <1>1, <1>3 DEF StorageInv, StoreFit
<1>6. /\ d.dirty # <<>> => P = ById(d.dirty \o Others(obj[d.obj], d)) \o News(d)
      /\ d.dirty = <<>> => P = (IF d.new # <<>> /\ d.new[1].force THEN <<>> ELSE backend.rows[k]) \o News(d)
  BY DEF processNewEntries, processDirtyEntries, Others, News
<1> HIDE DEF d, P, lo, hi, n
<1>7. d.obj # NoObj => d.obj \in Obj /\ obj[d.obj] \in Cache /\ Points(obj[d.obj], d, lo, n)
  <2>1. d.obj \in Obj \cup {NoObj}
    BY <1>2, WritesFacts
  <2> QED
    BY <1>4, <2>1, StorageFacts DEF StorageInv, Fit
<1>8. Within(d, lo, hi)
  BY <1>4 DEF Fit
<1>9. News(d) \in Seq(Row) /\ Below(News(d), hi)
  BY <1>2, <1>8, NewsFacts, NewsOrder
<1>10. ASSUME NEW s \in Seq(Row), Below(s, lo), P = s \o News(d)
       PROVE  P \in Seq(Row) /\ Below(P, hi)
  <2>1. Below(s, hi)
    BY <1>2, <1>5, <1>10, BelowMore
  <2> QED
    BY <1>9, <1>10, <2>1, ConcatFacts, BelowConcat
<1>11. P \in Seq(Row) /\ Below(P, hi)
  <2>1. CASE d.dirty # <<>>
    <3>1. d.obj # NoObj /\ Below(d.dirty, lo)
      BY <1>8, <2>1 DEF Within
    <3> DEFINE s == ById(d.dirty \o Others(obj[d.obj], d))
    <3>2. s \in Seq(Row) /\ Below(s, lo)
      BY <1>2, <1>7, <3>1, FlushDirty
    <3>3. P = s \o News(d)
      BY <1>6, <2>1
    <3> HIDE DEF s
    <3> QED
      BY <1>10, <3>2, <3>3
  <2>2. CASE d.dirty = <<>>
    <3> DEFINE s == IF d.new # <<>> /\ d.new[1].force THEN <<>> ELSE backend.rows[k]
    <3>1. <<>> \in Seq(Row) /\ Below(backend.rows[k], lo)
      BY DEF StorageInv, StoreFit, lo
    <3>2. s \in Seq(Row) /\ Below(s, lo)
      BY <1>2, <3>1, BelowEmpty
    <3>3. P = s \o News(d)
      BY <1>6, <2>2
    <3> HIDE DEF s
    <3> QED
      BY <1>10, <3>2, <3>3
  <2> QED
    BY <2>1, <2>2
<1>12. aheadOf(k, d) \in Nat
  BY <1>2, <1>7 DEF aheadOf, Cache
<1> QED
  BY <1>1, <1>2, <1>4, <1>5, <1>6, <1>7, <1>11, <1>12 DEF d, P, lo, hi, n

LEMMA FlushIs ==
    ASSUME StorageInv, CountInv, commitBackend
    PROVE  /\ queue # <<>> /\ Len(queue) \in Nat /\ Len(queue') = Len(queue) - 1
           /\ queue' \in Seq(Task)
           /\ \A i \in 1 .. Len(queue') : queue'[i] = queue[i + 1]
           /\ backend'.rows = [k \in Key |-> processNewEntries(k, queue[1].data[k])]
           /\ backend'.ahead = [k \in Key |-> aheadOf(k, queue[1].data[k])]
           /\ backend'.num = queue[1].num /\ backend'.id = queue[1].id
           /\ backend'.num = backend.num + 1
           /\ backend' \in Backend
           /\ UNCHANGED <<caches, mru, ID, commit, select, blocks, tainted>>
           /\ obj' \in [Obj -> Cache]
           /\ \A x \in Obj : obj'[x] = obj[x] \/ obj'[x] = NewCache
           /\ \A x \in Obj : x \in InUse' => obj'[x] = obj[x]
           /\ num' = num /\ Limit' = Limit /\ LastId' = LastId
           /\ \A i \in 0 .. Len(queue') :
                 /\ i + 1 \in 1 .. Len(queue) /\ i + 1 \in 0 .. Len(queue)
                 /\ IdOf(i)' = IdOf(i + 1) /\ BlockOf(i)' = BlockOf(i + 1)
<1> DEFINE R == [k \in Key |-> processNewEntries(k, queue[1].data[k])]
           A == [k \in Key |-> aheadOf(k, queue[1].data[k])]
<1>1. /\ queue # <<>> /\ queue' = Tail(queue)
      /\ backend' = [rows |-> [k \in Key |-> processNewEntries(k, Head(queue).data[k])],
                     num |-> Head(queue).num, id |-> Head(queue).id,
                     ahead |-> [k \in Key |-> aheadOf(k, Head(queue).data[k])]]
      /\ UNCHANGED <<caches, mru, ID, commit, select, blocks, tainted>>
      /\ Keep(obj)
  BY DEF commitBackend
<1>2. /\ Len(queue) \in Nat /\ Len(queue) > 0 /\ Len(queue') = Len(queue) - 1
      /\ Head(queue) = queue[1]
      /\ \A i \in 1 .. Len(queue') : queue'[i] = queue[i + 1]
  BY <1>1, TailIsSeq DEF CountInv, TaskInv
<1>3. queue' \in Seq(Task)
  BY <1>1, HeadTailProperties DEF StorageInv, StorageType
<1>4. backend' = [rows |-> R, num |-> queue[1].num, id |-> queue[1].id, ahead |-> A]
  BY <1>1, <1>2
<1>5. 1 \in 1 .. Len(queue)
  BY <1>2
<1>6. queue[1].num = backend.num + 1 /\ backend.num \in Nat /\ queue[1].id \in Nat
  BY <1>5, StorageFacts DEF CountInv, TaskInv, StorageInv
<1>7. queue[1].id \in Nat \ {0}
  <2>1. backend.id \in Nat \ {0}
    BY DEF StorageInv, StorageType, Backend
  <2>2. IdOf(0) = backend.id /\ IdOf(1) = queue[1].id /\ 0 \in 0 .. Len(queue) /\ 1 \in 0 .. Len(queue)
    BY <1>2 DEF IdOf
  <2>3. backend.id <= queue[1].id
    BY <2>2 DEF StorageInv, StoreFit
  <2> QED
    BY <1>6, <2>1, <2>3
<1>8. \A k \in Key : /\ processNewEntries(k, queue[1].data[k]) \in Seq(Row)
                     /\ aheadOf(k, queue[1].data[k]) \in Nat
  BY <1>1, FlushFacts
<1>9. R \in [Key -> Seq(Row)] /\ A \in [Key -> Nat]
  BY <1>8
<1> HIDE DEF R, A
<1>10. backend' \in Backend
  BY <1>4, <1>6, <1>7, <1>9 DEF Backend
<1>11. /\ backend'.rows = R /\ backend'.ahead = A /\ backend'.num = queue[1].num
       /\ backend'.id = queue[1].id
  BY <1>4
<1>12. /\ obj' \in [Obj -> Cache]
       /\ \A x \in Obj : obj'[x] = obj[x] \/ obj'[x] = NewCache
       /\ \A x \in Obj : x \in InUse' => obj'[x] = obj[x]
  <2>1. obj \in [Obj -> Cache]
    BY DEF StorageInv, StorageType
  <2> QED
    BY <1>1, <2>1, KeepFacts
<1>13. num' = num /\ Limit' = Limit
  BY <1>1 DEF num, Limit
<1>14. ASSUME NEW i \in 0 .. Len(queue')
       PROVE  /\ i + 1 \in 1 .. Len(queue) /\ i + 1 \in 0 .. Len(queue)
              /\ IdOf(i)' = IdOf(i + 1) /\ BlockOf(i)' = BlockOf(i + 1)
  <2>1. i + 1 \in 1 .. Len(queue) /\ i + 1 \in 0 .. Len(queue) /\ i + 1 # 0
    BY <1>2
  <2>2. IdOf(i + 1) = queue[i + 1].id
    BY <2>1 DEF IdOf
  <2>3. IdOf(i)' = IF i = 0 THEN backend'.id ELSE queue'[i].id
    BY DEF IdOf
  <2>4. IdOf(i)' = queue[i + 1].id
    <3>1. CASE i = 0
      BY <1>11, <2>3, <3>1
    <3>2. CASE i # 0
      <4>1. i \in 1 .. Len(queue')
        BY <1>2, <3>2
      <4> QED
        BY <1>2, <2>3, <3>2, <4>1
    <3> QED
      BY <3>1, <3>2
  <2>5. BlockOf(i)' = BlockOf(i + 1)
    <3>1. backend'.num + 1 + i = backend.num + 1 + (i + 1)
      BY <1>6, <1>11
    <3> QED
      BY <1>1, <3>1 DEF BlockOf
  <2> QED
    BY <2>1, <2>2, <2>4, <2>5
<1>15. LastId' = LastId
  <2>1. LastId = queue[Len(queue)].id
    BY <1>2 DEF LastId, IdOf
  <2>2. LastId' = IF Len(queue') = 0 THEN backend'.id ELSE queue'[Len(queue')].id
    BY DEF LastId, IdOf
  <2>3. CASE Len(queue') = 0
    <3>1. Len(queue) = 1
      BY <1>2, <2>3
    <3> QED
      BY <1>11, <2>1, <2>2, <2>3, <3>1
  <2>4. CASE Len(queue') # 0
    <3>1. Len(queue') \in 1 .. Len(queue') /\ Len(queue') + 1 = Len(queue)
      BY <1>2, <2>4
    <3> QED
      BY <1>2, <2>1, <2>2, <2>4, <3>1
  <2> QED
    BY <2>3, <2>4
<1> QED
  BY <1>1, <1>2, <1>3, <1>6, <1>10, <1>11, <1>12, <1>13, <1>14, <1>15 DEF R, A

LEMMA FlushStorage ==
    ASSUME StorageInv, CountInv, commitBackend
    PROVE  /\ StorageInv'
           /\ \A x \in Obj, k \in Key : Uses(x, k)' => obj'[x] = obj[x] /\ Uses(x, k)
<1>1. /\ queue # <<>> /\ Len(queue) \in Nat /\ Len(queue') = Len(queue) - 1
      /\ queue' \in Seq(Task)
      /\ \A i \in 1 .. Len(queue') : queue'[i] = queue[i + 1]
      /\ backend'.rows = [k \in Key |-> processNewEntries(k, queue[1].data[k])]
      /\ backend'.num = queue[1].num /\ backend'.id = queue[1].id
      /\ backend' \in Backend
      /\ obj' \in [Obj -> Cache]
      /\ \A x \in Obj : obj'[x] = obj[x] \/ obj'[x] = NewCache
      /\ \A x \in Obj : x \in InUse' => obj'[x] = obj[x]
      /\ num' = num /\ Limit' = Limit /\ LastId' = LastId
      /\ \A i \in 0 .. Len(queue') :
            /\ i + 1 \in 1 .. Len(queue) /\ i + 1 \in 0 .. Len(queue)
            /\ IdOf(i)' = IdOf(i + 1) /\ BlockOf(i)' = BlockOf(i + 1)
  BY FlushIs
<1>2. UNCHANGED <<caches, mru, ID, commit, select, blocks>>
  BY FlushIs
<1>3. StorageType'
  BY <1>1, <1>2 DEF StorageInv, StorageType
<1>4. CommitType' /\ CommitIds'
  BY <1>1, <1>2 DEF StorageInv, CommitType, CommitIds
<1>5. ASSUME NEW i \in 1 .. Len(queue')
      PROVE  /\ i \in 0 .. Len(queue') /\ i - 1 \in 0 .. Len(queue') /\ (i - 1) + 1 = i
             /\ (i + 1) - 1 = i /\ i + 1 \in 1 .. Len(queue) /\ queue'[i] = queue[i + 1]
             /\ IdOf(i)' = IdOf(i + 1) /\ BlockOf(i)' = BlockOf(i + 1)
             /\ IdOf(i - 1)' = IdOf(i) /\ BlockOf(i - 1)' = BlockOf(i)
  <2>1. /\ i \in 0 .. Len(queue') /\ i - 1 \in 0 .. Len(queue') /\ (i - 1) + 1 = i
        /\ (i + 1) - 1 = i
    BY <1>1
  <2> DEFINE j == i - 1
  <2>2. j \in 0 .. Len(queue') /\ j + 1 = i
    BY <2>1
  <2> HIDE DEF j
  <2>3. IdOf(j)' = IdOf(i) /\ BlockOf(j)' = BlockOf(i)
    BY <1>1, <2>2
  <2> QED
    BY <1>1, <2>1, <2>3 DEF j
<1>6. ASSUME NEW x \in Obj, NEW k \in Key, Uses(x, k)'
      PROVE  obj'[x] = obj[x] /\ Uses(x, k)
  <2>1. x \in InUse'
    BY <1>3, <1>6, UsedInUseNext
  <2>2. (\E i \in 1 .. Len(queue') : queue'[i].data[k].obj = x) =>
            \E i \in 1 .. Len(queue) : queue[i].data[k].obj = x
    BY <1>5
  <2> QED
    BY <1>1, <1>2, <1>6, <2>1, <2>2 DEF Uses
<1>7. StoreFit'
  <2>1. ASSUME NEW i \in 0 .. Len(queue'), NEW j \in 0 .. Len(queue'), i <= j
        PROVE  IdOf(i)' <= IdOf(j)'
    <3>1. /\ i + 1 \in 0 .. Len(queue) /\ j + 1 \in 0 .. Len(queue) /\ i + 1 <= j + 1
      BY <1>1, <2>1
    <3> QED
      BY <1>1, <3>1 DEF StorageInv, StoreFit
  <2>2. ASSUME NEW k \in Key PROVE Below(backend'.rows[k], backend'.id)
    BY <1>1, FlushFacts
  <2>3. \A i \in 0 .. Len(queue'), k \in Key : Sound(BlockOf(i)'[k], IdOf(i)')
    BY <1>1 DEF StorageInv, StoreFit
  <2>4. ASSUME NEW i \in 1 .. Len(queue'), NEW k \in Key
        PROVE  BlockOf(i)'[k] = Normal(After(BlockOf(i - 1)'[k], queue'[i].data[k]))
    <3>1. BlockOf(i + 1)[k] = Normal(After(BlockOf(i)[k], queue[i + 1].data[k]))
      <4> DEFINE j == i + 1
      <4>1. j \in 1 .. Len(queue) /\ j - 1 = i
        BY <1>5
      <4> HIDE DEF j
      <4>2. BlockOf(j)[k] = Normal(After(BlockOf(j - 1)[k], queue[j].data[k]))
        BY <4>1 DEF StorageInv, StoreFit
      <4> QED
        BY <4>1, <4>2 DEF j
    <3> QED
      BY <1>5, <3>1
  <2> QED
    BY <2>1, <2>2, <2>3, <2>4 DEF StoreFit
<1>8. ObjFit'
  <2>1. ASSUME NEW x \in Obj PROVE Below(obj'[x].rows, Limit') /\ obj'[x].num <= num'
    <3>1. num \in Nat
      BY StorageFacts DEF StorageInv, num
    <3>2. Below(obj[x].rows, Limit) /\ obj[x].num <= num
      BY DEF StorageInv, ObjFit
    <3> QED
      BY <1>1, <3>1, <3>2, NewCacheType, BelowEmpty
  <2>2. ASSUME NEW k \in Key, caches'[k] # NoObj, obj'[caches'[k]].empty
        PROVE  obj'[caches'[k]].rows = <<>>
    <3>1. caches'[k] = caches[k] /\ caches[k] \in Obj
      BY <1>2, <2>2, StorageFacts DEF StorageInv
    <3>2. Uses(caches[k], k)'
      BY <3>1 DEF Uses
    <3> QED
      BY <1>6, <2>2, <3>1, <3>2 DEF StorageInv, ObjFit
  <2> QED
    BY <2>1, <2>2 DEF ObjFit
<1>9. DataFit'
  <2>1. ASSUME NEW i \in 1 .. Len(queue'), NEW k \in Key
        PROVE  Fit(obj', queue'[i].data[k], IdOf(i - 1)', IdOf(i)', queue'[i].num)
    <3> DEFINE d == queue[i + 1].data[k]
    <3>1. d \in Writes /\ Fit(obj, d, IdOf(i), IdOf(i + 1), queue[i + 1].num)
      <4> DEFINE j == i + 1
      <4>1. j \in 1 .. Len(queue) /\ j - 1 = i
        BY <1>5
      <4> HIDE DEF j
      <4>2. queue[j].data[k] \in Writes
            /\ Fit(obj, queue[j].data[k], IdOf(j - 1), IdOf(j), queue[j].num)
        BY <4>1, StorageFacts DEF StorageInv, DataFit
      <4> QED
        BY <4>1, <4>2 DEF j
    <3>2. d.obj # NoObj => obj'[d.obj] = obj[d.obj]
      <4> SUFFICES ASSUME d.obj # NoObj PROVE obj'[d.obj] = obj[d.obj]
        OBVIOUS
      <4>1. d.obj \in Obj
        BY <3>1, WritesFacts
      <4>2. queue'[i].data[k].obj = d.obj
        BY <1>5
      <4> DEFINE x == d.obj
      <4>4. x \in Obj /\ queue'[i].data[k].obj = x
        BY <4>1, <4>2
      <4> HIDE DEF x
      <4>5. \A y : y = x => y \in Obj /\ Uses(y, k)'
        BY <4>4 DEF Uses
      <4>6. \A y : y = x => obj'[y] = obj[y]
        BY <1>6, <4>5
      <4> QED
        BY <4>6 DEF x
    <3> QED
      BY <1>5, <3>1, <3>2 DEF Fit
  <2>2. ASSUME NEW k \in Key
        PROVE  Fit(obj', commit'.data[k], LastId', Limit', num')
    <3> DEFINE d == commit.data[k]
    <3>1. d \in Writes /\ Fit(obj, d, LastId, Limit, num)
      BY CommitFacts DEF StorageInv, DataFit
    <3>2. d.obj # NoObj => obj'[d.obj] = obj[d.obj]
      <4>1. d.obj \in Obj \cup {NoObj}
        BY <3>1, WritesFacts
      <4>2. \A y \in Obj : y = d.obj => Uses(y, k)'
        BY <1>2 DEF Uses
      <4> QED
        BY <1>6, <4>1, <4>2
    <3> QED
      BY <1>1, <1>2, <3>1, <3>2 DEF Fit
  <2> QED
    BY <2>1, <2>2 DEF DataFit
<1>10. Owned'
  <2>1. \A x \in Obj, k \in Key : Uses(x, k)' => Uses(x, k)
    BY <1>6
  <2> QED
    BY <2>1, OwnedLess DEF StorageInv
<1> QED
  BY <1>3, <1>4, <1>6, <1>7, <1>8, <1>9, <1>10 DEF StorageInv

-----------------------------------------------------------------------------
(* A process starts.                                                       *)

LEMMA ImageFinite ==
    ASSUME NEW S, NEW f, f = [x \in S |-> f[x]], IsFiniteSet(S)
    PROVE  IsFiniteSet({f[x] : x \in S})
<1> DEFINE T == {f[x] : x \in S}
<1>1. f \in [S -> T]
  OBVIOUS
<1>2. \A t \in T : \E x \in S : f[x] = t
  OBVIOUS
<1> HIDE DEF T
<1>3. f \in Surjection(S, T)
  BY <1>1, <1>2 DEF Surjection
<1> QED
  BY <1>3, FS_Surjection DEF T

LEMMA GreatestId ==
    ASSUME NEW rows \in [Key -> Seq(Row)], NEW n, n = Max({1} \cup UNION {Ids(rows[k]) : k \in Key})
    PROVE  n \in Nat \ {0} /\ \A k \in Key : Below(rows[k], n)
<1> DEFINE U == UNION {Ids(rows[k]) : k \in Key}
           S == {1} \cup U
           f == [k \in Key |-> Ids(rows[k])]
<1>1. ASSUME NEW k \in Key
      PROVE  IsFiniteSet(Ids(rows[k])) /\ Ids(rows[k]) \subseteq Nat \ {0}
             /\ \A i \in 1 .. Len(rows[k]) : rows[k][i].id \in Ids(rows[k])
  <2> DEFINE s == rows[k]
             g == [i \in 1 .. Len(s) |-> s[i].id]
  <2>1. /\ s \in Seq(Row) /\ Len(s) \in Nat /\ DOMAIN s = 1 .. Len(s)
        /\ \A i \in 1 .. Len(s) : s[i].id \in Nat \ {0}
    BY RowFacts
  <2> HIDE DEF s
  <2>2. IsFiniteSet(1 .. Len(s))
    <3>1. 1 \in Int /\ Len(s) \in Int
      BY <2>1
    <3> HIDE DEF g
    <3> QED
      BY <3>1, FS_Interval, Zenon
  <2>3. IsFiniteSet({g[i] : i \in 1 .. Len(s)})
    <3>1. g = [i \in 1 .. Len(s) |-> g[i]]
      OBVIOUS
    <3> HIDE DEF g
    <3> QED
      BY <2>2, <3>1, ImageFinite
  <2>4. Ids(s) = {g[i] : i \in 1 .. Len(s)}
    BY <2>1 DEF Ids
  <2>5. Ids(s) \subseteq Nat \ {0} /\ \A i \in 1 .. Len(s) : s[i].id \in Ids(s)
    BY <2>1 DEF Ids
  <2> QED
    BY <2>3, <2>4, <2>5 DEF s
<1>2. IsFiniteSet({f[k] : k \in Key})
  <2>1. f = [k \in Key |-> f[k]]
    OBVIOUS
  <2> HIDE DEF f
  <2> QED
    BY <2>1, KeyAssumption, ImageFinite
<1>3. U = UNION {f[k] : k \in Key}
  OBVIOUS
<1>4. \A T \in {f[k] : k \in Key} : IsFiniteSet(T)
  BY <1>1
<1>5. IsFiniteSet(U)
  <2> HIDE DEF f, U
  <2> QED
    BY <1>2, <1>3, <1>4, FS_UNION
<1>6. U \subseteq Nat \ {0} /\ \A k \in Key : \A i \in 1 .. Len(rows[k]) : rows[k][i].id \in U
  BY <1>1
<1> HIDE DEF U
<1>7. IsFiniteSet(S) /\ S \in SUBSET Int /\ S # {} /\ S \subseteq Nat \ {0}
  <2>1. IsFiniteSet({1})
    BY FS_Singleton
  <2>2. IsFiniteSet({1} \cup U)
    BY <1>5, <2>1, FS_Union, Zenon
  <2>3. S \subseteq Nat \ {0} /\ S # {}
    BY <1>6
  <2> QED
    BY <2>2, <2>3
<1>8. \A k \in Key : \A i \in 1 .. Len(rows[k]) : rows[k][i].id \in S
  BY <1>6
<1>9. n = Max(S)
  BY DEF U
<1> HIDE DEF S
<1>10. \E m \in S : \A x \in S : m >= x
  BY <1>7, FiniteMax
<1>11. n \in S /\ \A x \in S : n >= x
  BY <1>9, <1>10 DEF Max
<1>12. \A x \in S : x <= n
  BY <1>7, <1>11
<1> QED
  BY <1>7, <1>8, <1>11, <1>12 DEF Below

LEMMA FreshStorage ==
    ASSUME caches = [k \in Key |-> NoObj], obj = [o \in Obj |-> NewCache], mru = {},
           ID = backend.id, queue = <<>>, commit = IdleCommit,
           select = [r \in Reader |-> IdleReader], backend \in Backend,
           blocks \in Seq([Key -> Seq(Row)]), Len(blocks) = backend.num + 1,
           \A k \in Key : Below(backend.rows[k], backend.id),
           \A k \in Key : Sound(blocks[backend.num + 1][k], backend.id)
    PROVE  StorageInv
<1>1. /\ backend.num \in Nat /\ backend.id \in Nat \ {0} /\ Len(queue) = 0 /\ Len(blocks) \in Nat
      /\ Len(blocks) > 0
  BY DEF Backend
<1>2. commit = [pc |-> "idle", dirty |-> {}, new |-> {}, write |-> None, obj |-> NoObj,
                data |-> NoData]
  BY DEF IdleCommit
<1>3. /\ commit.pc = "idle" /\ commit.dirty = {} /\ commit.new = {} /\ commit.obj = NoObj
      /\ commit.data = NoData
  BY <1>2
<1>4. NewCache \in Cache /\ NewCache.rows = <<>> /\ NewCache.num = 0
  BY NewCacheType
<1>5. StorageType
  <2>1. queue \in Seq(Task)
    OBVIOUS
  <2>2. obj \in [Obj -> Cache]
    BY <1>4
  <2> QED
    BY <1>1, <2>1, <2>2 DEF StorageType
<1>6. CommitType
  <2>1. commit \in Committing
    BY <1>2, NoWritesFacts DEF Committing
  <2> QED
    BY <1>3, <2>1 DEF CommitType
<1>7. LastId = backend.id /\ Limit = ID /\ \A i : i = 0 => IdOf(i) = backend.id
  BY <1>1, <1>3 DEF LastId, Limit, IdOf
<1>8. CommitIds
  BY <1>1, <1>3, <1>7 DEF CommitIds
<1>9. StoreFit
  <2>1. \A i \in 0 .. Len(queue) : i = 0
    BY <1>1
  <2>2. \A i : i = 0 => BlockOf(i) = blocks[backend.num + 1]
    <3> TAKE i
    <3>1. i = 0 => backend.num + 1 + i = backend.num + 1
      BY <1>1
    <3> QED
      BY <3>1 DEF BlockOf
  <2>3. \A i \in 1 .. Len(queue) : FALSE
    BY <1>1
  <2>4. \A i, j \in 0 .. Len(queue) : i <= j => IdOf(i) <= IdOf(j)
    BY <1>1, <1>7, <2>1
  <2>5. \A i \in 0 .. Len(queue), k \in Key : Sound(BlockOf(i)[k], IdOf(i))
    BY <1>7, <2>1, <2>2
  <2> QED
    BY <2>3, <2>4, <2>5 DEF StoreFit
<1>10. ObjFit
  BY <1>1, <1>4, BelowEmpty DEF ObjFit, num
<1>11. DataFit
  <2>1. \A k \in Key : Fit(obj, commit.data[k], LastId, Limit, num)
    BY <1>3, NoWritesFacts DEF Fit
  <2>2. \A i \in 1 .. Len(queue) : FALSE
    BY <1>1
  <2> QED
    BY <2>1, <2>2 DEF DataFit
<1>12. Owned
  <2>1. NoObj \notin Obj
    BY ObjAssumption DEF NoObj
  <2>2. ASSUME NEW o \in Obj, NEW k \in Key PROVE ~ Uses(o, k)
    <3>1. \A r \in Reader : select[r] # [key |-> k, obj |-> o]
      <4>1. IdleReader.obj = NoObj /\ [key |-> k, obj |-> o].obj = o
        BY DEF IdleReader
      <4> QED
        BY <2>1, <4>1
    <3>2. caches[k] # o /\ commit.obj # o /\ commit.data[k].obj # o
      BY <1>3, <2>1, NoWritesFacts
    <3> QED
      BY <1>1, <3>1, <3>2 DEF Uses
  <2> QED
    BY <2>2 DEF Owned
<1> QED
  BY <1>5, <1>6, <1>8, <1>9, <1>10, <1>11, <1>12 DEF StorageInv

LEMMA FreshNextStorage ==
    ASSUME caches' = [k \in Key |-> NoObj], obj' = [o \in Obj |-> NewCache], mru' = {},
           ID' = backend'.id, queue' = <<>>, commit' = IdleCommit,
           select' = [r \in Reader |-> IdleReader], backend' \in Backend,
           blocks' \in Seq([Key -> Seq(Row)]), Len(blocks') = backend'.num + 1,
           \A k \in Key : Below(backend'.rows[k], backend'.id),
           \A k \in Key : Sound(blocks'[backend'.num + 1][k], backend'.id)
    PROVE  StorageInv'
<1>1. /\ backend'.num \in Nat /\ backend'.id \in Nat \ {0} /\ Len(queue') = 0 /\ Len(blocks') \in Nat
      /\ Len(blocks') > 0
  BY DEF Backend
<1>2. commit' = [pc |-> "idle", dirty |-> {}, new |-> {}, write |-> None, obj |-> NoObj,
                data |-> NoData]
  BY DEF IdleCommit
<1>3. /\ commit'.pc = "idle" /\ commit'.dirty = {} /\ commit'.new = {} /\ commit'.obj = NoObj
      /\ commit'.data = NoData
  BY <1>2
<1>4. NewCache \in Cache /\ NewCache.rows = <<>> /\ NewCache.num = 0
  BY NewCacheType
<1>5. StorageType'
  <2>1. queue' \in Seq(Task)
    OBVIOUS
  <2>2. obj' \in [Obj -> Cache]
    BY <1>4
  <2> QED
    BY <1>1, <2>1, <2>2 DEF StorageType
<1>6. CommitType'
  <2>1. commit' \in Committing
    BY <1>2, NoWritesFacts DEF Committing
  <2> QED
    BY <1>3, <2>1 DEF CommitType
<1>7. LastId' = backend'.id /\ Limit' = ID' /\ \A i : i = 0 => IdOf(i)' = backend'.id
  BY <1>1, <1>3 DEF LastId, Limit, IdOf
<1>8. CommitIds'
  BY <1>1, <1>3, <1>7 DEF CommitIds
<1>9. StoreFit'
  <2>1. \A i \in 0 .. Len(queue') : i = 0
    BY <1>1
  <2>2. \A i : i = 0 => BlockOf(i)' = blocks'[backend'.num + 1]
    <3> TAKE i
    <3>1. i = 0 => backend'.num + 1 + i = backend'.num + 1
      BY <1>1
    <3> QED
      BY <3>1 DEF BlockOf
  <2>3. \A i \in 1 .. Len(queue') : FALSE
    BY <1>1
  <2>4. \A i, j \in 0 .. Len(queue') : i <= j => IdOf(i)' <= IdOf(j)'
    BY <1>1, <1>7, <2>1
  <2>5. \A i \in 0 .. Len(queue'), k \in Key : Sound(BlockOf(i)'[k], IdOf(i)')
    BY <1>7, <2>1, <2>2
  <2> QED
    BY <2>3, <2>4, <2>5 DEF StoreFit
<1>10. ObjFit'
  BY <1>1, <1>4, BelowEmpty DEF ObjFit, num
<1>11. DataFit'
  <2>1. \A k \in Key : Fit(obj', commit'.data[k], LastId', Limit', num')
    BY <1>3, NoWritesFacts DEF Fit
  <2>2. \A i \in 1 .. Len(queue') : FALSE
    BY <1>1
  <2> QED
    BY <2>1, <2>2 DEF DataFit
<1>12. Owned'
  <2>1. NoObj \notin Obj
    BY ObjAssumption DEF NoObj
  <2>2. ASSUME NEW o \in Obj, NEW k \in Key PROVE ~ Uses(o, k)'
    <3>1. \A r \in Reader : select'[r] # [key |-> k, obj |-> o]
      <4>1. IdleReader.obj = NoObj /\ [key |-> k, obj |-> o].obj = o
        BY DEF IdleReader
      <4> QED
        BY <2>1, <4>1
    <3>2. caches'[k] # o /\ commit'.obj # o /\ commit'.data[k].obj # o
      BY <1>3, <2>1, NoWritesFacts
    <3> QED
      BY <1>1, <3>1, <3>2 DEF Uses
  <2> QED
    BY <2>2 DEF Owned
<1> QED
  BY <1>5, <1>6, <1>8, <1>9, <1>10, <1>11, <1>12 DEF StorageInv

LEMMA InitStorageInv == Init => StorageInv
<1> SUFFICES ASSUME Init
             PROVE  StorageInv
  OBVIOUS
<1>1. PICK rows \in Genesis : InitStorage(rows)
  BY DEF Init
<1>2. /\ caches = [k \in Key |-> NoObj] /\ obj = [o \in Obj |-> NewCache] /\ mru = {}
      /\ ID = Max({1} \cup UNION {Ids(rows[k]) : k \in Key})
      /\ queue = <<>> /\ commit = IdleCommit /\ select = [r \in Reader |-> IdleReader]
      /\ backend = [rows |-> rows, num |-> 0, id |-> ID, ahead |-> [k \in Key |-> 0]]
      /\ blocks = <<rows>>
  BY <1>1 DEF InitStorage
<1>3. /\ rows \in [Key -> Seq([id : Nat \ {0}, val : Value, removed : {FALSE}])]
      /\ \A k \in Key : \A i, j \in DOMAIN rows[k] : i < j => rows[k][i].id < rows[k][j].id
  BY GenesisAssumption
<1> DEFINE T == [id : Nat \ {0}, val : Value, removed : {FALSE}]
<1>4. T \subseteq Row
  BY DEF Row
<1>5. ASSUME NEW k \in Key PROVE rows[k] \in Seq(Row) /\ InOrder(rows[k]) /\ NoneRemoved(rows[k])
  <2>0. rows \in [Key -> Seq(T)]
    BY <1>3
  <2> HIDE DEF T
  <2>1. rows[k] \in Seq(T) /\ DOMAIN rows[k] = 1 .. Len(rows[k])
    BY <2>0
  <2>20. \A i \in 1 .. Len(rows[k]) : rows[k][i] \in T
    BY <2>1
  <2>2. \A i \in 1 .. Len(rows[k]) : ~ rows[k][i].removed
    BY <2>20 DEF T
  <2>3. rows[k] \in Seq(Row)
    BY <1>4, <2>1
  <2> QED
    BY <1>3, <2>1, <2>2, <2>3 DEF InOrder, NoneRemoved
<1> HIDE DEF T
<1>6. rows \in [Key -> Seq(Row)]
  BY <1>3, <1>5
<1>7. ID \in Nat \ {0} /\ \A k \in Key : Below(rows[k], ID)
  BY <1>2, <1>6, GreatestId
<1>8. backend \in Backend /\ backend.num = 0 /\ backend.id = ID /\ backend.rows = rows
  BY <1>2, <1>6, <1>7 DEF Backend
<1>9. blocks \in Seq([Key -> Seq(Row)]) /\ Len(blocks) = 1 /\ blocks[1] = rows
  BY <1>2, <1>6
<1>10. Len(blocks) = backend.num + 1 /\ blocks[backend.num + 1] = rows
  BY <1>8, <1>9
<1>11. \A k \in Key : Below(backend.rows[k], backend.id) /\ Sound(rows[k], backend.id)
  BY <1>5, <1>7, <1>8 DEF Sound
<1> QED
  BY <1>2, <1>8, <1>9, <1>10, <1>11, FreshStorage

LEMMA RestartIs ==
    ASSUME StorageInv, CountInv, Restart
    PROVE  /\ blocks' \in Seq([Key -> Seq(Row)]) /\ Len(blocks') = backend.num + 1
           /\ blocks'[backend.num + 1] = BlockOf(0)
           /\ Committed' = BlockOf(0)
           /\ tainted' = tainted \cup {k \in Key : backend.ahead[k] > backend.num}
           /\ UNCHANGED backend
<1>1. /\ blocks' = SubSeq(blocks, 1, backend.num + 1) /\ UNCHANGED backend
      /\ tainted' = tainted \cup {k \in Key : backend.ahead[k] > backend.num}
  BY DEF Restart
<1>2. /\ Len(blocks) = backend.num + 1 + Len(queue) /\ Len(queue) \in Nat /\ backend.num \in Nat
  BY CommittedFacts
<1> DEFINE n == backend.num + 1
<1>3. n \in 1 .. Len(blocks) /\ Len(blocks) \in Nat /\ n \in 1 .. n
  BY <1>2
<1>4. BlockOf(0) = blocks[n]
  <2>1. backend.num + 1 + 0 = n
    BY <1>2
  <2> QED
    BY <2>1 DEF BlockOf
<1>5. blocks \in Seq([Key -> Seq(Row)])
  BY DEF StorageInv, StorageType
<1> HIDE DEF n
<1>6. blocks' = SubSeq(blocks, 1, n)
  BY <1>1 DEF n
<1>7. /\ blocks' \in Seq([Key -> Seq(Row)]) /\ Len(blocks') = n /\ blocks'[n] = blocks[n]
  BY <1>3, <1>5, <1>6, SubSeqProperties
<1> QED
  BY <1>1, <1>4, <1>7 DEF n, Committed, Last

LEMMA RestartStorage ==
    ASSUME StorageInv, CountInv, Restart
    PROVE  StorageInv'
<1>1. /\ blocks' \in Seq([Key -> Seq(Row)]) /\ Len(blocks') = backend.num + 1
      /\ blocks'[backend.num + 1] = BlockOf(0)
      /\ UNCHANGED backend
  BY RestartIs
<1>2. /\ caches' = [k \in Key |-> NoObj] /\ obj' = [o \in Obj |-> NewCache] /\ mru' = {}
      /\ ID' = backend.id /\ queue' = <<>> /\ commit' = IdleCommit
      /\ select' = [r \in Reader |-> IdleReader]
  BY DEF Restart
<1>3. backend' \in Backend /\ \A k \in Key : Below(backend'.rows[k], backend'.id)
  BY <1>1 DEF StorageInv, StorageType, StoreFit
<1>4. ASSUME NEW k \in Key PROVE Sound(BlockOf(0)[k], backend.id)
  <2>1. 0 \in 0 .. Len(queue) /\ IdOf(0) = backend.id
    BY CommittedFacts DEF IdOf
  <2> QED
    BY <2>1 DEF StorageInv, StoreFit
<1> QED
  BY <1>1, <1>2, <1>3, <1>4, FreshNextStorage

-----------------------------------------------------------------------------
(* The table and its change log.                                           *)

Old == [key : Key, val : Value, removed : BOOLEAN]
Fresh == [val : Value, removed : BOOLEAN, deleted : BOOLEAN, force : BOOLEAN]
IdSet == SUBSET (Nat \ {0})
Table == [dirty : UNION {[S -> Old] : S \in IdSet}, fresh : [Key -> Seq(Fresh)]]
Values == UNION {[S -> Value] : S \in IdSet}
Logged == {c \in [kind : {"Insert", "Update", "Remove"}, key : Key, ids : Values, at : Values,
                  before : Table] : c.kind = "Insert" => DOMAIN c.ids = {}}

\* The tables with the same rows as t, however they are.
Like(t) == {u \in Table : /\ DOMAIN u.dirty = DOMAIN t.dirty
                          /\ \A k \in Key : DOMAIN u.fresh[k] = DOMAIN t.fresh[k]}

LEMMA TableFacts ==
    ASSUME NEW t \in Table
    PROVE  /\ t.dirty \in [DOMAIN t.dirty -> Old] /\ DOMAIN t.dirty \subseteq Nat \ {0}
           /\ t.fresh \in [Key -> Seq(Fresh)]
           /\ \A k \in Key : t.fresh[k] \in Seq(Fresh) /\ DOMAIN t.fresh[k] = 1 .. Len(t.fresh[k])
                             /\ Len(t.fresh[k]) \in Nat
           /\ \A id \in DOMAIN t.dirty : /\ t.dirty[id] \in Old /\ t.dirty[id].key \in Key
                                         /\ t.dirty[id].val \in Value
                                         /\ t.dirty[id].removed \in BOOLEAN
           /\ \A k \in Key : \A i \in DOMAIN t.fresh[k] :
                 /\ t.fresh[k][i] \in Fresh /\ t.fresh[k][i].force \in BOOLEAN
                 /\ t.fresh[k][i].val \in Value /\ t.fresh[k][i].removed \in BOOLEAN
                 /\ t.fresh[k][i].deleted \in BOOLEAN
<1>1. t.dirty \in UNION {[S -> Old] : S \in IdSet} /\ t.fresh \in [Key -> Seq(Fresh)]
  BY DEF Table
<1>2. PICK S \in IdSet : t.dirty \in [S -> Old]
  BY <1>1
<1>3. DOMAIN t.dirty = S /\ S \subseteq Nat \ {0}
  BY <1>2 DEF IdSet
<1>4. \A k \in Key : t.fresh[k] \in Seq(Fresh) /\ DOMAIN t.fresh[k] = 1 .. Len(t.fresh[k])
                     /\ Len(t.fresh[k]) \in Nat
  <2> TAKE k \in Key
  <2>1. t.fresh[k] \in Seq(Fresh)
    BY <1>1
  <2> QED
    BY <2>1
<1>5. \A k \in Key : \A i \in DOMAIN t.fresh[k] : t.fresh[k][i] \in Fresh
  BY <1>4
<1>6. \A id \in DOMAIN t.dirty : t.dirty[id] \in Old
  BY <1>2, <1>3
<1>7. \A r \in Old : r.key \in Key /\ r.val \in Value /\ r.removed \in BOOLEAN
  BY DEF Old
<1>8. \A r \in Fresh : r.force \in BOOLEAN /\ r.val \in Value /\ r.removed \in BOOLEAN
                       /\ r.deleted \in BOOLEAN
  BY DEF Fresh
<1> QED
  BY <1>1, <1>2, <1>3, <1>4, <1>5, <1>6, <1>7, <1>8

LEMMA TableIs ==
    ASSUME NEW dirty, NEW fresh \in [Key -> Seq(Fresh)], NEW S \in IdSet, dirty \in [S -> Old]
    PROVE  [dirty |-> dirty, fresh |-> fresh] \in Table
<1>1. dirty \in UNION {[T -> Old] : T \in IdSet}
  OBVIOUS
<1> QED
  BY <1>1 DEF Table

LEMMA EmptyTableFacts ==
    /\ EmptyTable \in Table /\ DOMAIN EmptyTable.dirty = {}
    /\ \A k \in Key : EmptyTable.fresh[k] = <<>>
<1> DEFINE fresh == [k \in Key |-> <<>>]
<1>1. NoRows \in [{} -> Old] /\ {} \in IdSet /\ DOMAIN NoRows = {}
  BY DEF NoRows, IdSet
<1>2. fresh \in [Key -> Seq(Fresh)]
  OBVIOUS
<1>3. EmptyTable = [dirty |-> NoRows, fresh |-> fresh]
  BY DEF EmptyTable
<1> HIDE DEF fresh
<1>4. EmptyTable \in Table
  BY <1>1, <1>2, <1>3, TableIs
<1>5. EmptyTable.dirty = NoRows /\ EmptyTable.fresh = fresh
  BY <1>3
<1> QED
  BY <1>1, <1>4, <1>5 DEF fresh

LEMMA LoggedFacts ==
    ASSUME NEW c \in Logged
    PROVE  /\ c.kind \in {"Insert", "Update", "Remove"} /\ c.key \in Key /\ c.before \in Table
           /\ \A id \in DOMAIN c.ids : c.ids[id] \in Value
           /\ \A i \in DOMAIN c.at : c.at[i] \in Value
           /\ c.kind = "Insert" => DOMAIN c.ids = {}
<1>1. /\ c.kind \in {"Insert", "Update", "Remove"} /\ c.key \in Key /\ c.before \in Table
      /\ c.ids \in Values /\ c.at \in Values /\ (c.kind = "Insert" => DOMAIN c.ids = {})
  BY DEF Logged
<1>2. \A v \in Values : \A id \in DOMAIN v : v[id] \in Value
  BY DEF Values
<1> QED
  BY <1>1, <1>2

LEMMA UndoneFresh ==
    ASSUME NEW r \in Fresh, NEW kind \in {"Insert", "Update", "Remove"}, NEW v \in Value
    PROVE  /\ undo(kind, r, v) \in Fresh
           /\ undo(kind, r, v).deleted = (r.deleted \/ kind = "Insert")
           /\ undo(kind, r, v).removed = (r.removed /\ kind # "Remove")
           /\ undo(kind, r, v).val = IF kind = "Update" THEN v ELSE r.val
           /\ undo(kind, r, v).force = r.force
<1>1. CASE kind = "Insert"
  BY <1>1 DEF undo, Fresh
<1>2. CASE kind = "Update"
  BY <1>2 DEF undo, Fresh
<1>3. CASE kind = "Remove"
  BY <1>3 DEF undo, Fresh
<1> QED
  BY <1>1, <1>2, <1>3

LEMMA UndoneOld ==
    ASSUME NEW r \in Old, NEW kind \in {"Update", "Remove"}, NEW v \in Value
    PROVE  /\ undo(kind, r, v) \in Old
           /\ undo(kind, r, v).key = r.key
           /\ undo(kind, r, v).removed = (r.removed /\ kind # "Remove")
           /\ undo(kind, r, v).val = IF kind = "Update" THEN v ELSE r.val
<1>1. CASE kind = "Update"
  BY <1>1 DEF undo, Old
<1>2. CASE kind = "Remove"
  BY <1>2 DEF undo, Old
<1> QED
  BY <1>1, <1>2

\* What a change does to each row when it is undone.
LEMMA UndoFacts ==
    ASSUME NEW c \in Logged, NEW t \in Table
    PROVE  /\ Undo(c, t) \in Like(t)
           /\ \A id \in DOMAIN t.dirty : Undo(c, t).dirty[id] =
                 IF id \in DOMAIN c.ids THEN undo(c.kind, t.dirty[id], c.ids[id]) ELSE t.dirty[id]
           /\ \A k \in Key : \A i \in DOMAIN t.fresh[k] : Undo(c, t).fresh[k][i] =
                 IF k = c.key /\ i \in DOMAIN c.at THEN undo(c.kind, t.fresh[k][i], c.at[i])
                 ELSE t.fresh[k][i]
<1> DEFINE D(id) == IF id \in DOMAIN c.ids THEN undo(c.kind, t.dirty[id], c.ids[id])
                    ELSE t.dirty[id]
           F(k, i) == IF k = c.key /\ i \in DOMAIN c.at THEN undo(c.kind, t.fresh[k][i], c.at[i])
                      ELSE t.fresh[k][i]
           dirty == [id \in DOMAIN t.dirty |-> D(id)]
           fresh == [k \in Key |-> [i \in DOMAIN t.fresh[k] |-> F(k, i)]]
           u == Undo(c, t)
<1>1. u = [dirty |-> dirty, fresh |-> fresh]
  BY DEF Undo
<1>2. \A id \in DOMAIN t.dirty : D(id) \in Old
  <2> TAKE id \in DOMAIN t.dirty
  <2>1. t.dirty[id] \in Old
    BY TableFacts
  <2>2. id \in DOMAIN c.ids => c.kind \in {"Update", "Remove"} /\ c.ids[id] \in Value
    BY LoggedFacts
  <2> QED
    BY <2>1, <2>2, UndoneOld
<1>3. ASSUME NEW k \in Key, NEW i \in DOMAIN t.fresh[k] PROVE F(k, i) \in Fresh
  <2>1. t.fresh[k][i] \in Fresh
    BY TableFacts
  <2>2. i \in DOMAIN c.at => c.at[i] \in Value
    BY LoggedFacts
  <2>3. c.kind \in {"Insert", "Update", "Remove"}
    BY LoggedFacts
  <2> QED
    BY <2>1, <2>2, <2>3, UndoneFresh
<1> HIDE DEF D, F
<1>4. dirty \in [DOMAIN t.dirty -> Old] /\ DOMAIN t.dirty \in IdSet
  BY <1>2, TableFacts DEF IdSet
<1>5. ASSUME NEW k \in Key
      PROVE  fresh[k] \in Seq(Fresh) /\ DOMAIN fresh[k] = DOMAIN t.fresh[k]
  <2>1. DOMAIN t.fresh[k] = 1 .. Len(t.fresh[k]) /\ Len(t.fresh[k]) \in Nat
    BY TableFacts
  <2>2. fresh[k] = [i \in DOMAIN t.fresh[k] |-> F(k, i)]
    OBVIOUS
  <2>3. fresh[k] \in [1 .. Len(t.fresh[k]) -> Fresh]
    BY <1>3, <2>1, <2>2
  <2> HIDE DEF fresh
  <2> QED
    BY <2>1, <2>2, <2>3
<1>6. fresh \in [Key -> Seq(Fresh)]
  BY <1>5
<1>7. /\ \A k \in Key : \A i \in DOMAIN t.fresh[k] : fresh[k][i] = F(k, i)
      /\ \A id \in DOMAIN t.dirty : dirty[id] = D(id)
      /\ DOMAIN dirty = DOMAIN t.dirty
  OBVIOUS
<1> HIDE DEF fresh, dirty, u
<1>8. u \in Table
  BY <1>1, <1>4, <1>6, TableIs
<1>9. u.dirty = dirty /\ u.fresh = fresh
  BY <1>1
<1> QED
  BY <1>5, <1>7, <1>8, <1>9 DEF Like, u, D, F

-----------------------------------------------------------------------------

\* g[i] is the table with the last i changes of the log undone.
Undoes(g, t, l) ==
    /\ g[0] = t
    /\ \A i \in 1 .. Len(l) : g[i] = Undo(l[Len(l) + 1 - i], g[i - 1])

\* A log can be undone from any table.
LEMMA UndoneExists ==
    ASSUME NEW t \in Table, NEW l \in Seq(Logged)
    PROVE  \E g : Undoes(g, t, l) /\ g \in [0 .. Len(l) -> Like(t)]
<1> DEFINE n == Len(l)
           S == Like(t)
           F == [i \in 1 .. n |-> [u \in S |-> Undo(l[n + 1 - i], u)]]
<1>1. n \in Nat /\ \A i \in 1 .. n : n + 1 - i \in 1 .. n
  OBVIOUS
<1>2. t \in S
  BY DEF Like
<1>3. ASSUME NEW i \in 1 .. n, NEW u \in S PROVE Undo(l[n + 1 - i], u) \in S
  <2>1. l[n + 1 - i] \in Logged
    BY <1>1
  <2>2. u \in Table /\ DOMAIN u.dirty = DOMAIN t.dirty
        /\ \A k \in Key : DOMAIN u.fresh[k] = DOMAIN t.fresh[k]
    BY DEF Like
  <2>3. Undo(l[n + 1 - i], u) \in Like(u)
    BY <2>1, <2>2, UndoFacts
  <2> QED
    BY <2>2, <2>3 DEF Like
<1> HIDE DEF S, n
<1>4. F \in [1 .. n -> [S -> S]]
  BY <1>3
<1>5. PICK f : Follows(f, S, n, t, F)
  <2> HIDE DEF F
  <2> QED
    BY <1>1, <1>2, <1>4, Recursion
<1>6. f \in [0 .. n -> S] /\ f[0] = t /\ \A i \in 1 .. n : f[i] = F[i][f[i - 1]]
  BY <1>5 DEF Follows
<1>7. ASSUME NEW i \in 1 .. n PROVE f[i] = Undo(l[n + 1 - i], f[i - 1])
  <2>1. f[i - 1] \in S
    BY <1>1, <1>6
  <2> QED
    BY <1>6, <2>1
<1> QED
  BY <1>6, <1>7 DEF Undoes, n, S

\* There is one way to undo a log.
LEMMA UndoneOnce ==
    ASSUME NEW t, NEW l \in Seq(Logged), NEW g, NEW h, Undoes(g, t, l), Undoes(h, t, l)
    PROVE  \A i \in 0 .. Len(l) : g[i] = h[i]
<1> DEFINE n == Len(l)
           D == {i \in Nat : i <= n => g[i] = h[i]}
<1>1. n \in Nat
  OBVIOUS
<1>2. /\ g[0] = t /\ h[0] = t
      /\ \A i \in 1 .. n : /\ g[i] = Undo(l[n + 1 - i], g[i - 1])
                           /\ h[i] = Undo(l[n + 1 - i], h[i - 1])
  BY DEF Undoes
<1> HIDE DEF n
<1>3. 0 \in D
  BY <1>2
<1>4. ASSUME NEW i \in Nat, i \in D PROVE i + 1 \in D
  <2> SUFFICES ASSUME i + 1 <= n PROVE g[i + 1] = h[i + 1]
    OBVIOUS
  <2>1. i + 1 \in 1 .. n /\ (i + 1) - 1 = i /\ g[i] = h[i]
    BY <1>1, <1>4
  <2> QED
    BY <1>2, <2>1
<1> HIDE DEF D
<1>5. Nat \subseteq D
  BY <1>3, <1>4, Induction
<1> QED
  BY <1>1, <1>5 DEF D, n

LEMMA RolledBackIs ==
    ASSUME table \in Table, log \in Seq(Logged), NEW g, Undoes(g, table, log),
           NEW sp \in 0 .. Len(log)
    PROVE  rolledBack(sp) = g[Len(log) - sp]
<1> DEFINE n == Len(log)
           G(u, i) == Undo(log[n + 1 - i], u)
           P(f) == f = [i \in 0 .. n |-> IF i = 0 THEN table ELSE G(f[i - 1], i)]
           undone == CHOOSE f : P(f)
<1>1. rolledBack(sp) = undone[n - sp]
  BY Zenon DEF rolledBack
<1>2. n \in Nat
  OBVIOUS
<1>3. PICK h : Undoes(h, table, log) /\ h \in [0 .. n -> Like(table)]
  BY UndoneExists
<1>4. P(h)
  <2>1. h[0] = table /\ \A i \in 1 .. n : h[i] = G(h[i - 1], i)
    BY <1>3 DEF Undoes
  <2> HIDE DEF G, n
  <2>2. \A i \in 0 .. n : h[i] = IF i = 0 THEN table ELSE G(h[i - 1], i)
    BY <1>2, <2>1
  <2>3. h = [i \in 0 .. n |-> h[i]]
    BY <1>3
  <2> QED
    BY <2>2, <2>3
<1>5. P(undone)
  BY <1>4, Zenon
<1> HIDE DEF undone, G
<1>6. \A i \in 0 .. n : undone[i] = IF i = 0 THEN table ELSE G(undone[i - 1], i)
  BY <1>5, Zenon
<1>7. Undoes(undone, table, log)
  <2>1. 0 \in 0 .. n /\ \A i \in 1 .. n : i \in 0 .. n /\ i # 0
    BY <1>2
  <2> QED
    BY <1>6, <2>1 DEF Undoes, G
<1>8. n - sp \in 0 .. n
  BY <1>2
<1>9. undone[n - sp] = g[n - sp]
  BY <1>7, <1>8, UndoneOnce
<1> QED
  BY <1>1, <1>9

\* The rows of a change are in the table.
InTable(c, t) == DOMAIN c.ids \subseteq DOMAIN t.dirty /\ DOMAIN c.at \subseteq DOMAIN t.fresh[c.key]

TableInv ==
    /\ table \in Table /\ \A id \in DOMAIN table.dirty : id <= LastId
    /\ log \in Seq(Logged) /\ \A n \in 1 .. Len(log) : InTable(log[n], table)
    /\ commit.pc # "idle" => table = EmptyTable /\ log = <<>>
    /\ ops \in Nat /\ ops <= MaxOps /\ Len(log) <= ops

\* A table with more rows, which none of the changes loses.
Larger(u, t) == /\ DOMAIN t.dirty \subseteq DOMAIN u.dirty
                /\ \A k \in Key : DOMAIN t.fresh[k] \subseteq DOMAIN u.fresh[k]

LEMMA LoggedIs ==
    ASSUME NEW kind \in {"Insert", "Update", "Remove"}, NEW k \in Key, NEW S \in IdSet,
           NEW T \in IdSet, NEW ids \in [S -> Value], NEW at \in [T -> Value], NEW t \in Table,
           kind = "Insert" => S = {}
    PROVE  /\ [kind |-> kind, key |-> k, ids |-> ids, at |-> at, before |-> t] \in Logged
           /\ DOMAIN ids = S /\ DOMAIN at = T
<1>1. ids \in Values /\ at \in Values /\ DOMAIN ids = S
  BY DEF Values
<1> QED
  BY <1>1 DEF Logged

\* One more change is logged.
LEMMA LogAppend ==
    ASSUME TableInv, NEW c \in Logged, log' = Append(log, c), table' \in Table,
           Larger(table', table), InTable(c, table'), ops' = ops + 1, ops < MaxOps,
           commit'.pc = "idle", \A id \in DOMAIN table'.dirty : id <= LastId'
    PROVE  TableInv'
<1>1. log \in Seq(Logged) /\ ops \in Nat /\ Len(log) <= ops
  BY DEF TableInv
<1>2. /\ log' \in Seq(Logged) /\ Len(log') = Len(log) + 1 /\ Len(log) \in Nat
      /\ \A n \in 1 .. Len(log) : log'[n] = log[n]
      /\ log'[Len(log) + 1] = c
  BY <1>1, AppendFacts
<1>3. ASSUME NEW n \in 1 .. Len(log') PROVE InTable(log'[n], table')
  <2>1. CASE n \in 1 .. Len(log)
    <3>1. log[n] \in Logged /\ log'[n] = log[n] /\ InTable(log[n], table)
      BY <1>1, <1>2, <2>1 DEF TableInv
    <3>2. log[n].key \in Key
      BY <3>1, LoggedFacts
    <3> QED
      BY <3>1, <3>2 DEF InTable, Larger
  <2>2. CASE n = Len(log) + 1
    BY <1>2, <2>2
  <2> QED
    BY <1>2, <2>1, <2>2
<1>4. ops' \in Nat /\ ops' <= MaxOps /\ Len(log') <= ops'
  BY <1>1, <1>2, MaxOpsAssumption
<1> QED
  BY <1>2, <1>3, <1>4 DEF TableInv

\* The row that an insert adds, and its change.
Inserted(v, force) == [val |-> v, removed |-> FALSE, deleted |-> FALSE, force |-> force]
Insertion(k, v) == [kind |-> "Insert", key |-> k, ids |-> NoRows,
                    at |-> [i \in {Len(table.fresh[k]) + 1} |-> v], before |-> table]

LEMMA InsertFacts ==
    ASSUME TableInv, NEW k \in Key, NEW v \in Value, NEW force \in BOOLEAN, Insert(k, v, force)
    PROVE  LET x == Inserted(v, force)
               c == Insertion(k, v)
           IN  /\ x \in Fresh /\ c \in Logged /\ log' = Append(log, c)
               /\ table' \in Table /\ table'.dirty = table.dirty
               /\ \A l \in Key : table'.fresh[l] =
                     IF l = k THEN Append(table.fresh[k], x) ELSE table.fresh[l]
               /\ DOMAIN table'.fresh[k] = DOMAIN table.fresh[k] \cup {Len(table.fresh[k]) + 1}
               /\ Larger(table', table) /\ InTable(c, table')
               /\ DOMAIN c.ids = {} /\ DOMAIN c.at = {Len(table.fresh[k]) + 1}
               /\ ops' = ops + 1 /\ ops < MaxOps /\ commit.pc = "idle"
<1> DEFINE s == table.fresh[k]
           n == Len(s) + 1
           x == [val |-> v, removed |-> FALSE, deleted |-> FALSE, force |-> force]
           at == [i \in {n} |-> v]
           c == [kind |-> "Insert", key |-> k, ids |-> NoRows, at |-> at, before |-> table]
<1>1. /\ table' = [table EXCEPT !.fresh[k] = Append(@, x)]
      /\ log' = Append(log, c) /\ ops' = ops + 1 /\ ops < MaxOps /\ commit.pc = "idle"
  BY DEF Insert, NextOp, Executing
<1>2. x \in Fresh
  BY DEF Fresh
<1>3. table \in Table
  BY DEF TableInv
<1>4. s \in Seq(Fresh) /\ DOMAIN s = 1 .. Len(s) /\ Len(s) \in Nat
  BY <1>3, TableFacts
<1> HIDE DEF x, s
<1>5. /\ Append(s, x) \in Seq(Fresh) /\ Len(Append(s, x)) = n
  BY <1>2, <1>4, AppendFacts
<1>6. DOMAIN Append(s, x) = DOMAIN s \cup {n}
  BY <1>4, <1>5
<1>7. table' = [dirty |-> table.dirty, fresh |-> [table.fresh EXCEPT ![k] = Append(s, x)]]
  BY <1>1, <1>3 DEF Table, s
<1> DEFINE fresh == [table.fresh EXCEPT ![k] = Append(s, x)]
<1>8. /\ fresh \in [Key -> Seq(Fresh)]
      /\ \A l \in Key : fresh[l] = IF l = k THEN Append(s, x) ELSE table.fresh[l]
  BY <1>3, <1>5, TableFacts
<1> HIDE DEF fresh
<1>9. table' \in Table /\ table'.dirty = table.dirty /\ table'.fresh = fresh
  <2>1. table' = [dirty |-> table.dirty, fresh |-> fresh]
    BY <1>7 DEF fresh
  <2>2. table.dirty \in [DOMAIN table.dirty -> Old] /\ DOMAIN table.dirty \in IdSet
    BY <1>3, TableFacts DEF IdSet
  <2> QED
    BY <1>8, <2>1, <2>2, TableIs
<1>10. c \in Logged /\ DOMAIN NoRows = {} /\ DOMAIN at = {n}
  <2>1. NoRows \in [{} -> Value] /\ {} \in IdSet /\ DOMAIN NoRows = {}
    BY DEF NoRows, IdSet
  <2>2. at \in [{n} -> Value] /\ {n} \in IdSet
    BY <1>4 DEF IdSet
  <2> HIDE DEF at, n
  <2> QED
    BY <1>3, <2>1, <2>2, LoggedIs
<1>11. c.ids = NoRows /\ c.at = at /\ c.key = k
  OBVIOUS
<1>12. Larger(table', table)
  BY <1>6, <1>8, <1>9 DEF Larger, s
<1>13. InTable(c, table')
  BY <1>6, <1>8, <1>9, <1>10, <1>11 DEF InTable
<1> HIDE DEF c, at, n
<1>14. DOMAIN table'.fresh[k] = DOMAIN s \cup {n}
  BY <1>6, <1>8, <1>9
<1> QED
  BY <1>1, <1>2, <1>8, <1>9, <1>10, <1>11, <1>12, <1>13, <1>14 DEF c, at, n, s, x, Inserted, Insertion

LEMMA SelectedFacts ==
    ASSUME StorageInv, NEW r \in Reader, select[r] # IdleReader
    PROVE  /\ Selected(r) \in Seq(Row) /\ Below(Selected(r), Limit) /\ NoneRemoved(Selected(r))
           /\ select[r].key \in Key /\ select[r].obj \in Obj
<1>1. select[r].key \in Key /\ select[r].obj \in Obj
  BY LoadedFacts
<1>2. /\ Load(select[r].key) \in Seq(Row) /\ Below(Load(select[r].key), LastId)
      /\ NoneRemoved(Load(select[r].key))
  BY <1>1, LoadFacts
<1>3. Below(Load(select[r].key), Limit)
  BY <1>2, BelowMore, IdFacts
<1>4. obj[select[r].obj].rows \in Seq(Row) /\ Below(obj[select[r].obj].rows, Limit)
  BY <1>1, StorageFacts DEF StorageInv, ObjFit
<1>5. /\ Normal(obj[select[r].obj].rows) \in Seq(Row)
      /\ Below(Normal(obj[select[r].obj].rows), Limit)
      /\ NoneRemoved(Normal(obj[select[r].obj].rows))
  BY <1>4, NormalBelow
<1> QED
  BY <1>1, <1>2, <1>3, <1>5 DEF Selected

\* The rows of the storage that a change finds.
LEMMA FoundFacts ==
    ASSUME StorageInv, TableInv, select[Executor] # IdleReader, commit.pc = "idle", NEW condition
    PROVE  LET db == dbEntries(condition)
               k == select[Executor].key
           IN  /\ k \in Key
               /\ DOMAIN db \in IdSet /\ db \in [DOMAIN db -> Old]
               /\ \A id \in DOMAIN db :
                     /\ id <= LastId
                     /\ id \in DOMAIN table.dirty => db[id] = table.dirty[id]
                     /\ id \notin DOMAIN table.dirty =>
                           \E r \in Row : /\ r \in Range(Selected(Executor)) /\ r.id = id
                                          /\ ~ r.removed
                                          /\ db[id] = [key |-> k, val |-> r.val, removed |-> FALSE]
<1> DEFINE db == dbEntries(condition)
           k == select[Executor].key
           s == Selected(Executor)
           found == {r \in Range(s) : r.val \in condition}
           loaded(id) == CHOOSE r \in found : r.id = id
           D == {r.id : r \in found}
           e(id) == [key |-> k, val |-> loaded(id).val, removed |-> loaded(id).removed]
<1>1. /\ s \in Seq(Row) /\ Below(s, Limit) /\ NoneRemoved(s) /\ k \in Key
  BY SelectedFacts, ExecutorAssumption
<1>2. Limit = LastId
  BY DEF StorageInv, CommitIds, Limit
<1>3. db = [id \in D |-> IF id \in DOMAIN table.dirty THEN table.dirty[id] ELSE e(id)]
  BY DEF dbEntries
<1> HIDE DEF s, k, db
<1>4. \A r \in found : r \in Row /\ r \in Range(s) /\ r.id \in Nat \ {0} /\ r.id <= LastId
                       /\ ~ r.removed /\ r.val \in Value
  <2> TAKE r \in found
  <2>1. PICK i \in 1 .. Len(s) : r = s[i]
    BY <1>1 DEF Range
  <2>2. s[i] \in Row /\ s[i].id \in Nat \ {0} /\ s[i].val \in Value
    BY <1>1, RowFacts
  <2> QED
    BY <1>1, <1>2, <2>1, <2>2 DEF Below, NoneRemoved
<1> HIDE DEF found
<1>5. ASSUME NEW id \in D PROVE loaded(id) \in found /\ loaded(id).id = id
  <2>1. \E r \in found : r.id = id
    OBVIOUS
  <2> HIDE DEF D
  <2> QED
    BY <2>1, Zenon
<1> HIDE DEF loaded
<1>6. table \in Table /\ \A id \in DOMAIN table.dirty : table.dirty[id] \in Old
  BY TableFacts DEF TableInv
<1>7. \A id \in D : id \in Nat \ {0} /\ id <= LastId
  BY <1>4
<1>8. ASSUME NEW id \in D
      PROVE  /\ e(id) = [key |-> k, val |-> loaded(id).val, removed |-> FALSE]
             /\ e(id) \in Old
  <2>1. loaded(id) \in found
    BY <1>5
  <2>2. ~ loaded(id).removed /\ loaded(id) \in Row /\ loaded(id).val \in Value
    BY <1>4, <2>1
  <2>3. loaded(id).removed = FALSE
    BY <2>2 DEF Row
  <2> QED
    BY <1>1, <2>2, <2>3 DEF Old
<1> HIDE DEF e
<1>9. /\ DOMAIN db = D
      /\ \A id \in D : db[id] = IF id \in DOMAIN table.dirty THEN table.dirty[id] ELSE e(id)
  BY <1>3
<1>10. db \in [D -> Old]
  BY <1>3, <1>6, <1>8
<1>11. D \in IdSet
  BY <1>7 DEF IdSet
<1>12. ASSUME NEW id \in D, id \notin DOMAIN table.dirty
       PROVE  \E r \in Row : /\ r \in Range(s) /\ r.id = id /\ ~ r.removed
                             /\ db[id] = [key |-> k, val |-> r.val, removed |-> FALSE]
  <2>1. loaded(id) \in Row /\ loaded(id) \in Range(s) /\ loaded(id).id = id /\ ~ loaded(id).removed
    BY <1>4, <1>5
  <2>2. db[id] = [key |-> k, val |-> loaded(id).val, removed |-> FALSE]
    BY <1>8, <1>9, <1>12
  <2> QED
    BY <2>1, <2>2
<1> HIDE DEF D
<1> QED
  BY <1>1, <1>7, <1>9, <1>10, <1>11, <1>12 DEF s, k, db

LEMMA ChangedOld ==
    ASSUME NEW r \in Old, NEW kind \in {"Update", "Remove"}, NEW v, kind = "Update" => v \in Value
    PROVE  changed(kind, r, v) \in Old
<1>1. CASE kind = "Update"
  BY <1>1 DEF changed, Old
<1>2. CASE kind = "Remove"
  BY <1>2 DEF changed, Old
<1> QED
  BY <1>1, <1>2

LEMMA ChangedFresh ==
    ASSUME NEW r \in Fresh, NEW kind \in {"Update", "Remove"}, NEW v, kind = "Update" => v \in Value
    PROVE  changed(kind, r, v) \in Fresh
<1>1. CASE kind = "Update"
  BY <1>1 DEF changed, Fresh
<1>2. CASE kind = "Remove"
  BY <1>2 DEF changed, Fresh
<1> QED
  BY <1>1, <1>2

\* What a change does to the rows it finds, and what is logged of it.
ChangedRows(kind, v, k, db, new, c) ==
    /\ DOMAIN table'.dirty = DOMAIN db \cup DOMAIN table.dirty
    /\ \A id \in DOMAIN table'.dirty : table'.dirty[id] =
          IF id \in DOMAIN db THEN changed(kind, db[id], v) ELSE table.dirty[id]
    /\ \A l \in Key : DOMAIN table'.fresh[l] = DOMAIN table.fresh[l]
    /\ \A l \in Key : \A i \in DOMAIN table.fresh[l] : table'.fresh[l][i] =
          IF l = k /\ i \in new THEN changed(kind, table.fresh[l][i], v) ELSE table.fresh[l][i]
    /\ new \subseteq DOMAIN table.fresh[k] /\ \A i \in new : ~ table.fresh[k][i].removed
    /\ c.kind = kind /\ c.key = k /\ c.before = table
    /\ DOMAIN c.ids = DOMAIN db /\ \A id \in DOMAIN db : c.ids[id] = db[id].val
    /\ DOMAIN c.at = new /\ \A i \in new : c.at[i] = table.fresh[k][i].val

LEMMA ChangeFacts ==
    ASSUME StorageInv, TableInv, NEW kind \in {"Update", "Remove"}, NEW condition, NEW v,
           kind = "Update" => v \in Value, Change(kind, condition, v)
    PROVE  LET k == select[Executor].key
               db == dbEntries(condition)
               new == newEntries(condition)
               c == [kind |-> kind, key |-> k, ids |-> [id \in DOMAIN db |-> db[id].val],
                     at |-> [i \in new |-> table.fresh[k][i].val], before |-> table]
           IN  /\ ChangedRows(kind, v, k, db, new, c)
               /\ k \in Key /\ select[Executor] # IdleReader /\ commit.pc = "idle"
               /\ c \in Logged /\ log' = Append(log, c)
               /\ table' \in Table /\ DOMAIN table'.dirty = DOMAIN db \cup DOMAIN table.dirty
               /\ \A id \in DOMAIN table'.dirty : table'.dirty[id] =
                     IF id \in DOMAIN db THEN changed(kind, db[id], v) ELSE table.dirty[id]
               /\ \A l \in Key : DOMAIN table'.fresh[l] = DOMAIN table.fresh[l]
               /\ \A l \in Key : \A i \in DOMAIN table.fresh[l] : table'.fresh[l][i] =
                     IF l = k /\ i \in new THEN changed(kind, table.fresh[l][i], v)
                     ELSE table.fresh[l][i]
               /\ new \subseteq DOMAIN table.fresh[k]
               /\ \A i \in new : ~ table.fresh[k][i].removed
               /\ Larger(table', table) /\ InTable(c, table')
               /\ DOMAIN c.ids = DOMAIN db /\ DOMAIN c.at = new
               /\ ops' = ops + 1 /\ ops < MaxOps
               /\ SelectRows(Executor)
<1> DEFINE k == select[Executor].key
           db == dbEntries(condition)
           new == newEntries(condition)
           s == table.fresh[k]
           ids == [id \in DOMAIN db |-> db[id].val]
           at == [i \in new |-> s[i].val]
           c == [kind |-> kind, key |-> k, ids |-> ids, at |-> at, before |-> table]
           dirty == [id \in DOMAIN db \cup DOMAIN table.dirty |->
                        IF id \in DOMAIN db THEN changed(kind, db[id], v) ELSE table.dirty[id]]
           t == [i \in DOMAIN s |-> IF i \in new THEN changed(kind, s[i], v) ELSE s[i]]
           fresh == [table.fresh EXCEPT ![k] = t]
<1>1. /\ select[Executor] # IdleReader /\ commit.pc = "idle" /\ ops' = ops + 1 /\ ops < MaxOps
      /\ table' = [dirty |-> dirty, fresh |-> fresh] /\ log' = Append(log, c)
      /\ SelectRows(Executor)
  BY DEF Change, NextOp, Executing
<1>2. /\ k \in Key /\ DOMAIN db \in IdSet /\ db \in [DOMAIN db -> Old]
      /\ \A id \in DOMAIN db : id <= LastId
  BY <1>1, FoundFacts
<1>3. /\ new \subseteq DOMAIN s /\ \A i \in new : ~ s[i].removed
  BY DEF newEntries
<1>4. table \in Table
  BY DEF TableInv
<1> HIDE DEF db, new, s
<1>5. /\ s \in Seq(Fresh) /\ DOMAIN s = 1 .. Len(s) /\ Len(s) \in Nat
      /\ \A i \in DOMAIN s : s[i] \in Fresh /\ s[i].val \in Value
      /\ table.dirty \in [DOMAIN table.dirty -> Old] /\ DOMAIN table.dirty \in IdSet
      /\ table.fresh \in [Key -> Seq(Fresh)]
  BY <1>2, <1>4, TableFacts DEF s, IdSet
<1>6. ids \in [DOMAIN db -> Value]
  <2>1. \A r \in Old : r.val \in Value
    BY DEF Old
  <2> QED
    BY <1>2, <2>1
<1>7. at \in [new -> Value] /\ new \in IdSet
  BY <1>3, <1>5 DEF IdSet
<1>8. dirty \in [DOMAIN db \cup DOMAIN table.dirty -> Old]
      /\ DOMAIN db \cup DOMAIN table.dirty \in IdSet
  <2>1. \A id \in DOMAIN db : changed(kind, db[id], v) \in Old
    BY <1>2, ChangedOld
  <2>2. DOMAIN db \cup DOMAIN table.dirty \in IdSet
    BY <1>2, <1>5 DEF IdSet
  <2> QED
    BY <1>5, <2>1, <2>2
<1>9. t \in Seq(Fresh) /\ DOMAIN t = DOMAIN s
  <2>1. \A i \in DOMAIN s : changed(kind, s[i], v) \in Fresh
    BY <1>5, ChangedFresh
  <2>2. t \in [1 .. Len(s) -> Fresh]
    BY <1>5, <2>1
  <2> HIDE DEF t
  <2> QED
    BY <1>5, <2>2
<1>10. \A i \in DOMAIN s : t[i] = IF i \in new THEN changed(kind, s[i], v) ELSE s[i]
  OBVIOUS
<1> HIDE DEF t
<1>11. fresh \in [Key -> Seq(Fresh)] /\ \A l \in Key : fresh[l] = IF l = k THEN t ELSE table.fresh[l]
  BY <1>2, <1>5, <1>9
<1>12. DOMAIN dirty = DOMAIN db \cup DOMAIN table.dirty
       /\ \A id \in DOMAIN dirty : dirty[id] = IF id \in DOMAIN db THEN changed(kind, db[id], v) ELSE table.dirty[id]
  OBVIOUS
<1> HIDE DEF dirty, fresh
<1>13. table' \in Table /\ table'.dirty = dirty /\ table'.fresh = fresh
  BY <1>1, <1>8, <1>11, TableIs
<1>14. c \in Logged /\ c.ids = ids /\ c.at = at /\ c.key = k
       /\ DOMAIN ids = DOMAIN db /\ DOMAIN at = new
  <2> HIDE DEF ids, at
  <2>1. c \in Logged /\ DOMAIN ids = DOMAIN db /\ DOMAIN at = new
    BY <1>2, <1>4, <1>6, <1>7, LoggedIs
  <2> QED
    BY <2>1
<1>15. /\ \A l \in Key : DOMAIN table'.fresh[l] = DOMAIN table.fresh[l]
       /\ \A l \in Key : \A i \in DOMAIN table.fresh[l] : table'.fresh[l][i] =
             IF l = k /\ i \in new THEN changed(kind, table.fresh[l][i], v) ELSE table.fresh[l][i]
  BY <1>9, <1>10, <1>11, <1>13 DEF s
<1>18. /\ \A id \in DOMAIN db : ids[id] = db[id].val
       /\ \A i \in new : at[i] = table.fresh[k][i].val
       /\ c.kind = kind /\ c.before = table
  BY DEF s
<1> HIDE DEF ids, at, c, k
<1>19. ChangedRows(kind, v, k, db, new, c)
  BY <1>3, <1>12, <1>13, <1>14, <1>15, <1>18 DEF ChangedRows, s
<1>16. Larger(table', table)
  BY <1>12, <1>13, <1>15 DEF Larger
<1>17. InTable(c, table')
  BY <1>2, <1>3, <1>12, <1>13, <1>14, <1>15 DEF InTable, s
<1> QED
  BY <1>1, <1>2, <1>3, <1>12, <1>13, <1>14, <1>15, <1>16, <1>17, <1>19
     DEF ids, at, c, k, db, new, s

LEMMA ChangeIs ==
    ASSUME StorageInv, TableInv, NEW kind \in {"Update", "Remove"}, NEW condition, NEW v,
           kind = "Update" => v \in Value, Change(kind, condition, v)
    PROVE  /\ select[Executor].key \in Key /\ select[Executor] # IdleReader /\ commit.pc = "idle"
           /\ SelectRows(Executor) /\ table' \in Table
           /\ \E c \in Logged :
                 /\ log' = Append(log, c)
                 /\ ChangedRows(kind, v, select[Executor].key, dbEntries(condition),
                                newEntries(condition), c)
BY ChangeFacts

LEMMA StorageSame ==
    ASSUME StorageInv, UNCHANGED storage
    PROVE  StorageInv'
<1> USE DEF storage
<1>1. StorageType' /\ CommitType'
  BY DEF StorageInv, StorageType, CommitType
<1>2. LastId' = LastId /\ Limit' = Limit /\ num' = num
      /\ \A i : IdOf(i)' = IdOf(i) /\ BlockOf(i)' = BlockOf(i)
  BY DEF LastId, Limit, num, IdOf, BlockOf
<1>3. CommitIds' /\ StoreFit' /\ ObjFit' /\ DataFit'
  BY <1>2 DEF StorageInv, CommitIds, StoreFit, ObjFit, DataFit
<1>4. Owned'
  BY DEF StorageInv, Owned, Uses
<1> QED
  BY <1>1, <1>3, <1>4 DEF StorageInv

LEMMA SameIds == UNCHANGED <<queue, backend>> => LastId' = LastId
BY DEF LastId, IdOf

\* Steps that leave the table alone.
LEMMA TableKept ==
    ASSUME TableInv, UNCHANGED <<table, log, ops>>,
           commit.pc = "idle" => commit'.pc = "idle" /\ LastId' = LastId
    PROVE  TableInv'
<1>1. CASE commit.pc = "idle"
  BY <1>1 DEF TableInv
<1>2. CASE commit.pc # "idle"
  <2>1. table = EmptyTable /\ log = <<>>
    BY <1>2 DEF TableInv
  <2> QED
    BY <2>1, EmptyTableFacts DEF TableInv
<1> QED
  BY <1>1, <1>2

LEMMA EmptyInv ==
    ASSUME TableInv, table' = EmptyTable, log' = <<>>, ops' = ops
    PROVE  TableInv'
<1>1. log' \in Seq(Logged) /\ Len(log') = 0
  OBVIOUS
<1> QED
  BY <1>1, EmptyTableFacts DEF TableInv

LEMMA InsertTable ==
    ASSUME TableInv, NEW k \in Key, NEW v \in Value, NEW force \in BOOLEAN, Insert(k, v, force),
           UNCHANGED <<queue, backend, commit>>
    PROVE  TableInv'
<1> DEFINE c == Insertion(k, v)
<1>1. /\ c \in Logged /\ log' = Append(log, c)
      /\ table' \in Table /\ table'.dirty = table.dirty
      /\ Larger(table', table) /\ InTable(c, table')
      /\ ops' = ops + 1 /\ ops < MaxOps /\ commit.pc = "idle"
  BY InsertFacts
<1> HIDE DEF c
<1>2. \A id \in DOMAIN table'.dirty : id <= LastId'
  BY <1>1, SameIds DEF TableInv
<1> QED
  BY <1>1, <1>2, LogAppend

LEMMA ChangeTable ==
    ASSUME StorageInv, TableInv, NEW kind \in {"Update", "Remove"}, NEW condition, NEW v,
           kind = "Update" => v \in Value, Change(kind, condition, v)
    PROVE  TableInv'
<1> DEFINE k == select[Executor].key
           db == dbEntries(condition)
           new == newEntries(condition)
           c == [kind |-> kind, key |-> k, ids |-> [id \in DOMAIN db |-> db[id].val],
                 at |-> [i \in new |-> table.fresh[k][i].val], before |-> table]
<1>1. /\ select[Executor] # IdleReader /\ commit.pc = "idle"
      /\ c \in Logged /\ log' = Append(log, c)
      /\ table' \in Table /\ DOMAIN table'.dirty = DOMAIN db \cup DOMAIN table.dirty
      /\ Larger(table', table) /\ InTable(c, table')
      /\ ops' = ops + 1 /\ ops < MaxOps
      /\ SelectRows(Executor)
  BY ChangeFacts
<1>2. \A id \in DOMAIN db : id <= LastId
  BY <1>1, FoundFacts
<1> HIDE DEF c, db
<1>3. UNCHANGED <<queue, backend, commit>>
  BY <1>1 DEF SelectRows
<1>4. \A id \in DOMAIN table'.dirty : id <= LastId'
  BY <1>1, <1>2, <1>3, SameIds DEF TableInv
<1>5. commit'.pc = "idle"
  BY <1>1, <1>3
<1> QED
  BY <1>1, <1>4, <1>5, LogAppend

LEMMA RollbackTable ==
    ASSUME TableInv, NEW sp \in Nat, rollback(sp)
    PROVE  TableInv' /\ table' \in Like(table) /\ sp < Len(log)
<1>1. /\ sp < Len(log) /\ table' = rolledBack(sp) /\ log' = SubSeq(log, 1, sp)
      /\ UNCHANGED <<queue, backend, commit, ops>>
  BY DEF rollback, storage
<1>2. table \in Table /\ log \in Seq(Logged) /\ Len(log) \in Nat /\ sp \in 0 .. Len(log)
  BY <1>1 DEF TableInv
<1>3. PICK g : Undoes(g, table, log) /\ g \in [0 .. Len(log) -> Like(table)]
  BY <1>2, UndoneExists
<1>4. table' = g[Len(log) - sp]
  BY <1>1, <1>2, <1>3, RolledBackIs
<1>5. table' \in Like(table)
  BY <1>2, <1>3, <1>4
<1>6. /\ table' \in Table /\ DOMAIN table'.dirty = DOMAIN table.dirty
      /\ \A k \in Key : DOMAIN table'.fresh[k] = DOMAIN table.fresh[k]
  BY <1>5 DEF Like
<1>7. /\ log' \in Seq(Logged) /\ Len(log') = sp /\ \A i \in 1 .. sp : log'[i] = log[i]
  <2>1. 1 \in 1 .. Len(log) + 1 /\ sp \in 1 - 1 .. Len(log) /\ sp \in 0 .. Len(log)
    BY <1>1, <1>2
  <2> QED
    BY <1>1, <1>2, <2>1, SubSeqProperties
<1>8. ASSUME NEW n \in 1 .. Len(log') PROVE InTable(log'[n], table')
  <2>1. n \in 1 .. Len(log) /\ log'[n] = log[n]
    BY <1>1, <1>2, <1>7
  <2>2. log[n] \in Logged /\ InTable(log[n], table)
    BY <1>2, <2>1 DEF TableInv
  <2>3. log[n].key \in Key
    BY <2>2, LoggedFacts
  <2> QED
    BY <1>6, <2>1, <2>2, <2>3 DEF InTable
<1>9. LastId' = LastId
  BY <1>1, SameIds
<1>10. commit'.pc = "idle" /\ commit.pc = "idle"
  BY <1>1 DEF rollback, Executing
<1>11. Len(log') <= ops'
  BY <1>1, <1>2, <1>7 DEF TableInv
<1> QED
  BY <1>1, <1>5, <1>6, <1>7, <1>8, <1>9, <1>10, <1>11 DEF TableInv

LEMMA DumpFacts ==
    ASSUME TableInv
    PROVE  /\ dumpDirty \in SUBSET DirtyWrite /\ \A w \in dumpDirty : w.row.id <= LastId
           /\ dumpNew \in SUBSET NewWrite
<1>1. table \in Table
  BY DEF TableInv
<1>2. ASSUME NEW id \in DOMAIN table.dirty
      PROVE  LET w == [key |-> table.dirty[id].key,
                       row |-> row(id, table.dirty[id].val, table.dirty[id].removed)]
             IN  w \in DirtyWrite /\ w.row.id <= LastId
  <2>1. /\ id \in Nat \ {0} /\ table.dirty[id].key \in Key /\ table.dirty[id].val \in Value
        /\ table.dirty[id].removed \in BOOLEAN /\ id <= LastId
    BY <1>1, TableFacts DEF TableInv
  <2>2. row(id, table.dirty[id].val, table.dirty[id].removed) \in Row
    BY <2>1 DEF row, Row
  <2>3. row(id, table.dirty[id].val, table.dirty[id].removed).id = id
    BY DEF row
  <2> QED
    BY <2>1, <2>2, <2>3 DEF DirtyWrite
<1>3. ASSUME NEW k \in Key, NEW i \in DOMAIN table.fresh[k]
      PROVE  [key |-> k, at |-> i, force |-> table.fresh[k][i].force,
              row |-> row(0, table.fresh[k][i].val, table.fresh[k][i].removed)] \in NewWrite
  <2>1. /\ table.fresh[k][i].force \in BOOLEAN /\ table.fresh[k][i].val \in Value
        /\ table.fresh[k][i].removed \in BOOLEAN /\ i \in Nat
    BY <1>1, TableFacts
  <2>2. row(0, table.fresh[k][i].val, table.fresh[k][i].removed)
          \in [id : {0}, val : Value, removed : BOOLEAN]
    BY <2>1 DEF row
  <2> QED
    BY <2>1, <2>2 DEF NewWrite
<1> QED
  BY <1>2, <1>3 DEF dumpDirty, dumpNew

-----------------------------------------------------------------------------

BasicInv == StorageInv /\ CountInv /\ TableInv

LEMMA BasicInit == Init => BasicInv
<1> SUFFICES ASSUME Init PROVE TableInv
  BY InitStorageInv, CountInit DEF BasicInv
<1>1. table = EmptyTable /\ log = <<>> /\ ops = 0
  BY DEF Init
<1>2. log \in Seq(Logged) /\ Len(log) = 0
  BY <1>1
<1> QED
  BY <1>1, <1>2, EmptyTableFacts, MaxOpsAssumption DEF TableInv

LEMMA BasicExecute ==
    ASSUME BasicInv, Execute
    PROVE  StorageInv' /\ TableInv'
<1> USE DEF BasicInv
<1>1. ASSUME NEW k \in Key, NEW v \in Value, insert(k, v) PROVE StorageInv' /\ TableInv'
  <2>1. Insert(k, v, FALSE) /\ UNCHANGED storage
    BY <1>1 DEF insert
  <2> QED
    BY <2>1, StorageSame, InsertTable DEF storage
<1>2. ASSUME NEW v \in Value, insertForced(v) PROVE StorageInv' /\ TableInv'
  <2>1. /\ select[Executor] # IdleReader /\ Insert(select[Executor].key, v, TRUE)
        /\ SelectRows(Executor)
    BY <1>2 DEF insertForced
  <2>2. select[Executor].key \in Key
    BY <2>1, ExecutorAssumption, LoadedFacts
  <2>3. UNCHANGED <<queue, backend, commit>>
    BY <2>1 DEF SelectRows
  <2> QED
    BY <2>1, <2>2, <2>3, ExecutorAssumption, SelectRowsStorage, InsertTable
<1>3. ASSUME NEW c \in Conditions, NEW v \in Value, update(c, v) PROVE StorageInv' /\ TableInv'
  <2>1. Change("Update", c, v) /\ SelectRows(Executor)
    BY <1>3 DEF update, Change
  <2> QED
    BY <2>1, ExecutorAssumption, SelectRowsStorage, ChangeTable
<1>4. ASSUME NEW c \in Conditions, remove(c) PROVE StorageInv' /\ TableInv'
  <2>1. Change("Remove", c, None) /\ SelectRows(Executor)
    BY <1>4 DEF remove, Change
  <2> QED
    BY <2>1, ExecutorAssumption, SelectRowsStorage, ChangeTable
<1>5. ASSUME NEW n \in 0 .. MaxOps, rollback(n) PROVE StorageInv' /\ TableInv'
  <2>1. UNCHANGED storage /\ n \in Nat
    BY <1>5, MaxOpsAssumption DEF rollback
  <2> QED
    BY <1>5, <2>1, StorageSame, RollbackTable
<1>6. CASE commitTransaction
  <2>1. UNCHANGED storage /\ log' = <<>> /\ UNCHANGED <<table, ops>> /\ commit.pc = "idle"
    BY <1>6 DEF commitTransaction, Executing
  <2>2. log' \in Seq(Logged) /\ Len(log') = 0
    BY <2>1
  <2>3. LastId' = LastId /\ commit'.pc = "idle"
    BY <2>1, SameIds DEF storage
  <2>4. TableInv'
    BY <2>1, <2>2, <2>3 DEF TableInv
  <2> QED
    BY <2>1, <2>4, StorageSame
<1>7. CASE DropBlock
  <2>1. UNCHANGED storage /\ log' = <<>> /\ table' = EmptyTable /\ ops' = ops
    BY <1>7 DEF DropBlock
  <2> QED
    BY <2>1, StorageSame, EmptyInv
<1>8. CASE commitDB
  <2>1. StartCommit(dumpDirty, dumpNew) /\ log' = <<>> /\ table' = EmptyTable /\ ops' = ops
    BY <1>8 DEF commitDB
  <2>2. StorageInv'
    BY <2>1, DumpFacts, StartCommitStorage
  <2> QED
    BY <2>1, <2>2, EmptyInv
<1> QED
  BY <1>1, <1>2, <1>3, <1>4, <1>5, <1>6, <1>7, <1>8 DEF Execute

LEMMA BasicStorage ==
    ASSUME BasicInv, Storage, UNCHANGED <<table, log, ops>>
    PROVE  StorageInv' /\ TableInv'
<1> USE DEF BasicInv
<1>1. CASE Commit
  <2>1. commit.pc # "idle"
    BY <1>1 DEF Commit, WriteDirty, WriteNew, SubmitTask, CommitReturns, TouchRow
  <2> QED
    BY <1>1, <2>1, TableKept, WriteDirtyStorage, WriteNewStorage, SubmitStorage, ReturnsStorage,
       TouchRowStorage DEF Commit
<1>2. ASSUME NEW r \in Reader, SelectRows(r) \/ \E k \in Key : SelectTouch(r, k)
      PROVE  StorageInv' /\ TableInv'
  <2>1. UNCHANGED <<queue, backend, commit>>
    BY <1>2 DEF SelectRows, SelectTouch
  <2> QED
    BY <1>2, <2>1, SameIds, TableKept, SelectRowsStorage, SelectTouchStorage
<1>3. CASE Select
  BY <1>2, <1>3, ExecutorAssumption DEF Select
<1>4. CASE commitBackend
  <2>1. LastId' = LastId /\ commit' = commit
    BY <1>4, FlushIs
  <2> QED
    BY <1>4, <2>1, TableKept, FlushStorage
<1>5. ASSUME NEW k \in Key, checkAndClear(k) PROVE StorageInv' /\ TableInv'
  <2>1. UNCHANGED <<queue, backend, commit>>
    BY <1>5 DEF checkAndClear
  <2> QED
    BY <1>5, <2>1, SameIds, TableKept, ClearStorage
<1> QED
  BY <1>1, <1>3, <1>4, <1>5 DEF Storage

LEMMA BasicNext == BasicInv /\ [Next]_vars => BasicInv'
<1> SUFFICES ASSUME BasicInv, [Next]_vars PROVE StorageInv' /\ TableInv'
  BY CountNext DEF BasicInv
<1>1. CASE UNCHANGED vars
  <2>1. UNCHANGED storage /\ UNCHANGED <<table, log, ops>>
    BY <1>1 DEF vars
  <2>2. LastId' = LastId /\ commit' = commit
    BY <2>1, SameIds DEF storage
  <2> QED
    BY <2>1, <2>2, StorageSame, TableKept DEF BasicInv
<1>2. CASE Execute
  BY <1>2, BasicExecute
<1>3. CASE Storage /\ UNCHANGED <<table, log, ops>>
  BY <1>3, BasicStorage
<1>4. CASE End
  BY <1>4, RestartStorage, EmptyInv DEF End, BasicInv
<1> QED
  BY <1>1, <1>2, <1>3, <1>4 DEF Next

(***************************************************************************)
(* The caches, the ids and the numbers of CachedStorage, and the table and *)
(* the change log of MemoryTable2 stay well-formed: no object is ahead of  *)
(* the block that is committed, an emptied object of m_caches has no rows, *)
(* and m_dirty holds no row whose id the storage has not given out.        *)
(***************************************************************************)
THEOREM StorageTypeCorrect == Spec => []TypeOK
<1>1. BasicInv => TypeOK
  <2> SUFFICES ASSUME BasicInv PROVE TypeOK
    OBVIOUS
  <2>1. /\ caches \in [Key -> Obj \cup {NoObj}] /\ mru \subseteq Key /\ ID \in Nat \ {0}
    BY DEF BasicInv, StorageInv, StorageType
  <2>2. syncNum <= commitNum
    BY DEF BasicInv, CountInv, NumInv
  <2>3. ASSUME NEW o \in Obj PROVE obj[o].num \in 0 .. num /\ obj[o].empty \in BOOLEAN
    <3>1. obj[o].num \in Nat /\ obj[o].empty \in BOOLEAN /\ obj[o].num <= num /\ num \in Nat
      BY StorageFacts DEF BasicInv, StorageInv, ObjFit, num
    <3> QED
      BY <3>1
  <2>4. \A k \in Key : caches[k] /= NoObj /\ obj[caches[k]].empty => obj[caches[k]].rows = <<>>
    BY DEF BasicInv, StorageInv, ObjFit
  <2>5. Len(log) <= ops /\ ops <= MaxOps
    BY DEF BasicInv, TableInv
  <2>6. ASSUME NEW id \in DOMAIN table.dirty PROVE id <= ID
    <3>1. id <= LastId /\ id \in Nat
      BY TableFacts DEF BasicInv, TableInv
    <3>2. LastId \in Nat /\ ID \in Nat /\ LastId <= ID
      BY IdFacts DEF BasicInv
    <3> QED
      BY <3>1, <3>2
  <2> QED
    BY <2>1, <2>2, <2>3, <2>4, <2>5, <2>6 DEF TypeOK
<1> QED
  BY <1>1, BasicInit, BasicNext, PTL DEF Spec

-----------------------------------------------------------------------------
(* The keys that are not tainted.                                          *)

\* What the i-th block after the one on disk writes to the key; the last one is the block
\* whose commit is under way.
DataOf(i, k) == IF i <= Len(queue) THEN queue[i].data[k] ELSE commit.data[k]
Tasks == 1 .. Len(queue) + 1

Writing(d) == d.dirty # <<>> \/ d.new # <<>>
Touches(d, x) == InDirty(d, x) \/ HasId(News(d), x)

\* The key has a loaded object that is at block n or later.
Recent(k, n) == caches[k] # NoObj /\ ~ obj[caches[k]].empty /\ obj[caches[k]].num >= n

\* One row of those before the block is changed, and forced rows come where there were none.
Proper(objects, base, d) ==
    /\ Len(d.dirty) <= 1
    /\ d.obj # NoObj => d.dirty[1].id = objects[d.obj].rows[d.but].id
    /\ d.new # <<>> /\ d.new[1].force => base = <<>>
    /\ \A x : InDirty(d, x) => HasId(base, x)

\* Whoever works on the key has the object that is in m_caches.
CleanUse(k) == \A x \in Obj : Uses(x, k) => x = caches[k]

CleanTasks(k) == \A i \in Tasks : Writing(DataOf(i, k)) => Recent(k, backend.num + i)

CleanData(k) == \A i \in Tasks : Proper(obj, BlockOf(i - 1)[k], DataOf(i, k))

CleanOrder(k) ==
    InOrder(backend.rows[k]) /\ (caches[k] # NoObj => InOrder(obj[caches[k]].rows))

\* A loaded object shows the last block and what the commit under way has written.
CleanCache(k) ==
    caches[k] # NoObj /\ ~ obj[caches[k]].empty =>
       \A r \in Row : Has(obj[caches[k]].rows, r) <=> Shows(Committed[k], commit.data[k], r)

\* A row that no later task touches is in the block as it is in the last one.
CleanBlocks(k) ==
    \A i \in 0 .. Len(queue), r \in Row :
       (\A j \in 1 .. Len(queue) : j > i => ~ Touches(DataOf(j, k), r.id))
          => (Has(BlockOf(i)[k], r) <=> Has(Committed[k], r))

\* The store shows its block, but for the rows it may already have from later ones.
CleanStore(k) ==
    \A r \in Row :
       (\A i \in Tasks : backend.num + i <= backend.ahead[k] => ~ InDirty(DataOf(i, k), r.id))
          => (Has(backend.rows[k], r) <=> Has(BlockOf(0)[k], r))

Clean(k) == /\ CleanUse(k) /\ CleanTasks(k) /\ CleanData(k) /\ CleanOrder(k)
            /\ CleanCache(k) /\ CleanBlocks(k) /\ CleanStore(k)

\* Nothing is to be flushed to the key.
Quiet(k) == \A i \in Tasks : ~ Writing(DataOf(i, k))

Basis == StorageInv /\ CountInv

LEMMA QuietFacts ==
    ASSUME NEW d \in Writes, ~ Writing(d)
    PROVE  /\ d.dirty = <<>> /\ d.new = <<>> /\ \A x : ~ InDirty(d, x) /\ ~ Touches(d, x)
           /\ \A s, r : Shows(s, d, r) <=> Has(s, r)
<1>1. d.dirty = <<>> /\ d.new = <<>>
  BY DEF Writing
<1>2. Len(d.dirty) = 0 /\ Len(d.new) = 0
  BY <1>1
<1>3. Len(News(d)) = 0
  BY <1>2, NewsFacts
<1>4. \A x : ~ InDirty(d, x) /\ ~ HasId(News(d), x)
  BY <1>2, <1>3 DEF InDirty, HasId
<1>5. \A r : ~ Has(d.dirty, r) /\ ~ Has(News(d), r)
  BY <1>2, <1>3 DEF Has
<1> QED
  BY <1>1, <1>4, <1>5, Zenon DEF Touches, Shows

LEMMA TaskFacts ==
    ASSUME Basis
    PROVE  /\ Len(queue) \in Nat /\ Len(queue) + 1 \in Tasks /\ backend.num \in Nat
           /\ \A i \in Tasks : i \in Nat /\ i - 1 \in 0 .. Len(queue) /\ backend.num + i <= num
           /\ \A k \in Key : \A i \in Tasks : DataOf(i, k) \in Writes
           /\ \A k \in Key : DataOf(Len(queue) + 1, k) = commit.data[k]
           /\ \A i \in 1 .. Len(queue) : /\ i \in Tasks /\ queue[i].num = backend.num + i
                                         /\ \A k \in Key : DataOf(i, k) = queue[i].data[k]
           /\ num = backend.num + Len(queue) + 1
           /\ \A k \in Key : \A i \in Tasks :
                 /\ DataOf(i, k).obj # NoObj => /\ DataOf(i, k).obj \in Obj
                                                /\ Uses(DataOf(i, k).obj, k)
                                                /\ Writing(DataOf(i, k))
                 /\ DataOf(i, k).dirty = <<>> <=> DataOf(i, k).obj = NoObj
<1>1. Len(queue) \in Nat /\ \A i \in 1 .. Len(queue), k \in Key : queue[i].data[k] \in Writes
  BY StorageFacts DEF Basis, StorageInv
<1>2. \A k \in Key : commit.data[k] \in Writes
  BY CommitFacts DEF Basis, StorageInv
<1>3. /\ num = backend.num + Len(queue) + 1 /\ backend.num \in Nat
      /\ \A i \in 1 .. Len(queue) : queue[i].num = backend.num + i
  BY <1>1, CommittedFacts DEF Basis, num
<1>4. \A k \in Key : \A i \in Tasks : DataOf(i, k) \in Writes
  BY <1>1, <1>2 DEF Tasks, DataOf
<1>5. \A k \in Key : DataOf(Len(queue) + 1, k) = commit.data[k]
  BY <1>1 DEF DataOf
<1>6. \A i \in 1 .. Len(queue), k \in Key : DataOf(i, k) = queue[i].data[k]
  BY <1>1 DEF DataOf
<1>7. ASSUME NEW k \in Key, NEW i \in Tasks
      PROVE  /\ DataOf(i, k).obj # NoObj => /\ DataOf(i, k).obj \in Obj
                                            /\ Uses(DataOf(i, k).obj, k)
                                            /\ Writing(DataOf(i, k))
             /\ DataOf(i, k).dirty = <<>> <=> DataOf(i, k).obj = NoObj
  <2>1. DataOf(i, k).dirty = <<>> <=> DataOf(i, k).obj = NoObj
    <3>1. CASE i \in 1 .. Len(queue)
      BY <1>6, <3>1 DEF Basis, StorageInv, DataFit, Fit, Within
    <3>2. CASE i = Len(queue) + 1
      BY <1>5, <3>2 DEF Basis, StorageInv, DataFit, Fit, Within
    <3> QED
      BY <1>1, <3>1, <3>2 DEF Tasks
  <2>2. Uses(DataOf(i, k).obj, k)
    BY <1>1, <1>5, <1>6 DEF Tasks, Uses
  <2>3. DataOf(i, k).obj \in Obj \cup {NoObj}
    BY <1>4, WritesFacts
  <2> QED
    BY <2>1, <2>2, <2>3 DEF Writing
<1>8. /\ Len(queue) + 1 \in Tasks
      /\ \A i \in Tasks : i \in Nat /\ i - 1 \in 0 .. Len(queue) /\ backend.num + i <= num
      /\ \A i \in 1 .. Len(queue) : i \in Tasks
  BY <1>1, <1>3 DEF Tasks
<1> QED
  BY <1>1, <1>3, <1>4, <1>5, <1>6, <1>7, <1>8

\* Without a loaded object there is nothing to flush.
LEMMA QuietIf ==
    ASSUME NEW k \in Key, CleanTasks(k), caches[k] = NoObj \/ obj[caches[k]].empty
    PROVE  Quiet(k)
BY DEF CleanTasks, Quiet, Recent

\* Then the store, the last block and the commit under way show the same rows.
LEMMA QuietShows ==
    ASSUME Basis, NEW k \in Key, Clean(k), Quiet(k), NEW r \in Row
    PROVE  /\ Has(backend.rows[k], r) <=> Shows(Committed[k], commit.data[k], r)
           /\ Shows(Committed[k], commit.data[k], r) <=> Has(Committed[k], r)
<1>1. \A i \in Tasks : ~ InDirty(DataOf(i, k), r.id) /\ ~ Touches(DataOf(i, k), r.id)
  BY TaskFacts, QuietFacts DEF Quiet
<1>2. Has(backend.rows[k], r) <=> Has(BlockOf(0)[k], r)
  BY <1>1 DEF Clean, CleanStore
<1>3. Has(BlockOf(0)[k], r) <=> Has(Committed[k], r)
  <2>1. 0 \in 0 .. Len(queue) /\ \A j \in 1 .. Len(queue) : ~ Touches(DataOf(j, k), r.id)
    BY <1>1, TaskFacts
  <2> QED
    BY <2>1 DEF Clean, CleanBlocks
<1>4. Shows(Committed[k], commit.data[k], r) <=> Has(Committed[k], r)
  BY TaskFacts, QuietFacts, CommitFacts DEF Quiet
<1> QED
  BY <1>2, <1>3, <1>4

\* What is loaded for a key without a loaded object.
LEMMA LoadClean ==
    ASSUME Basis, NEW k \in Key, Clean(k), caches[k] = NoObj \/ obj[caches[k]].empty
    PROVE  /\ InOrder(Load(k)) /\ Load(k) \in Seq(Row) /\ NoneRemoved(Load(k))
           /\ \A r \in Row : Has(Load(k), r) <=> Shows(Committed[k], commit.data[k], r)
<1>1. Quiet(k)
  BY QuietIf DEF Clean
<1>2. \A r \in Row : Has(backend.rows[k], r) <=> Shows(Committed[k], commit.data[k], r)
  BY <1>1, QuietShows
<1> QED
  BY <1>2, LoadFacts DEF Clean, CleanOrder, Basis

-----------------------------------------------------------------------------
\* A step that leaves the blocks of the key alone, and its object as long as something of
\* it is to be flushed.
LEMMA CleanKept ==
    ASSUME Basis, NEW k \in Key, Clean(k), UNCHANGED <<queue, backend, blocks>>,
           commit'.data[k] = commit.data[k], CleanUse(k)',
           ~ Quiet(k) => caches'[k] = caches[k] /\ obj'[caches[k]] = obj[caches[k]],
           caches'[k] # NoObj =>
              /\ InOrder(obj'[caches'[k]].rows)
              /\ obj'[caches'[k]].empty
                 \/ \A r \in Row : Has(obj'[caches'[k]].rows, r)
                                      <=> Shows(Committed[k], commit.data[k], r)
    PROVE  Clean(k)'
<1>1. /\ Tasks' = Tasks /\ Committed' = Committed /\ \A i : BlockOf(i)' = BlockOf(i)
      /\ \A i : DataOf(i, k)' = DataOf(i, k)
  BY DEF Tasks, Committed, BlockOf, DataOf
<1>2. CleanTasks(k)'
  <2> SUFFICES ASSUME NEW i \in Tasks, Writing(DataOf(i, k)) PROVE Recent(k, backend.num + i)'
    BY <1>1 DEF CleanTasks
  <2>1. Recent(k, backend.num + i)
    BY DEF Clean, CleanTasks
  <2>2. caches'[k] = caches[k] /\ obj'[caches[k]] = obj[caches[k]]
    BY DEF Quiet
  <2> QED
    BY <2>1, <2>2 DEF Recent
<1>3. CleanData(k)'
  <2> SUFFICES ASSUME NEW i \in Tasks PROVE Proper(obj', BlockOf(i - 1)[k], DataOf(i, k))
    BY <1>1 DEF CleanData
  <2>1. Proper(obj, BlockOf(i - 1)[k], DataOf(i, k))
    BY DEF Clean, CleanData
  <2>2. ASSUME DataOf(i, k).obj # NoObj PROVE obj'[DataOf(i, k).obj] = obj[DataOf(i, k).obj]
    <3>1. Writing(DataOf(i, k)) /\ DataOf(i, k).obj \in Obj /\ Uses(DataOf(i, k).obj, k)
      BY <2>2, TaskFacts
    <3>2. DataOf(i, k).obj = caches[k]
      BY <3>1 DEF Clean, CleanUse
    <3> QED
      BY <3>1, <3>2 DEF Quiet
  <2> QED
    BY <2>1, <2>2 DEF Proper
<1>4. CleanOrder(k)'
  BY DEF Clean, CleanOrder
<1>5. CleanCache(k)'
  BY <1>1 DEF CleanCache
<1>6. CleanBlocks(k)'
  <2>1. CleanBlocks(k)
    BY DEF Clean
  <2> QED
    BY <1>1, <2>1 DEF CleanBlocks
<1>7. CleanStore(k)'
  <2>1. CleanStore(k)
    BY DEF Clean
  <2> QED
    BY <1>1, <2>1 DEF CleanStore
<1> QED
  BY <1>2, <1>3, <1>4, <1>5, <1>6, <1>7 DEF Clean

-----------------------------------------------------------------------------
(* Steps that look up, load and clear the object of a key.                 *)

\* Nothing of the storage changes that the key could notice.
LEMMA SameClean ==
    ASSUME Basis, NEW k \in Key, Clean(k), UNCHANGED <<queue, backend, blocks, caches, obj>>,
           commit'.data[k] = commit.data[k], \A x \in Obj : Uses(x, k)' => Uses(x, k)
    PROVE  Clean(k)'
<1>1. CleanUse(k)'
  BY DEF Clean, CleanUse
<1>2. caches[k] # NoObj =>
         /\ InOrder(obj[caches[k]].rows)
         /\ obj[caches[k]].empty
            \/ \A r \in Row : Has(obj[caches[k]].rows, r) <=> Shows(Committed[k], commit.data[k], r)
  BY DEF Clean, CleanOrder, CleanCache
<1> QED
  BY <1>1, <1>2, CleanKept

LEMMA TouchClean ==
    ASSUME Basis, NEW k \in Key, Clean(k), NEW l \in Key, Touched(l, touchCache(l)),
           UNCHANGED <<queue, backend, blocks>>, commit'.data[k] = commit.data[k],
           \A x \in Obj : Uses(x, k)' => Uses(x, k) \/ (x = touchCache(l) /\ k = l)
    PROVE  Clean(k)'
<1>1. /\ touchCache(l) \in Obj /\ caches' = [caches EXCEPT ![l] = touchCache(l)]
      /\ \A x \in Obj : x \in InUse => obj'[x] = obj[x]
      /\ caches[l] # NoObj => touchCache(l) = caches[l] /\ obj' = obj
      /\ caches[l] = NoObj => obj'[touchCache(l)] = NewCache
  BY TouchFacts DEF Basis, StorageInv
<1>2. /\ caches \in [Key -> Obj \cup {NoObj}] /\ NoObj \notin Obj
      /\ \A x \in Obj : caches[k] = x => x \in InUse
  BY UsedInUse, StorageFacts DEF Basis, StorageInv, StorageType, Uses
<1>3. caches[k] # NoObj =>
         /\ InOrder(obj[caches[k]].rows)
         /\ obj[caches[k]].empty
            \/ \A r \in Row : Has(obj[caches[k]].rows, r) <=> Shows(Committed[k], commit.data[k], r)
  BY DEF Clean, CleanOrder, CleanCache
<1>4. CASE caches[k] # NoObj
  <2>1. caches'[k] = caches[k] /\ obj'[caches[k]] = obj[caches[k]] /\ caches[k] \in Obj
    BY <1>1, <1>2, <1>4
  <2>2. CleanUse(k)'
    BY <1>1, <1>2, <1>4, <2>1 DEF Clean, CleanUse
  <2> QED
    BY <1>3, <1>4, <2>1, <2>2, CleanKept
<1>5. CASE caches[k] = NoObj
  <2>1. Quiet(k)
    BY <1>5, QuietIf DEF Clean
  <2>2. CleanUse(k)'
    BY <1>1, <1>2, <1>5 DEF Clean, CleanUse
  <2>3. caches'[k] # NoObj => InOrder(obj'[caches'[k]].rows) /\ obj'[caches'[k]].empty
    <3>1. caches'[k] # NoObj => k = l /\ caches'[k] = touchCache(l) /\ obj'[touchCache(l)] = NewCache
      BY <1>1, <1>2, <1>5
    <3> QED
      BY <3>1, NewCacheType, BelowEmpty
  <2> QED
    BY <2>1, <2>2, <2>3, CleanKept
<1> QED
  BY <1>4, <1>5

LEMMA SelectTouchClean ==
    ASSUME Basis, NEW k \in Key, Clean(k), NEW r \in Reader, NEW l \in Key, SelectTouch(r, l)
    PROVE  Clean(k)'
<1>1. /\ Touched(l, touchCache(l)) /\ UNCHANGED <<queue, backend, blocks, commit>>
      /\ select' = [select EXCEPT ![r] = [key |-> l, obj |-> touchCache(l)]]
  BY DEF SelectTouch
<1>2. /\ touchCache(l) \in Obj /\ caches' = [caches EXCEPT ![l] = touchCache(l)]
      /\ caches \in [Key -> Obj \cup {NoObj}]
      /\ select \in [Reader -> {IdleReader} \cup [key : Key, obj : Obj]]
  BY <1>1, TouchFacts DEF Basis, StorageInv, StorageType
<1>3. ASSUME NEW x \in Obj, Uses(x, k)' PROVE Uses(x, k) \/ (x = touchCache(l) /\ k = l)
  <2>1. CASE \E q \in Reader : select'[q] = [key |-> k, obj |-> x]
    BY <1>1, <1>2, <2>1 DEF Uses
  <2>2. CASE caches'[k] = x
    BY <1>2, <2>2 DEF Uses
  <2> QED
    BY <1>1, <1>3, <2>1, <2>2 DEF Uses
<1> QED
  BY <1>1, <1>3, TouchClean

LEMMA TouchRowClean ==
    ASSUME Basis, NEW k \in Key, Clean(k), NEW w \in commit.dirty \cup commit.new, TouchRow(w)
    PROVE  Clean(k)'
<1>1. /\ Touched(w.key, touchCache(w.key)) /\ UNCHANGED <<queue, backend, blocks, select>>
      /\ commit' = [commit EXCEPT !.pc = IF commit.dirty = {} THEN "writeNew" ELSE "writeDirty",
                                  !.dirty = commit.dirty \ {w},
                                  !.new = IF commit.dirty = {} THEN commit.new \ {w} ELSE commit.new,
                                  !.write = w, !.obj = touchCache(w.key)]
  BY DEF TouchRow
<1>2. w.key \in Key /\ DOMAIN commit = {"pc", "dirty", "new", "write", "obj", "data"}
  BY CommitFacts DEF Basis, StorageInv
<1>3. commit'.data = commit.data /\ commit'.obj = touchCache(w.key) /\ commit'.write = w
  BY <1>1, <1>2
<1>4. /\ touchCache(w.key) \in Obj /\ caches' = [caches EXCEPT ![w.key] = touchCache(w.key)]
      /\ caches \in [Key -> Obj \cup {NoObj}]
  BY <1>1, <1>2, TouchFacts DEF Basis, StorageInv, StorageType
<1>5. ASSUME NEW x \in Obj, Uses(x, k)' PROVE Uses(x, k) \/ (x = touchCache(w.key) /\ k = w.key)
  <2>1. CASE caches'[k] = x
    BY <1>2, <1>4, <2>1 DEF Uses
  <2>2. CASE commit'.obj = x /\ commit'.write.key = k
    BY <1>3, <2>2
  <2> QED
    BY <1>1, <1>3, <1>5, <2>1, <2>2 DEF Uses
<1> QED
  BY <1>1, <1>2, <1>3, <1>5, TouchClean

LEMMA SelectRowsClean ==
    ASSUME Basis, NEW k \in Key, Clean(k), NEW r \in Reader, SelectRows(r)
    PROVE  Clean(k)'
<1>1. /\ UNCHANGED <<caches, queue, commit, backend, blocks>> /\ select[r] # IdleReader
      /\ select' = [select EXCEPT ![r] = IdleReader]
  BY DEF SelectRows
<1>2. \A x \in Obj : Uses(x, k)' => obj'[x] = Loaded(r)[x]
  BY SelectRowsStorage DEF Basis
<1>3. select \in [Reader -> {IdleReader} \cup [key : Key, obj : Obj]]
  BY DEF Basis, StorageInv, StorageType
<1>4. ASSUME NEW x \in Obj, Uses(x, k)' PROVE Uses(x, k)
  <2>1. ASSUME NEW q \in Reader, select'[q] = [key |-> k, obj |-> x]
        PROVE  select[q] = [key |-> k, obj |-> x]
    <3>1. q # r
      <4>1. x # NoObj
        BY StorageFacts DEF Basis, StorageInv
      <4> QED
        BY <1>1, <1>3, <2>1, <4>1 DEF IdleReader
    <3> QED
      BY <1>1, <1>3, <2>1, <3>1
  <2> QED
    BY <1>1, <1>4, <2>1 DEF Uses
<1>5. /\ select[r].key \in Key /\ select[r].obj \in Obj
      /\ select[r] = [key |-> select[r].key, obj |-> select[r].obj]
      /\ \A x \in Obj : x # select[r].obj \/ ~ obj[x].empty => Loaded(r)[x] = obj[x]
      /\ obj[select[r].obj].empty =>
            Loaded(r)[select[r].obj] = [rows |-> Load(select[r].key), empty |-> FALSE,
                                        num |-> obj[select[r].obj].num]
  BY <1>1, LoadedFacts DEF Basis
<1>6. CleanUse(k)'
  BY <1>1, <1>4 DEF Clean, CleanUse
<1>7. caches[k] # NoObj => caches[k] \in Obj /\ obj'[caches[k]] = Loaded(r)[caches[k]]
  BY <1>1, <1>2, StorageFacts DEF Basis, StorageInv, Uses
<1>8. CASE caches[k] # NoObj /\ obj[caches[k]].empty /\ caches[k] = select[r].obj
  <2>1. Quiet(k)
    BY <1>8, QuietIf DEF Clean
  <2>2. select[r].key = k
    <3>1. Uses(caches[k], k) /\ Uses(caches[k], select[r].key)
      BY <1>5, <1>8 DEF Uses
    <3> QED
      BY <1>5, <1>7, <1>8, <3>1 DEF Basis, StorageInv, Owned
  <2>3. obj'[caches[k]].rows = Load(k)
    BY <1>5, <1>7, <1>8, <2>2
  <2> QED
    BY <1>1, <1>6, <1>8, <2>1, <2>3, LoadClean, CleanKept
<1>9. CASE caches[k] = NoObj
  <2>1. Quiet(k)
    BY <1>9, QuietIf DEF Clean
  <2> QED
    BY <1>1, <1>6, <1>9, <2>1, CleanKept
<1>10. CASE caches[k] # NoObj /\ ~ (obj[caches[k]].empty /\ caches[k] = select[r].obj)
  <2>1. obj'[caches[k]] = obj[caches[k]]
    BY <1>5, <1>7, <1>10
  <2>2. /\ InOrder(obj[caches[k]].rows)
        /\ obj[caches[k]].empty
            \/ \A q \in Row : Has(obj[caches[k]].rows, q) <=> Shows(Committed[k], commit.data[k], q)
    BY <1>10 DEF Clean, CleanOrder, CleanCache
  <2> QED
    BY <1>1, <1>6, <2>1, <2>2, CleanKept
<1> QED
  BY <1>8, <1>9, <1>10

LEMMA ClearClean ==
    ASSUME Basis, NEW k \in Key, Clean(k), NEW l \in Key, checkAndClear(l), k \notin tainted'
    PROVE  Clean(k)'
<1>1. /\ UNCHANGED <<queue, commit, backend, blocks, select>>
      /\ caches' = [caches EXCEPT ![l] = NoObj]
      /\ caches[l] # NoObj => obj[caches[l]].num <= syncNum
      /\ tainted' = IF caches[l] # NoObj /\ Waiting(caches[l]) # {} THEN tainted \cup {l} ELSE tainted
  BY DEF checkAndClear
<1>2. /\ \A x \in Obj : Uses(x, k)' => obj'[x] = Cleared(l)[x]
      /\ \A x \in Obj : x # caches[l] => Cleared(l)[x] = obj[x]
      /\ caches[l] # NoObj => ~ Pointed(caches[l], l)
  BY ClearStorage DEF Basis
<1>3. caches \in [Key -> Obj \cup {NoObj}] /\ NoObj \notin Obj
  BY StorageFacts DEF Basis, StorageInv, StorageType
<1>4. CASE k # l
  <2>1. caches'[k] = caches[k]
    BY <1>1, <1>3, <1>4
  <2>2. \A x \in Obj : Uses(x, k)' => Uses(x, k)
    BY <1>1, <2>1 DEF Uses
  <2>3. CleanUse(k)'
    BY <2>1, <2>2 DEF Clean, CleanUse
  <2>4. CASE caches[k] # NoObj
    <3>1. /\ caches[k] \in Obj /\ Uses(caches[k], k)
          /\ \A x \in Obj : x = caches[k] => Uses(x, k)'
      BY <1>3, <2>1, <2>4 DEF Uses
    <3>2. caches[k] # caches[l]
      <4> SUFFICES ASSUME caches[k] = caches[l] PROVE FALSE
        OBVIOUS
      <4>1. Uses(caches[k], l)
        BY DEF Uses
      <4> QED
        BY <1>4, <3>1, <4>1 DEF Basis, StorageInv, Owned
    <3>3. obj'[caches[k]] = obj[caches[k]]
      BY <1>2, <3>1, <3>2
    <3>4. /\ InOrder(obj[caches[k]].rows)
          /\ obj[caches[k]].empty
             \/ \A q \in Row : Has(obj[caches[k]].rows, q) <=> Shows(Committed[k], commit.data[k], q)
      BY <2>4 DEF Clean, CleanOrder, CleanCache
    <3> QED
      BY <1>1, <2>1, <2>3, <3>3, <3>4, CleanKept
  <2>5. CASE caches[k] = NoObj
    <3>1. Quiet(k)
      BY <2>5, QuietIf DEF Clean
    <3> QED
      BY <1>1, <2>1, <2>3, <2>5, <3>1, CleanKept
  <2> QED
    BY <2>4, <2>5
<1>5. CASE k = l
  <2>1. caches'[k] = NoObj
    BY <1>1, <1>3, <1>5
  <2>2. caches[k] # NoObj => Waiting(caches[k]) = {}
    BY <1>1, <1>5
  <2>3. ASSUME NEW x \in Obj, Uses(x, k)' PROVE FALSE
    <3>1. \/ \E q \in Reader : select[q] = [key |-> k, obj |-> x]
          \/ commit.obj = x /\ commit.write.key = k
          \/ Pointed(x, k)
      BY <1>1, <1>3, <2>1, <2>3 DEF Uses, Pointed
    <3>2. Uses(x, k)
      BY <3>1 DEF Uses, Pointed
    <3>3. x = caches[k] /\ caches[k] # NoObj
      BY <1>3, <3>2 DEF Clean, CleanUse
    <3>4. \A q \in Reader : select[q].obj # x
      BY <2>2, <3>3 DEF Waiting
    <3>5. commit.obj # x
      <4>1. commit.obj = x => "commit" \in Waiting(caches[k])
        BY <3>3 DEF Waiting
      <4> QED
        BY <2>2, <3>3, <4>1
    <3>6. \A q \in Reader : select[q] # [key |-> k, obj |-> x]
      BY <3>4
    <3> QED
      BY <1>2, <1>5, <3>1, <3>3, <3>5, <3>6
  <2>4. Quiet(k)
    <3> SUFFICES ASSUME NEW i \in Tasks, Writing(DataOf(i, k)) PROVE FALSE
      BY DEF Quiet
    <3>1. Recent(k, backend.num + i)
      BY DEF Clean, CleanTasks
    <3>2. caches[k] \in Obj /\ obj[caches[k]].num >= backend.num + i
      BY <1>3, <3>1 DEF Recent
    <3>3. obj[caches[k]].num \in Nat /\ i \in Nat /\ backend.num \in Nat /\ i > 0
      BY <3>2, StorageFacts, TaskFacts DEF Basis, StorageInv, Tasks
    <3>4. syncNum \in Nat /\ syncNum <= backend.num
      BY DEF Basis, CountInv, NumInv
    <3>5. obj[caches[k]].num <= syncNum
      BY <1>1, <1>3, <1>5, <3>2
    <3> QED
      BY <3>2, <3>3, <3>4, <3>5
  <2>5. CleanUse(k)'
    BY <2>3 DEF CleanUse
  <2> QED
    BY <1>1, <2>1, <2>4, <2>5, CleanKept
<1> QED
  BY <1>4, <1>5

-----------------------------------------------------------------------------
(* Steps of the commit thread.                                             *)

LEMMA StartCommitClean ==
    ASSUME Basis, NEW k \in Key, Clean(k), NEW dirty, NEW new, StartCommit(dirty, new)
    PROVE  Clean(k)'
<1>1. /\ UNCHANGED <<caches, obj, queue, select, backend, blocks>> /\ commit.pc = "idle"
      /\ commit' = [IdleCommit EXCEPT !.pc = "touch", !.dirty = dirty, !.new = new]
  BY DEF StartCommit
<1>2. commit'.data = NoData /\ commit'.obj = NoObj
  BY <1>1 DEF IdleCommit
<1>3. commit.data = NoData
  BY <1>1 DEF Basis, StorageInv, CommitType
<1>4. NoObj \notin Obj
  BY StorageFacts DEF Basis, StorageInv
<1>5. \A x \in Obj : Uses(x, k)' => Uses(x, k)
  BY <1>1, <1>2, <1>3, <1>4 DEF Uses
<1> QED
  BY <1>1, <1>2, <1>3, <1>5, SameClean

LEMMA ReturnsClean ==
    ASSUME Basis, NEW k \in Key, Clean(k), CommitReturns
    PROVE  Clean(k)'
<1>1. /\ UNCHANGED <<caches, obj, queue, select, backend, blocks>> /\ commit.pc = "wait"
      /\ commit' = IdleCommit
  BY DEF CommitReturns
<1>2. commit'.data = NoData /\ commit'.obj = NoObj
  BY <1>1 DEF IdleCommit
<1>3. commit.data = NoData
  BY <1>1 DEF Basis, StorageInv, CommitType
<1>4. NoObj \notin Obj
  BY StorageFacts DEF Basis, StorageInv
<1>5. \A x \in Obj : Uses(x, k)' => Uses(x, k)
  BY <1>1, <1>2, <1>3, <1>4 DEF Uses
<1> QED
  BY <1>1, <1>2, <1>3, <1>5, SameClean

LEMMA ExitClean ==
    ASSUME Basis, NEW k \in Key, Clean(k), Exit, UNCHANGED <<queue, select, backend, blocks>>
    PROVE  Clean(k)'
<1>1. /\ UNCHANGED <<caches, obj>> /\ commit' = [commit EXCEPT !.pc = "exit"]
  BY DEF Exit
<1>2. DOMAIN commit = {"pc", "dirty", "new", "write", "obj", "data"}
  BY CommitFacts DEF Basis, StorageInv
<1>3. commit'.data = commit.data /\ commit'.obj = commit.obj /\ commit'.write = commit.write
  BY <1>1, <1>2
<1>4. \A x \in Obj : Uses(x, k)' => Uses(x, k)
  BY <1>1, <1>3 DEF Uses
<1> QED
  BY <1>1, <1>3, <1>4, SameClean

\* What a block writes to another key.
LEMMA WrittenOther ==
    ASSUME Basis, NEW k \in Key, Clean(k), commit.pc \in {"writeDirty", "writeNew"},
           NEW rows, NEW data, NEW restore \in BOOLEAN, Written(rows, data, restore),
           UNCHANGED <<queue, select, backend, blocks>>,
           data[k] = commit.data[k], k # commit.write.key
    PROVE  Clean(k)'
<1>1. commit.obj \in Obj /\ commit.write.key \in Key
  BY CachedFacts DEF Basis
<1>2. /\ obj' = [obj EXCEPT ![commit.obj] = [rows |-> rows, num |-> num, empty |-> FALSE]]
      /\ caches' = IF restore THEN [caches EXCEPT ![commit.write.key] = commit.obj] ELSE caches
      /\ commit' = [commit EXCEPT !.pc = "touch", !.write = None, !.obj = NoObj, !.data = data]
  BY DEF Written
<1>3. DOMAIN commit = {"pc", "dirty", "new", "write", "obj", "data"}
  BY CommitFacts DEF Basis, StorageInv
<1>4. commit'.data = data /\ commit'.obj = NoObj
  BY <1>2, <1>3
<1>5. /\ caches \in [Key -> Obj \cup {NoObj}] /\ obj \in [Obj -> Cache] /\ NoObj \notin Obj
  BY StorageFacts DEF Basis, StorageInv, StorageType
<1>6. caches'[k] = caches[k]
  BY <1>2, <1>5
<1>7. caches[k] # NoObj => obj'[caches[k]] = obj[caches[k]]
  <2>1. caches[k] # commit.obj
    <3>1. Uses(commit.obj, commit.write.key)
      BY DEF Uses
    <3>2. caches[k] = commit.obj => Uses(commit.obj, k)
      BY DEF Uses
    <3> QED
      BY <1>1, <3>1, <3>2 DEF Basis, StorageInv, Owned
  <2> QED
    BY <1>2, <1>5, <2>1
<1>8. \A x \in Obj : Uses(x, k)' => Uses(x, k)
  BY <1>4, <1>5, <1>6 DEF Uses
<1>9. CleanUse(k)'
  BY <1>6, <1>8 DEF Clean, CleanUse
<1>10. caches[k] # NoObj =>
         /\ InOrder(obj[caches[k]].rows)
         /\ obj[caches[k]].empty
            \/ \A r \in Row : Has(obj[caches[k]].rows, r) <=> Shows(Committed[k], commit.data[k], r)
  BY DEF Clean, CleanOrder, CleanCache
<1>11. ~ Quiet(k) => caches[k] # NoObj
  BY QuietIf DEF Clean
<1> QED
  BY <1>4, <1>6, <1>7, <1>9, <1>10, <1>11, CleanKept

\* What a block writes to its key: the object gets the rows that the blocks and the
\* block's own writes show.
LEMMA WrittenOwn ==
    ASSUME Basis, NEW k \in Key, Clean(k), commit.pc \in {"writeDirty", "writeNew"},
           NEW rows, NEW data, NEW restore \in BOOLEAN, Written(rows, data, restore),
           UNCHANGED <<queue, select, backend, blocks>>, k = commit.write.key,
           data[k].obj \in {commit.data[k].obj, commit.obj}, InOrder(rows),
           \A r \in Row : Has(rows, r) <=> Shows(Committed[k], data[k], r),
           ~ obj[commit.obj].empty =>
              \A i \in 1 .. Len(obj[commit.obj].rows) : rows[i].id = obj[commit.obj].rows[i].id,
           Proper(obj', Committed[k], data[k]),
           \A x : InDirty(commit.data[k], x) => InDirty(data[k], x)
    PROVE  Clean(k)'
<1> DEFINE o == commit.obj
<1>1. o \in Obj /\ commit.write.key \in Key
  BY CachedFacts DEF Basis
<1>2. /\ obj' = [obj EXCEPT ![o] = [rows |-> rows, num |-> num, empty |-> FALSE]]
      /\ caches' = IF restore THEN [caches EXCEPT ![commit.write.key] = o] ELSE caches
      /\ commit' = [commit EXCEPT !.pc = "touch", !.write = None, !.obj = NoObj, !.data = data]
  BY DEF Written
<1>3. DOMAIN commit = {"pc", "dirty", "new", "write", "obj", "data"}
  BY CommitFacts DEF Basis, StorageInv
<1>4. commit'.data = data /\ commit'.obj = NoObj
  BY <1>2, <1>3
<1>5. /\ caches \in [Key -> Obj \cup {NoObj}] /\ obj \in [Obj -> Cache] /\ NoObj \notin Obj
  BY StorageFacts DEF Basis, StorageInv, StorageType
<1>6. caches[k] = o
  <2>1. Uses(o, k)
    BY DEF Uses
  <2> QED
    BY <1>1, <2>1 DEF Clean, CleanUse
<1>7. caches'[k] = o /\ obj'[o] = [rows |-> rows, num |-> num, empty |-> FALSE]
  BY <1>1, <1>2, <1>5, <1>6
<1>8. obj'[o].rows = rows /\ obj'[o].num = num /\ ~ obj'[o].empty
  BY <1>7
<1>9. /\ Tasks' = Tasks /\ Committed' = Committed /\ \A i : BlockOf(i)' = BlockOf(i)
      /\ \A i \in 1 .. Len(queue) : DataOf(i, k)' = DataOf(i, k)
      /\ \A i : i = Len(queue) + 1 => DataOf(i, k)' = data[k]
  BY <1>4, TaskFacts DEF Tasks, Committed, BlockOf, DataOf
<1>10. Tasks = 1 .. Len(queue) \cup {Len(queue) + 1} /\ Len(queue) \in Nat
  BY TaskFacts DEF Tasks
<1> HIDE DEF o
<1>11. CleanUse(k)'
  <2> SUFFICES ASSUME NEW x \in Obj, Uses(x, k)' PROVE x = o
    BY <1>7 DEF CleanUse
  <2>1. Uses(x, k) \/ x = o
    BY <1>4, <1>5, <1>7 DEF Uses, o
  <2> QED
    BY <1>6, <2>1 DEF Clean, CleanUse
<1>12. CleanTasks(k)'
  <2> SUFFICES ASSUME NEW i \in Tasks PROVE Recent(k, backend.num + i)'
    BY <1>9 DEF CleanTasks
  <2>1. num >= backend.num + i
    BY TaskFacts
  <2> QED
    BY <1>1, <1>5, <1>7, <1>8, <2>1 DEF Recent
<1>13. CleanData(k)'
  <2>1. ASSUME NEW i \in 1 .. Len(queue) PROVE Proper(obj', BlockOf(i - 1)[k], DataOf(i, k))
    <3>1. i \in Tasks /\ DataOf(i, k) = queue[i].data[k] /\ DataOf(i, k) \in Writes
      BY TaskFacts
    <3>2. Proper(obj, BlockOf(i - 1)[k], DataOf(i, k))
      BY <3>1 DEF Clean, CleanData
    <3>3. ASSUME DataOf(i, k).obj # NoObj
          PROVE  obj'[DataOf(i, k).obj].rows[DataOf(i, k).but].id =
                 obj[DataOf(i, k).obj].rows[DataOf(i, k).but].id
      <4>1. DataOf(i, k).obj \in Obj /\ Uses(DataOf(i, k).obj, k)
        BY <3>1, <3>3, TaskFacts
      <4>2. DataOf(i, k).obj = o
        BY <1>6, <4>1 DEF Clean, CleanUse
      <4>3. Points(obj[o], DataOf(i, k), IdOf(i - 1), queue[i].num)
        BY <3>1, <3>3, <4>2 DEF Basis, StorageInv, DataFit, Fit
      <4>4. ~ obj[o].empty /\ DataOf(i, k).but \in 1 .. DataOf(i, k).len
            /\ DataOf(i, k).len <= Len(obj[o].rows) /\ DataOf(i, k).len \in Nat
        BY <3>1, <4>3, WritesFacts DEF Points
      <4>5. Len(obj[o].rows) \in Nat
        BY <1>1, StorageFacts, RowFacts DEF Basis, StorageInv
      <4>6. DataOf(i, k).but \in 1 .. Len(obj[o].rows)
        BY <4>4, <4>5
      <4> QED
        BY <1>8, <4>2, <4>4, <4>6 DEF o
    <3> QED
      BY <3>2, <3>3 DEF Proper
  <2>2. BlockOf(Len(queue)) = Committed
    BY CommittedFacts DEF Basis
  <2>3. ASSUME NEW i, i = Len(queue) + 1 PROVE Proper(obj', BlockOf(i - 1)[k], data[k])
    <3>1. i - 1 = Len(queue)
      BY <1>10, <2>3
    <3> QED
      BY <2>2, <3>1
  <2> QED
    BY <1>9, <1>10, <2>1, <2>3 DEF CleanData
<1>14. CleanOrder(k)'
  BY <1>7, <1>8 DEF Clean, CleanOrder
<1>15. CleanCache(k)'
  BY <1>4, <1>7, <1>8, <1>9 DEF CleanCache
<1>16. CleanBlocks(k)'
  <2>1. CleanBlocks(k)
    BY DEF Clean
  <2> QED
    BY <1>9, <2>1 DEF CleanBlocks
<1>17. CleanStore(k)'
  <2>1. CleanStore(k)
    BY DEF Clean
  <2>2. \A i \in Tasks : \A x : InDirty(DataOf(i, k), x) => InDirty(DataOf(i, k)', x)
    BY <1>9, <1>10, TaskFacts
  <2> QED
    BY <1>9, <2>1, <2>2 DEF CleanStore
<1> QED
  BY <1>11, <1>12, <1>13, <1>14, <1>15, <1>16, <1>17 DEF Clean

-----------------------------------------------------------------------------
(* The rows a block comes with: the ones it changed were there before, and *)
(* it forced a row only where there was none.                              *)

CleanRows(k) ==
    /\ \A w \in commit.dirty : w.key = k => HasId(Committed[k], w.row.id)
    /\ commit.pc = "writeDirty" /\ commit.write.key = k => HasId(Committed[k], commit.write.row.id)
    /\ \A w \in commit.new : w.key = k /\ w.force => Committed[k] = <<>>
    /\ commit.pc = "writeNew" /\ commit.write.key = k /\ commit.write.force => Committed[k] = <<>>

\* The rows that a commit finds in the object of its key, or loads for it.
LEMMA CachedClean ==
    ASSUME Basis, NEW k \in Key, Clean(k), commit.pc \in {"writeDirty", "writeNew"},
           k = commit.write.key
    PROVE  /\ caches[k] = commit.obj /\ commit.obj \in Obj /\ commit.obj # NoObj
           /\ ~ RestoreFails
           /\ CachedRows \in Seq(Row) /\ InOrder(CachedRows)
           /\ \A r \in Row : Has(CachedRows, r) <=> Shows(Committed[k], commit.data[k], r)
<1>1. /\ commit.obj \in Obj /\ CachedRows \in Seq(Row)
      /\ ~ obj[commit.obj].empty => CachedRows = obj[commit.obj].rows
      /\ obj[commit.obj].empty => CachedRows = Load(k)
  BY CachedFacts DEF Basis
<1>2. commit.obj # NoObj
  BY <1>1, StorageFacts DEF Basis, StorageInv
<1>3. caches[k] = commit.obj
  <2>1. Uses(commit.obj, k)
    BY DEF Uses
  <2> QED
    BY <1>1, <2>1 DEF Clean, CleanUse
<1>4. ~ RestoreFails
  BY <1>3 DEF RestoreFails
<1>5. CASE obj[commit.obj].empty
  BY <1>1, <1>2, <1>3, <1>4, <1>5, LoadClean
<1>6. CASE ~ obj[commit.obj].empty
  BY <1>1, <1>2, <1>3, <1>4, <1>6 DEF Clean, CleanOrder, CleanCache
<1> QED
  BY <1>5, <1>6

LEMMA WriteDirtyClean ==
    ASSUME Basis, NEW k \in Key, Clean(k), CleanRows(k), WriteDirty, k \notin tainted'
    PROVE  Clean(k)'
<1>1. /\ commit.pc = "writeDirty"
      /\ IF RestoreFails \/ commit.write.row.id \notin Ids(CachedRows)
         THEN Exit ELSE Written(DirtyRows, DirtyData, Restoring)
      /\ UNCHANGED <<ID, queue, select, backend, blocks>>
      /\ tainted' = IF commit.data[commit.write.key].obj /= NoObj
                    THEN tainted \cup {commit.write.key} ELSE tainted
  BY WriteDirtyIs
<1>2. CASE RestoreFails \/ commit.write.row.id \notin Ids(CachedRows)
  BY <1>1, <1>2, ExitClean
<1>3. CASE ~ (RestoreFails \/ commit.write.row.id \notin Ids(CachedRows))
  <2> DEFINE l == commit.write.key
             w == commit.write.row
             d == commit.data[l]
             e == DirtyData[l]
  <2>1. Written(DirtyRows, DirtyData, Restoring) /\ Restoring \in BOOLEAN
    <3>1. commit.obj \in Obj
      BY <1>1, CachedFacts DEF Basis
    <3>2. obj[commit.obj].empty \in BOOLEAN
      BY <3>1, StorageFacts DEF Basis, StorageInv
    <3> QED
      BY <1>1, <1>3, <3>2 DEF Restoring
  <2>2. /\ w \in Row /\ DirtyAt \in 1 .. Len(CachedRows) /\ CachedRows[DirtyAt].id = w.id
        /\ DirtyRows \in Seq(Row) /\ Len(DirtyRows) = Len(CachedRows)
        /\ \A j \in 1 .. Len(CachedRows) :
              DirtyRows[j] = IF j = DirtyAt THEN w ELSE CachedRows[j]
    BY <1>1, <1>3, DirtyRowFacts DEF Basis
  <2>3. /\ DirtyData \in [Key -> Writes] /\ \A m \in Key : m # l => DirtyData[m] = commit.data[m]
        /\ e.dirty = Append(d.dirty, w) /\ e.new = d.new
        /\ d.obj = NoObj => e.obj = commit.obj /\ e.but = DirtyAt
    BY <1>1, <1>3, DirtyDataFacts DEF Basis
  <2>4. CASE k # l
    BY <1>1, <2>1, <2>3, <2>4, WrittenOther
  <2>5. CASE k = l
    <3>1. d.obj = NoObj
      BY <1>1, <2>5
    <3>2. /\ caches[k] = commit.obj /\ commit.obj \in Obj /\ commit.obj # NoObj
          /\ CachedRows \in Seq(Row) /\ InOrder(CachedRows)
          /\ \A r \in Row : Has(CachedRows, r) <=> Shows(Committed[k], d, r)
      BY <1>1, <2>5, CachedClean
    <3>3. d \in Writes /\ e \in Writes
      BY <2>3, <2>5, CommitFacts DEF Basis, StorageInv
    <3>4. d.dirty = <<>> /\ d.new = <<>>
      <4>1. d.dirty = <<>>
        BY <2>5, <3>1 DEF Basis, StorageInv, DataFit, Fit, Within
      <4>2. d.new = <<>>
        BY <1>1, <2>5 DEF Basis, StorageInv, CommitIds
      <4> QED
        BY <4>1, <4>2
    <3>5. \A r : Shows(Committed[k], d, r) <=> Has(Committed[k], r)
      BY <3>3, <3>4, QuietFacts DEF Writing
    <3> HIDE DEF d, e, w, l
    <3>6. Len(e.dirty) = 1 /\ e.dirty[1] = w /\ e.new = <<>>
      BY <2>2, <2>3, <3>4
    <3>7. \A x : InDirty(e, x) <=> x = w.id
      BY <3>6 DEF InDirty
    <3>8. Len(CachedRows) \in Nat /\ \A j \in 1 .. Len(CachedRows) : CachedRows[j] \in Row
      BY <3>2, RowFacts
    <3>9. \A j \in 1 .. Len(CachedRows) : DirtyRows[j].id = CachedRows[j].id
      BY <2>2
    <3>10. InOrder(DirtyRows)
      BY <2>2, <3>2, <3>9 DEF InOrder
    <3>11. ASSUME NEW r \in Row PROVE Has(DirtyRows, r) <=> Shows(Committed[k], e, r)
      <4>1. Has(DirtyRows, r) <=> ~ r.removed
            /\ (r = w \/ \E j \in 1 .. Len(CachedRows) : j # DirtyAt /\ CachedRows[j] = r)
        BY <2>2 DEF Has
      <4>2. \A j \in 1 .. Len(CachedRows) : CachedRows[j] = r => (j # DirtyAt <=> r.id # w.id)
        BY <2>2, <3>2, OnceInOrder
      <4>3. Has(DirtyRows, r) <=> (~ r.removed /\ r = w) \/ (Has(CachedRows, r) /\ r.id # w.id)
        BY <4>1, <4>2 DEF Has
      <4>4. Has(e.dirty, r) <=> ~ r.removed /\ r = w
        BY <3>6 DEF Has
      <4>5. ~ Has(News(e), r)
        <5>1. Len(News(e)) = 0
          BY <3>3, <3>6, NewsFacts
        <5> QED
          BY <5>1 DEF Has
      <4>6. Has(CachedRows, r) <=> Has(Committed[k], r)
        BY <3>2, <3>5
      <4> QED
        BY <3>7, <4>3, <4>4, <4>5, <4>6 DEF Shows
    <3>12. Proper(obj', Committed[k], e)
      <4>1. e.dirty[1].id = obj'[e.obj].rows[e.but].id
        <5>1. obj'[commit.obj].rows = DirtyRows
          <6>1. obj' = [obj EXCEPT ![commit.obj] = [rows |-> DirtyRows, num |-> num, empty |-> FALSE]]
            BY <2>1 DEF Written
          <6>2. obj \in [Obj -> Cache]
            BY DEF Basis, StorageInv, StorageType
          <6>3. obj'[commit.obj] = [rows |-> DirtyRows, num |-> num, empty |-> FALSE]
            BY <3>2, <6>1, <6>2
          <6> QED
            BY <6>3
        <5>2. e.obj = commit.obj /\ e.but = DirtyAt
          BY <2>3, <3>1
        <5> QED
          BY <2>2, <3>6, <5>1, <5>2
      <4>2. HasId(Committed[k], w.id)
        BY <1>1, <2>5 DEF CleanRows, w, l
      <4> QED
        BY <3>6, <3>7, <4>1, <4>2 DEF Proper
    <3>13. ~ obj[commit.obj].empty =>
              \A i \in 1 .. Len(obj[commit.obj].rows) : DirtyRows[i].id = obj[commit.obj].rows[i].id
      BY <3>9 DEF CachedRows, Restoring
    <3>14. \A x : ~ InDirty(d, x)
      BY <3>3, <3>4, QuietFacts DEF Writing
    <3>15. e.obj = commit.obj
      BY <2>3, <3>1
    <3>16. DirtyData[k] = e /\ commit.data[k] = d /\ k = commit.write.key
      BY <2>5 DEF e, d, l
    <3> QED
      BY <1>1, <2>1, <3>10, <3>11, <3>12, <3>13, <3>14, <3>15, <3>16, WrittenOwn
  <2> QED
    BY <2>4, <2>5
<1> QED
  BY <1>2, <1>3

LEMMA WriteNewClean ==
    ASSUME Basis, NEW k \in Key, Clean(k), CleanRows(k), WriteNew
    PROVE  Clean(k)'
<1>1. /\ commit.pc = "writeNew"
      /\ IF NewLoads /\ RestoreFails
         THEN Exit ELSE Written(Append(NewBase, NewRow), NewData, NewLoads)
      /\ UNCHANGED <<ID, queue, select, backend, blocks, tainted>>
  BY WriteNewIs
<1>2. CASE NewLoads /\ RestoreFails
  BY <1>1, <1>2, ExitClean
<1>3. CASE ~ (NewLoads /\ RestoreFails)
  <2> DEFINE l == commit.write.key
             d == commit.data[l]
             e == NewData[l]
             rows == Append(NewBase, NewRow)
  <2>1. /\ NewRow \in Row /\ NewRow.id = ID /\ Limit = ID - 1
        /\ commit.write.force \in BOOLEAN
        /\ NewEntry \in New /\ NewEntry.row = NewRow /\ NewEntry.force = commit.write.force
        /\ NewBase \in Seq(Row) /\ Below(NewBase, Limit)
        /\ ~ obj[commit.obj].empty => NewBase = obj[commit.obj].rows
        /\ obj[commit.obj].empty /\ ~ commit.write.force => NewBase = Load(commit.write.key)
        /\ obj[commit.obj].empty /\ commit.write.force => NewBase = obj[commit.obj].rows
    BY <1>1, NewRowFacts DEF Basis
  <2>2. Written(rows, NewData, NewLoads) /\ NewLoads \in BOOLEAN
    <3>1. commit.obj \in Obj
      BY <1>1, CachedFacts DEF Basis
    <3>2. obj[commit.obj].empty \in BOOLEAN
      BY <3>1, StorageFacts DEF Basis, StorageInv
    <3> QED
      BY <1>1, <1>3, <2>1, <3>2 DEF Restoring, NewLoads
  <2>3. /\ NewData \in [Key -> Writes] /\ \A m \in Key : m # l => NewData[m] = commit.data[m]
        /\ e.new = Append(d.new, NewEntry) /\ e.dirty = d.dirty
        /\ e.obj = d.obj /\ e.but = d.but
    BY <1>1, NewDataFacts DEF Basis
  <2>4. CASE k # l
    BY <1>1, <2>2, <2>3, <2>4, WrittenOther
  <2>5. CASE k = l
    <3>1. /\ caches[k] = commit.obj /\ commit.obj \in Obj /\ commit.obj # NoObj
          /\ InOrder(CachedRows)
          /\ \A r \in Row : Has(CachedRows, r) <=> Shows(Committed[k], d, r)
      BY <1>1, <2>5, CachedClean
    <3>2. d \in Writes /\ e \in Writes
      BY <2>3, <2>5, CommitFacts DEF Basis, StorageInv
    <3>3. commit.write.force => Committed[k] = <<>>
      BY <1>1, <2>5 DEF CleanRows
    <3>4. InOrder(NewBase) /\ \A r \in Row : Has(NewBase, r) <=> Shows(Committed[k], d, r)
      <4>1. CASE obj[commit.obj].empty /\ commit.write.force
        <5>1. NewBase = <<>> /\ Len(NewBase) = 0
          BY <2>1, <3>1, <4>1 DEF Basis, StorageInv, ObjFit
        <5>2. Quiet(k)
          BY <3>1, <4>1, QuietIf DEF Clean
        <5>3. \A r \in Row : Shows(Committed[k], d, r) <=> Has(<<>>, r)
          BY <2>5, <3>3, <4>1, <5>2, QuietShows
        <5> QED
          BY <5>1, <5>3, BelowEmpty
      <4>2. CASE ~ (obj[commit.obj].empty /\ commit.write.force)
        <5>1. NewBase = CachedRows
          BY <2>1, <4>2 DEF CachedRows, Restoring
        <5> QED
          BY <3>1, <5>1
      <4> QED
        BY <4>1, <4>2
    <3>5. ID \in Nat
      BY DEF Basis, StorageInv, StorageType
    <3>6. InOrder(rows)
      <4>1. \A i \in 1 .. Len(NewBase) : NewBase[i].id \in Nat /\ NewBase[i].id <= ID - 1
        BY <2>1, RowFacts DEF Below
      <4>2. \A i \in 1 .. Len(NewBase) : NewBase[i].id < NewRow.id
        BY <2>1, <3>5, <4>1
      <4> QED
        BY <2>1, <3>4, <4>2, OrderAppend
    <3> HIDE DEF d, e, l
    <3>7. /\ News(d) \in Seq(Row) /\ News(e) \in Seq(Row)
          /\ \A r \in Row : Has(News(e), r) <=> Has(News(d), r) \/ (~ r.removed /\ r = NewRow)
      <4>1. News(e) = Append(News(d), NewRow)
        <5>1. /\ News(d) \in Seq(Row) /\ Len(News(d)) = Len(d.new)
              /\ \A i \in 1 .. Len(d.new) : News(d)[i] = d.new[i].row
          BY <3>2, NewsFacts
        <5>2. /\ News(e) \in Seq(Row) /\ Len(News(e)) = Len(e.new)
              /\ \A i \in 1 .. Len(e.new) : News(e)[i] = e.new[i].row
          BY <3>2, NewsFacts
        <5>3. d.new \in Seq(New)
          BY <3>2, WritesFacts
        <5>4. /\ Len(e.new) = Len(d.new) + 1 /\ Len(d.new) \in Nat
              /\ \A i \in 1 .. Len(d.new) : e.new[i] = d.new[i]
              /\ e.new[Len(d.new) + 1] = NewEntry
          BY <2>1, <2>3, <5>3, AppendFacts
        <5>5. /\ Append(News(d), NewRow) \in Seq(Row)
              /\ Len(Append(News(d), NewRow)) = Len(News(d)) + 1
              /\ \A i \in 1 .. Len(News(d)) : Append(News(d), NewRow)[i] = News(d)[i]
              /\ Append(News(d), NewRow)[Len(News(d)) + 1] = NewRow
          BY <2>1, <5>1, AppendFacts
        <5>6. Len(News(e)) = Len(Append(News(d), NewRow))
          BY <5>1, <5>2, <5>4, <5>5
        <5>7. ASSUME NEW i \in 1 .. Len(News(e)) PROVE News(e)[i] = Append(News(d), NewRow)[i]
          <6>1. i \in 1 .. Len(d.new) \/ i = Len(d.new) + 1
            BY <5>2, <5>4
          <6> QED
            BY <2>1, <5>1, <5>2, <5>4, <5>5, <6>1
        <5> QED
          BY <5>2, <5>5, <5>6, <5>7
      <4>2. News(d) \in Seq(Row) /\ News(e) \in Seq(Row)
        BY <3>2, NewsFacts
      <4> QED
        BY <2>1, <4>1, <4>2, HasAppend
    <3>8. \A x : InDirty(e, x) <=> InDirty(d, x)
      BY <2>3 DEF InDirty
    <3>9. ASSUME NEW r \in Row PROVE Has(rows, r) <=> Shows(Committed[k], e, r)
      <4>1. Has(rows, r) <=> Has(NewBase, r) \/ (~ r.removed /\ r = NewRow)
        BY <2>1, HasAppend
      <4> QED
        BY <2>3, <3>4, <3>7, <3>8, <4>1 DEF Shows
    <3>10. ~ obj[commit.obj].empty =>
              \A i \in 1 .. Len(obj[commit.obj].rows) : rows[i].id = obj[commit.obj].rows[i].id
      BY <2>1, AppendFacts
    <3>11. NewData[k] = e /\ commit.data[k] = d /\ k = commit.write.key
      BY <2>5 DEF e, d, l
    <3>12. Proper(obj', Committed[k], e)
      <4>1. Proper(obj, Committed[k], d)
        <5>1. Len(queue) + 1 \in Tasks /\ DataOf(Len(queue) + 1, k) = d
          BY <3>11, TaskFacts
        <5>2. Proper(obj, BlockOf(Len(queue) + 1 - 1)[k], d)
          BY <5>1 DEF Clean, CleanData
        <5>3. Len(queue) + 1 - 1 = Len(queue)
          BY TaskFacts
        <5>4. BlockOf(Len(queue)) = Committed
          BY CommittedFacts DEF Basis
        <5> QED
          BY <5>2, <5>3, <5>4
      <4>2. ASSUME e.obj # NoObj PROVE e.dirty[1].id = obj'[e.obj].rows[e.but].id
        <5>1. d.obj # NoObj /\ d.obj \in Obj /\ Uses(d.obj, k)
          <6>1. Len(queue) + 1 \in Tasks /\ DataOf(Len(queue) + 1, k) = d
            BY <3>11, TaskFacts
          <6> QED
            BY <2>3, <4>2, <6>1, TaskFacts
        <5>2. d.obj = commit.obj
          BY <3>1, <5>1 DEF Clean, CleanUse
        <5>3. Points(obj[commit.obj], d, LastId, num)
          BY <3>11, <5>1, <5>2 DEF Basis, StorageInv, DataFit, Fit
        <5>4. ~ obj[commit.obj].empty /\ d.but \in 1 .. d.len /\ d.len <= Len(obj[commit.obj].rows)
              /\ d.len \in Nat
          BY <3>2, <5>3, WritesFacts DEF Points
        <5>5. obj[commit.obj].rows \in Seq(Row) /\ Len(obj[commit.obj].rows) \in Nat
          BY <3>1, StorageFacts, RowFacts DEF Basis, StorageInv
        <5>6. d.but \in 1 .. Len(obj[commit.obj].rows)
          BY <5>4, <5>5
        <5>7. obj'[commit.obj].rows = rows
          <6>1. obj' = [obj EXCEPT ![commit.obj] = [rows |-> rows, num |-> num, empty |-> FALSE]]
            BY <2>2 DEF Written
          <6>2. obj \in [Obj -> Cache]
            BY DEF Basis, StorageInv, StorageType
          <6>3. obj'[commit.obj] = [rows |-> rows, num |-> num, empty |-> FALSE]
            BY <3>1, <6>1, <6>2
          <6> QED
            BY <6>3
        <5>8. d.dirty[1].id = obj[commit.obj].rows[d.but].id
          BY <4>1, <5>1, <5>2 DEF Proper
        <5> HIDE DEF rows
        <5> QED
          BY <2>3, <3>10, <5>2, <5>4, <5>6, <5>7, <5>8
      <4>3. ASSUME e.new[1].force PROVE Committed[k] = <<>>
        <5>1. d.new \in Seq(New)
          BY <3>2, WritesFacts
        <5>2. CASE d.new = <<>>
          <6>1. e.new[1] = NewEntry
            BY <2>1, <2>3, <5>2
          <6> QED
            BY <2>1, <3>3, <4>3, <6>1
        <5>3. CASE d.new # <<>>
          <6>1. e.new[1] = d.new[1]
            BY <2>1, <2>3, <5>1, <5>3, AppendFacts
          <6> QED
            BY <4>1, <4>3, <5>3, <6>1 DEF Proper
        <5> QED
          BY <5>2, <5>3
      <4> QED
        BY <2>3, <3>8, <4>1, <4>2, <4>3 DEF Proper
    <3> HIDE DEF rows
    <3>13. e.obj \in {d.obj, commit.obj}
      BY <2>3
    <3> QED
      BY <1>1, <2>2, <3>6, <3>8, <3>9, <3>10, <3>11, <3>12, <3>13, WrittenOwn
  <2> QED
    BY <2>4, <2>5
<1> QED
  BY <1>2, <1>3

-----------------------------------------------------------------------------
(* A task is queued, flushed, or lost.                                     *)

\* What the next block shows.
LEMMA NextBlockShows ==
    ASSUME NEW s \in Seq(Row), NEW d \in Writes, NEW lo \in Nat, NEW hi \in Nat, lo <= hi,
           InOrder(s), Below(s, lo), Within(d, lo, hi), NEW objects, Proper(objects, s, d),
           NEW r \in Row
    PROVE  Has(Normal(After(s, d)), r) <=> Shows(s, d, r)
<1>1. After(s, d) \in Seq(Row) /\ Below(After(s, d), hi)
  BY AfterFacts
<1>2. Has(Normal(After(s, d)), r) <=> Has(After(s, d), r)
  BY <1>1, NormalBelow
<1>3. Has(After(s, d), r) <=> Shows(s, d, r)
  BY AfterHas DEF Proper
<1> QED
  BY <1>2, <1>3

LEMMA Untouched ==
    ASSUME NEW d \in Writes, NEW s, NEW r \in Row, ~ Touches(d, r.id)
    PROVE  Shows(s, d, r) <=> Has(s, r)
<1>1. ~ InDirty(d, r.id) /\ ~ HasId(News(d), r.id)
  BY DEF Touches
<1>2. ~ Has(d.dirty, r)
  BY <1>1 DEF Has, InDirty
<1>3. ~ Has(News(d), r)
  BY <1>1 DEF Has, HasId
<1> QED
  BY <1>1, <1>2, <1>3 DEF Shows

LEMMA SubmitClean ==
    ASSUME Basis, NEW k \in Key, Clean(k), SubmitTask
    PROVE  Clean(k)'
<1> DEFINE n == Len(queue)
           d == commit.data[k]
           C == Committed[k]
<1>1. /\ Len(queue') = n + 1 /\ \A i \in 1 .. n : queue'[i] = queue[i]
      /\ queue'[n + 1].data = commit.data
      /\ \A i \in 0 .. n : BlockOf(i)' = BlockOf(i)
      /\ \A i : i = n + 1 =>
            BlockOf(i)' = [l \in Key |-> Normal(After(Committed[l], commit.data[l]))]
      /\ commit'.data = NoData /\ commit'.obj = NoObj
      /\ UNCHANGED <<caches, obj, select, backend>>
  <2>1. /\ Len(queue') = n + 1 /\ \A i \in 1 .. n : queue'[i] = queue[i]
        /\ queue'[n + 1] = [num |-> num, id |-> ID, data |-> commit.data]
        /\ \A i \in 0 .. n : BlockOf(i)' = BlockOf(i)
        /\ \A i : i = n + 1 =>
              BlockOf(i)' = [l \in Key |-> Normal(After(Committed[l], commit.data[l]))]
        /\ commit' = [pc |-> "wait", dirty |-> {}, new |-> {}, write |-> None, obj |-> NoObj,
                      data |-> NoData]
        /\ UNCHANGED <<caches, obj, select, backend>>
    BY SubmitFacts DEF Basis
  <2>2. commit'.data = NoData /\ commit'.obj = NoObj
    BY <2>1
  <2>3. queue'[n + 1].data = commit.data
    BY <2>1
  <2> QED
    BY <2>1, <2>2, <2>3
<1>2. Committed' = [l \in Key |-> Normal(After(Committed[l], commit.data[l]))]
  <2>1. blocks' = Append(blocks, [l \in Key |-> Normal(After(Committed[l], commit.data[l]))])
    BY SubmitFacts DEF Basis
  <2>2. IsSeq(blocks)
    BY DEF Basis, CountInv, TaskInv
  <2> QED
    BY <2>1, <2>2, AppendIsSeq DEF Committed, Last
<1>4. /\ n \in Nat /\ n + 1 \in Tasks /\ backend.num \in Nat /\ d \in Writes
      /\ DataOf(n + 1, k) = d
      /\ \A i \in Tasks : DataOf(i, k) \in Writes
  BY TaskFacts
<1>5. Committed = BlockOf(n)
  BY CommittedFacts DEF Basis
<1>6. Tasks' = Tasks \cup {n + 2} /\ Tasks = 1 .. n \cup {n + 1}
  BY <1>1, <1>4 DEF Tasks
<1>7. /\ \A i \in Tasks : DataOf(i, k)' = DataOf(i, k)
      /\ \A i : i = n + 2 => DataOf(i, k)' = NoWrites
  <2>1. \A i \in 1 .. n : DataOf(i, k)' = DataOf(i, k)
    BY <1>1, <1>4 DEF DataOf
  <2>2. \A i : i = n + 1 => DataOf(i, k)' = d /\ DataOf(i, k) = d
    BY <1>1, <1>4 DEF DataOf
  <2>3. \A i : i = n + 2 => DataOf(i, k)' = NoWrites
    BY <1>1, <1>4, NoWritesFacts DEF DataOf
  <2> QED
    BY <1>6, <2>1, <2>2, <2>3
<1>8. Proper(obj, C, d)
  <2>1. Proper(obj, BlockOf(n + 1 - 1)[k], d)
    BY <1>4 DEF Clean, CleanData
  <2>2. n + 1 - 1 = n
    BY <1>4
  <2> QED
    BY <1>5, <2>1, <2>2
<1>9. \A r \in Row : Has(Committed'[k], r) <=> Shows(C, d, r)
  <2>1. C \in Seq(Row) /\ Sound(C, LastId)
    BY <1>4, <1>5, CommittedFacts DEF Basis, LastId
  <2>2. LastId \in Nat /\ Limit \in Nat /\ LastId <= Limit
    BY IdFacts DEF Basis
  <2>3. Within(d, LastId, Limit)
    BY DEF Basis, StorageInv, DataFit, Fit
  <2>4. Committed'[k] = Normal(After(C, d))
    BY <1>2
  <2> QED
    BY <1>4, <1>8, <2>1, <2>2, <2>3, <2>4, NextBlockShows DEF Sound
<1>10. /\ NoWrites \in Writes /\ ~ Writing(NoWrites) /\ NoWrites.obj = NoObj
       /\ Len(NoWrites.dirty) = 0 /\ NoWrites.new = <<>>
       /\ \A x : ~ InDirty(NoWrites, x)
       /\ \A s, r : Shows(s, NoWrites, r) <=> Has(s, r)
  <2>1. NoWrites \in Writes /\ NoWrites.dirty = <<>> /\ NoWrites.new = <<>> /\ NoWrites.obj = NoObj
    BY NoWritesFacts
  <2>2. ~ Writing(NoWrites)
    BY <2>1 DEF Writing
  <2> QED
    BY <2>1, <2>2, QuietFacts
<1> HIDE DEF n, d, C
<1>11. CleanUse(k)'
  <2> SUFFICES ASSUME NEW x \in Obj, Uses(x, k)' PROVE Uses(x, k)
    BY <1>1 DEF Clean, CleanUse
  <2>1. commit'.data[k].obj = NoObj /\ NoObj \notin Obj
    BY <1>1, <1>10, NoWritesFacts, StorageFacts DEF Basis, StorageInv
  <2>2. ASSUME NEW i \in 1 .. Len(queue'), queue'[i].data[k].obj = x PROVE Uses(x, k)
    <3>1. i \in 1 .. n \/ i = n + 1
      BY <1>1, <1>4
    <3>2. CASE i \in 1 .. n
      BY <1>1, <2>2, <3>2 DEF Uses, n
    <3>3. CASE i = n + 1
      BY <1>1, <2>2, <3>3 DEF Uses
    <3> QED
      BY <3>1, <3>2, <3>3
  <2>3. Uses(x, k)' =>
          \/ caches[k] = x \/ \E r \in Reader : select[r] = [key |-> k, obj |-> x]
          \/ \E i \in 1 .. Len(queue') : queue'[i].data[k].obj = x
    BY <1>1, <2>1 DEF Uses
  <2> QED
    BY <2>2, <2>3 DEF Uses
<1>12. CleanTasks(k)'
  <2>1. ASSUME NEW i \in Tasks, Writing(DataOf(i, k)) PROVE Recent(k, backend.num + i)'
    <3>1. Recent(k, backend.num + i)
      BY <2>1 DEF Clean, CleanTasks
    <3> QED
      BY <1>1, <3>1 DEF Recent
  <2> QED
    BY <1>6, <1>7, <1>10, <2>1 DEF CleanTasks
<1>13. CleanData(k)'
  <2>1. ASSUME NEW i \in Tasks PROVE Proper(obj', BlockOf(i - 1)'[k], DataOf(i, k)')
    <3>1. i - 1 \in 0 .. n
      BY TaskFacts DEF n
    <3>2. Proper(obj, BlockOf(i - 1)[k], DataOf(i, k))
      BY DEF Clean, CleanData
    <3>3. BlockOf(i - 1)' = BlockOf(i - 1)
      BY <1>1, <3>1
    <3> QED
      BY <1>1, <1>7, <3>2, <3>3
  <2>2. \A base : Proper(obj', base, NoWrites)
    BY <1>10 DEF Proper
  <2> QED
    BY <1>6, <1>7, <2>1, <2>2 DEF CleanData
<1>14. CleanOrder(k)'
  BY <1>1 DEF Clean, CleanOrder
<1>15. CleanCache(k)'
  <2>1. commit'.data[k] = NoWrites
    BY <1>1, NoWritesFacts
  <2> QED
    BY <1>1, <1>9, <1>10, <2>1 DEF Clean, CleanCache, C, d
<1>16. CleanBlocks(k)'
  <2> SUFFICES ASSUME NEW i \in 0 .. n + 1, NEW r \in Row,
                      \A j \in 1 .. n + 1 : j > i => ~ Touches(DataOf(j, k), r.id)
               PROVE  Has(BlockOf(i)'[k], r) <=> Has(Committed'[k], r)
    BY <1>1, <1>4, <1>6, <1>7 DEF CleanBlocks, Tasks
  <2>1. CASE i = n + 1
    BY <1>1, <1>2, <2>1
  <2>2. CASE i \in 0 .. n
    <3>1. \A j \in 1 .. n : j > i => ~ Touches(DataOf(j, k), r.id)
      BY <1>4
    <3>2. Has(BlockOf(i)[k], r) <=> Has(C, r)
      BY <2>2, <3>1 DEF Clean, CleanBlocks, C, n
    <3>3. ~ Touches(d, r.id)
      BY <1>4, <2>2
    <3>4. Shows(C, d, r) <=> Has(C, r)
      BY <1>4, <3>3, Untouched
    <3> QED
      BY <1>1, <1>9, <2>2, <3>2, <3>4
  <2> QED
    BY <1>4, <2>1, <2>2
<1>17. CleanStore(k)'
  <2>1. CleanStore(k)
    BY DEF Clean
  <2>2. \A i : i = 0 => BlockOf(i)' = BlockOf(i)
    BY <1>1, <1>4
  <2> QED
    BY <1>1, <1>6, <1>7, <2>1, <2>2 DEF CleanStore
<1> QED
  BY <1>11, <1>12, <1>13, <1>14, <1>15, <1>16, <1>17 DEF Clean

\* The store and the objects of the tasks agree on every row that is older than the store
\* and that no task changes.
LEMMA OldRows ==
    ASSUME Basis, NEW k \in Key, Clean(k), NEW r \in Row, r.id <= backend.id,
           \A i \in Tasks : ~ InDirty(DataOf(i, k), r.id),
           caches[k] # NoObj, ~ obj[caches[k]].empty
    PROVE  Has(obj[caches[k]].rows, r) <=> Has(BlockOf(0)[k], r)
<1>1. ASSUME NEW i \in Tasks PROVE ~ Touches(DataOf(i, k), r.id)
  <2>1. \E lo, hi : lo \in Nat /\ backend.id <= lo /\ Within(DataOf(i, k), lo, hi)
    <3>1. CASE i \in 1 .. Len(queue)
      <4>1. i - 1 \in 0 .. Len(queue) /\ DataOf(i, k) = queue[i].data[k]
        BY <3>1, TaskFacts
      <4>2. Within(DataOf(i, k), IdOf(i - 1), IdOf(i))
        BY <3>1, <4>1 DEF Basis, StorageInv, DataFit, Fit
      <4>3. IdOf(i - 1) \in Nat /\ backend.id <= IdOf(i - 1)
        BY <4>1, IdFacts DEF Basis
      <4> QED
        BY <4>2, <4>3
    <3>2. CASE i = Len(queue) + 1
      <4>1. Within(DataOf(i, k), LastId, Limit)
        BY <3>2, TaskFacts DEF Basis, StorageInv, DataFit, Fit
      <4>2. LastId \in Nat /\ backend.id <= LastId
        BY IdFacts DEF Basis
      <4> QED
        BY <4>1, <4>2
    <3> QED
      BY <3>1, <3>2, TaskFacts DEF Tasks
  <2>2. PICK lo, hi : lo \in Nat /\ backend.id <= lo /\ Within(DataOf(i, k), lo, hi)
    BY <2>1
  <2>3. DataOf(i, k) \in Writes /\ News(DataOf(i, k)) \in Seq(Row)
    BY TaskFacts, NewsFacts
  <2>4. \A j \in 1 .. Len(News(DataOf(i, k))) : lo < News(DataOf(i, k))[j].id
    BY <2>2, <2>3, NewsOrder
  <2>5. r.id \in Nat /\ backend.id \in Nat
    BY StorageFacts DEF Basis, StorageInv, Row
  <2>6. \A j \in 1 .. Len(News(DataOf(i, k))) : News(DataOf(i, k))[j].id \in Nat
    BY <2>3, RowFacts
  <2>7. ~ HasId(News(DataOf(i, k)), r.id)
    BY <2>2, <2>4, <2>5, <2>6 DEF HasId
  <2> QED
    BY <2>7 DEF Touches
<1>2. Has(BlockOf(0)[k], r) <=> Has(Committed[k], r)
  <2>1. 0 \in 0 .. Len(queue) /\ \A j \in 1 .. Len(queue) : ~ Touches(DataOf(j, k), r.id)
    BY <1>1, TaskFacts
  <2> QED
    BY <2>1 DEF Clean, CleanBlocks
<1>3. ~ Touches(commit.data[k], r.id) /\ commit.data[k] \in Writes
  BY <1>1, TaskFacts
<1>4. Shows(Committed[k], commit.data[k], r) <=> Has(Committed[k], r)
  BY <1>3, Untouched
<1> QED
  BY <1>2, <1>4 DEF Clean, CleanCache

\* What the flush thread writes shows the block, but for the rows that later tasks change
\* and that are in the object already.
LEMMA FlushShows ==
    ASSUME Basis, NEW k \in Key, Clean(k), queue # <<>>
    PROVE  LET d == queue[1].data[k]
               s == processNewEntries(k, d)
           IN  /\ InOrder(s)
               /\ \A r \in Row :
                     (\A i \in Tasks : i > 1 /\ backend.num + i <= aheadOf(k, d)
                                          => ~ InDirty(DataOf(i, k), r.id))
                        => (Has(s, r) <=> Shows(BlockOf(0)[k], d, r))
<1> DEFINE d == queue[1].data[k]
           s == processNewEntries(k, d)
           B == BlockOf(0)[k]
<1>1. /\ Len(queue) \in Nat /\ 1 \in 1 .. Len(queue) /\ d \in Writes
      /\ Fit(obj, d, backend.id, queue[1].id, queue[1].num)
      /\ backend.id \in Nat
      /\ d.obj # NoObj => /\ d.obj \in Obj /\ obj[d.obj] \in Cache
                          /\ Points(obj[d.obj], d, backend.id, queue[1].num)
      /\ d.dirty # <<>> => s = ById(d.dirty \o Others(obj[d.obj], d)) \o News(d)
      /\ d.dirty = <<>> =>
            s = (IF d.new # <<>> /\ d.new[1].force THEN <<>> ELSE backend.rows[k]) \o News(d)
  BY FlushFacts DEF Basis
<1>2. Within(d, backend.id, queue[1].id)
  BY <1>1 DEF Fit
<1>3. /\ News(d) \in Seq(Row) /\ InOrder(News(d))
      /\ \A i \in 1 .. Len(News(d)) : backend.id < News(d)[i].id
  BY <1>1, <1>2, NewsFacts, NewsOrder
<1>4. 1 \in Tasks /\ DataOf(1, k) = d
  BY <1>1, TaskFacts
<1>5. Proper(obj, B, d)
  <2>1. Proper(obj, BlockOf(1 - 1)[k], d)
    BY <1>4 DEF Clean, CleanData
  <2> QED
    BY <2>1
<1>6. /\ backend.rows[k] \in Seq(Row) /\ Below(backend.rows[k], backend.id)
      /\ InOrder(backend.rows[k])
  BY StorageFacts DEF Basis, StorageInv, StoreFit, Clean, CleanOrder
<1>7. B \in Seq(Row) /\ Below(B, backend.id)
  <2>1. 0 \in 0 .. Len(queue) /\ IdOf(0) = backend.id
    BY <1>1 DEF IdOf
  <2> QED
    BY <2>1, CommittedFacts DEF Basis, Sound
<1>8. \A t \in Seq(Row) : InOrder(t) /\ Below(t, backend.id) => InOrder(t \o News(d))
  <2> SUFFICES ASSUME NEW t \in Seq(Row), InOrder(t), Below(t, backend.id)
               PROVE  InOrder(t \o News(d))
    OBVIOUS
  <2>1. \A i \in 1 .. Len(t) : t[i].id \in Nat /\ t[i].id <= backend.id
    BY RowFacts DEF Below
  <2>2. \A i \in 1 .. Len(News(d)) : News(d)[i].id \in Nat
    BY <1>3, RowFacts
  <2>3. \A i \in 1 .. Len(t), j \in 1 .. Len(News(d)) : t[i].id < News(d)[j].id
    BY <1>1, <1>3, <2>1, <2>2
  <2> QED
    BY <1>3, <2>3, OrderConcat
<1>9. \A t \in Seq(Row) : \A r : Has(t \o News(d), r) <=> Has(t, r) \/ Has(News(d), r)
  BY <1>3, HasConcat
<1>10. d.dirty = <<>> <=> d.obj = NoObj
  BY <1>2 DEF Within
<1>11. aheadOf(k, d) = IF d.obj = NoObj THEN backend.ahead[k] ELSE obj[d.obj].num
  BY DEF aheadOf
<1> HIDE DEF d, s, B
<1>12. CASE d.dirty = <<>>
  <2> DEFINE t == IF d.new # <<>> /\ d.new[1].force THEN <<>> ELSE backend.rows[k]
  <2>1. t \in Seq(Row) /\ InOrder(t) /\ Below(t, backend.id) /\ s = t \o News(d)
    <3>1. s = t \o News(d)
      BY <1>1, <1>12
    <3>2. CASE d.new # <<>> /\ d.new[1].force
      <4>1. t = <<>> /\ <<>> \in Seq(Row)
        BY <3>2
      <4> HIDE DEF t
      <4> QED
        BY <3>1, <4>1, BelowEmpty
    <3>3. CASE ~ (d.new # <<>> /\ d.new[1].force)
      <4>1. t = backend.rows[k]
        BY <3>3
      <4> HIDE DEF t
      <4> QED
        BY <1>6, <3>1, <4>1
    <3> QED
      BY <3>2, <3>3
  <2>2. InOrder(s)
    BY <1>8, <2>1
  <2>3. Len(d.dirty) = 0
    BY <1>12
  <2>4. \A x : ~ InDirty(d, x)
    BY <2>3 DEF InDirty
  <2>5. \A r : ~ Has(d.dirty, r)
    BY <2>3 DEF Has
  <2>6. ASSUME NEW r \in Row,
               \A i \in Tasks : i > 1 /\ backend.num + i <= aheadOf(k, d)
                                   => ~ InDirty(DataOf(i, k), r.id)
        PROVE  Has(s, r) <=> Shows(B, d, r)
    <3>1. Has(t, r) <=> Has(B, r)
      <4>1. CASE d.new # <<>> /\ d.new[1].force
        <5>1. B = <<>> /\ t = <<>>
          BY <1>5, <4>1 DEF Proper
        <5> QED
          BY <5>1
      <4>2. CASE ~ (d.new # <<>> /\ d.new[1].force)
        <5>1. t = backend.rows[k]
          BY <4>2
        <5>2. aheadOf(k, d) = backend.ahead[k]
          BY <1>10, <1>11, <1>12
        <5>3. ASSUME NEW i \in Tasks, backend.num + i <= backend.ahead[k]
              PROVE  ~ InDirty(DataOf(i, k), r.id)
          <6>1. CASE i = 1
            BY <1>4, <2>4, <6>1
          <6>2. CASE i > 1
            BY <2>6, <5>2, <5>3, <6>2
          <6> QED
            BY <6>1, <6>2, <1>1 DEF Tasks
        <5> QED
          BY <5>1, <5>3 DEF Clean, CleanStore, B
      <4> QED
        BY <4>1, <4>2
    <3> HIDE DEF t
    <3> QED
      BY <1>9, <2>1, <2>4, <2>5, <3>1 DEF Shows
  <2> QED
    BY <2>2, <2>6 DEF d, s, B
<1>13. CASE d.dirty # <<>>
  <2> DEFINE c == obj[d.obj]
             t == ById(d.dirty \o Others(c, d))
  <2>1. d.obj # NoObj /\ d.obj \in Obj /\ c \in Cache /\ Points(c, d, backend.id, queue[1].num)
    BY <1>1, <1>10, <1>13
  <2>2. caches[k] = d.obj
    <3>1. Uses(d.obj, k)
      BY <1>4, <2>1, TaskFacts
    <3> QED
      BY <2>1, <3>1 DEF Clean, CleanUse
  <2>3. Len(d.dirty) = 1 /\ d.dirty[1].id = c.rows[d.but].id
    <3>1. d.dirty \in Seq(Row)
      BY <1>1, WritesFacts
    <3>2. Len(d.dirty) \in Nat /\ Len(d.dirty) # 0
      BY <1>13, <3>1
    <3>3. Len(d.dirty) <= 1
      BY <1>5 DEF Proper
    <3>4. Len(d.dirty) = 1
      <4> DEFINE m == Len(d.dirty)
      <4>1. m \in Nat /\ m # 0 /\ m <= 1
        BY <3>2, <3>3
      <4> HIDE DEF m
      <4>2. m = 1
        BY <4>1
      <4> QED
        BY <4>2 DEF m
    <3> QED
      BY <1>5, <2>1, <3>4 DEF Proper
  <2>4. InOrder(c.rows) /\ ~ c.empty
    BY <2>1, <2>2 DEF Clean, CleanOrder, Points
  <2>5. Below(d.dirty, backend.id)
    BY <1>2 DEF Within
  <2>6. t \in Seq(Row) /\ Below(t, backend.id)
    BY <1>1, <2>1, <2>5, FlushDirty
  <2>7. /\ InOrder(t)
        /\ \A r \in Row : Has(t, r) <=> \/ Has(d.dirty, r)
                                        \/ Has(c.rows, r) /\ r.id # d.dirty[1].id /\ r.id <= backend.id
    BY <1>1, <2>1, <2>3, <2>4, <2>5, FlushOne
  <2>8. s = t \o News(d)
    BY <1>1, <1>13
  <2>9. aheadOf(k, d) = c.num
    BY <1>11, <2>1
  <2>10. \A x : InDirty(d, x) <=> x = d.dirty[1].id
    BY <2>3 DEF InDirty
  <2> HIDE DEF c, t
  <2>11. InOrder(s)
    BY <1>8, <2>6, <2>7, <2>8
  <2>12. ASSUME NEW r \in Row,
               \A i \in Tasks : i > 1 /\ backend.num + i <= aheadOf(k, d)
                                   => ~ InDirty(DataOf(i, k), r.id)
         PROVE  Has(s, r) <=> Shows(B, d, r)
    <3>1. ASSUME r.id # d.dirty[1].id, r.id <= backend.id PROVE Has(c.rows, r) <=> Has(B, r)
      <4>1. ASSUME NEW i \in Tasks PROVE ~ InDirty(DataOf(i, k), r.id)
        <5>1. CASE i = 1
          BY <1>4, <2>10, <3>1, <5>1
        <5>2. CASE i > 1 /\ InDirty(DataOf(i, k), r.id)
          <6>1. Writing(DataOf(i, k))
            BY <5>2, TaskFacts, QuietFacts
          <6>2. Recent(k, backend.num + i)
            BY <6>1 DEF Clean, CleanTasks
          <6>3. c.num >= backend.num + i
            BY <2>2, <6>2 DEF Recent, c
          <6>4. c.num \in Nat /\ backend.num + i \in Nat
            <7>1. c.num \in Nat
              BY <2>1 DEF Cache
            <7> QED
              BY <7>1, TaskFacts
          <6>5. backend.num + i <= aheadOf(k, d)
            BY <2>9, <6>3, <6>4
          <6> QED
            BY <2>12, <5>2, <6>5
        <5> QED
          BY <1>1, <5>1, <5>2 DEF Tasks
      <4> QED
        BY <2>1, <2>2, <2>4, <3>1, <4>1, OldRows DEF c, B
    <3>2. ~ (r.id <= backend.id) => ~ Has(B, r)
      BY <1>7 DEF Has, Below
    <3>3. Has(s, r) <=> Has(t, r) \/ Has(News(d), r)
      BY <1>9, <2>6, <2>8
    <3> QED
      BY <2>7, <2>10, <3>1, <3>2, <3>3 DEF Shows
  <2> QED
    BY <2>11, <2>12 DEF d, s, B
<1> QED
  BY <1>12, <1>13

LEMMA Shift ==
    ASSUME NEW m \in Nat, NEW i \in Int
    PROVE  m + (i + 1) = m + 1 + i /\ m + 1 + (i - 1) = m + i
OBVIOUS

LEMMA FlushClean ==
    ASSUME Basis, NEW k \in Key, Clean(k), commitBackend
    PROVE  Clean(k)'
<1> DEFINE n == Len(queue')
           d == queue[1].data[k]
<1>1. /\ queue # <<>> /\ Len(queue) \in Nat /\ n = Len(queue) - 1
      /\ \A i \in 1 .. n : queue'[i] = queue[i + 1]
      /\ backend'.rows = [l \in Key |-> processNewEntries(l, queue[1].data[l])]
      /\ backend'.ahead = [l \in Key |-> aheadOf(l, queue[1].data[l])]
      /\ backend'.num = backend.num + 1
      /\ UNCHANGED <<caches, commit, select, blocks>>
      /\ \A i \in 0 .. n : i + 1 \in 1 .. Len(queue) /\ BlockOf(i)' = BlockOf(i + 1)
  BY FlushIs DEF Basis
<1>2. \A x \in Obj : Uses(x, k)' => obj'[x] = obj[x] /\ Uses(x, k)
  BY FlushStorage DEF Basis
<1>3. /\ Committed' = Committed /\ n \in Nat /\ Len(queue) = n + 1
      /\ Tasks' = 1 .. n + 1 /\ Tasks = 1 .. n + 2
      /\ \A i \in 1 .. n + 1 : i + 1 \in Tasks /\ i + 1 > 1
  <2>1. Len(queue) # 0
    BY <1>1 DEF Basis, StorageInv, StorageType
  <2> QED
    BY <1>1, <2>1 DEF Committed, Tasks
<1>4. \A i \in 1 .. n + 1 : DataOf(i, k)' = DataOf(i + 1, k)
  BY <1>1, <1>3 DEF DataOf
<1>5. caches[k] # NoObj => caches[k] \in Obj /\ obj'[caches[k]] = obj[caches[k]]
  BY <1>1, <1>2, StorageFacts DEF Basis, StorageInv, Uses
<1>6. backend.num \in Nat /\ backend'.num \in Nat
  BY <1>1, TaskFacts
<1> HIDE DEF n, d
<1>7. CleanUse(k)'
  BY <1>1, <1>2 DEF Clean, CleanUse
<1>8. CleanTasks(k)'
  <2> SUFFICES ASSUME NEW i \in 1 .. n + 1, Writing(DataOf(i + 1, k))
               PROVE  Recent(k, backend.num + i)'
    BY <1>3, <1>4 DEF CleanTasks
  <2>1. Recent(k, backend.num + (i + 1))
    BY <1>3 DEF Clean, CleanTasks
  <2>2. backend.num + (i + 1) = backend'.num + i
    <3>1. backend'.num = backend.num + 1 /\ backend.num \in Nat /\ i \in Int
      BY <1>1, <1>6
    <3> QED
      BY <3>1, Shift, Zenon
  <2> QED
    BY <1>1, <1>5, <2>1, <2>2 DEF Recent
<1>9. CleanData(k)'
  <2> SUFFICES ASSUME NEW i \in 1 .. n + 1
               PROVE  Proper(obj', BlockOf(i - 1)'[k], DataOf(i + 1, k))
    BY <1>3, <1>4 DEF CleanData
  <2>1. i + 1 \in Tasks /\ i - 1 \in 0 .. n /\ i + 1 - 1 = i - 1 + 1
    BY <1>3
  <2>2. Proper(obj, BlockOf(i + 1 - 1)[k], DataOf(i + 1, k))
    BY <2>1 DEF Clean, CleanData
  <2>3. BlockOf(i - 1)' = BlockOf(i + 1 - 1)
    BY <1>1, <2>1
  <2>4. ASSUME DataOf(i + 1, k).obj # NoObj
        PROVE  obj'[DataOf(i + 1, k).obj] = obj[DataOf(i + 1, k).obj]
    <3>1. DataOf(i + 1, k).obj \in Obj /\ Uses(DataOf(i + 1, k).obj, k)
      BY <2>1, <2>4, TaskFacts
    <3>2. DataOf(i + 1, k).obj = caches[k]
      BY <3>1 DEF Clean, CleanUse
    <3> QED
      BY <1>5, <2>4, <3>2
  <2> QED
    BY <2>2, <2>3, <2>4 DEF Proper
<1>10. backend'.rows[k] = processNewEntries(k, d) /\ backend'.ahead[k] = aheadOf(k, d)
  BY <1>1 DEF d
<1>11. /\ InOrder(backend'.rows[k])
       /\ \A r \in Row :
             (\A i \in Tasks : i > 1 /\ backend.num + i <= backend'.ahead[k]
                                  => ~ InDirty(DataOf(i, k), r.id))
                => (Has(backend'.rows[k], r) <=> Shows(BlockOf(0)[k], d, r))
  BY <1>1, <1>10, FlushShows DEF d
<1>12. CleanOrder(k)'
  BY <1>1, <1>5, <1>11 DEF Clean, CleanOrder
<1>13. CleanCache(k)'
  BY <1>1, <1>3, <1>5 DEF Clean, CleanCache
<1>14. CleanBlocks(k)'
  <2> SUFFICES ASSUME NEW i \in 0 .. n, NEW r \in Row,
                      \A j \in 1 .. n : j > i => ~ Touches(DataOf(j, k)', r.id)
               PROVE  Has(BlockOf(i)'[k], r) <=> Has(Committed'[k], r)
    BY DEF CleanBlocks, n
  <2>1. ASSUME NEW j \in 1 .. Len(queue), j > i + 1 PROVE ~ Touches(DataOf(j, k), r.id)
    <3>1. j - 1 \in 1 .. n /\ j - 1 > i /\ j - 1 \in 1 .. n + 1 /\ j - 1 + 1 = j
      BY <1>3, <2>1
    <3>2. DataOf(j - 1, k)' = DataOf(j - 1 + 1, k)
      BY <1>4, <3>1
    <3> QED
      BY <3>1, <3>2
  <2>2. i + 1 \in 0 .. Len(queue)
    BY <1>3
  <2>3. Has(BlockOf(i + 1)[k], r) <=> Has(Committed[k], r)
    BY <2>1, <2>2 DEF Clean, CleanBlocks
  <2> QED
    BY <1>1, <1>3, <2>3
<1>15. CleanStore(k)'
  <2> SUFFICES ASSUME NEW r \in Row,
                      \A i \in 1 .. n + 1 : backend'.num + i <= backend'.ahead[k]
                                               => ~ InDirty(DataOf(i, k)', r.id)
               PROVE  \A i : i = 0 => (Has(backend'.rows[k], r) <=> Has(BlockOf(i)'[k], r))
    BY <1>3 DEF CleanStore
  <2>1. ASSUME NEW i \in Tasks, i > 1, backend.num + i <= backend'.ahead[k]
        PROVE  ~ InDirty(DataOf(i, k), r.id)
    <3>1. i - 1 \in 1 .. n + 1 /\ i - 1 + 1 = i /\ backend'.num + (i - 1) = backend.num + i
      <4>1. i \in Int /\ i - 1 \in 1 .. n + 1 /\ i - 1 + 1 = i
        BY <1>3, <2>1
      <4> QED
        <5>1. backend'.num = backend.num + 1 /\ backend.num \in Nat
          BY <1>1, <1>6
        <5> QED
          BY <4>1, <5>1, Shift, Zenon
    <3>2. DataOf(i - 1, k)' = DataOf(i - 1 + 1, k)
      BY <1>4, <3>1
    <3> QED
      BY <2>1, <3>1, <3>2
  <2>2. Has(backend'.rows[k], r) <=> Shows(BlockOf(0)[k], d, r)
    BY <1>11, <2>1
  <2>3. Has(BlockOf(1)[k], r) <=> Shows(BlockOf(0)[k], d, r)
    <3>1. 1 \in 1 .. Len(queue) /\ 0 \in 0 .. Len(queue) /\ IdOf(0) = backend.id
      BY <1>3 DEF IdOf
    <3>2. BlockOf(1)[k] = Normal(After(BlockOf(1 - 1)[k], d))
      BY <3>1 DEF Basis, StorageInv, StoreFit, d
    <3>3. BlockOf(0)[k] \in Seq(Row) /\ Sound(BlockOf(0)[k], backend.id)
      BY <3>1, CommittedFacts DEF Basis
    <3>4. /\ d \in Writes /\ Within(d, backend.id, queue[1].id) /\ backend.id \in Nat
          /\ queue[1].id \in Nat /\ backend.id <= queue[1].id
      BY <1>1, FlushFacts DEF Basis, Fit, d
    <3>5. Proper(obj, BlockOf(0)[k], d)
      <4>1. 1 \in Tasks /\ DataOf(1, k) = d
        BY <3>1, TaskFacts DEF d
      <4>2. Proper(obj, BlockOf(1 - 1)[k], d)
        BY <4>1 DEF Clean, CleanData
      <4> QED
        BY <4>2
    <3> QED
      BY <3>2, <3>3, <3>4, <3>5, NextBlockShows DEF Sound
  <2>4. \A i : i = 0 => BlockOf(i)' = BlockOf(1)
    BY <1>1, <1>3
  <2> QED
    BY <2>2, <2>3, <2>4
<1> QED
  BY <1>7, <1>8, <1>9, <1>12, <1>13, <1>14, <1>15 DEF Clean

-----------------------------------------------------------------------------
(* A process starts.                                                       *)

LEMMA FreshClean ==
    ASSUME NEW k \in Key, caches = [l \in Key |-> NoObj], queue = <<>>, commit = IdleCommit,
           select = [r \in Reader |-> IdleReader], backend.num \in Nat,
           Len(blocks) = backend.num + 1, InOrder(backend.rows[k]),
           \A r \in Row : Has(backend.rows[k], r) <=> Has(blocks[backend.num + 1][k], r)
    PROVE  Clean(k)
<1>1. /\ Len(queue) = 0 /\ commit.data = NoData /\ commit.obj = NoObj /\ caches[k] = NoObj
      /\ NoObj \notin Obj
  BY ObjAssumption DEF IdleCommit, NoObj
<1>2. /\ NoWrites \in Writes /\ ~ Writing(NoWrites) /\ NoWrites.obj = NoObj
      /\ Len(NoWrites.dirty) = 0 /\ NoWrites.new = <<>> /\ \A x : ~ InDirty(NoWrites, x)
  <2>1. NoWrites \in Writes /\ NoWrites.dirty = <<>> /\ NoWrites.new = <<>> /\ NoWrites.obj = NoObj
    BY NoWritesFacts
  <2>2. ~ Writing(NoWrites)
    BY <2>1 DEF Writing
  <2> QED
    BY <2>1, <2>2, QuietFacts
<1>3. commit.data[k] = NoWrites
  BY <1>1, NoWritesFacts
<1>4. Tasks = {1} /\ \A i \in {1} : DataOf(i, k) = NoWrites
  BY <1>1, <1>3 DEF Tasks, DataOf
<1>5. \A i : i = 0 => BlockOf(i) = blocks[backend.num + 1] /\ Committed = blocks[backend.num + 1]
  BY DEF BlockOf, Committed, Last
<1>6. CleanUse(k)
  <2> SUFFICES ASSUME NEW x \in Obj, Uses(x, k) PROVE FALSE
    BY DEF CleanUse
  <2>1. \A r \in Reader : select[r] # [key |-> k, obj |-> x]
    <3>1. \A r \in Reader : select[r].obj = NoObj
      BY DEF IdleReader
    <3> QED
      BY <1>1, <3>1
  <2> QED
    BY <1>1, <1>2, <1>3, <2>1 DEF Uses
<1>7. CleanTasks(k)
  BY <1>2, <1>4 DEF CleanTasks
<1>8. CleanData(k)
  <2>1. \A base, objects : Proper(objects, base, NoWrites)
    BY <1>2 DEF Proper
  <2> QED
    BY <1>4, <2>1 DEF CleanData
<1>9. CleanOrder(k) /\ CleanCache(k)
  BY <1>1 DEF CleanOrder, CleanCache
<1>10. CleanBlocks(k)
  BY <1>1, <1>5 DEF CleanBlocks
<1>11. CleanStore(k)
  BY <1>5 DEF CleanStore
<1> QED
  BY <1>6, <1>7, <1>8, <1>9, <1>10, <1>11 DEF Clean

LEMMA FreshNextClean ==
    ASSUME NEW k \in Key, caches' = [l \in Key |-> NoObj], queue' = <<>>, commit' = IdleCommit,
           select' = [r \in Reader |-> IdleReader], backend'.num \in Nat,
           Len(blocks') = backend'.num + 1, InOrder(backend'.rows[k]),
           \A r \in Row : Has(backend'.rows[k], r) <=> Has(blocks'[backend'.num + 1][k], r)
    PROVE  Clean(k)'
<1>1. /\ Len(queue') = 0 /\ commit'.data = NoData /\ commit'.obj = NoObj /\ caches'[k] = NoObj
      /\ NoObj \notin Obj
  BY ObjAssumption DEF IdleCommit, NoObj
<1>2. /\ NoWrites \in Writes /\ ~ Writing(NoWrites) /\ NoWrites.obj = NoObj
      /\ Len(NoWrites.dirty) = 0 /\ NoWrites.new = <<>> /\ \A x : ~ InDirty(NoWrites, x)
  <2>1. NoWrites \in Writes /\ NoWrites.dirty = <<>> /\ NoWrites.new = <<>> /\ NoWrites.obj = NoObj
    BY NoWritesFacts
  <2>2. ~ Writing(NoWrites)
    BY <2>1 DEF Writing
  <2> QED
    BY <2>1, <2>2, QuietFacts
<1>3. commit'.data[k] = NoWrites
  BY <1>1, NoWritesFacts
<1>4. Tasks' = {1} /\ \A i \in {1} : DataOf(i, k)' = NoWrites
  BY <1>1, <1>3 DEF Tasks, DataOf
<1>5. \A i : i = 0 => BlockOf(i)' = blocks'[backend'.num + 1] /\ Committed' = blocks'[backend'.num + 1]
  BY DEF BlockOf, Committed, Last
<1>6. CleanUse(k)'
  <2> SUFFICES ASSUME NEW x \in Obj, Uses(x, k)' PROVE FALSE
    BY DEF CleanUse
  <2>1. \A r \in Reader : select'[r] # [key |-> k, obj |-> x]
    <3>1. \A r \in Reader : select'[r].obj = NoObj
      BY DEF IdleReader
    <3> QED
      BY <1>1, <3>1
  <2> QED
    BY <1>1, <1>2, <1>3, <2>1 DEF Uses
<1>7. CleanTasks(k)'
  BY <1>2, <1>4 DEF CleanTasks
<1>8. CleanData(k)'
  <2>1. \A base, objects : Proper(objects, base, NoWrites)
    BY <1>2 DEF Proper
  <2> QED
    BY <1>4, <2>1 DEF CleanData
<1>9. CleanOrder(k)' /\ CleanCache(k)'
  BY <1>1 DEF CleanOrder, CleanCache
<1>10. CleanBlocks(k)'
  BY <1>1, <1>5 DEF CleanBlocks
<1>11. CleanStore(k)'
  BY <1>5 DEF CleanStore
<1> QED
  BY <1>6, <1>7, <1>8, <1>9, <1>10, <1>11 DEF Clean

LEMMA InitClean ==
    ASSUME Init, NEW k \in Key
    PROVE  Clean(k)
<1>1. PICK rows \in Genesis : InitStorage(rows)
  BY DEF Init
<1>2. /\ caches = [l \in Key |-> NoObj]
      /\ queue = <<>> /\ commit = IdleCommit /\ select = [r \in Reader |-> IdleReader]
      /\ backend = [rows |-> rows, num |-> 0, id |-> ID, ahead |-> [l \in Key |-> 0]]
      /\ blocks = <<rows>>
  BY <1>1 DEF InitStorage
<1>3. backend.num = 0 /\ backend.rows = rows /\ Len(blocks) = 1 /\ blocks[1] = rows
  BY <1>2
<1>4. InOrder(rows[k])
  <2>1. StorageInv
    BY InitStorageInv
  <2>2. backend.rows[k] \in Seq(Row)
    BY <2>1, StorageFacts DEF StorageInv
  <2>3. DOMAIN rows[k] = 1 .. Len(rows[k])
    BY <1>3, <2>2, RowFacts
  <2> QED
    BY <2>3, GenesisAssumption DEF InOrder
<1>5. backend.num \in Nat /\ Len(blocks) = backend.num + 1 /\ blocks[backend.num + 1] = rows
  BY <1>3
<1> QED
  BY <1>2, <1>3, <1>4, <1>5, FreshClean

\* What was flushed is what the blocks that are left say, unless it was flushed too early.
LEMMA RestartClean ==
    ASSUME Basis, NEW k \in Key, Clean(k), Restart, k \notin tainted'
    PROVE  Clean(k)'
<1>1. /\ Len(blocks') = backend.num + 1 /\ blocks'[backend.num + 1] = BlockOf(0)
      /\ tainted' = tainted \cup {l \in Key : backend.ahead[l] > backend.num} /\ backend' = backend
  BY RestartIs DEF Basis
<1>2. /\ caches' = [l \in Key |-> NoObj] /\ queue' = <<>> /\ commit' = IdleCommit
      /\ select' = [r \in Reader |-> IdleReader]
  BY DEF Restart
<1>3. backend.num \in Nat /\ backend.ahead[k] \in Nat /\ backend.ahead[k] <= backend.num
  <2>1. ~ (backend.ahead[k] > backend.num)
    BY <1>1
  <2>2. backend.num \in Nat /\ backend.ahead[k] \in Nat
    BY StorageFacts DEF Basis, StorageInv
  <2> DEFINE m == backend.num
             a == backend.ahead[k]
  <2>3. m \in Nat /\ a \in Nat /\ ~ (a > m)
    BY <2>1, <2>2
  <2> HIDE DEF m, a
  <2>4. a <= m
    BY <2>3
  <2> QED
    BY <2>2, <2>4 DEF a, m
<1>4. \A i \in Tasks : ~ (backend.num + i <= backend.ahead[k])
  <2> TAKE i \in Tasks
  <2> DEFINE m == backend.num
             a == backend.ahead[k]
  <2>1. m \in Nat /\ a \in Nat /\ a <= m /\ i \in Nat /\ i > 0
    BY <1>3, TaskFacts DEF Tasks
  <2> HIDE DEF m, a
  <2>2. ~ (m + i <= a)
    BY <2>1
  <2> QED
    BY <2>2 DEF m, a
<1>5. \A r \in Row : Has(backend.rows[k], r) <=> Has(BlockOf(0)[k], r)
  BY <1>4 DEF Clean, CleanStore
<1>6. InOrder(backend.rows[k])
  BY DEF Clean, CleanOrder
<1> QED
  BY <1>1, <1>2, <1>3, <1>5, <1>6, FreshNextClean

-----------------------------------------------------------------------------
(* What a select shows between two commits.                                *)

LEMMA ShownClean ==
    ASSUME Basis, NEW k \in Key, Clean(k), commit.pc \in {"idle", "wait"}
    PROVE  Shown(k) = Committed[k] /\ Committed[k] \in Seq(Row)
<1>1. Committed[k] \in Seq(Row) /\ InOrder(Committed[k]) /\ NoneRemoved(Committed[k])
  <2>1. Committed = BlockOf(Len(queue)) /\ Len(queue) \in 0 .. Len(queue)
    BY CommittedFacts DEF Basis
  <2> QED
    BY <2>1, CommittedFacts DEF Basis, Sound
<1>2. commit.data[k] = NoWrites
  <2>1. commit.data = NoData
    BY DEF Basis, StorageInv, CommitType
  <2> QED
    BY <2>1, NoWritesFacts
<1>3. \A r \in Row : Shows(Committed[k], commit.data[k], r) <=> Has(Committed[k], r)
  <2>1. NoWrites \in Writes /\ NoWrites.dirty = <<>> /\ NoWrites.new = <<>>
    BY NoWritesFacts
  <2>2. ~ Writing(NoWrites)
    BY <2>1 DEF Writing
  <2> QED
    BY <1>2, <2>1, <2>2, QuietFacts
<1>4. CASE caches[k] = NoObj \/ obj[caches[k]].empty
  <2>1. Shown(k) = Load(k)
    BY <1>4 DEF Shown
  <2>2. /\ InOrder(Load(k)) /\ Load(k) \in Seq(Row) /\ NoneRemoved(Load(k))
        /\ \A r \in Row : Has(Load(k), r) <=> Has(Committed[k], r)
    BY <1>3, <1>4, LoadClean
  <2> QED
    BY <1>1, <2>1, <2>2, SameRows
<1>5. CASE ~ (caches[k] = NoObj \/ obj[caches[k]].empty)
  <2>1. Shown(k) = Normal(obj[caches[k]].rows)
    BY <1>5 DEF Shown
  <2>2. obj[caches[k]].rows \in Seq(Row)
    BY <1>5, StorageFacts DEF Basis, StorageInv
  <2>3. /\ InOrder(obj[caches[k]].rows)
        /\ \A r \in Row : Has(obj[caches[k]].rows, r) <=> Has(Committed[k], r)
    BY <1>3, <1>5 DEF Clean, CleanOrder, CleanCache
  <2> QED
    BY <1>1, <2>1, <2>2, <2>3, SameNormal
<1> QED
  BY <1>1, <1>4, <1>5

LEMMA SelectedClean ==
    ASSUME Basis, NEW r \in Reader, select[r] # IdleReader, commit.pc \in {"idle", "wait"},
           NEW k \in Key, k = select[r].key, Clean(k)
    PROVE  Selected(r) = Committed[k] /\ Committed[k] \in Seq(Row)
<1>1. select[r] = [key |-> k, obj |-> select[r].obj] /\ select[r].obj \in Obj
  BY LoadedFacts DEF Basis
<1>2. Uses(select[r].obj, k)
  BY <1>1 DEF Uses
<1>3. caches[k] = select[r].obj /\ caches[k] # NoObj
  BY <1>1, <1>2, StorageFacts DEF Clean, CleanUse, Basis, StorageInv
<1>4. Selected(r) = Shown(k)
  BY <1>3 DEF Selected, Shown
<1> QED
  BY <1>4, ShownClean

-----------------------------------------------------------------------------
(* The table of the block that is executed.                                *)

CleanTable(k) ==
    /\ \A id \in DOMAIN table.dirty : table.dirty[id].key = k => HasId(Committed[k], id)
    /\ \A i \in DOMAIN table.fresh[k] : table.fresh[k][i].force => Committed[k] = <<>>

LEMMA EmptyCleanTable ==
    ASSUME NEW k \in Key, table' = EmptyTable
    PROVE  CleanTable(k)'
<1>1. DOMAIN table'.dirty = {} /\ DOMAIN table'.fresh[k] = {}
  BY EmptyTableFacts
<1> QED
  BY <1>1 DEF CleanTable

LEMMA SameCleanTable ==
    ASSUME NEW k \in Key, CleanTable(k), UNCHANGED table, Committed' = Committed
    PROVE  CleanTable(k)'
BY DEF CleanTable

LEMMA InsertCleanTable ==
    ASSUME TableInv, NEW k \in Key, CleanTable(k), NEW l \in Key, NEW v \in Value,
           NEW force \in BOOLEAN, Insert(l, v, force), UNCHANGED blocks,
           force /\ k = l => Committed[k] = <<>>
    PROVE  CleanTable(k)'
<1>1. Committed' = Committed
  BY DEF Committed
<1> DEFINE x == Inserted(v, force)
<1>2. /\ x \in Fresh /\ table'.dirty = table.dirty
      /\ table'.fresh[k] = IF k = l THEN Append(table.fresh[l], x) ELSE table.fresh[k]
  BY InsertFacts
<1>3. x.force = force
  BY DEF Inserted
<1>4. /\ table.fresh[k] \in Seq(Fresh) /\ DOMAIN table.fresh[k] = 1 .. Len(table.fresh[k])
  BY TableFacts DEF TableInv
<1> HIDE DEF x
<1>5. ASSUME NEW i \in DOMAIN table'.fresh[k], table'.fresh[k][i].force PROVE Committed[k] = <<>>
  <2>1. CASE k # l
    BY <1>2, <1>5, <2>1 DEF CleanTable
  <2>2. CASE k = l
    <3>1. table'.fresh[k] = Append(table.fresh[k], x)
      BY <1>2, <2>2
    <3>2. /\ Len(table'.fresh[k]) = Len(table.fresh[k]) + 1 /\ Len(table.fresh[k]) \in Nat
          /\ \A j \in 1 .. Len(table.fresh[k]) : table'.fresh[k][j] = table.fresh[k][j]
          /\ table'.fresh[k][Len(table.fresh[k]) + 1] = x
          /\ table'.fresh[k] \in Seq(Fresh)
      BY <1>2, <1>4, <3>1, AppendFacts
    <3>3. i \in 1 .. Len(table.fresh[k]) \/ i = Len(table.fresh[k]) + 1
      BY <3>2
    <3> QED
      BY <1>3, <1>4, <1>5, <2>2, <3>2, <3>3 DEF CleanTable
  <2> QED
    BY <2>1, <2>2
<1> QED
  BY <1>1, <1>2, <1>5 DEF CleanTable

LEMMA ChangedKeeps ==
    ASSUME NEW kind \in {"Update", "Remove"}, NEW v
    PROVE  /\ \A r \in Old : changed(kind, r, v).key = r.key
           /\ \A r \in Fresh : changed(kind, r, v).force = r.force
<1>1. ASSUME NEW r \in Old PROVE changed(kind, r, v).key = r.key
  BY DEF changed, Old
<1>2. ASSUME NEW r \in Fresh PROVE changed(kind, r, v).force = r.force
  <2>1. DOMAIN r = {"val", "removed", "deleted", "force"}
    BY DEF Fresh
  <2>2. [r EXCEPT !.val = v].force = r.force /\ [r EXCEPT !.removed = TRUE].force = r.force
    BY <2>1, Zenon
  <2> QED
    BY <2>2 DEF changed
<1> QED
  BY <1>1, <1>2

\* The rows of the storage that a change finds are committed ones.
LEMMA ChangeCleanTable ==
    ASSUME Basis, TableInv, NEW k \in Key, CleanTable(k), Clean(k),
           NEW kind \in {"Update", "Remove"}, NEW condition, NEW v,
           kind = "Update" => v \in Value, Change(kind, condition, v)
    PROVE  CleanTable(k)'
<1> DEFINE l == select[Executor].key
           db == dbEntries(condition)
           new == newEntries(condition)
<1>1. /\ l \in Key /\ select[Executor] # IdleReader /\ commit.pc = "idle"
      /\ table' \in Table /\ DOMAIN table'.dirty = DOMAIN db \cup DOMAIN table.dirty
      /\ \A id \in DOMAIN table'.dirty : table'.dirty[id] =
            IF id \in DOMAIN db THEN changed(kind, db[id], v) ELSE table.dirty[id]
      /\ DOMAIN table'.fresh[k] = DOMAIN table.fresh[k]
      /\ \A i \in DOMAIN table.fresh[k] : table'.fresh[k][i] =
            IF k = l /\ i \in new THEN changed(kind, table.fresh[k][i], v)
            ELSE table.fresh[k][i]
      /\ SelectRows(Executor)
  <2>1. StorageInv
    BY DEF Basis
  <2>2. /\ l \in Key /\ select[Executor] # IdleReader /\ commit.pc = "idle"
        /\ table' \in Table /\ SelectRows(Executor)
        /\ \E c \in Logged : ChangedRows(kind, v, l, db, new, c)
    BY <2>1, ChangeIs
  <2> HIDE DEF db, new, l
  <2>3. PICK c \in Logged : ChangedRows(kind, v, l, db, new, c)
    BY <2>2
  <2> QED
    BY <2>2, <2>3 DEF ChangedRows
<1>2. /\ db \in [DOMAIN db -> Old]
      /\ \A id \in DOMAIN db :
            /\ id \in DOMAIN table.dirty => db[id] = table.dirty[id]
            /\ id \notin DOMAIN table.dirty =>
                  \E r \in Row : /\ r \in Range(Selected(Executor)) /\ r.id = id
                                 /\ db[id] = [key |-> l, val |-> r.val, removed |-> FALSE]
  BY <1>1, FoundFacts DEF Basis
<1>3. Committed' = Committed
  BY <1>1 DEF SelectRows, Committed
<1> HIDE DEF db, new, l
<1>4. ASSUME NEW id \in DOMAIN table'.dirty, table'.dirty[id].key = k
      PROVE  HasId(Committed[k], id)
  <2>1. CASE id \in DOMAIN table.dirty
    <3>1. table'.dirty[id].key = table.dirty[id].key
      <4>1. CASE id \in DOMAIN db
        <5>1. table'.dirty[id] = changed(kind, table.dirty[id], v) /\ table.dirty[id] \in Old
          BY <1>1, <1>2, <2>1, <4>1
        <5> QED
          BY <5>1, ChangedKeeps
      <4>2. CASE id \notin DOMAIN db
        BY <1>1, <4>2
      <4> QED
        BY <4>1, <4>2
    <3> QED
      BY <1>4, <2>1, <3>1 DEF CleanTable
  <2>2. CASE id \notin DOMAIN table.dirty
    <3>1. id \in DOMAIN db
      BY <1>1, <2>2
    <3>2. PICK r \in Row : /\ r \in Range(Selected(Executor)) /\ r.id = id
                           /\ db[id] = [key |-> l, val |-> r.val, removed |-> FALSE]
      BY <1>2, <2>2, <3>1
    <3>10. db[id].key = l
      BY <3>2
    <3>3. table'.dirty[id] = changed(kind, db[id], v) /\ db[id] \in Old /\ db[id].key = l
      BY <1>1, <1>2, <3>1, <3>10
    <3>4. l = k
      BY <1>4, <3>3, ChangedKeeps
    <3>5. Selected(Executor) = Committed[k] /\ Committed[k] \in Seq(Row)
      BY <1>1, <3>4, ExecutorAssumption, SelectedClean DEF l
    <3>6. \E i \in 1 .. Len(Committed[k]) : Committed[k][i] = r
      BY <3>2, <3>5, RowFacts DEF Range
    <3> QED
      BY <3>2, <3>6 DEF HasId
  <2> QED
    BY <2>1, <2>2
<1>5. ASSUME NEW i \in DOMAIN table'.fresh[k], table'.fresh[k][i].force PROVE Committed[k] = <<>>
  <2>1. i \in DOMAIN table.fresh[k] /\ table.fresh[k][i] \in Fresh
    BY <1>1, TableFacts DEF TableInv
  <2>2. table'.fresh[k][i].force = table.fresh[k][i].force
    BY <1>1, <2>1, ChangedKeeps
  <2> QED
    BY <1>5, <2>1, <2>2 DEF CleanTable
<1> QED
  BY <1>3, <1>4, <1>5 DEF CleanTable

\* Undoing leaves the keys of the rows and who forced them.
SameKeys(u, t) ==
    /\ \A id \in DOMAIN t.dirty : u.dirty[id].key = t.dirty[id].key
    /\ \A k \in Key : \A i \in DOMAIN t.fresh[k] : u.fresh[k][i].force = t.fresh[k][i].force

LEMMA UndoneKeeps ==
    ASSUME NEW kind \in {"Insert", "Update", "Remove"}, NEW v \in Value
    PROVE  /\ \A r \in Old : kind # "Insert" => undo(kind, r, v).key = r.key
           /\ \A r \in Fresh : undo(kind, r, v).force = r.force
<1>1. ASSUME NEW r \in Old, kind # "Insert" PROVE undo(kind, r, v).key = r.key
  <2>1. kind \in {"Update", "Remove"}
    BY <1>1
  <2> QED
    BY <2>1, UndoneOld
<1>2. ASSUME NEW r \in Fresh PROVE undo(kind, r, v).force = r.force
  BY UndoneFresh
<1> QED
  BY <1>1, <1>2

LEMMA UndoKeys ==
    ASSUME NEW t \in Table, NEW u \in Like(t), SameKeys(u, t), NEW c \in Logged
    PROVE  SameKeys(Undo(c, u), t)
<1>1. /\ u \in Table /\ DOMAIN u.dirty = DOMAIN t.dirty
      /\ \A k \in Key : DOMAIN u.fresh[k] = DOMAIN t.fresh[k]
  BY DEF Like
<1>2. /\ \A id \in DOMAIN u.dirty : Undo(c, u).dirty[id] =
            IF id \in DOMAIN c.ids THEN undo(c.kind, u.dirty[id], c.ids[id]) ELSE u.dirty[id]
      /\ \A k \in Key : \A i \in DOMAIN u.fresh[k] : Undo(c, u).fresh[k][i] =
            IF k = c.key /\ i \in DOMAIN c.at THEN undo(c.kind, u.fresh[k][i], c.at[i])
            ELSE u.fresh[k][i]
  BY <1>1, UndoFacts
<1>3. ASSUME NEW id \in DOMAIN t.dirty PROVE Undo(c, u).dirty[id].key = t.dirty[id].key
  <2>1. u.dirty[id] \in Old /\ u.dirty[id].key = t.dirty[id].key
    BY <1>1, TableFacts DEF SameKeys
  <2>2. CASE id \in DOMAIN c.ids
    <3>1. c.kind \in {"Update", "Remove"} /\ c.ids[id] \in Value
      BY <2>2, LoggedFacts
    <3>2. undo(c.kind, u.dirty[id], c.ids[id]).key = u.dirty[id].key
      <4>1. c.kind \in {"Insert", "Update", "Remove"} /\ c.kind # "Insert"
        BY <3>1
      <4> QED
        BY <2>1, <3>1, <4>1, UndoneKeeps
    <3> QED
      BY <1>1, <1>2, <2>1, <2>2, <3>2
  <2>3. CASE id \notin DOMAIN c.ids
    BY <1>1, <1>2, <2>1, <2>3
  <2> QED
    BY <2>2, <2>3
<1>4. ASSUME NEW k \in Key, NEW i \in DOMAIN t.fresh[k]
      PROVE  Undo(c, u).fresh[k][i].force = t.fresh[k][i].force
  <2>1. u.fresh[k][i] \in Fresh /\ u.fresh[k][i].force = t.fresh[k][i].force
    BY <1>1, TableFacts DEF SameKeys
  <2>2. CASE k = c.key /\ i \in DOMAIN c.at
    <3>1. c.kind \in {"Insert", "Update", "Remove"} /\ c.at[i] \in Value
      BY <2>2, LoggedFacts
    <3>2. undo(c.kind, u.fresh[k][i], c.at[i]).force = u.fresh[k][i].force
      BY <2>1, <3>1, UndoneKeeps
    <3> QED
      BY <1>1, <1>2, <2>1, <2>2, <3>2
  <2>3. CASE ~ (k = c.key /\ i \in DOMAIN c.at)
    BY <1>1, <1>2, <2>1, <2>3
  <2> QED
    BY <2>2, <2>3
<1> QED
  BY <1>3, <1>4 DEF SameKeys

LEMMA UndoneKeys ==
    ASSUME NEW t \in Table, NEW l \in Seq(Logged), NEW g, Undoes(g, t, l),
           g \in [0 .. Len(l) -> Like(t)]
    PROVE  \A i \in 0 .. Len(l) : SameKeys(g[i], t)
<1> DEFINE n == Len(l)
           D == {i \in Nat : i <= n => SameKeys(g[i], t)}
<1>1. n \in Nat /\ \A i \in 1 .. n : l[i] \in Logged
  OBVIOUS
<1>2. /\ g[0] = t /\ \A i \in 1 .. n : g[i] = Undo(l[n + 1 - i], g[i - 1])
      /\ g \in [0 .. n -> Like(t)]
  BY DEF Undoes
<1> HIDE DEF n
<1>3. 0 \in D
  BY <1>2 DEF SameKeys
<1>4. ASSUME NEW i \in Nat, i \in D PROVE i + 1 \in D
  <2> SUFFICES ASSUME i + 1 <= n PROVE SameKeys(g[i + 1], t)
    OBVIOUS
  <2>1. i + 1 \in 1 .. n /\ (i + 1) - 1 = i /\ i \in 0 .. n /\ n + 1 - (i + 1) \in 1 .. n
    BY <1>1
  <2>2. SameKeys(g[i], t) /\ g[i] \in Like(t)
    BY <1>1, <1>2, <1>4, <2>1
  <2>3. l[n + 1 - (i + 1)] \in Logged
    BY <1>1, <2>1
  <2>4. g[i + 1] = Undo(l[n + 1 - (i + 1)], g[i])
    BY <1>2, <2>1
  <2> QED
    BY <2>2, <2>3, <2>4, UndoKeys
<1> HIDE DEF D
<1>5. Nat \subseteq D
  BY <1>3, <1>4, Induction
<1> QED
  BY <1>1, <1>5 DEF D, n

LEMMA RollbackCleanTable ==
    ASSUME TableInv, NEW k \in Key, CleanTable(k), NEW sp \in Nat, rollback(sp)
    PROVE  CleanTable(k)'
<1>1. /\ sp < Len(log) /\ table' = rolledBack(sp) /\ UNCHANGED blocks
  BY DEF rollback, storage
<1>2. table \in Table /\ log \in Seq(Logged) /\ Len(log) \in Nat /\ sp \in 0 .. Len(log)
  BY <1>1 DEF TableInv
<1>3. PICK g : Undoes(g, table, log) /\ g \in [0 .. Len(log) -> Like(table)]
  BY <1>2, UndoneExists
<1>4. table' = g[Len(log) - sp] /\ Len(log) - sp \in 0 .. Len(log)
  BY <1>1, <1>2, <1>3, RolledBackIs
<1>5. table' \in Like(table) /\ SameKeys(table', table)
  BY <1>2, <1>3, <1>4, UndoneKeys
<1>6. Committed' = Committed
  BY <1>1 DEF Committed
<1> QED
  BY <1>5, <1>6 DEF CleanTable, Like, SameKeys

\* A caller that finds no row finds none of the last block.
LEMMA InsertForcedCleanTable ==
    ASSUME Basis, TableInv, NEW k \in Key, CleanTable(k), Clean(k), NEW v \in Value,
           insertForced(v)
    PROVE  CleanTable(k)'
<1> DEFINE l == select[Executor].key
<1>1. /\ select[Executor] # IdleReader /\ DOMAIN dbEntries(Value) = {}
      /\ Insert(l, v, TRUE) /\ SelectRows(Executor) /\ commit.pc = "idle"
  BY DEF insertForced, Insert, Executing
<1>2. l \in Key /\ UNCHANGED blocks
  BY <1>1, ExecutorAssumption, LoadedFacts DEF Basis, SelectRows
<1>3. ASSUME k = l PROVE Committed[k] = <<>>
  <2>1. Selected(Executor) = Committed[k] /\ Committed[k] \in Seq(Row)
    BY <1>1, <1>3, ExecutorAssumption, SelectedClean
  <2>2. \A r \in Range(Selected(Executor)) : ~ (r.val \in Value)
    BY <1>1 DEF dbEntries
  <2>3. \A i \in 1 .. Len(Committed[k]) :
        Committed[k][i] \in Range(Selected(Executor)) /\ Committed[k][i].val \in Value
    BY <2>1, RowFacts DEF Range
  <2>4. Len(Committed[k]) = 0
    <3>1. ~ (1 \in 1 .. Len(Committed[k])) /\ Len(Committed[k]) \in Nat
      BY <2>1, <2>2, <2>3
    <3> DEFINE m == Len(Committed[k])
    <3>2. ~ (1 \in 1 .. m) /\ m \in Nat
      BY <3>1
    <3> HIDE DEF m
    <3>3. m = 0
      BY <3>2
    <3> QED
      BY <3>3 DEF m
  <2> QED
    BY <2>1, <2>4
<1> HIDE DEF l
<1> QED
  BY <1>1, <1>2, <1>3, InsertCleanTable

-----------------------------------------------------------------------------
(* Every step.                                                             *)

CleanKey(k) == Clean(k) /\ CleanRows(k) /\ CleanTable(k)
CleanInv == \A k \in Key \ tainted : CleanKey(k)

LEMMA SameCleanRows ==
    ASSUME NEW k \in Key, CleanRows(k), UNCHANGED <<commit, blocks>>
    PROVE  CleanRows(k)'
BY DEF CleanRows, Committed

\* The commit has no row in its hands, and no other rows before it than it had.
LEMMA LessCleanRows ==
    ASSUME NEW k \in Key, CleanRows(k), commit'.pc \notin {"writeDirty", "writeNew"},
           commit'.dirty \subseteq commit.dirty, commit'.new \subseteq commit.new,
           UNCHANGED blocks \/ (commit'.dirty = {} /\ commit'.new = {})
    PROVE  CleanRows(k)'
<1>1. CASE UNCHANGED blocks
  BY <1>1 DEF CleanRows, Committed
<1>2. CASE commit'.dirty = {} /\ commit'.new = {}
  BY <1>2 DEF CleanRows
<1> QED
  BY <1>1, <1>2

LEMMA IdleCleanRows ==
    ASSUME NEW k \in Key, commit' = IdleCommit
    PROVE  CleanRows(k)'
<1>1. commit'.pc = "idle" /\ commit'.dirty = {} /\ commit'.new = {}
  BY DEF IdleCommit
<1> QED
  BY <1>1 DEF CleanRows

LEMMA DumpCleanRows ==
    ASSUME TableInv, NEW k \in Key, CleanTable(k), StartCommit(dumpDirty, dumpNew)
    PROVE  CleanRows(k)'
<1>1. /\ commit' = [IdleCommit EXCEPT !.pc = "touch", !.dirty = dumpDirty, !.new = dumpNew]
      /\ UNCHANGED blocks
  BY DEF StartCommit
<1>2. commit'.pc = "touch" /\ commit'.dirty = dumpDirty /\ commit'.new = dumpNew
  BY <1>1 DEF IdleCommit
<1>3. ASSUME NEW w \in dumpDirty, w.key = k PROVE HasId(Committed[k], w.row.id)
  <2>1. PICK id \in DOMAIN table.dirty :
           w = [key |-> table.dirty[id].key,
                row |-> row(id, table.dirty[id].val, table.dirty[id].removed)]
    BY DEF dumpDirty
  <2>2. w.key = table.dirty[id].key /\ w.row.id = id
    BY <2>1 DEF row
  <2> QED
    BY <1>3, <2>2 DEF CleanTable
<1>4. ASSUME NEW w \in dumpNew, w.key = k, w.force PROVE Committed[k] = <<>>
  <2>0. PICK l \in Key : \E i \in DOMAIN table.fresh[l] :
           w = [key |-> l, at |-> i, force |-> table.fresh[l][i].force,
                row |-> row(0, table.fresh[l][i].val, table.fresh[l][i].removed)]
    BY DEF dumpNew
  <2>1. PICK i \in DOMAIN table.fresh[l] :
           w = [key |-> l, at |-> i, force |-> table.fresh[l][i].force,
                row |-> row(0, table.fresh[l][i].val, table.fresh[l][i].removed)]
    BY <2>0
  <2>2. w.key = l
    BY <2>1
  <2>3. table.fresh[l][i].force
    <3>1. w.force = table.fresh[l][i].force
      BY <2>1
    <3> QED
      BY <1>4, <3>1
  <2> QED
    BY <1>4, <2>2, <2>3 DEF CleanTable
<1> QED
  BY <1>1, <1>2, <1>3, <1>4 DEF CleanRows, Committed

LEMMA TouchCleanRows ==
    ASSUME StorageInv, NEW k \in Key, CleanRows(k), NEW w \in commit.dirty \cup commit.new,
           TouchRow(w)
    PROVE  CleanRows(k)'
<1> DEFINE new == commit.dirty = {}
<1>1. /\ w \in IF new THEN commit.new ELSE commit.dirty
      /\ commit' = [commit EXCEPT !.pc = IF new THEN "writeNew" ELSE "writeDirty",
                                  !.dirty = commit.dirty \ {w},
                                  !.new = IF new THEN commit.new \ {w} ELSE commit.new,
                                  !.write = w, !.obj = touchCache(w.key)]
      /\ UNCHANGED blocks
  BY DEF TouchRow
<1>2. DOMAIN commit = {"pc", "dirty", "new", "write", "obj", "data"}
  BY CommitFacts DEF StorageInv
<1>3. /\ commit'.pc = IF new THEN "writeNew" ELSE "writeDirty"
      /\ commit'.dirty \subseteq commit.dirty /\ commit'.new \subseteq commit.new
      /\ commit'.write = w
  BY <1>1, <1>2
<1>4. CASE new
  BY <1>1, <1>3, <1>4 DEF CleanRows, Committed
<1>5. CASE ~ new
  BY <1>1, <1>3, <1>5 DEF CleanRows, Committed
<1> QED
  BY <1>4, <1>5

LEMMA ExitRows ==
    ASSUME StorageInv, Exit
    PROVE  commit'.pc = "exit" /\ commit'.dirty = commit.dirty /\ commit'.new = commit.new
<1>1. DOMAIN commit = {"pc", "dirty", "new", "write", "obj", "data"}
  BY CommitFacts DEF StorageInv
<1> QED
  BY <1>1 DEF Exit

LEMMA WrittenRows ==
    ASSUME StorageInv, NEW rows, NEW data, NEW restore, Written(rows, data, restore)
    PROVE  commit'.pc = "touch" /\ commit'.dirty = commit.dirty /\ commit'.new = commit.new
<1>1. DOMAIN commit = {"pc", "dirty", "new", "write", "obj", "data"}
  BY CommitFacts DEF StorageInv
<1>2. commit' = [commit EXCEPT !.pc = "touch", !.write = None, !.obj = NoObj, !.data = data]
  BY DEF Written
<1> QED
  BY <1>1, <1>2

LEMMA WriteRows ==
    ASSUME StorageInv, NEW k \in Key, CleanRows(k), WriteDirty \/ WriteNew
    PROVE  CleanRows(k)'
<1>1. CASE WriteDirty
  <2>1. /\ Exit \/ Written(DirtyRows, DirtyData, Restoring)
        /\ UNCHANGED blocks
    BY <1>1, WriteDirtyIs
  <2>2. commit'.pc \in {"exit", "touch"} /\ commit'.dirty = commit.dirty /\ commit'.new = commit.new
    BY <2>1, ExitRows, WrittenRows
  <2> QED
    BY <2>1, <2>2, LessCleanRows
<1>2. CASE WriteNew
  <2>1. /\ Exit \/ Written(Append(NewBase, NewRow), NewData, NewLoads)
        /\ UNCHANGED blocks
    BY <1>2, WriteNewIs
  <2>2. commit'.pc \in {"exit", "touch"} /\ commit'.dirty = commit.dirty /\ commit'.new = commit.new
    BY <2>1, ExitRows, WrittenRows
  <2> QED
    BY <2>1, <2>2, LessCleanRows
<1> QED
  BY <1>1, <1>2

LEMMA SubmitRows ==
    ASSUME Basis, NEW k \in Key, SubmitTask
    PROVE  CleanRows(k)'
<1>1. commit' = [pc |-> "wait", dirty |-> {}, new |-> {}, write |-> None, obj |-> NoObj,
                 data |-> NoData]
  BY SubmitFacts DEF Basis
<1>2. commit'.pc = "wait" /\ commit'.dirty = {} /\ commit'.new = {}
  BY <1>1
<1> QED
  BY <1>2 DEF CleanRows

\* The storage does nothing.
LEMMA StorageCleanSame ==
    ASSUME Basis, NEW k \in Key, Clean(k), CleanRows(k), UNCHANGED storage
    PROVE  Clean(k)' /\ CleanRows(k)' /\ Committed' = Committed
<1>1. UNCHANGED <<queue, backend, blocks, caches, obj, select, commit>>
  BY DEF storage
<1>2. \A x \in Obj : Uses(x, k)' => Uses(x, k)
  BY <1>1 DEF Uses
<1>3. Clean(k)'
  BY <1>1, <1>2, SameClean
<1> QED
  BY <1>1, <1>3, SameCleanRows DEF Committed

LEMMA ExecuteClean ==
    ASSUME BasicInv, NEW k \in Key, CleanKey(k), Execute
    PROVE  CleanKey(k)'
<1>0. Basis /\ StorageInv /\ TableInv /\ Clean(k) /\ CleanRows(k) /\ CleanTable(k)
  BY DEF BasicInv, Basis, CleanKey
<1>1. ASSUME NEW l \in Key, NEW v \in Value, insert(l, v) PROVE CleanKey(k)'
  <2>1. Insert(l, v, FALSE) /\ UNCHANGED storage /\ UNCHANGED blocks
    BY <1>1 DEF insert, storage
  <2> QED
    BY <1>0, <2>1, StorageCleanSame, InsertCleanTable DEF CleanKey
<1>2. ASSUME NEW v \in Value, insertForced(v) PROVE CleanKey(k)'
  <2>1. SelectRows(Executor) /\ UNCHANGED <<commit, blocks>>
    BY <1>2 DEF insertForced, SelectRows
  <2>2. Clean(k)'
    BY <1>0, <2>1, ExecutorAssumption, SelectRowsClean
  <2> QED
    BY <1>0, <1>2, <2>1, <2>2, SameCleanRows, InsertForcedCleanTable DEF CleanKey
<1>3. ASSUME NEW kind \in {"Update", "Remove"}, NEW c, NEW v, kind = "Update" => v \in Value,
             Change(kind, c, v)
      PROVE  CleanKey(k)'
  <2>1. SelectRows(Executor)
    BY <1>3 DEF Change
  <2>2. UNCHANGED <<commit, blocks>>
    BY <2>1 DEF SelectRows
  <2>3. Clean(k)'
    BY <1>0, <2>1, ExecutorAssumption, SelectRowsClean
  <2>4. CleanTable(k)'
    BY <1>0, <1>3, ChangeCleanTable
  <2> QED
    BY <1>0, <2>2, <2>3, <2>4, SameCleanRows DEF CleanKey
<1>4. ASSUME NEW n \in 0 .. MaxOps, rollback(n) PROVE CleanKey(k)'
  <2>1. UNCHANGED storage /\ n \in Nat
    BY <1>4, MaxOpsAssumption DEF rollback
  <2> QED
    BY <1>0, <1>4, <2>1, StorageCleanSame, RollbackCleanTable DEF CleanKey
<1>5. CASE commitTransaction
  <2>1. UNCHANGED storage /\ UNCHANGED table
    BY <1>5 DEF commitTransaction
  <2> QED
    BY <1>0, <2>1, StorageCleanSame, SameCleanTable DEF CleanKey
<1>6. CASE DropBlock
  <2>1. UNCHANGED storage /\ table' = EmptyTable
    BY <1>6 DEF DropBlock
  <2> QED
    BY <1>0, <2>1, StorageCleanSame, EmptyCleanTable DEF CleanKey
<1>7. CASE commitDB
  <2>1. StartCommit(dumpDirty, dumpNew) /\ table' = EmptyTable
    BY <1>7 DEF commitDB
  <2> QED
    BY <1>0, <2>1, StartCommitClean, DumpCleanRows, EmptyCleanTable DEF CleanKey
<1>8. ASSUME NEW c \in Conditions, NEW v \in Value, update(c, v) PROVE CleanKey(k)'
  BY <1>3, <1>8 DEF update
<1>9. ASSUME NEW c \in Conditions, remove(c) PROVE CleanKey(k)'
  BY <1>3, <1>9 DEF remove
<1> QED
  BY <1>1, <1>2, <1>4, <1>5, <1>6, <1>7, <1>8, <1>9 DEF Execute

LEMMA StorageClean ==
    ASSUME BasicInv, NEW k \in Key, CleanKey(k), Storage, UNCHANGED <<table, log, ops>>,
           k \notin tainted'
    PROVE  CleanKey(k)'
<1>0. Basis /\ StorageInv /\ TableInv /\ Clean(k) /\ CleanRows(k) /\ CleanTable(k)
  BY DEF BasicInv, Basis, CleanKey
<1>1. UNCHANGED blocks => CleanTable(k)'
  BY <1>0, SameCleanTable DEF Committed
<1>2. CASE WriteDirty
  <2>1. UNCHANGED blocks
    BY <1>2, WriteDirtyIs
  <2> QED
    BY <1>0, <1>1, <1>2, <2>1, WriteDirtyClean, WriteRows DEF CleanKey
<1>3. CASE WriteNew
  <2>1. UNCHANGED blocks
    BY <1>3, WriteNewIs
  <2> QED
    BY <1>0, <1>1, <1>3, <2>1, WriteNewClean, WriteRows DEF CleanKey
<1>4. CASE SubmitTask
  <2>1. commit.pc = "touch"
    BY <1>4 DEF SubmitTask
  <2>2. table' = EmptyTable
    BY <1>0, <2>1 DEF TableInv
  <2> QED
    BY <1>0, <1>4, <2>2, SubmitClean, SubmitRows, EmptyCleanTable DEF CleanKey
<1>5. CASE CommitReturns
  <2>1. UNCHANGED blocks /\ commit' = IdleCommit
    BY <1>5 DEF CommitReturns
  <2> QED
    BY <1>0, <1>1, <1>5, <2>1, ReturnsClean, IdleCleanRows DEF CleanKey
<1>6. ASSUME NEW w \in commit.dirty \cup commit.new, TouchRow(w) PROVE CleanKey(k)'
  <2>1. UNCHANGED blocks
    BY <1>6 DEF TouchRow
  <2> QED
    BY <1>0, <1>1, <1>6, <2>1, TouchRowClean, TouchCleanRows DEF CleanKey
<1>7. ASSUME NEW r \in Reader, SelectRows(r) PROVE CleanKey(k)'
  <2>1. UNCHANGED <<commit, blocks>>
    BY <1>7 DEF SelectRows
  <2> QED
    BY <1>0, <1>1, <1>7, <2>1, SelectRowsClean, SameCleanRows DEF CleanKey
<1>8. ASSUME NEW r \in Reader, NEW l \in Key, SelectTouch(r, l) PROVE CleanKey(k)'
  <2>1. UNCHANGED <<commit, blocks>>
    BY <1>8 DEF SelectTouch
  <2> QED
    BY <1>0, <1>1, <1>8, <2>1, SelectTouchClean, SameCleanRows DEF CleanKey
<1>9. CASE commitBackend
  <2>1. UNCHANGED <<commit, blocks>>
    BY <1>9 DEF commitBackend
  <2> QED
    BY <1>0, <1>1, <1>9, <2>1, FlushClean, SameCleanRows DEF CleanKey
<1>10. ASSUME NEW l \in Key, checkAndClear(l) PROVE CleanKey(k)'
  <2>1. UNCHANGED <<commit, blocks>>
    BY <1>10 DEF checkAndClear
  <2> QED
    BY <1>0, <1>1, <1>10, <2>1, ClearClean, SameCleanRows DEF CleanKey
<1> QED
  BY <1>2, <1>3, <1>4, <1>5, <1>6, <1>7, <1>8, <1>9, <1>10, ExecutorAssumption
     DEF Storage, Commit, Select

LEMMA EndClean ==
    ASSUME BasicInv, NEW k \in Key, CleanKey(k), End, k \notin tainted'
    PROVE  CleanKey(k)'
<1>1. Restart /\ table' = EmptyTable
  BY DEF End
<1>2. commit' = IdleCommit
  BY <1>1 DEF Restart
<1>3. Clean(k)'
  BY <1>1, RestartClean DEF BasicInv, Basis, CleanKey
<1> QED
  BY <1>1, <1>2, <1>3, IdleCleanRows, EmptyCleanTable DEF CleanKey

\* A tainted key stays tainted.
LEMMA TaintedGrows == [Next]_vars => tainted \subseteq tainted'
<1> SUFFICES ASSUME [Next]_vars PROVE tainted \subseteq tainted'
  OBVIOUS
<1>1. CASE UNCHANGED vars
  BY <1>1 DEF vars, storage
<1>2. CASE Execute
  <2>1. \A k, v : insert(k, v) => UNCHANGED tainted
    BY DEF insert, storage
  <2>2. \A r : SelectRows(r) => UNCHANGED tainted
    BY DEF SelectRows
  <2> QED
    BY <1>2, <2>1, <2>2 DEF Execute, insertForced, update, remove, Change, rollback,
       commitTransaction, DropBlock, commitDB, StartCommit, storage
<1>3. CASE Storage
  BY <1>3 DEF Storage, Commit, Select, WriteDirty, WriteNew, SubmitTask, CommitReturns, TouchRow,
     SelectRows, SelectTouch, commitBackend, checkAndClear
<1>4. CASE End
  BY <1>4 DEF End, Restart
<1> QED
  BY <1>1, <1>2, <1>3, <1>4 DEF Next

LEMMA CleanNext == BasicInv /\ CleanInv /\ [Next]_vars => CleanInv'
<1> SUFFICES ASSUME BasicInv, CleanInv, [Next]_vars, NEW k \in Key, k \notin tainted'
             PROVE  CleanKey(k)'
  BY DEF CleanInv
<1>1. CleanKey(k)
  BY TaintedGrows DEF CleanInv
<1>2. CASE UNCHANGED vars
  <2>1. UNCHANGED storage /\ UNCHANGED table
    BY <1>2 DEF vars
  <2> QED
    BY <1>1, <2>1, StorageCleanSame, SameCleanTable DEF CleanKey, BasicInv, Basis
<1>3. CASE Execute
  BY <1>1, <1>3, ExecuteClean
<1>4. CASE Storage /\ UNCHANGED <<table, log, ops>>
  BY <1>1, <1>4, StorageClean
<1>5. CASE End
  BY <1>1, <1>5, EndClean
<1> QED
  BY <1>2, <1>3, <1>4, <1>5 DEF Next

LEMMA CleanInit == Init => CleanInv
<1> SUFFICES ASSUME Init, NEW k \in Key PROVE CleanKey(k)
  BY DEF CleanInv
<1>1. commit = IdleCommit /\ table = EmptyTable
  BY DEF Init, InitStorage
<1>2. commit.pc = "idle" /\ commit.dirty = {} /\ commit.new = {}
  BY <1>1 DEF IdleCommit
<1>3. DOMAIN table.dirty = {} /\ DOMAIN table.fresh[k] = {}
  BY <1>1, EmptyTableFacts
<1> QED
  BY <1>2, <1>3, InitClean DEF CleanKey, CleanRows, CleanTable

(***************************************************************************)
(* Between two commits CachedStorage::select shows the rows of the last    *)
(* committed block, from the cache or from the backend, whatever was       *)
(* flushed, cleared, loaded again or lost with the process; but for the    *)
(* keys that one of the three known races and crashes has reached.         *)
(***************************************************************************)
THEOREM SelectsShowCommitted == Spec => []SelectsCommittedUnlessTainted
<1>1. BasicInv /\ CleanInv => SelectsCommittedUnlessTainted
  BY ShownClean DEF SelectsCommittedUnlessTainted, BasicInv, Basis, CleanInv, CleanKey
<1> QED
  BY <1>1, BasicInit, BasicNext, CleanInit, CleanNext, PTL DEF Spec

(***************************************************************************)
(* The rows of a key that is not tainted are in the order of their ids in  *)
(* the cache and on disk, and no id comes twice or is still to be given    *)
(* out: the binary search of CachedStorage::commit finds the row a block   *)
(* changes, also after a restart took m_ID from the store.  Of a key of    *)
(* which one block changed two rows the code does write an id twice        *)
(* (CachedStorage.cpp:308-324); such keys are tainted and left out.        *)
(***************************************************************************)
THEOREM UntaintedRowsStayInOrder == Spec => []RowsInIdOrderUnlessTainted
<1>1. ASSUME BasicInv, CleanInv PROVE RowsInIdOrderUnlessTainted
  <2>1. ASSUME NEW s \in Seq(Row), InOrder(s), NEW n \in Nat, Below(s, n), n <= ID
        PROVE  /\ \A i, j \in DOMAIN s : i < j => s[i].id < s[j].id
               /\ \A i \in DOMAIN s : s[i].id <= ID
    <3>1. DOMAIN s = 1 .. Len(s) /\ \A i \in DOMAIN s : s[i].id \in Nat
      BY RowFacts
    <3>2. ID \in Nat
      BY <1>1, IdFacts DEF BasicInv
    <3> QED
      BY <2>1, <3>1, <3>2 DEF InOrder, Below
  <2>2. ASSUME NEW k \in Key \ tainted
        PROVE  /\ backend.rows[k] \in Seq(Row) /\ InOrder(backend.rows[k])
               /\ Below(backend.rows[k], backend.id)
               /\ caches[k] # NoObj =>
                     /\ obj[caches[k]].rows \in Seq(Row) /\ InOrder(obj[caches[k]].rows)
                     /\ Below(obj[caches[k]].rows, Limit)
    <3>1. CleanOrder(k)
      BY <1>1 DEF CleanInv, CleanKey, Clean
    <3> QED
      BY <1>1, <3>1, StorageFacts DEF CleanOrder, BasicInv, StorageInv, StoreFit, ObjFit
  <2>3. /\ backend.id \in Nat /\ backend.id <= ID /\ Limit \in Nat /\ Limit <= ID
    <3>1. /\ LastId \in Nat /\ Limit \in Nat /\ ID \in Nat /\ LastId <= Limit /\ Limit <= ID
          /\ backend.id <= LastId
      BY <1>1, IdFacts DEF BasicInv
    <3>2. backend.id \in Nat
      BY <1>1, StorageFacts DEF BasicInv, StorageInv
    <3> DEFINE b == backend.id
    <3>3. b \in Nat /\ b <= LastId
      BY <3>1, <3>2
    <3> HIDE DEF b
    <3>4. b <= ID
      BY <3>1, <3>3
    <3> QED
      BY <3>1, <3>2, <3>4 DEF b
  <2> QED
    BY <2>1, <2>2, <2>3 DEF RowsInIdOrderUnlessTainted
<1> QED
  BY <1>1, BasicInit, BasicNext, CleanInit, CleanNext, PTL DEF Spec

-----------------------------------------------------------------------------
(* What a rollback restores.                                               *)

\* A row of the block, and one of the storage, is as before.
LEMMA FreshBefore ==
    ASSUME NEW r \in Fresh, NEW old \in Fresh
    PROVE  AsBefore(r, old) <=> /\ r.val = old.val /\ r.deleted = old.deleted
                                /\ r.force = old.force /\ (r.removed => old.removed)
<1> DEFINE q == [old EXCEPT !.removed = FALSE]
<1>1. /\ q \in Fresh /\ q.val = old.val /\ q.deleted = old.deleted /\ q.force = old.force
      /\ q.removed = FALSE
  BY Zenon DEF Fresh
<1>2. \A s, t \in Fresh : s.val = t.val /\ s.removed = t.removed /\ s.deleted = t.deleted
                            /\ s.force = t.force => s = t
  BY DEF Fresh
<1>3. r.removed \in BOOLEAN /\ old.removed \in BOOLEAN
  BY DEF Fresh
<1>4. AsBefore(r, old) <=> r = old \/ r = q
  BY DEF AsBefore
<1> HIDE DEF q
<1>5. ASSUME r = old \/ r = q
      PROVE  r.val = old.val /\ r.deleted = old.deleted /\ r.force = old.force
             /\ (r.removed => old.removed)
  BY <1>1, <1>5
<1>6. ASSUME r.val = old.val, r.deleted = old.deleted, r.force = old.force, r.removed => old.removed
      PROVE  r = old \/ r = q
  <2>1. CASE r.removed = old.removed
    BY <1>2, <1>6, <2>1
  <2>2. CASE r.removed = FALSE
    <3>1. /\ r.val = q.val /\ r.deleted = q.deleted /\ r.force = q.force
          /\ r.removed = q.removed
      BY <1>1, <1>6, <2>2
    <3> QED
      BY <1>1, <1>2, <3>1
  <2> QED
    BY <1>3, <1>6, <2>1, <2>2
<1> QED
  BY <1>4, <1>5, <1>6

LEMMA OldBefore ==
    ASSUME NEW r \in Old, NEW old \in Old
    PROVE  AsBefore(r, old) <=> /\ r.key = old.key /\ r.val = old.val
                                /\ (r.removed => old.removed)
<1> DEFINE q == [old EXCEPT !.removed = FALSE]
<1>1. q \in Old /\ q.key = old.key /\ q.val = old.val /\ q.removed = FALSE
  BY Zenon DEF Old
<1>2. \A s, t \in Old : s.key = t.key /\ s.val = t.val /\ s.removed = t.removed => s = t
  BY DEF Old
<1>3. r.removed \in BOOLEAN /\ old.removed \in BOOLEAN
  BY DEF Old
<1>4. AsBefore(r, old) <=> r = old \/ r = q
  BY DEF AsBefore
<1> HIDE DEF q
<1>5. ASSUME r = old \/ r = q
      PROVE  r.key = old.key /\ r.val = old.val /\ (r.removed => old.removed)
  BY <1>1, <1>5
<1>6. ASSUME r.key = old.key, r.val = old.val, r.removed => old.removed
      PROVE  r = old \/ r = q
  <2>1. CASE r.removed = old.removed
    BY <1>2, <1>6, <2>1
  <2>2. CASE r.removed = FALSE
    <3>1. r.key = q.key /\ r.val = q.val /\ r.removed = q.removed
      BY <1>1, <1>6, <2>2
    <3> QED
      BY <1>1, <1>2, <3>1
  <2> QED
    BY <1>3, <1>6, <2>1, <2>2
<1> QED
  BY <1>4, <1>5, <1>6

\* a is row r with a change of its kind undone.
UndidFresh(a, r, kind, v) ==
    /\ a \in Fresh /\ a.deleted = (r.deleted \/ kind = "Insert")
    /\ a.removed = (r.removed /\ kind # "Remove")
    /\ a.val = (IF kind = "Update" THEN v ELSE r.val) /\ a.force = r.force
UndidOld(a, r, kind, v) ==
    /\ a \in Old /\ a.key = r.key /\ a.removed = (r.removed /\ kind # "Remove")
    /\ a.val = IF kind = "Update" THEN v ELSE r.val

LEMMA UndidIs ==
    ASSUME NEW kind \in {"Insert", "Update", "Remove"}, NEW v \in Value
    PROVE  /\ \A r \in Fresh : UndidFresh(undo(kind, r, v), r, kind, v)
           /\ \A r \in Old : kind # "Insert" => UndidOld(undo(kind, r, v), r, kind, v)
<1>1. ASSUME NEW r \in Fresh PROVE UndidFresh(undo(kind, r, v), r, kind, v)
  <2>1. undo(kind, r, v) \in Fresh
    BY UndoneFresh
  <2>2. undo(kind, r, v).deleted = (r.deleted \/ kind = "Insert")
    BY UndoneFresh
  <2>3. undo(kind, r, v).removed = (r.removed /\ kind # "Remove")
    BY UndoneFresh
  <2>4. undo(kind, r, v).val = IF kind = "Update" THEN v ELSE r.val
    BY UndoneFresh
  <2>5. undo(kind, r, v).force = r.force
    BY UndoneFresh
  <2> QED
    BY <2>1, <2>2, <2>3, <2>4, <2>5 DEF UndidFresh
<1>2. ASSUME NEW r \in Old, kind # "Insert" PROVE UndidOld(undo(kind, r, v), r, kind, v)
  <2>0. kind \in {"Update", "Remove"}
    BY <1>2
  <2>1. undo(kind, r, v) \in Old /\ undo(kind, r, v).key = r.key
    BY <2>0, UndoneOld
  <2>2. undo(kind, r, v).removed = (r.removed /\ kind # "Remove")
    BY <2>0, UndoneOld
  <2>3. undo(kind, r, v).val = IF kind = "Update" THEN v ELSE r.val
    BY <2>0, UndoneOld
  <2> QED
    BY <2>1, <2>2, <2>3 DEF UndidOld
<1> QED
  BY <1>1, <1>2

\* Undoing the same change twice keeps what is as before as it was.
LEMMA UndoneBefore ==
    ASSUME NEW kind \in {"Insert", "Update", "Remove"}, NEW v \in Value
    PROVE  /\ \A r, old \in Fresh : AsBefore(r, old) =>
                 AsBefore(undo(kind, r, v), undo(kind, old, v))
           /\ \A r, old \in Old : kind # "Insert" /\ AsBefore(r, old) =>
                 AsBefore(undo(kind, r, v), undo(kind, old, v))
<1>1. ASSUME NEW r \in Fresh, NEW old \in Fresh, AsBefore(r, old)
      PROVE  AsBefore(undo(kind, r, v), undo(kind, old, v))
  <2>1. /\ r.val = old.val /\ r.deleted = old.deleted /\ r.force = old.force
        /\ (r.removed => old.removed)
    BY <1>1, FreshBefore
  <2> DEFINE a == undo(kind, r, v)
             b == undo(kind, old, v)
  <2>2. UndidFresh(a, r, kind, v) /\ UndidFresh(b, old, kind, v)
    BY UndidIs
  <2> HIDE DEF a, b
  <2>3. a \in Fresh /\ b \in Fresh
    BY <2>2 DEF UndidFresh
  <2>4. /\ a.val = b.val /\ a.deleted = b.deleted /\ a.force = b.force
        /\ (a.removed => b.removed)
    BY <2>1, <2>2 DEF UndidFresh
  <2>5. AsBefore(a, b)
    BY <2>3, <2>4, FreshBefore
  <2> QED
    BY <2>5 DEF a, b
<1>2. ASSUME NEW r \in Old, NEW old \in Old, kind # "Insert", AsBefore(r, old)
      PROVE  AsBefore(undo(kind, r, v), undo(kind, old, v))
  <2>0. kind \in {"Update", "Remove"}
    BY <1>2
  <2>1. r.key = old.key /\ r.val = old.val /\ (r.removed => old.removed)
    BY <1>2, OldBefore
  <2> DEFINE a == undo(kind, r, v)
             b == undo(kind, old, v)
  <2>2. /\ a \in Old /\ a.key = r.key /\ a.removed = (r.removed /\ kind # "Remove")
        /\ a.val = IF kind = "Update" THEN v ELSE r.val
    BY <2>0, UndoneOld
  <2>3. /\ b \in Old /\ b.key = old.key /\ b.removed = (old.removed /\ kind # "Remove")
        /\ b.val = IF kind = "Update" THEN v ELSE old.val
    BY <2>0, UndoneOld
  <2> HIDE DEF a, b
  <2>4. a.key = b.key /\ a.val = b.val /\ (a.removed => b.removed)
    BY <2>1, <2>2, <2>3
  <2>5. AsBefore(a, b)
    BY <2>2, <2>3, <2>4, OldBefore
  <2> QED
    BY <2>5 DEF a, b
<1> QED
  BY <1>1, <1>2

\* Undoing a change of a row that was not removed gives the row back.
LEMMA UndoneChange ==
    ASSUME NEW kind \in {"Update", "Remove"}, NEW v, kind = "Update" => v \in Value
    PROVE  /\ \A r \in Fresh : AsBefore(undo(kind, changed(kind, r, v), r.val), r)
           /\ \A r \in Old : AsBefore(undo(kind, changed(kind, r, v), r.val), r)
<1>1. ASSUME NEW r \in Fresh PROVE AsBefore(undo(kind, changed(kind, r, v), r.val), r)
  <2> DEFINE b == changed(kind, r, v)
             a == undo(kind, b, r.val)
  <2>1. b \in Fresh
    BY ChangedFresh
  <2>2. /\ b.deleted = r.deleted /\ b.force = r.force
        /\ b.val = (IF kind = "Update" THEN v ELSE r.val)
        /\ b.removed = (r.removed \/ kind = "Remove")
    <3>1. CASE kind = "Update"
      <4>1. /\ DOMAIN r = {"val", "removed", "deleted", "force"} /\ r.removed \in BOOLEAN
        BY DEF Fresh
      <4>2. b = [r EXCEPT !.val = v]
        BY <3>1 DEF changed
      <4>3. b.deleted = r.deleted /\ b.force = r.force /\ b.val = v /\ b.removed = r.removed
        BY <4>1, <4>2, Zenon
      <4> QED
        BY <3>1, <4>1, <4>3
    <3>2. CASE kind = "Remove"
      <4>1. /\ DOMAIN r = {"val", "removed", "deleted", "force"} /\ r.removed \in BOOLEAN
        BY DEF Fresh
      <4>2. b = [r EXCEPT !.removed = TRUE]
        BY <3>2 DEF changed
      <4>3. b.deleted = r.deleted /\ b.force = r.force /\ b.val = r.val /\ b.removed = TRUE
        BY <4>1, <4>2, Zenon
      <4> QED
        BY <3>2, <4>1, <4>3
    <3> QED
      BY <3>1, <3>2
  <2>3. r.val \in Value /\ r.deleted \in BOOLEAN /\ r.removed \in BOOLEAN
    BY DEF Fresh
  <2> HIDE DEF b
  <2>4. UndidFresh(a, b, kind, r.val)
    <3>1. kind \in {"Insert", "Update", "Remove"}
      OBVIOUS
    <3> QED
      BY <2>1, <2>3, <3>1, UndidIs
  <2> HIDE DEF a
  <2>5. /\ a \in Fresh /\ a.val = r.val /\ a.deleted = r.deleted /\ a.force = r.force
        /\ (a.removed => r.removed)
    BY <2>2, <2>3, <2>4 DEF UndidFresh
  <2>6. AsBefore(a, r)
    BY <2>5, FreshBefore
  <2> QED
    BY <2>6 DEF a, b
<1>2. ASSUME NEW r \in Old PROVE AsBefore(undo(kind, changed(kind, r, v), r.val), r)
  <2> DEFINE b == changed(kind, r, v)
             a == undo(kind, b, r.val)
  <2>1. b \in Old
    BY ChangedOld
  <2>2. /\ b.key = r.key
        /\ b.val = (IF kind = "Update" THEN v ELSE r.val)
        /\ b.removed = (r.removed \/ kind = "Remove")
    <3>1. CASE kind = "Update"
      <4>1. /\ DOMAIN r = {"key", "val", "removed"} /\ r.removed \in BOOLEAN
        BY DEF Old
      <4>2. b = [r EXCEPT !.val = v]
        BY <3>1 DEF changed
      <4>3. b.key = r.key /\ b.val = v /\ b.removed = r.removed
        BY <4>1, <4>2, Zenon
      <4> QED
        BY <3>1, <4>1, <4>3
    <3>2. CASE kind = "Remove"
      <4>1. /\ DOMAIN r = {"key", "val", "removed"} /\ r.removed \in BOOLEAN
        BY DEF Old
      <4>2. b = [r EXCEPT !.removed = TRUE]
        BY <3>2 DEF changed
      <4>3. b.key = r.key /\ b.val = r.val /\ b.removed = TRUE
        BY <4>1, <4>2, Zenon
      <4> QED
        BY <3>2, <4>1, <4>3
    <3> QED
      BY <3>1, <3>2
  <2>3. r.val \in Value /\ r.removed \in BOOLEAN
    BY DEF Old
  <2> HIDE DEF b
  <2>4. UndidOld(a, b, kind, r.val)
    <3>1. kind \in {"Insert", "Update", "Remove"} /\ kind # "Insert"
      OBVIOUS
    <3> QED
      BY <2>1, <2>3, <3>1, UndidIs
  <2> HIDE DEF a
  <2>5. a \in Old /\ a.key = r.key /\ a.val = r.val /\ (a.removed => r.removed)
    BY <2>2, <2>3, <2>4 DEF UndidOld
  <2>6. AsBefore(a, r)
    BY <2>5, OldBefore
  <2> QED
    BY <2>6 DEF a, b
<1> QED
  BY <1>1, <1>2

-----------------------------------------------------------------------------
\* No committed row is a removed one.
NoneGone == \A k \in Key : \A r \in Range(Committed[k]) : ~ r.removed

LEMMA CommittedRows ==
    ASSUME Basis
    PROVE  NoneGone /\ \A k \in Key : Committed[k] \in Seq(Row)
<1>1. /\ Len(queue) \in Nat /\ Committed = BlockOf(Len(queue))
      /\ \A i \in 0 .. Len(queue), k \in Key :
            BlockOf(i)[k] \in Seq(Row) /\ Sound(BlockOf(i)[k], IdOf(i))
  BY CommittedFacts DEF Basis
<1>2. Len(queue) \in 0 .. Len(queue)
  BY <1>1
<1>3. \A k \in Key : Committed[k] \in Seq(Row) /\ Sound(Committed[k], IdOf(Len(queue)))
  BY <1>1, <1>2
<1>4. ASSUME NEW k \in Key, NEW r \in Range(Committed[k]) PROVE ~ r.removed
  <2>1. Committed[k] \in Seq(Row) /\ NoneRemoved(Committed[k])
    BY <1>3 DEF Sound
  <2> DEFINE s == Committed[k]
  <2>2. DOMAIN s = 1 .. Len(s)
    BY <2>1, RowFacts
  <2>3. PICK i \in DOMAIN s : s[i] = r
    BY DEF Range
  <2> QED
    BY <2>1, <2>2, <2>3 DEF NoneRemoved
<1> QED
  BY <1>3, <1>4 DEF NoneGone

LEMMA RestoredTrans ==
    ASSUME NoneGone, NEW a \in Table, NEW b \in Table, NEW c \in Table, Restored(a, b),
           Restored(b, c)
    PROVE  Restored(a, c)
<1>1. ASSUME NEW k \in Key
      PROVE  /\ DOMAIN c.fresh[k] \subseteq DOMAIN a.fresh[k]
             /\ \A i \in DOMAIN a.fresh[k] :
                   IF i \in DOMAIN c.fresh[k] THEN AsBefore(a.fresh[k][i], c.fresh[k][i])
                   ELSE a.fresh[k][i].deleted
  <2>1. DOMAIN c.fresh[k] \subseteq DOMAIN b.fresh[k] /\ DOMAIN b.fresh[k] \subseteq DOMAIN a.fresh[k]
    BY DEF Restored
  <2>2. ASSUME NEW i \in DOMAIN a.fresh[k], i \in DOMAIN c.fresh[k]
        PROVE  AsBefore(a.fresh[k][i], c.fresh[k][i])
    <3>1. /\ AsBefore(a.fresh[k][i], b.fresh[k][i]) /\ AsBefore(b.fresh[k][i], c.fresh[k][i])
      BY <2>1, <2>2 DEF Restored
    <3>2. a.fresh[k][i] \in Fresh /\ b.fresh[k][i] \in Fresh /\ c.fresh[k][i] \in Fresh
      BY <2>1, <2>2, TableFacts
    <3> QED
      BY <3>1, <3>2, FreshBefore
  <2>3. ASSUME NEW i \in DOMAIN a.fresh[k], i \notin DOMAIN c.fresh[k]
        PROVE  a.fresh[k][i].deleted
    <3>1. CASE i \in DOMAIN b.fresh[k]
      <4>1. AsBefore(a.fresh[k][i], b.fresh[k][i]) /\ b.fresh[k][i].deleted
        BY <2>3, <3>1 DEF Restored
      <4>2. a.fresh[k][i] \in Fresh /\ b.fresh[k][i] \in Fresh
        BY <3>1, TableFacts
      <4> QED
        BY <4>1, <4>2, FreshBefore
    <3>2. CASE i \notin DOMAIN b.fresh[k]
      BY <3>2 DEF Restored
    <3> QED
      BY <3>1, <3>2
  <2> QED
    BY <2>1, <2>2, <2>3
<1>2. DOMAIN c.dirty \subseteq DOMAIN b.dirty /\ DOMAIN b.dirty \subseteq DOMAIN a.dirty
  BY DEF Restored
<1>3. ASSUME NEW id \in DOMAIN a.dirty, id \in DOMAIN c.dirty
      PROVE  AsBefore(a.dirty[id], c.dirty[id])
  <2>1. AsBefore(a.dirty[id], b.dirty[id]) /\ AsBefore(b.dirty[id], c.dirty[id])
    BY <1>2, <1>3 DEF Restored
  <2>2. a.dirty[id] \in Old /\ b.dirty[id] \in Old /\ c.dirty[id] \in Old
    BY <1>2, <1>3, TableFacts
  <2> QED
    BY <2>1, <2>2, OldBefore
<1>4. ASSUME NEW id \in DOMAIN a.dirty, id \notin DOMAIN c.dirty
      PROVE  AsCommitted(id, a.dirty[id])
  <2>1. CASE id \in DOMAIN b.dirty
    <3> DEFINE r == a.dirty[id]
               s == b.dirty[id]
    <3>1. AsBefore(r, s) /\ AsCommitted(id, s)
      BY <1>4, <2>1 DEF Restored
    <3>2. r \in Old /\ s \in Old /\ s.key \in Key /\ r.removed \in BOOLEAN /\ s.removed \in BOOLEAN
      BY <2>1, TableFacts
    <3> HIDE DEF r, s
    <3>3. r.key = s.key /\ r.val = s.val /\ (r.removed => s.removed)
      BY <3>1, <3>2, OldBefore
    <3>4. CASE s.key \in tainted
      BY <3>3, <3>4 DEF AsCommitted, r
    <3>5. CASE row(id, s.val, s.removed) \in Range(Committed[s.key])
      <4>1. ~ row(id, s.val, s.removed).removed
        BY <3>2, <3>5 DEF NoneGone
      <4>2. ~ s.removed
        BY <4>1 DEF row
      <4>3. r.removed = s.removed
        BY <3>2, <3>3, <4>2
      <4> QED
        BY <3>3, <3>5, <4>3 DEF AsCommitted, r
    <3> QED
      BY <3>1, <3>4, <3>5 DEF AsCommitted
  <2>2. CASE id \notin DOMAIN b.dirty
    BY <2>2 DEF Restored
  <2> QED
    BY <2>1, <2>2
<1> QED
  BY <1>1, <1>2, <1>3, <1>4 DEF Restored

\* Undoing one more change, in both tables.
LEMMA RestoredUndo ==
    ASSUME NEW a \in Table, NEW b \in Table, Restored(a, b), NEW c \in Logged, InTable(c, b)
    PROVE  Restored(Undo(c, a), Undo(c, b))
<1> DEFINE u == Undo(c, a)
           w == Undo(c, b)
<1>1. /\ DOMAIN u.dirty = DOMAIN a.dirty /\ DOMAIN w.dirty = DOMAIN b.dirty
      /\ \A k \in Key : DOMAIN u.fresh[k] = DOMAIN a.fresh[k] /\ DOMAIN w.fresh[k] = DOMAIN b.fresh[k]
  <2>1. u \in Like(a) /\ w \in Like(b)
    BY UndoFacts
  <2> QED
    BY <2>1 DEF Like
<1>2. /\ \A id \in DOMAIN a.dirty : u.dirty[id] =
            IF id \in DOMAIN c.ids THEN undo(c.kind, a.dirty[id], c.ids[id]) ELSE a.dirty[id]
      /\ \A k \in Key : \A i \in DOMAIN a.fresh[k] : u.fresh[k][i] =
            IF k = c.key /\ i \in DOMAIN c.at THEN undo(c.kind, a.fresh[k][i], c.at[i])
            ELSE a.fresh[k][i]
  BY UndoFacts
<1>3. /\ \A id \in DOMAIN b.dirty : w.dirty[id] =
            IF id \in DOMAIN c.ids THEN undo(c.kind, b.dirty[id], c.ids[id]) ELSE b.dirty[id]
      /\ \A k \in Key : \A i \in DOMAIN b.fresh[k] : w.fresh[k][i] =
            IF k = c.key /\ i \in DOMAIN c.at THEN undo(c.kind, b.fresh[k][i], c.at[i])
            ELSE b.fresh[k][i]
  BY UndoFacts
<1> HIDE DEF u, w
<1>4. /\ c.kind \in {"Insert", "Update", "Remove"} /\ c.key \in Key
      /\ \A id \in DOMAIN c.ids : c.ids[id] \in Value
      /\ \A i \in DOMAIN c.at : c.at[i] \in Value
      /\ c.kind = "Insert" => DOMAIN c.ids = {}
  BY LoggedFacts
<1>5. DOMAIN c.ids \subseteq DOMAIN b.dirty /\ DOMAIN c.at \subseteq DOMAIN b.fresh[c.key]
  BY DEF InTable
<1>6. ASSUME NEW k \in Key
      PROVE  /\ DOMAIN w.fresh[k] \subseteq DOMAIN u.fresh[k]
             /\ \A i \in DOMAIN u.fresh[k] :
                   IF i \in DOMAIN w.fresh[k] THEN AsBefore(u.fresh[k][i], w.fresh[k][i])
                   ELSE u.fresh[k][i].deleted
  <2>1. DOMAIN b.fresh[k] \subseteq DOMAIN a.fresh[k]
    BY DEF Restored
  <2>2. ASSUME NEW i \in DOMAIN a.fresh[k], i \in DOMAIN b.fresh[k]
        PROVE  AsBefore(u.fresh[k][i], w.fresh[k][i])
    <3>1. AsBefore(a.fresh[k][i], b.fresh[k][i])
      BY <2>2 DEF Restored
    <3>2. a.fresh[k][i] \in Fresh /\ b.fresh[k][i] \in Fresh
      BY <2>2, TableFacts
    <3>3. CASE k = c.key /\ i \in DOMAIN c.at
      <4>1. AsBefore(undo(c.kind, a.fresh[k][i], c.at[i]), undo(c.kind, b.fresh[k][i], c.at[i]))
        BY <1>4, <3>1, <3>2, <3>3, UndoneBefore
      <4>2. /\ u.fresh[k][i] = undo(c.kind, a.fresh[k][i], c.at[i])
            /\ w.fresh[k][i] = undo(c.kind, b.fresh[k][i], c.at[i])
        BY <1>2, <1>3, <2>2, <3>3
      <4> QED
        BY <4>1, <4>2
    <3>4. CASE ~ (k = c.key /\ i \in DOMAIN c.at)
      <4>1. u.fresh[k][i] = a.fresh[k][i] /\ w.fresh[k][i] = b.fresh[k][i]
        BY <1>2, <1>3, <2>2, <3>4
      <4> QED
        BY <3>1, <4>1
    <3> QED
      BY <3>3, <3>4
  <2>3. ASSUME NEW i \in DOMAIN a.fresh[k], i \notin DOMAIN b.fresh[k]
        PROVE  u.fresh[k][i].deleted
    <3>1. a.fresh[k][i].deleted
      BY <2>3 DEF Restored
    <3>2. u.fresh[k][i] = a.fresh[k][i]
      BY <1>2, <1>5, <2>3
    <3> QED
      BY <3>1, <3>2
  <2> QED
    BY <1>1, <2>1, <2>2, <2>3
<1>7. DOMAIN b.dirty \subseteq DOMAIN a.dirty
  BY DEF Restored
<1>8. ASSUME NEW id \in DOMAIN a.dirty, id \in DOMAIN b.dirty
      PROVE  AsBefore(u.dirty[id], w.dirty[id])
  <2>1. AsBefore(a.dirty[id], b.dirty[id])
    BY <1>8 DEF Restored
  <2>2. a.dirty[id] \in Old /\ b.dirty[id] \in Old
    BY <1>8, TableFacts
  <2>3. CASE id \in DOMAIN c.ids
    <3>1. AsBefore(undo(c.kind, a.dirty[id], c.ids[id]), undo(c.kind, b.dirty[id], c.ids[id]))
      BY <1>4, <2>1, <2>2, <2>3, UndoneBefore
    <3>2. /\ u.dirty[id] = undo(c.kind, a.dirty[id], c.ids[id])
          /\ w.dirty[id] = undo(c.kind, b.dirty[id], c.ids[id])
      BY <1>2, <1>3, <1>8, <2>3
    <3> QED
      BY <3>1, <3>2
  <2>4. CASE id \notin DOMAIN c.ids
    <3>1. u.dirty[id] = a.dirty[id] /\ w.dirty[id] = b.dirty[id]
      BY <1>2, <1>3, <1>8, <2>4
    <3> QED
      BY <2>1, <3>1
  <2> QED
    BY <2>3, <2>4
<1>9. ASSUME NEW id \in DOMAIN a.dirty, id \notin DOMAIN b.dirty
      PROVE  AsCommitted(id, u.dirty[id])
  <2>1. AsCommitted(id, a.dirty[id])
    BY <1>9 DEF Restored
  <2>2. u.dirty[id] = a.dirty[id]
    BY <1>2, <1>5, <1>9
  <2> QED
    BY <2>1, <2>2
<1>10. Restored(u, w)
  BY <1>1, <1>6, <1>7, <1>8, <1>9 DEF Restored
<1> QED
  BY <1>10 DEF u, w

\* A change is logged whose undoing restores the table it was made in.
Reversible(c) ==
    log' = Append(log, c) /\ c.before = table /\ Restored(Undo(c, table'), table)

\* An insert is undone by marking the row deleted.
LEMMA InsertReversible ==
    ASSUME TableInv, NEW k \in Key, NEW v \in Value, NEW force \in BOOLEAN, Insert(k, v, force)
    PROVE  table' \in Table /\ \E c \in Logged : Reversible(c)
<1> DEFINE x == Inserted(v, force)
           c == Insertion(k, v)
           n == Len(table.fresh[k]) + 1
<1>1. /\ x \in Fresh /\ c \in Logged /\ log' = Append(log, c)
      /\ table' \in Table /\ table'.dirty = table.dirty
      /\ \A l \in Key : table'.fresh[l] =
            IF l = k THEN Append(table.fresh[k], x) ELSE table.fresh[l]
      /\ DOMAIN table'.fresh[k] = DOMAIN table.fresh[k] \cup {n}
      /\ DOMAIN c.ids = {} /\ DOMAIN c.at = {n}
  BY InsertFacts
<1>2. c.kind = "Insert" /\ c.key = k /\ c.before = table /\ c.at[n] = v
  BY DEF Insertion
<1>3. /\ table \in Table /\ table.fresh[k] \in Seq(Fresh) /\ Len(table.fresh[k]) \in Nat
      /\ DOMAIN table.fresh[k] = 1 .. Len(table.fresh[k])
  BY TableFacts DEF TableInv
<1>4. /\ table'.fresh[k][n] = x /\ n \notin DOMAIN table.fresh[k]
      /\ \A i \in DOMAIN table.fresh[k] : table'.fresh[k][i] = table.fresh[k][i]
  <2> DEFINE s == table.fresh[k]
  <2>1. table'.fresh[k] = Append(s, x) /\ x \in Fresh /\ s \in Seq(Fresh)
    BY <1>1, <1>3
  <2>2. DOMAIN s = 1 .. Len(s) /\ Len(s) \in Nat /\ n = Len(s) + 1
    BY <1>3
  <2> HIDE DEF s, n, x
  <2>3. /\ Append(s, x)[Len(s) + 1] = x
        /\ \A i \in 1 .. Len(s) : Append(s, x)[i] = s[i]
    BY <2>1, AppendFacts
  <2>4. n \notin DOMAIN s
    BY <2>2
  <2>5. table'.fresh[k][n] = x /\ \A i \in DOMAIN s : table'.fresh[k][i] = s[i]
    BY <2>1, <2>2, <2>3
  <2> QED
    BY <2>4, <2>5 DEF s
<1> HIDE DEF x, c, n
<1> DEFINE u == Undo(c, table')
<1>5. /\ DOMAIN u.dirty = DOMAIN table.dirty
      /\ \A l \in Key : DOMAIN u.fresh[l] = DOMAIN table'.fresh[l]
      /\ \A id \in DOMAIN table.dirty : u.dirty[id] = table.dirty[id]
      /\ \A l \in Key : \A i \in DOMAIN table'.fresh[l] : u.fresh[l][i] =
            IF l = c.key /\ i \in DOMAIN c.at THEN undo(c.kind, table'.fresh[l][i], c.at[i])
            ELSE table'.fresh[l][i]
  <2>1. /\ u \in Like(table')
        /\ \A id \in DOMAIN table'.dirty : u.dirty[id] =
              IF id \in DOMAIN c.ids THEN undo(c.kind, table'.dirty[id], c.ids[id])
              ELSE table'.dirty[id]
        /\ \A l \in Key : \A i \in DOMAIN table'.fresh[l] : u.fresh[l][i] =
              IF l = c.key /\ i \in DOMAIN c.at THEN undo(c.kind, table'.fresh[l][i], c.at[i])
              ELSE table'.fresh[l][i]
    BY <1>1, UndoFacts
  <2> HIDE DEF u
  <2> QED
    BY <1>1, <2>1 DEF Like
<1> HIDE DEF u
<1>6. ASSUME NEW l \in Key
      PROVE  /\ DOMAIN table.fresh[l] \subseteq DOMAIN u.fresh[l]
             /\ \A i \in DOMAIN u.fresh[l] :
                   IF i \in DOMAIN table.fresh[l] THEN AsBefore(u.fresh[l][i], table.fresh[l][i])
                   ELSE u.fresh[l][i].deleted
  <2>1. CASE l = k
    <3>1. \A i \in DOMAIN table.fresh[l] : u.fresh[l][i] = table.fresh[l][i]
      BY <1>1, <1>4, <1>5, <2>1
    <3>2. u.fresh[l][n] = undo("Insert", x, v)
      BY <1>1, <1>2, <1>4, <1>5, <2>1
    <3>3. undo("Insert", x, v).deleted
      <4>1. undo("Insert", x, v).deleted = (x.deleted \/ "Insert" = "Insert")
        BY <1>1, UndoneFresh
      <4> QED
        BY <4>1
    <3> QED
      BY <1>1, <1>4, <1>5, <2>1, <3>1, <3>2, <3>3 DEF AsBefore
  <2>2. CASE l # k
    BY <1>1, <1>2, <1>5, <2>2 DEF AsBefore
  <2> QED
    BY <2>1, <2>2
<1>7. Restored(u, table)
  BY <1>5, <1>6 DEF Restored, AsBefore
<1> QED
  BY <1>1, <1>2, <1>7 DEF Reversible, u

\* A row of the storage that a change loads is as it was committed when the change is undone.
LEMMA LoadedRow ==
    ASSUME Basis, CleanInv, select[Executor] # IdleReader, commit.pc = "idle",
           NEW k \in Key, k = select[Executor].key, NEW r \in Row,
           r \in Range(Selected(Executor)), ~ r.removed, NEW o \in Old, o.key = k, o.val = r.val,
           ~ o.removed
    PROVE  AsCommitted(r.id, o)
<1>1. CASE k \in tainted
  BY <1>1 DEF AsCommitted
<1>2. CASE k \notin tainted
  <2>1. Selected(Executor) = Committed[k]
    BY <1>2, ExecutorAssumption, SelectedClean DEF CleanInv, CleanKey
  <2>2. r.removed = o.removed
    BY DEF Row, Old
  <2>3. row(r.id, o.val, o.removed) = r
    <3>1. r = row(r.id, r.val, r.removed)
      BY DEF Row, row
    <3> QED
      BY <2>2, <3>1
  <2> QED
    BY <2>1, <2>3 DEF AsCommitted
<1> QED
  BY <1>1, <1>2

\* An update or a removal is undone by what was logged of the rows.
LEMMA ChangeReversible ==
    ASSUME BasicInv, CleanInv, NEW kind \in {"Update", "Remove"}, NEW condition, NEW v,
           kind = "Update" => v \in Value, Change(kind, condition, v)
    PROVE  table' \in Table /\ \E c \in Logged : Reversible(c)
<1>0. StorageInv /\ TableInv /\ Basis /\ table \in Table
  BY DEF BasicInv, Basis, TableInv
<1> DEFINE k == select[Executor].key
           db == dbEntries(condition)
           new == newEntries(condition)
<1>1. /\ k \in Key /\ select[Executor] # IdleReader /\ commit.pc = "idle" /\ table' \in Table
      /\ \E c \in Logged : log' = Append(log, c) /\ ChangedRows(kind, v, k, db, new, c)
  BY <1>0, ChangeIs
<1>2. /\ db \in [DOMAIN db -> Old]
      /\ \A id \in DOMAIN db :
            /\ id \in DOMAIN table.dirty => db[id] = table.dirty[id]
            /\ id \notin DOMAIN table.dirty =>
                  \E r \in Row : /\ r \in Range(Selected(Executor)) /\ r.id = id /\ ~ r.removed
                                 /\ db[id] = [key |-> k, val |-> r.val, removed |-> FALSE]
  BY <1>0, <1>1, FoundFacts
<1>3. \A l \in Key : \A i \in DOMAIN table.fresh[l] : table.fresh[l][i] \in Fresh
  BY <1>0, TableFacts
<1>k. k = select[Executor].key
  OBVIOUS
<1> HIDE DEF db, new, k
<1>4. PICK c \in Logged : log' = Append(log, c) /\ ChangedRows(kind, v, k, db, new, c)
  BY <1>1
<1> DEFINE u == Undo(c, table')
<1>5. /\ DOMAIN table'.dirty = DOMAIN db \cup DOMAIN table.dirty
      /\ \A id \in DOMAIN table'.dirty : table'.dirty[id] =
            IF id \in DOMAIN db THEN changed(kind, db[id], v) ELSE table.dirty[id]
      /\ \A l \in Key : DOMAIN table'.fresh[l] = DOMAIN table.fresh[l]
      /\ \A l \in Key : \A i \in DOMAIN table.fresh[l] : table'.fresh[l][i] =
            IF l = k /\ i \in new THEN changed(kind, table.fresh[l][i], v) ELSE table.fresh[l][i]
      /\ c.kind = kind /\ c.key = k /\ c.before = table
      /\ DOMAIN c.ids = DOMAIN db /\ \A id \in DOMAIN db : c.ids[id] = db[id].val
      /\ DOMAIN c.at = new /\ \A i \in new : c.at[i] = table.fresh[k][i].val
      /\ new \subseteq DOMAIN table.fresh[k]
  BY <1>4 DEF ChangedRows
<1>6. /\ DOMAIN u.dirty = DOMAIN table'.dirty
      /\ \A l \in Key : DOMAIN u.fresh[l] = DOMAIN table'.fresh[l]
      /\ \A id \in DOMAIN table'.dirty : u.dirty[id] =
            IF id \in DOMAIN c.ids THEN undo(c.kind, table'.dirty[id], c.ids[id])
            ELSE table'.dirty[id]
      /\ \A l \in Key : \A i \in DOMAIN table'.fresh[l] : u.fresh[l][i] =
            IF l = c.key /\ i \in DOMAIN c.at THEN undo(c.kind, table'.fresh[l][i], c.at[i])
            ELSE table'.fresh[l][i]
  <2>1. /\ u \in Like(table')
        /\ \A id \in DOMAIN table'.dirty : u.dirty[id] =
              IF id \in DOMAIN c.ids THEN undo(c.kind, table'.dirty[id], c.ids[id])
              ELSE table'.dirty[id]
        /\ \A l \in Key : \A i \in DOMAIN table'.fresh[l] : u.fresh[l][i] =
              IF l = c.key /\ i \in DOMAIN c.at THEN undo(c.kind, table'.fresh[l][i], c.at[i])
              ELSE table'.fresh[l][i]
    BY <1>1, <1>4, UndoFacts
  <2> HIDE DEF u
  <2> QED
    BY <2>1 DEF Like
<1>7. u \in Table
  BY <1>1, <1>4, UndoFacts DEF Like
<1> HIDE DEF u
<1>8. ASSUME NEW l \in Key, NEW i \in DOMAIN table.fresh[l]
      PROVE  AsBefore(u.fresh[l][i], table.fresh[l][i])
  <2>1. CASE l = k /\ i \in new
    <3>1. u.fresh[l][i] = undo(kind, changed(kind, table.fresh[l][i], v), table.fresh[l][i].val)
      BY <1>5, <1>6, <2>1
    <3>2. table.fresh[l][i] \in Fresh
      BY <1>3
    <3> QED
      BY <3>1, <3>2, UndoneChange
  <2>2. CASE ~ (l = k /\ i \in new)
    <3>1. u.fresh[l][i] = table.fresh[l][i]
      BY <1>5, <1>6, <2>2
    <3> QED
      BY <3>1 DEF AsBefore
  <2> QED
    BY <2>1, <2>2
<1>9. ASSUME NEW id \in DOMAIN db
      PROVE  AsBefore(u.dirty[id], db[id]) /\ db[id] \in Old
  <2>1. u.dirty[id] = undo(kind, changed(kind, db[id], v), db[id].val)
    BY <1>5, <1>6
  <2>2. db[id] \in Old
    BY <1>2
  <2> QED
    BY <2>1, <2>2, UndoneChange
<1>10. ASSUME NEW id \in DOMAIN u.dirty, id \in DOMAIN table.dirty
       PROVE  AsBefore(u.dirty[id], table.dirty[id])
  <2>1. CASE id \in DOMAIN db
    BY <1>2, <1>9, <1>10, <2>1
  <2>2. CASE id \notin DOMAIN db
    <3>1. u.dirty[id] = table.dirty[id]
      BY <1>5, <1>6, <1>10, <2>2
    <3> QED
      BY <3>1 DEF AsBefore
  <2> QED
    BY <2>1, <2>2
<1>11. ASSUME NEW id \in DOMAIN u.dirty, id \notin DOMAIN table.dirty
       PROVE  AsCommitted(id, u.dirty[id])
  <2>1. id \in DOMAIN db
    BY <1>5, <1>6, <1>11
  <2>2. PICK r \in Row : /\ r \in Range(Selected(Executor)) /\ r.id = id /\ ~ r.removed
                         /\ db[id] = [key |-> k, val |-> r.val, removed |-> FALSE]
    BY <1>2, <1>11, <2>1
  <2>3. db[id].key = k /\ db[id].val = r.val /\ db[id].removed = FALSE
    BY <2>2
  <2>4. u.dirty[id] \in Old
    BY <1>7, TableFacts
  <2> DEFINE o == u.dirty[id]
             p == db[id]
  <2>5. o \in Old /\ p \in Old /\ AsBefore(o, p) /\ p.key = k /\ p.val = r.val /\ p.removed = FALSE
    BY <1>9, <2>1, <2>3, <2>4
  <2> HIDE DEF o, p
  <2>6. o.key = k /\ o.val = r.val /\ ~ o.removed
    BY <2>5, OldBefore
  <2>7. AsCommitted(r.id, o)
    BY <1>0, <1>1, <1>k, <2>2, <2>5, <2>6, LoadedRow
  <2> QED
    BY <2>2, <2>7 DEF o
<1>12. Restored(u, table)
  <2>1. ASSUME NEW l \in Key
        PROVE  /\ DOMAIN table.fresh[l] \subseteq DOMAIN u.fresh[l]
               /\ \A i \in DOMAIN u.fresh[l] :
                     IF i \in DOMAIN table.fresh[l] THEN AsBefore(u.fresh[l][i], table.fresh[l][i])
                     ELSE u.fresh[l][i].deleted
    BY <1>5, <1>6, <1>8
  <2>2. DOMAIN table.dirty \subseteq DOMAIN u.dirty
    BY <1>5, <1>6
  <2> QED
    BY <1>10, <1>11, <2>1, <2>2 DEF Restored
<1> QED
  BY <1>1, <1>4, <1>5, <1>12 DEF Reversible, u

\* Restored, for the tainted keys and the rows of the last block that are given.
RestoredFrom(t, before, bad, rows) ==
    /\ \A k \in Key :
          /\ DOMAIN before.fresh[k] \subseteq DOMAIN t.fresh[k]
          /\ \A i \in DOMAIN t.fresh[k] :
                IF i \in DOMAIN before.fresh[k] THEN AsBefore(t.fresh[k][i], before.fresh[k][i])
                ELSE t.fresh[k][i].deleted
    /\ DOMAIN before.dirty \subseteq DOMAIN t.dirty
    /\ \A id \in DOMAIN t.dirty :
          IF id \in DOMAIN before.dirty THEN AsBefore(t.dirty[id], before.dirty[id])
          ELSE \/ t.dirty[id].key \in bad
               \/ row(id, t.dirty[id].val, t.dirty[id].removed) \in Range(rows[t.dirty[id].key])

LEMMA RestoredIs ==
    ASSUME NEW t, NEW before
    PROVE  Restored(t, before) <=> RestoredFrom(t, before, tainted, Committed)
BY DEF Restored, RestoredFrom, AsCommitted

LEMMA RestoredMore ==
    ASSUME NEW t, NEW before, NEW bad, NEW worse, NEW rows, bad \subseteq worse,
           RestoredFrom(t, before, bad, rows)
    PROVE  RestoredFrom(t, before, worse, rows)
BY DEF RestoredFrom

\* Undoing the log down to a change restores the table the change was made in.
LogInv ==
    \E g : /\ Undoes(g, table, log)
           /\ \A n \in 1 .. Len(log) :
                 RestoredFrom(g[Len(log) + 1 - n], log[n].before, tainted, Committed)

LEMMA LogKept ==
    ASSUME LogInv, UNCHANGED <<table, log>>, tainted \subseteq tainted', Committed' = Committed
    PROVE  LogInv'
<1>1. PICK g : /\ Undoes(g, table, log)
               /\ \A n \in 1 .. Len(log) :
                     RestoredFrom(g[Len(log) + 1 - n], log[n].before, tainted, Committed)
  BY DEF LogInv
<1>2. Undoes(g, table', log')
  BY <1>1
<1>3. \A n \in 1 .. Len(log') :
         RestoredFrom(g[Len(log') + 1 - n], log'[n].before, tainted', Committed')
  BY <1>1, RestoredMore
<1> QED
  BY <1>2, <1>3 DEF LogInv

LEMMA LogEmpty ==
    ASSUME log' = <<>>
    PROVE  LogInv'
<1> DEFINE g == [i \in {0} |-> table']
<1>1. Len(log') = 0 /\ g[0] = table'
  OBVIOUS
<1> HIDE DEF g
<1>2. Undoes(g, table', log')
  BY <1>1 DEF Undoes
<1>3. \A n \in 1 .. Len(log') :
         RestoredFrom(g[Len(log') + 1 - n], log'[n].before, tainted', Committed')
  BY <1>1
<1> QED
  BY <1>2, <1>3 DEF LogInv

\* What undoing the log gives are tables with the rows of the log's changes.
LEMMA UndoneTables ==
    ASSUME TableInv, NEW g, Undoes(g, table, log)
    PROVE  \A i \in 0 .. Len(log) : /\ g[i] \in Table
                                    /\ \A n \in 1 .. Len(log) : InTable(log[n], g[i])
<1>1. table \in Table /\ log \in Seq(Logged)
  BY DEF TableInv
<1>2. PICK h : Undoes(h, table, log) /\ h \in [0 .. Len(log) -> Like(table)]
  BY <1>1, UndoneExists
<1>3. \A i \in 0 .. Len(log) : g[i] = h[i]
  BY <1>1, <1>2, UndoneOnce
<1>4. ASSUME NEW i \in 0 .. Len(log), NEW n \in 1 .. Len(log) PROVE InTable(log[n], g[i])
  <2>1. g[i] \in Like(table)
    BY <1>2, <1>3
  <2>2. /\ DOMAIN g[i].dirty = DOMAIN table.dirty
        /\ \A k \in Key : DOMAIN g[i].fresh[k] = DOMAIN table.fresh[k]
    BY <2>1 DEF Like
  <2>3. log[n] \in Logged /\ InTable(log[n], table)
    BY <1>1 DEF TableInv
  <2>4. log[n].key \in Key
    BY <2>3, LoggedFacts
  <2> QED
    BY <2>2, <2>3, <2>4 DEF InTable
<1>5. \A i \in 0 .. Len(log) : g[i] \in Table
  BY <1>2, <1>3 DEF Like
<1> QED
  BY <1>4, <1>5

\* One more change is logged: undoing it first restores the table it was made in, and undoing
\* the others from there restores the tables they were made in.
LEMMA LogGrows ==
    ASSUME BasicInv, LogInv, table' \in Table, NEW c \in Logged, Reversible(c),
           UNCHANGED <<tainted, blocks>>
    PROVE  LogInv'
<1>0. TableInv /\ table \in Table /\ log \in Seq(Logged) /\ NoneGone /\ Committed' = Committed
  BY CommittedRows DEF BasicInv, Basis, TableInv, Committed
<1>1. PICK g : /\ Undoes(g, table, log)
               /\ \A n \in 1 .. Len(log) :
                     RestoredFrom(g[Len(log) + 1 - n], log[n].before, tainted, Committed)
  BY DEF LogInv
<1>2. \A i \in 0 .. Len(log) : /\ g[i] \in Table
                               /\ \A n \in 1 .. Len(log) : InTable(log[n], g[i])
  BY <1>0, <1>1, UndoneTables
<1> DEFINE m == Len(log)
<1>3. /\ log' \in Seq(Logged) /\ Len(log') = m + 1 /\ m \in Nat
      /\ \A n \in 1 .. m : log'[n] = log[n]
      /\ log'[m + 1] = c
  <2>1. log' = Append(log, c)
    BY DEF Reversible
  <2> QED
    BY <1>0, <2>1, AppendFacts
<1>4. PICK h : Undoes(h, table', log') /\ h \in [0 .. Len(log') -> Like(table')]
  BY <1>3, UndoneExists
<1>5. \A i \in 0 .. m + 1 : h[i] \in Table
  BY <1>3, <1>4 DEF Like
<1>6. /\ h[0] = table' /\ \A i \in 1 .. m + 1 : h[i] = Undo(log'[m + 2 - i], h[i - 1])
  <2>1. h[0] = table' /\ \A i \in 1 .. Len(log') : h[i] = Undo(log'[Len(log') + 1 - i], h[i - 1])
    BY <1>4 DEF Undoes
  <2> DEFINE q == Len(log')
  <2>2. q = m + 1 /\ m \in Nat
    BY <1>3
  <2>3. h[0] = table' /\ \A i \in 1 .. q : h[i] = Undo(log'[q + 1 - i], h[i - 1])
    BY <2>1
  <2> HIDE DEF q, m
  <2>4. \A i \in 1 .. m + 1 : q + 1 - i = m + 2 - i
    BY <2>2
  <2> QED
    BY <2>2, <2>3, <2>4
<1>7. g[0] = table /\ \A i \in 1 .. m : g[i] = Undo(log[m + 1 - i], g[i - 1])
  BY <1>1 DEF Undoes
<1>8. \A n \in 1 .. m : log[n] \in Logged
  BY <1>0
<1>9. Restored(Undo(c, table'), table) /\ c.before = table
  BY DEF Reversible
<1>10. \A n \in 1 .. m : Restored(g[m + 1 - n], log[n].before) /\ log[n].before \in Table
  BY <1>1, <1>8, RestoredIs, LoggedFacts
<1>11. \A i \in 0 .. m : /\ g[i] \in Table
                         /\ \A n \in 1 .. m : InTable(log[n], g[i])
  BY <1>2
<1>m. m = Len(log)
  OBVIOUS
<1> HIDE DEF m
<1> DEFINE D == {i \in Nat : i <= m => Restored(h[i + 1], g[i])}
<1>12. 0 \in D
  <2>1. h[1] = Undo(c, table')
    <3>1. 1 \in 1 .. m + 1 /\ m + 2 - 1 = m + 1 /\ 1 - 1 = 0
      BY <1>3
    <3>2. h[1] = Undo(log'[m + 2 - 1], h[1 - 1])
      BY <1>6, <3>1
    <3> QED
      BY <1>3, <1>6, <3>1, <3>2
  <2>2. Restored(h[1], g[0])
    BY <1>7, <1>9, <2>1
  <2>3. 0 \in Nat /\ 0 + 1 = 1
    OBVIOUS
  <2> QED
    BY <2>2, <2>3
<1>13. ASSUME NEW i \in Nat, i \in D PROVE i + 1 \in D
  <2> SUFFICES ASSUME i + 1 <= m PROVE Restored(h[i + 1 + 1], g[i + 1])
    OBVIOUS
  <2> DEFINE n == m - i
  <2>1. /\ i <= m /\ i \in 0 .. m /\ i + 1 \in 1 .. m /\ i + 1 + 1 \in 1 .. m + 1
        /\ i + 1 \in 0 .. m + 1 /\ n \in 1 .. m
        /\ m + 1 - (i + 1) = n /\ m + 2 - (i + 1 + 1) = n /\ i + 1 - 1 = i
        /\ i + 1 + 1 - 1 = i + 1
    BY <1>3
  <2> HIDE DEF n
  <2>2. Restored(h[i + 1], g[i])
    BY <1>13, <2>1
  <2>3. g[i + 1] = Undo(log[m + 1 - (i + 1)], g[i + 1 - 1])
    BY <1>7, <2>1
  <2>4. h[i + 1 + 1] = Undo(log'[m + 2 - (i + 1 + 1)], h[i + 1 + 1 - 1])
    BY <1>6, <2>1
  <2>5. g[i + 1] = Undo(log[n], g[i]) /\ h[i + 1 + 1] = Undo(log[n], h[i + 1])
    BY <1>3, <2>1, <2>3, <2>4
  <2>6. /\ g[i] \in Table /\ h[i + 1] \in Table /\ log[n] \in Logged /\ InTable(log[n], g[i])
    BY <1>5, <1>8, <1>11, <2>1
  <2> QED
    BY <2>2, <2>5, <2>6, RestoredUndo
<1> HIDE DEF D
<1>14. Nat \subseteq D
  BY <1>12, <1>13, Induction
<1>15. \A i \in 0 .. m : Restored(h[i + 1], g[i])
  BY <1>3, <1>14 DEF D
<1>16. ASSUME NEW n \in 1 .. m + 1 PROVE Restored(h[m + 2 - n], log'[n].before)
  <2>1. CASE n \in 1 .. m
    <3> DEFINE i == m + 1 - n
    <3>1. i \in 0 .. m /\ i + 1 = m + 2 - n /\ i + 1 \in 0 .. m + 1
      BY <1>3, <2>1
    <3>2. Restored(h[i + 1], g[i]) /\ Restored(g[i], log[n].before)
      BY <1>10, <1>15, <2>1, <3>1
    <3>3. h[i + 1] \in Table /\ g[i] \in Table /\ log[n].before \in Table
      BY <1>5, <1>10, <1>11, <2>1, <3>1
    <3> HIDE DEF i
    <3>4. Restored(h[i + 1], log[n].before)
      BY <1>0, <3>2, <3>3, RestoredTrans
    <3> QED
      BY <1>3, <2>1, <3>1, <3>4
  <2>2. CASE n = m + 1
    <3>1. m + 2 - n = 1 /\ 0 + 1 = 1 /\ 0 \in 0 .. m
      BY <1>3, <2>2
    <3>2. Restored(h[1], g[0])
      <4>1. Restored(h[0 + 1], g[0])
        BY <1>15, <3>1
      <4> QED
        BY <3>1, <4>1
    <3>3. log'[n].before = g[0]
      BY <1>3, <1>7, <1>9, <2>2
    <3> QED
      BY <3>1, <3>2, <3>3
  <2> QED
    BY <1>3, <2>1, <2>2
<1>17. ASSUME NEW n \in 1 .. Len(log')
       PROVE  RestoredFrom(h[Len(log') + 1 - n], log'[n].before, tainted', Committed')
  <2> DEFINE q == Len(log')
  <2>1. q = m + 1 /\ m \in Nat /\ n \in 1 .. q
    BY <1>3
  <2>2. q + 1 - n = m + 2 - n /\ n \in 1 .. m + 1
    <3> HIDE DEF q
    <3> QED
      BY <2>1
  <2>3. RestoredFrom(h[m + 2 - n], log'[n].before, tainted, Committed)
    BY <1>16, <2>2, RestoredIs
  <2> QED
    BY <1>0, <2>2, <2>3
<1> QED
  BY <1>4, <1>17 DEF LogInv

\* A rollback leaves the log up to the savepoint, and the table that undoing the rest gave.
LEMMA LogBack ==
    ASSUME BasicInv, LogInv, NEW sp \in Nat, rollback(sp)
    PROVE  LogInv'
<1>0. TableInv /\ table \in Table /\ log \in Seq(Logged) /\ Committed' = Committed /\ tainted' = tainted
  BY DEF BasicInv, TableInv, rollback, storage, Committed
<1>1. PICK g : /\ Undoes(g, table, log)
               /\ \A n \in 1 .. Len(log) :
                     RestoredFrom(g[Len(log) + 1 - n], log[n].before, tainted, Committed)
  BY DEF LogInv
<1> DEFINE m == Len(log)
           d == m - sp
<1>2. /\ sp < m /\ m \in Nat /\ table' = rolledBack(sp) /\ log' = SubSeq(log, 1, sp)
  BY <1>0 DEF rollback
<1>3. sp \in 0 .. Len(log) /\ d \in 1 .. m /\ d + sp = m
  BY <1>2
<1>4. table' = g[d]
  BY <1>0, <1>1, <1>2, <1>3, RolledBackIs
<1>5. Len(log') = sp /\ \A n \in 1 .. sp : log'[n] = log[n]
  BY <1>0, <1>2
<1>6. /\ \A i \in 1 .. m : g[i] = Undo(log[m + 1 - i], g[i - 1])
      /\ \A n \in 1 .. m : RestoredFrom(g[m + 1 - n], log[n].before, tainted, Committed)
  BY <1>1 DEF Undoes
<1> HIDE DEF m, d
<1> DEFINE h == [i \in 0 .. sp |-> g[d + i]]
<1>7. h[0] = table'
  <2>1. d + 0 = d /\ 0 \in 0 .. sp
    BY <1>3
  <2> QED
    BY <1>4, <2>1
<1>8. ASSUME NEW i \in 1 .. sp PROVE h[i] = Undo(log'[sp + 1 - i], h[i - 1])
  <2>1. PICK j \in 1 .. m : j = d + i
    BY <1>2, <1>3
  <2>2. PICK e \in 0 .. sp : e = i - 1
    BY <1>2, <1>3
  <2>3. PICK n \in 1 .. sp : n = sp + 1 - i
    BY <1>2, <1>3
  <2>4. m + 1 - j = n /\ j - 1 = d + e /\ i \in 0 .. sp
    BY <1>2, <1>3, <2>1, <2>2, <2>3
  <2>5. h[i] = g[j] /\ h[e] = g[j - 1]
    BY <2>1, <2>2, <2>4
  <2>6. g[j] = Undo(log[m + 1 - j], g[j - 1])
    BY <1>6
  <2>7. h[i] = Undo(log'[n], h[e])
    BY <1>5, <2>4, <2>5, <2>6
  <2> QED
    BY <2>2, <2>3, <2>7
<1>9. ASSUME NEW n \in 1 .. sp PROVE RestoredFrom(h[sp + 1 - n], log'[n].before, tainted', Committed')
  <2>1. sp + 1 - n \in 0 .. sp /\ d + (sp + 1 - n) = m + 1 - n /\ n \in 1 .. m
    BY <1>2, <1>3
  <2>2. h[sp + 1 - n] = g[m + 1 - n]
    BY <2>1
  <2> QED
    BY <1>0, <1>5, <1>6, <2>1, <2>2
<1> HIDE DEF h
<1>10. Undoes(h, table', log')
  BY <1>5, <1>7, <1>8 DEF Undoes
<1>11. \A n \in 1 .. Len(log') :
          RestoredFrom(h[Len(log') + 1 - n], log'[n].before, tainted', Committed')
  BY <1>5, <1>9
<1> QED
  BY <1>10, <1>11 DEF LogInv

LEMMA ExecuteLog ==
    ASSUME BasicInv, CleanInv, LogInv, Execute
    PROVE  LogInv'
<1>0. TableInv
  BY DEF BasicInv
<1>1. ASSUME NEW k \in Key, NEW v \in Value, insert(k, v) PROVE LogInv'
  <2>1. Insert(k, v, FALSE) /\ UNCHANGED <<tainted, blocks>>
    BY <1>1 DEF insert, storage
  <2> QED
    BY <1>0, <2>1, InsertReversible, LogGrows
<1>2. ASSUME NEW v \in Value, insertForced(v) PROVE LogInv'
  <2>1. select[Executor] # IdleReader /\ StorageInv
    BY <1>2 DEF insertForced, BasicInv
  <2>2. select[Executor].key \in Key
    BY <2>1, ExecutorAssumption, SelectedFacts
  <2>3. Insert(select[Executor].key, v, TRUE) /\ UNCHANGED <<tainted, blocks>>
    BY <1>2 DEF insertForced, SelectRows
  <2> QED
    BY <1>0, <2>2, <2>3, InsertReversible, LogGrows
<1>3. ASSUME NEW kind \in {"Update", "Remove"}, NEW c, NEW v, kind = "Update" => v \in Value,
             Change(kind, c, v)
      PROVE  LogInv'
  <2>1. SelectRows(Executor)
    BY <1>3 DEF Change
  <2>2. UNCHANGED <<tainted, blocks>>
    BY <2>1 DEF SelectRows
  <2>3. table' \in Table /\ \E x \in Logged : Reversible(x)
    BY <1>3, ChangeReversible
  <2> QED
    BY <2>2, <2>3, LogGrows
<1>4. ASSUME NEW n \in 0 .. MaxOps, rollback(n) PROVE LogInv'
  <2>1. n \in Nat
    BY MaxOpsAssumption
  <2> QED
    BY <1>4, <2>1, LogBack
<1>5. CASE commitTransaction
  BY <1>5, LogEmpty DEF commitTransaction
<1>6. CASE DropBlock
  BY <1>6, LogEmpty DEF DropBlock
<1>7. CASE commitDB
  BY <1>7, LogEmpty DEF commitDB
<1>8. ASSUME NEW c \in Conditions, NEW v \in Value, update(c, v) PROVE LogInv'
  BY <1>3, <1>8 DEF update
<1>9. ASSUME NEW c \in Conditions, remove(c) PROVE LogInv'
  BY <1>3, <1>9 DEF remove
<1> QED
  BY <1>1, <1>2, <1>4, <1>5, <1>6, <1>7, <1>8, <1>9 DEF Execute

\* A block is committed only when the log is empty.
LEMMA StorageLog ==
    ASSUME BasicInv, LogInv, Storage, UNCHANGED <<table, log>>, tainted \subseteq tainted'
    PROVE  LogInv'
<1>1. CASE commit.pc = "idle"
  <2>1. ~ SubmitTask /\ ~ WriteDirty /\ ~ WriteNew
    BY <1>1 DEF SubmitTask, WriteDirty, WriteNew
  <2>2. UNCHANGED blocks
    BY <2>1 DEF Storage, Commit, Select, CommitReturns, TouchRow, SelectRows, SelectTouch,
       commitBackend, checkAndClear
  <2> QED
    BY <2>2, LogKept DEF Committed
<1>2. CASE commit.pc # "idle"
  <2>1. log' = <<>>
    BY <1>2 DEF BasicInv, TableInv
  <2> QED
    BY <2>1, LogEmpty
<1> QED
  BY <1>1, <1>2

LEMMA LogNext == BasicInv /\ CleanInv /\ LogInv /\ [Next]_vars => LogInv'
<1> SUFFICES ASSUME BasicInv, CleanInv, LogInv, [Next]_vars PROVE LogInv'
  OBVIOUS
<1>1. CASE UNCHANGED vars
  <2>1. UNCHANGED <<table, log, tainted, blocks>>
    BY <1>1 DEF vars, storage
  <2> QED
    BY <2>1, LogKept DEF Committed
<1>2. CASE Execute
  BY <1>2, ExecuteLog
<1>3. CASE Storage /\ UNCHANGED <<table, log, ops>>
  BY <1>3, StorageLog, TaintedGrows
<1>4. CASE End
  BY <1>4, LogEmpty DEF End
<1> QED
  BY <1>1, <1>2, <1>3, <1>4 DEF Next

LEMMA LogInit == Init => LogInv
<1> SUFFICES ASSUME Init PROVE LogInv
  OBVIOUS
<1> DEFINE g == [i \in {0} |-> table]
<1>1. log = <<>> /\ Len(log) = 0 /\ g[0] = table
  BY DEF Init
<1> HIDE DEF g
<1>2. Undoes(g, table, log)
  BY <1>1 DEF Undoes
<1> QED
  BY <1>1, <1>2 DEF LogInv

LEMMA RollbackRestoring ==
    ASSUME BasicInv, LogInv, NEW n \in DOMAIN log, rollback(n - 1)
    PROVE  Restored(table', log[n].before)
<1>0. table \in Table /\ log \in Seq(Logged)
  BY DEF BasicInv, TableInv
<1>1. PICK g : /\ Undoes(g, table, log)
               /\ \A i \in 1 .. Len(log) :
                     RestoredFrom(g[Len(log) + 1 - i], log[i].before, tainted, Committed)
  BY DEF LogInv
<1> DEFINE m == Len(log)
<1>2. m \in Nat /\ n \in 1 .. m /\ n - 1 \in 0 .. m /\ m - (n - 1) = m + 1 - n
  BY <1>0
<1>3. table' = g[m - (n - 1)]
  BY <1>0, <1>1, <1>2, RolledBackIs DEF rollback
<1> QED
  BY <1>1, <1>2, <1>3, RestoredIs

(***************************************************************************)
(* MemoryTableFactory2::rollback restores the table: undoing the change    *)
(* log from its last change down to a savepoint, MemoryTable2::rollback    *)
(* gives every row that was there at the savepoint its value back, deletes *)
(* the rows inserted since, and leaves the rows loaded since as they are   *)
(* committed, but for the rows of a tainted key, of which the storage may  *)
(* not show the committed rows in the first place.                         *)
(***************************************************************************)
THEOREM RollbackIsExact == Spec => RollbackRestores
<1>1. BasicInv /\ LogInv =>
         [\A n \in DOMAIN log : rollback(n - 1) => Restored(table', log[n].before)]_vars
  BY RollbackRestoring
<1> QED
  BY <1>1, BasicInit, BasicNext, CleanInit, CleanNext, LogInit, LogNext, PTL
     DEF Spec, RollbackRestores
=============================================================================
