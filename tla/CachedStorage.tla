---------------------------- MODULE CachedStorage ----------------------------
(***************************************************************************)
(* The write-behind cache in front of the key-value store                  *)
(* (libstorage/CachedStorage.cpp and .h) and what a RocksDB backend writes *)
(* (RocksDBStorage.cpp).  A block's commit() puts its rows into the cache  *)
(* objects of their keys and queues a task; one flush thread writes the    *)
(* tasks to the backend; a clear thread removes cache objects; any thread  *)
(* may select.  A process that ends loses all but the backend.             *)
(*                                                                         *)
(* The rows of a key are a sequence; a row has an id, a value, and a flag  *)
(* for its status.  A thread looks its cache object up first (touchCache,  *)
(* under m_cachesMutex) and then waits for the object's own lock; what it  *)
(* does with that lock held is one step.  Capacities are left out: the     *)
(* clear thread may find the cache too large at any time.                  *)
(*                                                                         *)
(* The module has the storage's threads but no specification of its own:   *)
(* the blocks come from MemoryTable.                                       *)
(***************************************************************************)
EXTENDS Integers, Sequences, FiniteSets, SequencesExt, FiniteSetsExt, TLC

CONSTANTS
    Key,               \* keys of the tables
    Reader,            \* threads that select
    Obj,               \* cache objects
    MaxForwardBlock,   \* m_maxForwardBlock
    MaxRestart         \* bound on the times the process ends

ASSUME ForwardAssumption == MaxForwardBlock \in Nat
ASSUME KeyAssumption == IsFiniteSet(Key)
ASSUME ObjAssumption == Obj \subseteq Nat \ {0}

None == "none"
NoObj == 0
NewCache == [rows |-> <<>>, num |-> 0, empty |-> TRUE]

\* What a block writes to each key: copies of the rows it changed, in an object where the
\* other rows are (all up to len but one), and the new rows.
NoWrites == [dirty |-> <<>>, obj |-> NoObj, len |-> 0, but |-> 0, new |-> <<>>]
NoData == [k \in Key |-> NoWrites]
IdleCommit == [pc |-> "idle", dirty |-> {}, new |-> {}, write |-> None, obj |-> NoObj,
               data |-> NoData]
IdleReader == [key |-> None, obj |-> NoObj]

VARIABLES
    caches,     \* m_caches: the cache object of each key
    obj,        \* the cache objects: rows, num, empty
    mru,        \* keys in m_mruQueue or m_mru
    ID,         \* m_ID: the last row id given out
    commitNum,  \* m_commitNum
    syncNum,    \* m_syncNum
    queue,      \* tasks of the flush thread
    commit,     \* the thread that commits a block
    select,     \* the threads that select
    backend,    \* the rows on disk, the block and the row id they belong to, and the last
                \* block whose changes the rows of each key may already have
    blocks,     \* the rows after each committed block
    tainted,    \* history: keys whose object was cleared while a thread waited for it,
                \* with two rows changed by one block, or ahead of their block on disk
    restarts

storage == <<caches, obj, mru, ID, commitNum, syncNum, queue, commit, select, backend,
             blocks, tainted, restarts>>

----------------------------------------------------------------------------
(* Rows *)

row(id, val, removed) == [id |-> id, val |-> val, removed |-> removed]
Ids(rows) == {rows[i].id : i \in DOMAIN rows}

\* The rows that are not removed.
Normal(rows) ==
    LET kept[i \in 0 .. Len(rows)] ==
            IF i = 0 THEN <<>>
            ELSE IF rows[i].removed THEN kept[i - 1]
            ELSE Append(kept[i - 1], rows[i])
    IN  kept[Len(rows)]

\* The first row with the id, as lower_bound finds it.
IndexOf(rows, id) == Min({i \in DOMAIN rows : rows[i].id = id})

ById(rows) ==
    LET order == CHOOSE p \in Bijection(DOMAIN rows, DOMAIN rows) :
                     \A i, j \in DOMAIN rows : i < j => rows[p[i]].id <= rows[p[j]].id
    IN  [i \in DOMAIN rows |-> rows[order[i]]]

\* What RocksDBStorage::select returns.
Load(k) == Normal(backend.rows[k])

\* The number of the next block; the genesis block has number 0.
num == Len(blocks)
Committed == Last(blocks)

----------------------------------------------------------------------------
(* Cache objects *)

Pointers(data) == {data[k].obj : k \in Key}

\* Cache objects that a key, a thread or a task still refers to.
InUse == Range(caches) \cup {commit.obj} \cup {select[r].obj : r \in Reader}
         \cup Pointers(commit.data) \cup UNION {Pointers(t.data) : t \in Range(queue)}

\* touchCache: the object of the key, a new one when there is none.  Obj bounds how many
\* there can be.
touchCache(k) == IF caches[k] /= NoObj THEN caches[k] ELSE Min(Obj \ InUse)

Touched(k, o) ==
    /\ caches[k] = NoObj => Obj \ InUse /= {}
    /\ caches' = [caches EXCEPT ![k] = o]
    /\ obj' = IF caches[k] = NoObj THEN [obj EXCEPT ![o] = NewCache] ELSE obj

\* An object goes when the last pointer to it does.
Keep(objects) == obj' = [o \in Obj |-> IF o \in InUse' THEN objects[o] ELSE NewCache]

\* The store holds the rows of the genesis block.
InitStorage(rows) ==
    /\ caches = [k \in Key |-> NoObj]
    /\ obj = [o \in Obj |-> NewCache]
    /\ mru = {}
    /\ ID = Max({1} \cup UNION {Ids(rows[k]) : k \in Key})
    /\ commitNum = 0
    /\ syncNum = 0
    /\ queue = <<>>
    /\ commit = IdleCommit
    /\ select = [r \in Reader |-> IdleReader]
    /\ backend = [rows |-> rows, num |-> 0, id |-> ID, ahead |-> [k \in Key |-> 0]]
    /\ blocks = <<rows>>
    /\ tainted = {}
    /\ restarts = 0

----------------------------------------------------------------------------
(* commit *)

\* A block comes with the dirty and the new rows of its tables.
StartCommit(dirty, new) ==
    /\ commit.pc = "idle"
    /\ commit' = [IdleCommit EXCEPT !.pc = "touch", !.dirty = dirty, !.new = new]
    /\ UNCHANGED <<caches, obj, mru, ID, commitNum, syncNum, queue, select, backend,
                   blocks, tainted, restarts>>

\* The next row, the dirty ones first; a new row gets its id.  The code has several threads
\* write the dirty rows (tbb::parallel_for); here they come one at a time, in any order.
TouchRow(w) ==
    LET new == commit.dirty = {} IN
    /\ commit.pc = "touch"
    /\ w \in IF new THEN commit.new ELSE commit.dirty
    /\ ID' = IF new THEN ID + 1 ELSE ID
    /\ Touched(w.key, touchCache(w.key))
    /\ commit' = [commit EXCEPT !.pc = IF new THEN "writeNew" ELSE "writeDirty",
                                !.dirty = @ \ {w}, !.new = IF new THEN @ \ {w} ELSE @,
                                !.write = w, !.obj = touchCache(w.key)]
    /\ UNCHANGED <<mru, commitNum, syncNum, queue, select, backend, blocks, tainted, restarts>>

\* What both kinds of rows do with the lock of the object: an empty one is loaded from
\* the backend and put back into m_caches (restoreCache).
Restoring == obj[commit.obj].empty
CachedRows == IF Restoring THEN Load(commit.write.key) ELSE obj[commit.obj].rows
RestoreFails == Restoring /\ caches[commit.write.key] \notin {NoObj, commit.obj}

Written(rows, data, restore) ==
    /\ obj' = [obj EXCEPT ![commit.obj] = [rows |-> rows, num |-> num, empty |-> FALSE]]
    /\ caches' = IF restore THEN [caches EXCEPT ![commit.write.key] = commit.obj] ELSE caches
    /\ mru' = mru \cup {commit.write.key}
    /\ commit' = [commit EXCEPT !.pc = "touch", !.write = None, !.obj = NoObj, !.data = data]

\* The process exits: another object is in m_caches by now, or the row is not there.
Exit == commit' = [commit EXCEPT !.pc = "exit"] /\ UNCHANGED <<caches, obj, mru>>

\* A dirty row replaces the cached one and is copied into the task, where the key's other
\* rows go as well, those as pointers into the cache.
WriteDirty ==
    LET k == commit.write.key
        r == commit.write.row
        rows == CachedRows
        i == IndexOf(rows, r.id)
        d == commit.data[k]
        second == d.obj /= NoObj
        copied == [d EXCEPT !.dirty = Append(@, r)]
    IN
    /\ commit.pc = "writeDirty"
    /\ IF RestoreFails \/ r.id \notin Ids(rows)
       THEN Exit
       ELSE Written([rows EXCEPT ![i] = r],
                    [commit.data EXCEPT ![k] =
                        IF second THEN copied
                        ELSE [copied EXCEPT !.obj = commit.obj, !.len = Len(rows), !.but = i]],
                    Restoring)
    /\ tainted' = IF second THEN tainted \cup {k} ELSE tainted
    /\ UNCHANGED <<ID, commitNum, syncNum, queue, select, backend, blocks, restarts>>

\* A new row is appended; a forced one without a look at the backend.
WriteNew ==
    LET w == commit.write
        r == [w.row EXCEPT !.id = ID]
        load == Restoring /\ ~w.force
        rows == IF w.force THEN obj[commit.obj].rows ELSE CachedRows
    IN
    /\ commit.pc = "writeNew"
    /\ IF load /\ RestoreFails
       THEN Exit
       ELSE Written(Append(rows, r),
                    [commit.data EXCEPT ![w.key].new = Append(@, [row |-> r, force |-> w.force])],
                    load)
    /\ UNCHANGED <<ID, commitNum, syncNum, queue, select, backend, blocks, tainted, restarts>>

\* The rows of a key after what the block writes to it.
After(rows, d) ==
    LET copy(r) == CHOOSE i \in DOMAIN d.dirty : d.dirty[i].id = r.id
        update(r) == IF r.id \in Ids(d.dirty) THEN d.dirty[copy(r)] ELSE r
    IN  [i \in DOMAIN rows |-> update(rows[i])] \o [i \in DOMAIN d.new |-> d.new[i].row]

\* Mistake to detect: m_commitNum is not moved to the block of the task.
SubmitTaskUncounted ==
    /\ commit.pc = "touch" /\ commit.dirty = {} /\ commit.new = {}
    /\ queue' = Append(queue, [num |-> num, id |-> ID, data |-> commit.data])
    /\ blocks' = Append(blocks, [k \in Key |-> Normal(After(Committed[k], commit.data[k]))])
    /\ commit' = [IdleCommit EXCEPT !.pc = "wait"]
    /\ UNCHANGED <<caches, obj, mru, ID, commitNum, syncNum, select, backend, tainted, restarts>>

\* The task is handed to the flush thread.  blocks records what the block wrote.
SubmitTask ==
    /\ commit.pc = "touch" /\ commit.dirty = {} /\ commit.new = {}
    /\ commitNum' = num
    /\ queue' = Append(queue, [num |-> num, id |-> ID, data |-> commit.data])
    /\ blocks' = Append(blocks, [k \in Key |-> Normal(After(Committed[k], commit.data[k]))])
    /\ commit' = [IdleCommit EXCEPT !.pc = "wait"]
    /\ UNCHANGED <<caches, obj, mru, ID, syncNum, select, backend, tainted, restarts>>

\* Mistake to detect: commit does not wait for the flush thread.
CommitReturnsAtOnce ==
    /\ commit.pc = "wait"
    /\ commit' = IdleCommit
    /\ UNCHANGED <<caches, obj, mru, ID, commitNum, syncNum, queue, select, backend,
                   blocks, tainted, restarts>>

\* commit waits while the flush thread is too far behind.
CommitReturns ==
    /\ commit.pc = "wait"
    /\ commitNum - syncNum <= MaxForwardBlock
    /\ commit' = IdleCommit
    /\ UNCHANGED <<caches, obj, mru, ID, commitNum, syncNum, queue, select, backend,
                   blocks, tainted, restarts>>

----------------------------------------------------------------------------
(* The flush thread *)

\* RocksDBStorage::processDirtyEntries: the dirty rows of the key and the others that
\* came with them, as they are in the cache now.
processDirtyEntries(d) ==
    LET others == [i \in 1 .. d.len - 1 |-> obj[d.obj].rows[IF i < d.but THEN i ELSE i + 1]]
    IN  IF d.dirty = <<>> THEN <<>> ELSE ById(d.dirty \o others)

\* RocksDBStorage::processNewEntries: the new rows follow those, or those of the backend,
\* or replace them when they are forced.
processNewEntries(k, d) ==
    (IF d.dirty /= <<>> THEN processDirtyEntries(d)
     ELSE IF d.new /= <<>> /\ d.new[1].force THEN <<>> ELSE backend.rows[k])
    \o [i \in DOMAIN d.new |-> d.new[i].row]

\* A pointer in the task leads to what later blocks have made of the rows since.
aheadOf(k, d) == IF d.obj = NoObj THEN backend.ahead[k] ELSE obj[d.obj].num

\* commitBackend: one write batch, and then m_syncNum.  The batch is taken to be written: the
\* code does not look at the status of m_db->Write (RocksDBStorage.cpp:149).
commitBackend ==
    /\ queue /= <<>>
    /\ backend' = [rows |-> [k \in Key |-> processNewEntries(k, Head(queue).data[k])],
                   num |-> Head(queue).num, id |-> Head(queue).id,
                   ahead |-> [k \in Key |-> aheadOf(k, Head(queue).data[k])]]
    /\ syncNum' = Head(queue).num
    /\ queue' = Tail(queue)
    /\ UNCHANGED <<caches, mru, ID, commitNum, commit, select, blocks, tainted, restarts>>
    /\ Keep(obj)

----------------------------------------------------------------------------
(* select, and the clear thread *)

SelectTouch(r, k) ==
    /\ select[r] = IdleReader
    /\ Touched(k, touchCache(k))
    /\ select' = [select EXCEPT ![r] = [key |-> k, obj |-> touchCache(k)]]
    /\ UNCHANGED <<mru, ID, commitNum, syncNum, queue, commit, backend, blocks, tainted,
                   restarts>>

\* What the thread finds in its object.
Selected(r) == LET s == select[r] IN
               IF obj[s.obj].empty THEN Load(s.key) ELSE Normal(obj[s.obj].rows)

\* selectNoCondition with the object's lock held: an empty object is loaded.
SelectRows(r) ==
    LET s == select[r] IN
    /\ s /= IdleReader
    /\ mru' = mru \cup {s.key}
    /\ select' = [select EXCEPT ![r] = IdleReader]
    /\ UNCHANGED <<caches, ID, commitNum, syncNum, queue, commit, backend, blocks, tainted,
                   restarts>>
    /\ Keep(IF obj[s.obj].empty
            THEN [obj EXCEPT ![s.obj].rows = Load(s.key), ![s.obj].empty = FALSE]
            ELSE obj)

\* Threads that hold the object and wait for its lock.
Waiting(o) == {r \in Reader : select[r].obj = o} \cup {c \in {"commit"} : commit.obj = o}

\* Mistake to detect: the number of an object is not compared with the last flushed block.
checkAndClearUnflushed(k) ==
    LET o == caches[k] IN
    /\ syncNum > 0
    /\ k \in mru
    /\ mru' = mru \ {k}
    /\ caches' = [caches EXCEPT ![k] = NoObj]
    /\ tainted' = IF o /= NoObj /\ Waiting(o) /= {} THEN tainted \cup {k} ELSE tainted
    /\ UNCHANGED <<ID, commitNum, syncNum, queue, commit, select, backend, blocks, restarts>>
    /\ Keep(IF o = NoObj THEN obj ELSE [obj EXCEPT ![o].empty = TRUE])

\* checkAndClear of one key, with the lock of its object: what is flushed may go.
checkAndClear(k) ==
    LET o == caches[k] IN
    /\ syncNum > 0
    /\ k \in mru
    /\ o /= NoObj => obj[o].num <= syncNum
    /\ mru' = mru \ {k}
    /\ caches' = [caches EXCEPT ![k] = NoObj]
    /\ tainted' = IF o /= NoObj /\ Waiting(o) /= {} THEN tainted \cup {k} ELSE tainted
    /\ UNCHANGED <<ID, commitNum, syncNum, queue, commit, select, backend, blocks, restarts>>
    /\ Keep(IF o = NoObj THEN obj ELSE [obj EXCEPT ![o].empty = TRUE])

\* Mistake to detect: init does not read the last row id from the store.
RestartWithFirstId ==
    /\ restarts < MaxRestart
    /\ restarts' = restarts + 1
    /\ caches' = [k \in Key |-> NoObj]
    /\ obj' = [o \in Obj |-> NewCache]
    /\ mru' = {}
    /\ ID' = 1
    /\ commitNum' = 0
    /\ syncNum' = 0
    /\ queue' = <<>>
    /\ commit' = IdleCommit
    /\ select' = [r \in Reader |-> IdleReader]
    /\ blocks' = SubSeq(blocks, 1, backend.num + 1)
    /\ tainted' = tainted \cup {k \in Key : backend.ahead[k] > backend.num}
    /\ UNCHANGED backend

\* The process ends, by exit(1) in commit, by a crash or by stop(), which drops the queue;
\* init() reads the last row id from the backend.
Restart ==
    /\ restarts < MaxRestart
    /\ restarts' = restarts + 1
    /\ caches' = [k \in Key |-> NoObj]
    /\ obj' = [o \in Obj |-> NewCache]
    /\ mru' = {}
    /\ ID' = backend.id
    /\ commitNum' = 0
    /\ syncNum' = 0
    /\ queue' = <<>>
    /\ commit' = IdleCommit
    /\ select' = [r \in Reader |-> IdleReader]
    /\ blocks' = SubSeq(blocks, 1, backend.num + 1)
    /\ tainted' = tainted \cup {k \in Key : backend.ahead[k] > backend.num}
    /\ UNCHANGED backend

Running == commit.pc /= "exit"
=============================================================================
