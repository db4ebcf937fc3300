----------------------------- MODULE MemoryTable -----------------------------
(***************************************************************************)
(* The table a block's execution writes to (libstorage/MemoryTable2.cpp),  *)
(* its factory with the change log of the running transaction              *)
(* (MemoryTableFactory2.cpp), and the storage below it (CachedStorage).    *)
(*                                                                         *)
(* The executor reads the rows of a key through the cache like any other   *)
(* thread, keeps the rows it changes in m_dirty and the ones it adds in    *)
(* m_newEntries, and may roll the running transaction back to any earlier  *)
(* point of its change log.  commitDB hands the rows to the storage.       *)
(*                                                                         *)
(* A condition is the set of values it accepts.  Authority checks, hashes  *)
(* and the offset and count of a condition are left out.                   *)
(***************************************************************************)
EXTENDS CachedStorage

CONSTANTS
    Executor,    \* the thread that executes blocks
    Value,       \* values of the one field
    Genesis,     \* the rows the genesis block may have left
    Conditions,  \* conditions of update and remove
    MaxOps,      \* bound on the operations of all blocks
    MaxBlocks    \* bound on the blocks

ASSUME ExecutorAssumption == Executor \in Reader
ASSUME MaxOpsAssumption == MaxOps \in Nat

\* The genesis block was written like any other: the rows of a key are in the order of
\* their ids.
ASSUME GenesisAssumption ==
    \A rows \in Genesis :
        /\ rows \in [Key -> Seq([id : Nat \ {0}, val : Value, removed : {FALSE}])]
        /\ \A k \in Key : \A i, j \in DOMAIN rows[k] : i < j => rows[k][i].id < rows[k][j].id

VARIABLES
    table,  \* m_dirty and m_newEntries
    log,    \* the change log, each change with the table before it (history)
    ops     \* operations so far

vars == <<storage, table, log, ops>>

NoRows == [i \in {} |-> 0]
EmptyTable == [dirty |-> NoRows, fresh |-> [k \in Key |-> <<>>]]

Init ==
    /\ \E rows \in Genesis : InitStorage(rows)
    /\ table = EmptyTable
    /\ log = <<>>
    /\ ops = 0

----------------------------------------------------------------------------
(* The operations of a transaction *)

Executing ==
    /\ commit.pc = "idle"
    /\ Len(blocks) < MaxBlocks

NextOp ==
    /\ ops < MaxOps
    /\ ops' = ops + 1

Insert(k, v, force) ==
    /\ Executing /\ NextOp
    /\ table' = [table EXCEPT !.fresh[k] = Append(@, [val |-> v, removed |-> FALSE,
                                                      deleted |-> FALSE, force |-> force])]
    /\ log' = Append(log, [kind |-> "Insert", key |-> k, ids |-> NoRows,
                           at |-> [i \in {Len(table.fresh[k]) + 1} |-> v], before |-> table])

\* insert does not look at the rows that are there.
insert(k, v) ==
    /\ select[Executor] = IdleReader
    /\ Insert(k, v, FALSE)
    /\ UNCHANGED storage

\* selectNoLock: the rows of the storage the condition accepts, as the block has changed
\* them since, with no second look at the condition ...
dbEntries(condition) ==
    LET k == select[Executor].key
        found == {r \in Range(Selected(Executor)) : r.val \in condition}
        loaded(id) == CHOOSE r \in found : r.id = id
    IN  [id \in {r.id : r \in found} |->
            IF id \in DOMAIN table.dirty THEN table.dirty[id]
            ELSE [key |-> k, val |-> loaded(id).val, removed |-> loaded(id).removed]]

\* ... and the block's own rows that it accepts (Condition::process).
newEntries(condition) ==
    LET fresh == table.fresh[select[Executor].key] IN
    {i \in DOMAIN fresh : ~fresh[i].removed /\ ~fresh[i].deleted /\ fresh[i].val \in condition}

\* A caller that finds no row of the key may insert one with setForce.
insertForced(v) ==
    /\ select[Executor] /= IdleReader
    /\ DOMAIN dbEntries(Value) = {} /\ newEntries(Value) = {}
    /\ Insert(select[Executor].key, v, TRUE)
    /\ SelectRows(Executor)

changed(kind, r, v) == IF kind = "Update" THEN [r EXCEPT !.val = v]
                       ELSE [r EXCEPT !.removed = TRUE]

\* update and remove change the rows they find and log what was there.
Change(kind, condition, v) ==
    LET k == select[Executor].key
        db == dbEntries(condition)
        new == newEntries(condition)
        fresh == table.fresh[k]
    IN
    /\ Executing /\ NextOp
    /\ select[Executor] /= IdleReader
    /\ table' = [dirty |-> [id \in DOMAIN db \cup DOMAIN table.dirty |->
                               IF id \in DOMAIN db THEN changed(kind, db[id], v)
                               ELSE table.dirty[id]],
                 fresh |-> [table.fresh EXCEPT ![k] =
                               [i \in DOMAIN fresh |-> IF i \in new
                                                       THEN changed(kind, fresh[i], v)
                                                       ELSE fresh[i]]]]
    /\ log' = Append(log, [kind |-> kind, key |-> k,
                           ids |-> [id \in DOMAIN db |-> db[id].val],
                           at |-> [i \in new |-> fresh[i].val], before |-> table])
    /\ SelectRows(Executor)

update(condition, v) == Change("Update", condition, v)

remove(condition) == Change("Remove", condition, None)

----------------------------------------------------------------------------
(* Rollback, the end of a transaction, and the end of a block *)

\* MemoryTable2::rollback of one change.
undo(kind, r, val) == CASE kind = "Insert" -> [r EXCEPT !.deleted = TRUE]
                        [] kind = "Update" -> [r EXCEPT !.val = val]
                        [] kind = "Remove" -> [r EXCEPT !.removed = FALSE]

Undo(change, t) ==
    [dirty |-> [id \in DOMAIN t.dirty |-> IF id \in DOMAIN change.ids
                                          THEN undo(change.kind, t.dirty[id], change.ids[id])
                                          ELSE t.dirty[id]],
     fresh |-> [k \in Key |->
                   [i \in DOMAIN t.fresh[k] |-> IF k = change.key /\ i \in DOMAIN change.at
                                                THEN undo(change.kind, t.fresh[k][i], change.at[i])
                                                ELSE t.fresh[k][i]]]]

\* Mistake to detect: the changes are undone from the first one on.
rolledBackForward(savepoint) ==
    LET undone[i \in 0 .. Len(log)] ==
            IF i = 0 THEN table ELSE Undo(log[savepoint + i], undone[i - 1])
    IN  undone[Len(log) - savepoint]

\* The changes are undone from the last one to the savepoint.
rolledBack(savepoint) ==
    LET undone[i \in 0 .. Len(log)] ==
            IF i = 0 THEN table ELSE Undo(log[Len(log) + 1 - i], undone[i - 1])
    IN  undone[Len(log) - savepoint]

rollback(savepoint) ==
    /\ Executing
    /\ select[Executor] = IdleReader
    /\ savepoint < Len(log)
    /\ table' = rolledBack(savepoint)
    /\ log' = SubSeq(log, 1, savepoint)
    /\ UNCHANGED <<storage, ops>>

\* MemoryTableFactory2::commit, at the end of a transaction.
commitTransaction ==
    /\ Executing
    /\ select[Executor] = IdleReader
    /\ log /= <<>>
    /\ log' = <<>>
    /\ UNCHANGED <<storage, table, ops>>

\* A block that is executed and not committed goes with its executive context and the tables
\* that holds.
DropBlock ==
    /\ Executing
    /\ select[Executor] = IdleReader
    /\ log = <<>> /\ table /= EmptyTable
    /\ table' = EmptyTable
    /\ UNCHANGED <<storage, log, ops>>

\* dump: the rows of m_dirty and the new rows whose insertion was not rolled back.
dumpDirty == {[key |-> table.dirty[id].key,
               row |-> row(id, table.dirty[id].val, table.dirty[id].removed)] :
              id \in DOMAIN table.dirty}

dumpNew ==
    UNION {{[key |-> k, at |-> i, force |-> table.fresh[k][i].force,
             row |-> row(0, table.fresh[k][i].val, table.fresh[k][i].removed)] :
            i \in {j \in DOMAIN table.fresh[k] : ~table.fresh[k][j].deleted}} : k \in Key}

commitDB ==
    /\ Executing
    /\ select[Executor] = IdleReader
    /\ log = <<>>
    /\ StartCommit(dumpDirty, dumpNew)
    /\ table' = EmptyTable
    /\ UNCHANGED <<log, ops>>

----------------------------------------------------------------------------

Execute ==
    \/ \E k \in Key, v \in Value : insert(k, v)
    \/ \E v \in Value : insertForced(v)
    \/ \E c \in Conditions, v \in Value : update(c, v)
    \/ \E c \in Conditions : remove(c)
    \/ \E n \in 0 .. MaxOps : rollback(n)
    \/ commitTransaction
    \/ DropBlock
    \/ commitDB

Commit == WriteDirty \/ WriteNew \/ SubmitTask \/ CommitReturns
          \/ \E w \in commit.dirty \cup commit.new : TouchRow(w)

\* Executors select what they mean to change; other threads what they like.
Select ==
    \/ \E k \in Key : Executing /\ ops < MaxOps /\ SelectTouch(Executor, k)
    \/ \E r \in Reader \ {Executor} : SelectRows(r) \/ \E k \in Key : SelectTouch(r, k)

Storage == Commit \/ Select \/ commitBackend \/ \E k \in Key : checkAndClear(k)

End ==
    /\ Restart
    /\ table' = EmptyTable
    /\ log' = <<>>
    /\ UNCHANGED ops

Next ==
    \/ Running /\ Execute
    \/ Running /\ Storage /\ UNCHANGED <<table, log, ops>>
    \/ End

Spec == Init /\ [][Next]_vars

----------------------------------------------------------------------------
(* Properties *)

TypeOK ==
    /\ caches \in [Key -> Obj \cup {NoObj}]
    /\ \A o \in Obj : obj[o].num \in 0 .. num /\ obj[o].empty \in BOOLEAN
    /\ mru \subseteq Key
    /\ ID \in Nat \ {0}
    /\ syncNum <= commitNum
    /\ \A k \in Key : caches[k] /= NoObj /\ obj[caches[k]].empty => obj[caches[k]].rows = <<>>
    /\ Len(log) <= ops /\ ops <= MaxOps
    /\ \A id \in DOMAIN table.dirty : id <= ID

\* What a select of the key shows now.
Shown(k) == IF caches[k] = NoObj \/ obj[caches[k]].empty THEN Load(k)
            ELSE Normal(obj[caches[k]].rows)

\* Between two commits a select shows the rows of the last committed block: whatever was
\* flushed, cleared from the cache, loaded again or lost by a restart (CachedStorage.cpp
\* commit, selectNoCondition, checkAndClear, commitBackend).
SelectsCommitted ==
    commit.pc \in {"idle", "wait"} => \A k \in Key : Shown(k) = Committed[k]

\* The same for the keys whose object the clear thread never emptied under a thread that
\* waited for its lock, of which no block changed two rows, and that no crash left with rows
\* of a block that was not flushed.
SelectsCommittedUnlessTainted ==
    commit.pc \in {"idle", "wait"} => \A k \in Key \ tainted : Shown(k) = Committed[k]

\* The rows of a key that is not tainted are in the order of their ids and no id comes twice
\* or is still to be given out, in the cache and on disk: commit() finds the row a block
\* changes by a binary search for its id, and init() takes the last id from the store.  The
\* exception is needed: of two rows of a key that one block changes, the second goes into the
\* task as a copy and, with the object, as a pointer, so that its id comes twice on disk
\* (CachedStorage.cpp:308-324).
RowsInIdOrderUnlessTainted ==
    LET InOrder(rows) == /\ \A i, j \in DOMAIN rows : i < j => rows[i].id < rows[j].id
                         /\ \A i \in DOMAIN rows : rows[i].id <= ID
    IN  \A k \in Key \ tainted :
            InOrder(backend.rows[k]) /\ (caches[k] /= NoObj => InOrder(obj[caches[k]].rows))

\* A process that ends now loses at most MaxForwardBlock blocks and the one whose commit()
\* still waits (commit's wait loop and commitBackend).
LossBounded ==
    num - 1 - backend.num <= MaxForwardBlock + (IF commit.pc = "wait" THEN 1 ELSE 0)

\* A row is as it was, or removed before and back now.
AsBefore(r, old) == r \in {old, [old EXCEPT !.removed = FALSE]}

\* A row of the storage is as it was committed, or its key is tainted, so that what the storage
\* shows for it is not what was committed even without a rollback.
AsCommitted(id, r) ==
    r.key \in tainted \/ row(id, r.val, r.removed) \in Range(Committed[r.key])

\* The table has the rows it had before, and of the others those the block added are
\* deleted and those of the storage are as they were committed, but for tainted keys.
Restored(t, before) ==
    /\ \A k \in Key :
          /\ DOMAIN before.fresh[k] \subseteq DOMAIN t.fresh[k]
          /\ \A i \in DOMAIN t.fresh[k] :
                IF i \in DOMAIN before.fresh[k] THEN AsBefore(t.fresh[k][i], before.fresh[k][i])
                ELSE t.fresh[k][i].deleted
    /\ DOMAIN before.dirty \subseteq DOMAIN t.dirty
    /\ \A id \in DOMAIN t.dirty :
          IF id \in DOMAIN before.dirty THEN AsBefore(t.dirty[id], before.dirty[id])
          ELSE AsCommitted(id, t.dirty[id])

\* After a rollback every row that was there at the savepoint is there as it was, and none
\* that came after it (MemoryTableFactory2::rollback, MemoryTable2::rollback).  A row that
\* the block had removed before the savepoint may come back, and of a tainted key the rows
\* loaded after the savepoint are left out, as they need not be the committed ones.
RollbackRestores ==
    [][\A n \in DOMAIN log : rollback(n - 1) => Restored(table', log[n].before)]_vars
=============================================================================
