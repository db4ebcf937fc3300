--------------------------- MODULE PBFTSealerProofs ---------------------------
(***************************************************************************)
(* Proofs about PBFTSealer for every number of sealers, every pool and     *)
(* every bound: the types; that the sealer thread and the engine's thread, *)
(* which take x_sealing and m_mutex in opposite orders, never wait for     *)
(* each other; and that nothing is sealed or proposed twice.               *)
(*                                                                         *)
(* The engine takes x_sealing with m_mutex held only as the next leader of *)
(* another one's block; the sealer thread takes m_mutex with x_sealing     *)
(* held only as the leader.  LockInv says that the leader does not change  *)
(* in between, unless the engine goes on to the callback of a time-out,    *)
(* which waits for x_sealing without m_mutex.                              *)
(*                                                                         *)
(* OnceInv relates the block being sealed, the pool and the prepares to    *)
(* the chain: agreed transactions leave the pool before they can be sealed *)
(* again, and a node that has sent its prepare does not fill another block *)
(* of that height and view.                                                *)
(***************************************************************************)
EXTENDS PBFTSealer, SequenceTheorems, TLAPS

PrepareType == [height : Nat, view : Nat, txs : SUBSET Tx]
SealingType == [number : Nat, txs : SUBSET Tx, sealed : BOOLEAN, filter : SUBSET Tx]
BlockType == [txs : SUBSET Tx, by : {"engine", "sync"}]
EngineType ==
    [highest : Nat, view : Nat, toView : Nat, leaderFailed : BOOLEAN, notify : BOOLEAN,
     raw : Nat, prepare : PrepareType, committed : PrepareType, limit : TxLimits \cup {MaxSeal}]
ThreadType ==
    [sealer : {"begin", "report", "reset", "check", "load", "rehandle", "handle", "prepare"},
     engine : {"free", "notify", "stored", "drop", "timeout", "viewChange"},
     sync : {"free", "stored", "drop"}]
LocalType == [sealer : Nat, engine : SUBSET Tx, sync : SUBSET Tx]

\* The types in full, and the two orders that TypeOK names.
TypeInv ==
    /\ blocks \in Seq(BlockType)
    /\ pool \subseteq Tx
    /\ sealing \in SealingType
    /\ engine \in EngineType
    /\ mutex \in {"free", "engine"}
    /\ xsealing \in {"free", "sealer"}
    /\ pc \in ThreadType
    /\ local \in LocalType

BoundInv ==
    /\ engine.highest <= number /\ local.sealer <= number
    /\ engine.view <= engine.toView

LockInv ==
    /\ xsealing = "sealer" => pc.sealer \in {"handle", "prepare"}
    /\ pc.engine \in {"notify", "stored", "drop"} => mutex = "engine"
    /\ pc.engine = "notify" => getLeader # Me /\ xsealing # "sealer"
    /\ engine.toView > engine.view => engine.leaderFailed \/ pc.engine = "timeout"
    /\ xsealing = "sealer" /\ pc.engine \in {"free", "stored", "drop"}
          => getLeader = Me /\ engine.toView = engine.view

SealerInv == TypeInv /\ BoundInv /\ LockInv

LEMMA NumberType == TypeInv => number \in Nat
BY LenProperties DEF TypeInv, number

LEMMA ResetType ==
    ASSUME TypeInv, NEW f \in SUBSET Tx, NEW k \in Nat
    PROVE  resetSealingBlock(f, k) \in SealingType
BY NumberType DEF resetSealingBlock, SealingType

LEMMA LeaderNotMe ==
    NoLeader # Me
BY NodeAssumption DEF NoLeader

LEMMA InitSealerInv == Init => SealerInv
<1> SUFFICES ASSUME Init PROVE SealerInv
  OBVIOUS
<1>1. blocks \in Seq(BlockType) /\ number = 0
  BY DEF Init, number
<1>2. NoPrepare \in PrepareType
  BY DEF NoPrepare, PrepareType
<1>3. sealing \in SealingType
  BY <1>1 DEF Init, resetSealingBlock, SealingType
<1>4. engine \in EngineType
  BY <1>2 DEF Init, EngineType
<1>5. pc \in ThreadType /\ local \in LocalType
  BY DEF Init, ThreadType, LocalType
<1>6. TypeInv
  BY <1>1, <1>3, <1>4, <1>5 DEF Init, TypeInv
<1>7. BoundInv
  BY <1>1 DEF Init, BoundInv
<1>8. LockInv
  BY DEF Init, LockInv
<1> QED
  BY <1>6, <1>7, <1>8 DEF SealerInv

-----------------------------------------------------------------------------
(* Where the threads go.                                                   *)

SealerPC == {"begin", "report", "reset", "check", "load", "rehandle", "handle", "prepare"}
EnginePC == {"free", "notify", "stored", "drop", "timeout", "viewChange"}
SyncPC == {"free", "stored", "drop"}

LEMMA GotoSealer ==
    ASSUME pc \in ThreadType, NEW x \in SealerPC, Goto("sealer", x)
    PROVE  pc' \in ThreadType /\ pc'.sealer = x /\ pc'.engine = pc.engine
BY DEF ThreadType, Goto, SealerPC

LEMMA GotoEngine ==
    ASSUME pc \in ThreadType, NEW x \in EnginePC, Goto("engine", x)
    PROVE  pc' \in ThreadType /\ pc'.engine = x /\ pc'.sealer = pc.sealer
BY DEF ThreadType, Goto, EnginePC

LEMMA GotoSync ==
    ASSUME pc \in ThreadType, NEW x \in SyncPC, Goto("sync", x)
    PROVE  pc' \in ThreadType /\ pc'.engine = pc.engine /\ pc'.sealer = pc.sealer
BY DEF ThreadType, Goto, SyncPC

\* A step that leaves the engine and the locks alone keeps LockInv.
LEMMA LocksUntouched ==
    ASSUME LockInv, UNCHANGED <<engine, mutex, xsealing>>, pc'.engine = pc.engine,
           pc'.sealer = pc.sealer \/ xsealing # "sealer"
    PROVE  LockInv'
<1>1. getLeader' = getLeader
  BY DEF getLeader
<1> QED
  BY <1>1 DEF LockInv

\* The sealer thread between two turns holds no lock.
LEMMA SealerMoves ==
    ASSUME SealerInv, NEW x \in SealerPC, Goto("sealer", x),
           pc.sealer \notin {"handle", "prepare"},
           UNCHANGED <<engine, mutex, xsealing>>
    PROVE  pc' \in ThreadType /\ LockInv'
<1>1. pc' \in ThreadType /\ pc'.engine = pc.engine
  BY GotoSealer DEF SealerInv, TypeInv
<1>2. xsealing # "sealer"
  BY DEF SealerInv, LockInv
<1> QED
  BY <1>1, <1>2, LocksUntouched DEF SealerInv

-----------------------------------------------------------------------------
(* The pool and the sealer thread.                                         *)

LEMMA ImportKeeps ==
    ASSUME SealerInv, NEW t \in Tx, Import(t)
    PROVE  SealerInv'
<1>1. pool' \subseteq Tx
  BY DEF Import, SealerInv, TypeInv
<1>2. UNCHANGED <<blocks, sealing, engine, mutex, xsealing, pc, local>>
  BY DEF Import
<1>3. LockInv'
  BY <1>2, LocksUntouched DEF SealerInv
<1> QED
  BY <1>1, <1>2, <1>3 DEF SealerInv, TypeInv, BoundInv, number

LEMMA ReportNewBlockKeeps ==
    ASSUME SealerInv, reportNewBlock
    PROVE  SealerInv'
<1>1. UNCHANGED <<blocks, pool, sealing, engine, mutex, xsealing>> /\ pc.sealer = "begin"
  BY DEF reportNewBlock
<1>2. pc' \in ThreadType /\ LockInv'
  BY <1>1, SealerMoves DEF reportNewBlock, SealerPC
<1>3. number \in Nat
  BY NumberType DEF SealerInv
<1>4. local' \in LocalType
  BY <1>3 DEF reportNewBlock, SealerInv, TypeInv, LocalType
<1>5. local'.sealer <= number
  BY <1>3 DEF reportNewBlock, SealerInv, TypeInv, LocalType, BoundInv
<1> QED
  BY <1>1, <1>2, <1>4, <1>5 DEF SealerInv, TypeInv, BoundInv, number

LEMMA ReportBlockKeeps ==
    ASSUME SealerInv, reportBlock
    PROVE  SealerInv'
<1>1. /\ UNCHANGED <<blocks, pool, sealing, mutex, xsealing, local>>
      /\ pc.sealer = "report" /\ mutex = "free" /\ Goto("sealer", "reset")
  BY DEF reportBlock
<1>2. pc \in ThreadType /\ engine \in EngineType /\ local.sealer \in Nat
  BY DEF SealerInv, TypeInv, LocalType
<1>3. pc' \in ThreadType /\ pc'.sealer = "reset" /\ pc'.engine = pc.engine
  BY <1>1, <1>2, GotoSealer DEF SealerPC
<1>4. xsealing # "sealer" /\ pc.engine # "notify"
  BY <1>1 DEF SealerInv, LockInv
<1>5. CASE engine.highest < local.sealer
  <2> DEFINE p == IF engine.prepare.txs = blocks[local.sealer].txs
                  THEN NoPrepare ELSE engine.prepare
             e(l) == [engine EXCEPT !.highest = local.sealer, !.view = 0, !.toView = 0,
                                    !.leaderFailed = FALSE, !.limit = l, !.prepare = p]
  <2>1. PICK l \in TxLimits : engine' = e(l)
    BY <1>5 DEF reportBlock
  <2>2. p \in PrepareType
    BY <1>2 DEF NoPrepare, PrepareType, EngineType
  <2> HIDE DEF p
  <2>3. engine' \in EngineType
    BY <1>2, <2>1, <2>2 DEF EngineType
  <2>4. engine'.highest = local.sealer /\ engine'.view = 0 /\ engine'.toView = 0
    BY <1>2, <2>1 DEF EngineType
  <2>5. BoundInv'
    BY <1>1, <2>4 DEF SealerInv, BoundInv, number
  <2>6. LockInv'
    BY <1>1, <1>3, <1>4, <2>4 DEF SealerInv, LockInv
  <2> QED
    BY <1>1, <1>3, <2>3, <2>5, <2>6 DEF SealerInv, TypeInv
<1>6. CASE ~ (engine.highest < local.sealer)
  <2>1. engine' = engine
    BY <1>6 DEF reportBlock
  <2>2. LockInv'
    BY <1>1, <1>3, <1>4, <2>1, LocksUntouched DEF SealerInv
  <2> QED
    BY <1>1, <1>3, <2>1, <2>2 DEF SealerInv, TypeInv, BoundInv, number
<1> QED
  BY <1>5, <1>6

LEMMA ResetSealingKeeps ==
    ASSUME SealerInv, resetSealing
    PROVE  SealerInv'
<1>1. UNCHANGED <<blocks, pool, engine, mutex, xsealing, local>> /\ pc.sealer = "reset"
  BY DEF resetSealing
<1>2. pc' \in ThreadType /\ LockInv'
  BY <1>1, SealerMoves DEF resetSealing, SealerPC
<1>3. sealing' \in SealingType
  BY ResetType DEF resetSealing, beginBlock, SealerInv, TypeInv
<1> QED
  BY <1>1, <1>2, <1>3 DEF SealerInv, TypeInv, BoundInv, number

LEMMA CheckShouldSealKeeps ==
    ASSUME SealerInv, checkShouldSeal
    PROVE  SealerInv'
<1>1. UNCHANGED <<blocks, pool, sealing, engine, mutex, xsealing, local>> /\ pc.sealer = "check"
  BY DEF checkShouldSeal
<1> DEFINE x == CASE shouldSeal -> "load" [] shouldRehandle -> "rehandle" [] OTHER -> "begin"
<1>2. x \in SealerPC /\ Goto("sealer", x)
  BY DEF checkShouldSeal, SealerPC
<1>3. pc' \in ThreadType /\ LockInv'
  BY <1>1, <1>2, SealerMoves
<1> QED
  BY <1>1, <1>3 DEF SealerInv, TypeInv, BoundInv, number

LEMMA DoWorkKeeps ==
    ASSUME SealerInv, NEW i \in BOOLEAN, NEW late \in BOOLEAN, doWork(i, late)
    PROVE  SealerInv'
<1>1. UNCHANGED <<blocks, pool, engine, mutex, local>> /\ pc.sealer = "load" /\ xsealing = "free"
  BY DEF doWork
<1>2. PICK load \in SUBSET (pool \ sealing.filter) :
        sealing' = [sealing EXCEPT !.txs = @ \cup load, !.filter = @ \cup load]
  BY DEF doWork
<1>3. sealing' \in SealingType /\ sealing'.number = sealing.number
  BY <1>2 DEF SealerInv, TypeInv, SealingType
<1>4. pc \in ThreadType
  BY DEF SealerInv, TypeInv
<1>5. CASE xsealing' = "free" /\ Goto("sealer", "begin")
  <2>1. pc' \in ThreadType /\ LockInv'
    BY <1>1, <1>5, SealerMoves DEF SealerPC
  <2> QED
    BY <1>1, <1>3, <1>5, <2>1 DEF SealerInv, TypeInv, BoundInv, number
<1>6. CASE shouldHandleBlock /\ xsealing' = "sealer" /\ Goto("sealer", "handle")
  <2>1. pc' \in ThreadType /\ pc'.sealer = "handle" /\ pc'.engine = pc.engine
    BY <1>4, <1>6, GotoSealer DEF SealerPC
  <2>2. getLeader = Me /\ getLeader' = getLeader
    BY <1>1, <1>6 DEF shouldHandleBlock, getLeader
  <2>3. ~ engine.leaderFailed
    BY <2>2, LeaderNotMe DEF getLeader
  <2>4. engine.view \in Nat /\ engine.toView \in Nat /\ engine.view <= engine.toView
    BY DEF SealerInv, TypeInv, EngineType, BoundInv
  <2>5. pc.engine # "timeout" => engine.toView = engine.view
    BY <2>3, <2>4 DEF SealerInv, LockInv
  <2>6. pc.engine # "notify"
    BY <2>2 DEF SealerInv, LockInv
  <2>7. engine'.toView > engine'.view => engine'.leaderFailed \/ pc'.engine = "timeout"
    BY <1>1, <2>1 DEF SealerInv, LockInv
  <2>8. pc'.engine \in {"notify", "stored", "drop"} => mutex' = "engine"
    BY <1>1, <2>1 DEF SealerInv, LockInv
  <2>9. pc'.engine \in {"free", "stored", "drop"} => engine'.toView = engine'.view
    BY <1>1, <2>1, <2>5
  <2>10. LockInv'
    BY <1>6, <2>1, <2>2, <2>6, <2>7, <2>8, <2>9 DEF LockInv
  <2> QED
    BY <1>1, <1>3, <1>6, <2>1, <2>10 DEF SealerInv, TypeInv, BoundInv, number
<1> QED
  BY <1>1, <1>5, <1>6 DEF doWork

LEMMA HandleBlockKeeps ==
    ASSUME SealerInv, handleBlock
    PROVE  SealerInv'
<1>1. UNCHANGED <<blocks, pool, engine, mutex, local>> /\ pc.sealer = "handle"
  BY DEF handleBlock
<1>2. pc \in ThreadType /\ number \in Nat
  BY NumberType DEF SealerInv, TypeInv
<1>3. sealing' \in SealingType
  <2>1. resetSealingBlock({}, 1) \in SealingType
    BY ResetType DEF SealerInv
  <2>2. number + 1 \in Nat
    BY <1>2
  <2>3. [sealing EXCEPT !.number = number + 1, !.sealed = TRUE] \in SealingType
    BY <2>2 DEF SealerInv, TypeInv, SealingType
  <2> QED
    BY <2>1, <2>3 DEF handleBlock, beginBlock
<1>4. /\ pc' \in ThreadType /\ pc'.engine = pc.engine
      /\ \/ pc'.sealer = "begin" /\ xsealing' = "free"
         \/ pc'.sealer = "prepare" /\ xsealing' = xsealing
  BY <1>2, GotoSealer DEF handleBlock, SealerPC
<1>5. getLeader' = getLeader
  BY <1>1 DEF getLeader
<1>6. LockInv'
  BY <1>1, <1>4, <1>5 DEF SealerInv, LockInv
<1>7. xsealing' \in {"free", "sealer"}
  BY <1>4 DEF SealerInv, TypeInv
<1> QED
  BY <1>1, <1>3, <1>4, <1>6, <1>7 DEF SealerInv, TypeInv, BoundInv, number

\* What decides who leads.
SameView(e, f) ==
    /\ f.highest = e.highest /\ f.view = e.view /\ f.toView = e.toView
    /\ f.leaderFailed = e.leaderFailed

LEMMA SameViewLeader ==
    ASSUME SameView(engine, engine')
    PROVE  getLeader' = getLeader
BY DEF SameView, getLeader

\* A step that leaves the leader alone and at most releases x_sealing keeps LockInv.
LEMMA LeaderUntouched ==
    ASSUME LockInv, SameView(engine, engine'), mutex' = mutex, pc'.engine = pc.engine,
           \/ xsealing' = xsealing /\ (pc'.sealer = pc.sealer \/ xsealing # "sealer")
           \/ xsealing' = "free"
    PROVE  LockInv'
<1>1. getLeader' = getLeader
  BY SameViewLeader
<1>2. xsealing' = "sealer" => xsealing = "sealer" /\ pc'.sealer = pc.sealer
  OBVIOUS
<1>3. engine'.toView > engine'.view => engine'.leaderFailed \/ pc'.engine = "timeout"
  BY DEF LockInv, SameView
<1>4. engine'.toView = engine.toView /\ engine'.view = engine.view
  BY DEF SameView
<1> QED
  BY <1>1, <1>2, <1>3, <1>4 DEF LockInv

LEMMA OwnPrepareType ==
    ASSUME NEW e \in EngineType, NEW h \in Nat, NEW b \in SUBSET Tx, NEW refused,
           handleOwnPrepare(e, h, b, refused)
    PROVE  engine' \in EngineType /\ SameView(e, engine')
<1> DEFINE p == Prepare(h, e.view, b)
           f == [e EXCEPT !.raw = h, !.prepare = p]
<1>1. p \in PrepareType
  BY DEF Prepare, PrepareType, EngineType
<1>2. engine' = e \/ engine' = f
  BY DEF handleOwnPrepare
<1> HIDE DEF p
<1>3. f \in EngineType
  BY <1>1 DEF EngineType
<1>4. SameView(e, f) /\ SameView(e, e)
  BY DEF EngineType, SameView
<1> QED
  BY <1>2, <1>3, <1>4

LEMMA RehandleKeeps ==
    ASSUME SealerInv, NEW refused, rehandleCommitedPrepareCache(refused)
    PROVE  SealerInv'
<1>1. /\ UNCHANGED <<blocks, pool, sealing, mutex, xsealing, local>>
      /\ pc.sealer = "rehandle" /\ Goto("sealer", "begin")
  BY DEF rehandleCommitedPrepareCache
<1>2. engine \in EngineType /\ pc \in ThreadType
  BY DEF SealerInv, TypeInv
<1>3. engine' \in EngineType /\ SameView(engine, engine')
  <2>1. engine.committed.height \in Nat /\ engine.committed.txs \in SUBSET Tx
    BY <1>2 DEF EngineType, PrepareType
  <2> QED
    BY <1>2, <2>1, OwnPrepareType DEF rehandleCommitedPrepareCache
<1>4. pc' \in ThreadType /\ pc'.engine = pc.engine
  BY <1>1, <1>2, GotoSealer DEF SealerPC
<1>5. xsealing # "sealer"
  BY <1>1 DEF SealerInv, LockInv
<1>6. LockInv'
  BY <1>1, <1>3, <1>4, <1>5, LeaderUntouched DEF SealerInv
<1>7. BoundInv'
  BY <1>1, <1>3 DEF SealerInv, BoundInv, SameView, number
<1> QED
  BY <1>1, <1>3, <1>4, <1>6, <1>7 DEF SealerInv, TypeInv

LEMMA GeneratePrepareKeeps ==
    ASSUME SealerInv, NEW refused, generatePrepare(refused)
    PROVE  SealerInv'
<1> DEFINE e == [engine EXCEPT !.notify = FALSE]
           f == [e EXCEPT !.leaderFailed = TRUE]
<1>1. /\ UNCHANGED <<blocks, pool, mutex, local>> /\ mutex = "free"
      /\ xsealing' = "free" /\ Goto("sealer", "begin")
  BY DEF generatePrepare
<1>2. engine \in EngineType /\ pc \in ThreadType /\ sealing \in SealingType
  BY DEF SealerInv, TypeInv
<1>3. e \in EngineType
  BY <1>2 DEF EngineType
<1>4. SameView(engine, e)
  BY <1>2 DEF EngineType, SameView
<1>5. pc' \in ThreadType /\ pc'.engine = pc.engine
  BY <1>1, <1>2, GotoSealer DEF SealerPC
<1>6. CASE sealing.txs = {}
  <2>1. engine' = f /\ sealing' = resetSealingBlock({}, 1)
    BY <1>6 DEF generatePrepare, beginBlock
  <2>2. sealing' \in SealingType
    BY <2>1, ResetType DEF SealerInv
  <2> HIDE DEF e
  <2>3. f \in EngineType
    BY <1>3 DEF EngineType
  <2>4. /\ f.highest = engine.highest /\ f.view = engine.view /\ f.toView = engine.toView
        /\ f.leaderFailed = TRUE
    BY <1>3, <1>4 DEF EngineType, SameView
  <2> HIDE DEF f
  <2>5. BoundInv'
    BY <1>1, <2>1, <2>4 DEF SealerInv, BoundInv, number
  <2>6. pc.engine \notin {"notify", "stored", "drop"}
    BY <1>1 DEF SealerInv, LockInv
  <2>7. LockInv'
    BY <1>1, <1>5, <2>1, <2>4, <2>6 DEF LockInv
  <2> QED
    BY <1>1, <1>5, <2>1, <2>2, <2>3, <2>5, <2>7 DEF SealerInv, TypeInv
<1>7. CASE sealing.txs # {}
  <2>1. handleOwnPrepare(e, sealing.number, sealing.txs, refused) /\ sealing' = sealing
    BY <1>7 DEF generatePrepare
  <2>2. sealing.number \in Nat /\ sealing.txs \in SUBSET Tx
    BY <1>2 DEF SealingType
  <2> HIDE DEF e
  <2>3. engine' \in EngineType /\ SameView(e, engine')
    BY <1>3, <2>1, <2>2, OwnPrepareType
  <2>4. SameView(engine, engine')
    BY <1>4, <2>3 DEF SameView
  <2>5. LockInv'
    BY <1>1, <1>5, <2>4, LeaderUntouched DEF SealerInv
  <2>6. BoundInv'
    BY <1>1, <2>4 DEF SealerInv, BoundInv, SameView, number
  <2> QED
    BY <1>1, <1>5, <2>1, <2>3, <2>5, <2>6 DEF SealerInv, TypeInv
<1> QED
  BY <1>6, <1>7

-----------------------------------------------------------------------------
(* The engine's worker thread.                                             *)

\* The next leader waits for x_sealing only when another one leads.
LEMMA HandlePrepareMsgKeeps ==
    ASSUME SealerInv, NEW b \in SUBSET Tx, handlePrepareMsg(b)
    PROVE  SealerInv'
<1> DEFINE p == Prepare(number + 1, engine.view, b)
           e == [engine EXCEPT !.raw = number + 1, !.prepare = p]
           f == [e EXCEPT !.notify = TRUE]
<1>1. /\ UNCHANGED <<blocks, pool, sealing, xsealing>> /\ mutex = "free"
      /\ pc.engine = "free" /\ getLeader # Me
  BY DEF handlePrepareMsg
<1>2. engine \in EngineType /\ pc \in ThreadType /\ local \in LocalType
  BY DEF SealerInv, TypeInv
<1>3. number \in Nat /\ number + 1 \in Nat
  BY NumberType DEF SealerInv
<1>4. p \in PrepareType
  BY <1>2, <1>3 DEF Prepare, PrepareType, EngineType
<1>5. \/ engine' = f /\ mutex' = "engine" /\ local' = [local EXCEPT !.engine = b]
            /\ Goto("engine", "notify")
      \/ engine' = e /\ UNCHANGED <<mutex, local, pc>>
  BY DEF handlePrepareMsg
<1> HIDE DEF p
<1>6. e \in EngineType
  BY <1>2, <1>3, <1>4 DEF EngineType
<1>7. SameView(engine, e)
  BY <1>2 DEF EngineType, SameView
<1> HIDE DEF e
<1>8. f \in EngineType
  BY <1>6 DEF EngineType
<1>9. SameView(engine, f)
  BY <1>6, <1>7 DEF EngineType, SameView
<1> HIDE DEF f
<1>10. engine' \in EngineType /\ SameView(engine, engine')
  BY <1>5, <1>6, <1>7, <1>8, <1>9
<1>11. local' \in LocalType /\ local'.sealer = local.sealer
  BY <1>2, <1>5 DEF LocalType
<1>12. xsealing # "sealer"
  BY <1>1 DEF SealerInv, LockInv
<1>13. BoundInv'
  BY <1>1, <1>10, <1>11 DEF SealerInv, BoundInv, SameView, number
<1>14. /\ pc' \in ThreadType
       /\ \/ mutex' = "engine" /\ pc'.engine = "notify"
          \/ mutex' = mutex /\ pc' = pc
  BY <1>2, <1>5, GotoEngine DEF EnginePC
<1>15. LockInv'
  <2>1. getLeader' = getLeader
    BY <1>10, SameViewLeader
  <2>2. engine'.toView = engine.toView /\ engine'.view = engine.view
        /\ engine'.leaderFailed = engine.leaderFailed
    BY <1>10 DEF SameView
  <2>3. engine'.toView > engine'.view => engine'.leaderFailed
    BY <1>1, <2>2 DEF SealerInv, LockInv
  <2> QED
    BY <1>1, <1>12, <1>14, <2>1, <2>3 DEF LockInv
<1>16. mutex' \in {"free", "engine"}
  BY <1>1, <1>14
<1> QED
  BY <1>1, <1>10, <1>11, <1>13, <1>14, <1>15, <1>16 DEF SealerInv, TypeInv

LEMMA ResetForNextLeaderKeeps ==
    ASSUME SealerInv, resetBlockForNextLeader
    PROVE  SealerInv'
<1>1. /\ UNCHANGED <<blocks, pool, engine, xsealing>> /\ mutex' = "free"
      /\ pc.engine = "notify" /\ Goto("engine", "free")
      /\ local' = [local EXCEPT !.engine = {}] /\ xsealing = "free"
  BY DEF resetBlockForNextLeader
<1>2. pc \in ThreadType /\ local \in LocalType
  BY DEF SealerInv, TypeInv
<1>3. sealing' \in SealingType
  <2>1. local.engine \in SUBSET Tx
    BY <1>2 DEF LocalType
  <2> QED
    BY <2>1, ResetType DEF resetBlockForNextLeader, beginBlock, SealerInv
<1>4. local' \in LocalType /\ local'.sealer = local.sealer
  BY <1>1, <1>2 DEF LocalType
<1>5. pc' \in ThreadType /\ pc'.engine = "free"
  BY <1>1, <1>2, GotoEngine DEF EnginePC
<1>6. LockInv'
  BY <1>1, <1>5 DEF SealerInv, LockInv
<1> QED
  BY <1>1, <1>3, <1>4, <1>5, <1>6 DEF SealerInv, TypeInv, BoundInv, number

LEMMA CheckAndCommitKeeps ==
    ASSUME SealerInv, checkAndCommit
    PROVE  SealerInv'
<1>1. /\ UNCHANGED <<blocks, pool, sealing, mutex, xsealing, pc, local>>
      /\ engine' = [engine EXCEPT !.committed = engine.prepare]
  BY DEF checkAndCommit
<1>2. engine' \in EngineType
  BY <1>1 DEF SealerInv, TypeInv, EngineType
<1>3. SameView(engine, engine')
  BY <1>1 DEF SealerInv, TypeInv, EngineType, SameView
<1>4. LockInv'
  BY <1>1, <1>3, LeaderUntouched DEF SealerInv
<1>5. BoundInv'
  BY <1>1, <1>3 DEF SealerInv, BoundInv, SameView, number
<1> QED
  BY <1>1, <1>2, <1>4, <1>5 DEF SealerInv, TypeInv

LEMMA AppendKeeps ==
    ASSUME SealerInv, NEW b \in BlockType, blocks' = Append(blocks, b)
    PROVE  blocks' \in Seq(BlockType) /\ number' = number + 1
<1>1. blocks \in Seq(BlockType)
  BY DEF SealerInv, TypeInv
<1> QED
  BY <1>1, AppendProperties DEF number

LEMMA CheckAndSaveKeeps ==
    ASSUME SealerInv, checkAndSave
    PROVE  SealerInv'
<1> DEFINE b == [txs |-> engine.prepare.txs, by |-> "engine"]
<1>1. /\ UNCHANGED <<pool, sealing, engine, xsealing>> /\ mutex' = "engine"
      /\ pc.engine = "free" /\ Goto("engine", "stored")
      /\ local' = [local EXCEPT !.engine = engine.prepare.txs]
      /\ blocks' = Append(blocks, b)
  BY DEF checkAndSave
<1>2. engine \in EngineType /\ pc \in ThreadType /\ local \in LocalType
  BY DEF SealerInv, TypeInv
<1>3. engine.prepare.txs \in SUBSET Tx
  BY <1>2 DEF EngineType, PrepareType
<1>4. b \in BlockType
  BY <1>3 DEF BlockType
<1>5. blocks' \in Seq(BlockType) /\ number' = number + 1 /\ number \in Nat
  BY <1>1, <1>4, AppendKeeps, NumberType DEF SealerInv
<1>6. local' \in LocalType /\ local'.sealer = local.sealer
  BY <1>1, <1>2, <1>3 DEF LocalType
<1>7. pc' \in ThreadType /\ pc'.engine = "stored" /\ pc'.sealer = pc.sealer
  BY <1>1, <1>2, GotoEngine DEF EnginePC
<1>8. LockInv'
  <2>1. getLeader' = getLeader
    BY <1>1 DEF getLeader
  <2> QED
    BY <1>1, <1>7, <2>1 DEF SealerInv, LockInv
<1>9. BoundInv'
  <2>1. engine.highest \in Nat /\ local.sealer \in Nat
    BY <1>2 DEF EngineType, LocalType
  <2> QED
    BY <1>1, <1>5, <1>6, <2>1 DEF SealerInv, BoundInv
<1> QED
  BY <1>1, <1>5, <1>6, <1>7, <1>8, <1>9 DEF SealerInv, TypeInv

LEMMA OnBlockChangedKeeps ==
    ASSUME SealerInv, NEW th \in {"engine", "sync"}, onBlockChanged(th)
    PROVE  SealerInv'
<1>1. UNCHANGED <<blocks, pool, sealing, engine, mutex, xsealing, local>>
  BY DEF onBlockChanged
<1>2. pc \in ThreadType
  BY DEF SealerInv, TypeInv
<1>3. getLeader' = getLeader
  BY <1>1 DEF getLeader
<1>4. CASE th = "engine"
  <2>1. pc.engine = "stored" /\ Goto("engine", "drop")
    BY <1>4 DEF onBlockChanged
  <2>2. pc' \in ThreadType /\ pc'.engine = "drop" /\ pc'.sealer = pc.sealer
    BY <1>2, <2>1, GotoEngine DEF EnginePC
  <2>3. LockInv'
    BY <1>1, <1>3, <2>1, <2>2 DEF SealerInv, LockInv
  <2> QED
    BY <1>1, <2>2, <2>3 DEF SealerInv, TypeInv, BoundInv, number
<1>5. CASE th = "sync"
  <2>1. pc' \in ThreadType /\ pc'.engine = pc.engine /\ pc'.sealer = pc.sealer
    BY <1>2, <1>5, GotoSync DEF onBlockChanged, SyncPC
  <2>2. LockInv'
    BY <1>1, <2>1, LocksUntouched DEF SealerInv
  <2> QED
    BY <1>1, <2>1, <2>2 DEF SealerInv, TypeInv, BoundInv, number
<1> QED
  BY <1>4, <1>5

LEMMA DropHandledKeeps ==
    ASSUME SealerInv, dropHandledTransactions
    PROVE  SealerInv'
<1>1. /\ UNCHANGED <<blocks, sealing, xsealing>> /\ mutex' = "free"
      /\ pc.engine = "drop" /\ Goto("engine", "free")
      /\ local' = [local EXCEPT !.engine = {}]
      /\ engine' = [engine EXCEPT !.prepare = NoPrepare] /\ pool' = pool \ local.engine
  BY DEF dropHandledTransactions
<1>2. engine \in EngineType /\ pc \in ThreadType /\ local \in LocalType /\ pool \subseteq Tx
  BY DEF SealerInv, TypeInv
<1>3. engine' \in EngineType
  <2>1. NoPrepare \in PrepareType
    BY DEF NoPrepare, PrepareType
  <2> QED
    BY <1>1, <1>2, <2>1 DEF EngineType
<1>4. SameView(engine, engine')
  BY <1>1, <1>2 DEF EngineType, SameView
<1>5. local' \in LocalType /\ local'.sealer = local.sealer
  BY <1>1, <1>2 DEF LocalType
<1>6. pc' \in ThreadType /\ pc'.engine = "free" /\ pc'.sealer = pc.sealer
  BY <1>1, <1>2, GotoEngine DEF EnginePC
<1>7. LockInv'
  <2>1. getLeader' = getLeader
    BY <1>4, SameViewLeader
  <2>2. engine'.toView = engine.toView /\ engine'.view = engine.view
        /\ engine'.leaderFailed = engine.leaderFailed
    BY <1>4 DEF SameView
  <2>3. engine'.toView > engine'.view => engine'.leaderFailed
    BY <1>1, <2>2 DEF SealerInv, LockInv
  <2> QED
    BY <1>1, <1>6, <2>1, <2>2, <2>3 DEF SealerInv, LockInv
<1>8. BoundInv'
  BY <1>1, <1>4, <1>5 DEF SealerInv, BoundInv, SameView, number
<1>9. pool' \subseteq Tx
  BY <1>1, <1>2
<1> QED
  BY <1>1, <1>3, <1>5, <1>6, <1>7, <1>8, <1>9 DEF SealerInv, TypeInv

LEMMA ChangedViewType ==
    ASSUME NEW e \in EngineType
    PROVE  LET f == changedView(e)
           IN  /\ f \in EngineType /\ f.highest = e.highest
               /\ f.view = e.toView /\ f.toView = e.toView
<1>1. NoPrepare \in PrepareType
  BY DEF NoPrepare, PrepareType
<1>2. changedView(e) \in EngineType
  BY <1>1 DEF changedView, EngineType
<1>3. /\ changedView(e).highest = e.highest
      /\ changedView(e).view = e.toView /\ changedView(e).toView = e.toView
  BY DEF changedView, EngineType
<1> QED
  BY <1>2, <1>3

LEMMA FastViewChangeKeeps ==
    ASSUME SealerInv, NEW view \in 1 .. MaxView, fastViewChange(view)
    PROVE  SealerInv'
<1>1. /\ UNCHANGED <<blocks, pool, sealing, mutex, xsealing, local>>
      /\ engine' = [engine EXCEPT !.toView = view - 1] /\ view > engine.toView
      /\ Goto("engine", "timeout")
  BY DEF fastViewChange
<1>2. engine \in EngineType /\ pc \in ThreadType
  BY DEF SealerInv, TypeInv
<1>3. view \in Nat /\ view - 1 \in Nat
  BY SealerBoundAssumption
<1>4. engine' \in EngineType
  BY <1>1, <1>2, <1>3 DEF EngineType
<1>5. engine'.highest = engine.highest /\ engine'.view = engine.view
      /\ engine'.toView = view - 1
  BY <1>1, <1>2 DEF EngineType
<1>6. pc' \in ThreadType /\ pc'.engine = "timeout" /\ pc'.sealer = pc.sealer
  BY <1>1, <1>2, GotoEngine DEF EnginePC
<1>7. LockInv'
  BY <1>1, <1>6 DEF SealerInv, LockInv
<1>8. BoundInv'
  <2>1. engine.view \in Nat /\ engine.toView \in Nat /\ engine.view <= engine.toView
    BY <1>2 DEF EngineType, SealerInv, BoundInv
  <2>2. engine.view <= view - 1
    BY <1>1, <1>3, <2>1
  <2> QED
    BY <1>1, <1>5, <2>2 DEF SealerInv, BoundInv, number
<1> QED
  BY <1>1, <1>4, <1>6, <1>7, <1>8 DEF SealerInv, TypeInv

LEMMA CheckTimeoutKeeps ==
    ASSUME SealerInv, NEW quorum \in BOOLEAN, checkTimeout(quorum)
    PROVE  SealerInv'
<1> DEFINE e == [engine EXCEPT !.toView = @ + 1, !.leaderFailed = TRUE]
<1>1. /\ UNCHANGED <<blocks, pool, sealing, mutex, xsealing, local>>
      /\ engine' = e \/ engine' = changedView(e)
      /\ Goto("engine", "viewChange")
  BY DEF checkTimeout
<1>2. engine \in EngineType /\ pc \in ThreadType
  BY DEF SealerInv, TypeInv
<1>3. engine.view \in Nat /\ engine.toView \in Nat /\ engine.toView + 1 \in Nat
  BY <1>2 DEF EngineType
<1>4. e \in EngineType
  BY <1>2, <1>3 DEF EngineType
<1>5. /\ e.highest = engine.highest /\ e.view = engine.view /\ e.toView = engine.toView + 1
      /\ e.leaderFailed = TRUE
  BY <1>2 DEF EngineType
<1> HIDE DEF e
<1>6. /\ changedView(e) \in EngineType /\ changedView(e).highest = engine.highest
      /\ changedView(e).view = e.toView /\ changedView(e).toView = e.toView
  BY <1>4, <1>5, ChangedViewType
<1>7. pc' \in ThreadType /\ pc'.engine = "viewChange" /\ pc'.sealer = pc.sealer
  BY <1>1, <1>2, GotoEngine DEF EnginePC
<1>8. engine' \in EngineType /\ engine'.highest = engine.highest
  BY <1>1, <1>4, <1>5, <1>6
<1>9. engine'.view <= engine'.toView
  BY <1>1, <1>3, <1>5, <1>6 DEF SealerInv, BoundInv
<1>10. engine'.toView > engine'.view => engine'.leaderFailed
  BY <1>1, <1>3, <1>5, <1>6
<1>11. LockInv'
  BY <1>1, <1>7, <1>10 DEF SealerInv, LockInv
<1>12. BoundInv'
  BY <1>1, <1>8, <1>9 DEF SealerInv, BoundInv, number
<1> QED
  BY <1>1, <1>7, <1>8, <1>11, <1>12 DEF SealerInv, TypeInv

\* The view does not change under a sealer thread that holds x_sealing.
LEMMA CheckAndChangeViewKeeps ==
    ASSUME SealerInv, checkAndChangeView
    PROVE  SealerInv'
<1>1. /\ UNCHANGED <<blocks, pool, sealing, mutex, xsealing, pc, local>> /\ pc.engine = "free"
      /\ engine.toView > engine.view /\ engine' = changedView(engine)
  BY DEF checkAndChangeView
<1>2. engine \in EngineType /\ engine.view \in Nat /\ engine.toView \in Nat
  BY DEF SealerInv, TypeInv, EngineType
<1>3. /\ engine' \in EngineType /\ engine'.highest = engine.highest
      /\ engine'.view = engine.toView /\ engine'.toView = engine.toView
  BY <1>1, <1>2, ChangedViewType
<1>4. xsealing # "sealer"
  BY <1>1, <1>2 DEF SealerInv, LockInv
<1>5. LockInv'
  BY <1>1, <1>2, <1>3, <1>4 DEF LockInv
<1>6. BoundInv'
  BY <1>1, <1>2, <1>3 DEF SealerInv, BoundInv, number
<1> QED
  BY <1>1, <1>3, <1>5, <1>6 DEF SealerInv, TypeInv

LEMMA ResetForViewChangeKeeps ==
    ASSUME SealerInv, resetBlockForViewChange
    PROVE  SealerInv'
<1>1. /\ UNCHANGED <<blocks, pool, engine, mutex, xsealing, local>> /\ xsealing = "free"
      /\ pc.engine = "viewChange" /\ Goto("engine", "free")
  BY DEF resetBlockForViewChange
<1>2. sealing' \in SealingType
  BY ResetType DEF resetBlockForViewChange, beginBlock, SealerInv, TypeInv
<1>3. pc' \in ThreadType /\ pc'.engine = "free"
  BY <1>1, GotoEngine DEF EnginePC, SealerInv, TypeInv
<1>4. LockInv'
  BY <1>1, <1>3 DEF SealerInv, LockInv
<1> QED
  BY <1>1, <1>2, <1>3, <1>4 DEF SealerInv, TypeInv, BoundInv, number

-----------------------------------------------------------------------------
(* The sync thread.                                                        *)

LEMMA DownloadKeeps ==
    ASSUME SealerInv, Download
    PROVE  SealerInv'
<1>1. UNCHANGED <<blocks, pool, sealing, engine, mutex, xsealing, pc, local>>
  BY DEF Download
<1>2. LockInv'
  BY <1>1, LocksUntouched DEF SealerInv
<1> QED
  BY <1>1, <1>2 DEF SealerInv, TypeInv, BoundInv, number

LEMMA CommitDownloadedKeeps ==
    ASSUME SealerInv, NEW b \in SUBSET Tx, commitDownloaded(b)
    PROVE  SealerInv'
<1> DEFINE x == [txs |-> b, by |-> "sync"]
<1>1. /\ UNCHANGED <<pool, sealing, engine, mutex, xsealing>>
      /\ blocks' = Append(blocks, x) /\ local' = [local EXCEPT !.sync = b]
      /\ Goto("sync", "stored")
  BY DEF commitDownloaded
<1>2. pc \in ThreadType /\ local \in LocalType /\ engine \in EngineType
  BY DEF SealerInv, TypeInv
<1>3. x \in BlockType
  BY DEF BlockType
<1>4. blocks' \in Seq(BlockType) /\ number' = number + 1 /\ number \in Nat
  BY <1>1, <1>3, AppendKeeps, NumberType DEF SealerInv
<1>5. local' \in LocalType /\ local'.sealer = local.sealer
  BY <1>1, <1>2 DEF LocalType
<1>6. pc' \in ThreadType /\ pc'.engine = pc.engine /\ pc'.sealer = pc.sealer
  BY <1>1, <1>2, GotoSync DEF SyncPC
<1>7. LockInv'
  BY <1>1, <1>6, LocksUntouched DEF SealerInv
<1>8. BoundInv'
  <2>1. engine.highest \in Nat /\ local.sealer \in Nat
    BY <1>2 DEF EngineType, LocalType
  <2> QED
    BY <1>1, <1>4, <1>5, <2>1 DEF SealerInv, BoundInv
<1> QED
  BY <1>1, <1>4, <1>5, <1>6, <1>7, <1>8 DEF SealerInv, TypeInv

LEMMA DropDownloadedKeeps ==
    ASSUME SealerInv, dropDownloaded
    PROVE  SealerInv'
<1>1. /\ UNCHANGED <<blocks, sealing, engine, mutex, xsealing>>
      /\ pool' = pool \ local.sync /\ local' = [local EXCEPT !.sync = {}]
      /\ Goto("sync", "free")
  BY DEF dropDownloaded
<1>2. pc \in ThreadType /\ local \in LocalType /\ pool \subseteq Tx
  BY DEF SealerInv, TypeInv
<1>3. local' \in LocalType /\ local'.sealer = local.sealer
  BY <1>1, <1>2 DEF LocalType
<1>4. pc' \in ThreadType /\ pc'.engine = pc.engine /\ pc'.sealer = pc.sealer
  BY <1>1, <1>2, GotoSync DEF SyncPC
<1>5. LockInv'
  BY <1>1, <1>4, LocksUntouched DEF SealerInv
<1>6. pool' \subseteq Tx
  BY <1>1, <1>2
<1> QED
  BY <1>1, <1>3, <1>4, <1>5, <1>6 DEF SealerInv, TypeInv, BoundInv, number

-----------------------------------------------------------------------------
(* Theorems.                                                               *)

LEMMA NextSealerInv ==
    ASSUME SealerInv, [Next]_vars
    PROVE  SealerInv'
<1>1. CASE UNCHANGED vars
  <2>1. UNCHANGED <<blocks, pool, sealing, engine, mutex, xsealing, pc, local>>
    BY <1>1 DEF vars
  <2>2. LockInv'
    BY <2>1, LocksUntouched DEF SealerInv
  <2> QED
    BY <2>1, <2>2 DEF SealerInv, TypeInv, BoundInv, number
<1>2. CASE \E t \in Tx : Import(t)
  BY <1>2, ImportKeeps
<1>3. CASE reportNewBlock
  BY <1>3, ReportNewBlockKeeps
<1>4. CASE reportBlock
  BY <1>4, ReportBlockKeeps
<1>5. CASE resetSealing
  BY <1>5, ResetSealingKeeps
<1>6. CASE checkShouldSeal
  BY <1>6, CheckShouldSealKeeps
<1>7. CASE \E interval, late \in BOOLEAN : doWork(interval, late)
  BY <1>7, DoWorkKeeps
<1>8. CASE handleBlock
  BY <1>8, HandleBlockKeeps
<1>9. CASE \E refused \in {FALSE, downloading} : rehandleCommitedPrepareCache(refused)
  BY <1>9, RehandleKeeps
<1>10. CASE \E refused \in {FALSE, downloading} : generatePrepare(refused)
  BY <1>10, GeneratePrepareKeeps
<1>11. CASE \E b \in SUBSET Tx : handlePrepareMsg(b)
  BY <1>11, HandlePrepareMsgKeeps
<1>12. CASE resetBlockForNextLeader
  BY <1>12, ResetForNextLeaderKeeps
<1>13. CASE checkAndCommit
  BY <1>13, CheckAndCommitKeeps
<1>14. CASE checkAndSave
  BY <1>14, CheckAndSaveKeeps
<1>15. CASE \E th \in {"engine", "sync"} : onBlockChanged(th)
  BY <1>15, OnBlockChangedKeeps
<1>16. CASE dropHandledTransactions
  BY <1>16, DropHandledKeeps
<1>17. CASE \E view \in 1 .. MaxView : fastViewChange(view)
  BY <1>17, FastViewChangeKeeps
<1>18. CASE \E quorum \in BOOLEAN : checkTimeout(quorum)
  BY <1>18, CheckTimeoutKeeps
<1>19. CASE checkAndChangeView
  BY <1>19, CheckAndChangeViewKeeps
<1>20. CASE resetBlockForViewChange
  BY <1>20, ResetForViewChangeKeeps
<1>21. CASE Download
  BY <1>21, DownloadKeeps
<1>22. CASE \E b \in SUBSET Tx : commitDownloaded(b)
  BY <1>22, CommitDownloadedKeeps
<1>23. CASE dropDownloaded
  BY <1>23, DropDownloadedKeeps
<1> QED
  BY <1>1, <1>2, <1>3, <1>4, <1>5, <1>6, <1>7, <1>8, <1>9, <1>10, <1>11, <1>12, <1>13,
     <1>14, <1>15, <1>16, <1>17, <1>18, <1>19, <1>20, <1>21, <1>22, <1>23 DEF Next

LEMMA SealerInvHolds == Spec => []SealerInv
<1>1. SealerInv /\ [Next]_vars => SealerInv'
  BY NextSealerInv
<1> QED
  BY InitSealerInv, <1>1, PTL DEF Spec

\* The sealer's and the engine's state is well typed; the engine is never ahead of the
\* chain, and its view never ahead of the view it asks for.
THEOREM SealerTypeCorrect == Spec => []TypeOK
<1>1. SealerInv => TypeOK
  <2> SUFFICES ASSUME SealerInv PROVE TypeOK
    OBVIOUS
  <2>1. number \in Nat
    BY NumberType DEF SealerInv
  <2>2. engine.highest \in 0 .. number /\ engine.view \in 0 .. engine.toView
    BY <2>1 DEF SealerInv, TypeInv, EngineType, BoundInv
  <2> QED
    BY <2>2 DEF SealerInv, TypeInv, SealingType, BlockType, TypeOK
<1> QED
  BY SealerInvHolds, <1>1, PTL

\* The sealer thread with x_sealing and the engine's thread with m_mutex never wait for
\* each other's lock.
THEOREM SealerNoLockCycle == Spec => []NoLockCycle
<1>1. SealerInv => NoLockCycle
  BY DEF SealerInv, LockInv, NoLockCycle
<1> QED
  BY SealerInvHolds, <1>1, PTL


-----------------------------------------------------------------------------
(* What is agreed on once, and sent once.                                  *)
(*                                                                         *)
(* FillInv is the heart: a block that is not yet sealed, was not begun on  *)
(* a chain ahead of the engine and can still be proposed holds no agreed   *)
(* transaction, and what it would load next holds none.  As the block of   *)
(* the next leader it also skips the prepare and the lock of the height in *)
(* between, once the engine has called resetBlockForNextLeader.            *)

\* The transactions of the blocks that the engine stored.
Agreed == {t \in Tx : \E i \in 1 .. number : blocks[i].by = "engine" /\ t \in blocks[i].txs}

ThreadInv ==
    /\ pc.sealer \in {"handle", "prepare"} => xsealing = "sealer"
    /\ pc.sealer \in {"load", "handle"} => ~ sealing.sealed
    /\ pc.sealer = "prepare" => sealing.sealed
    /\ pc.sealer = "report" => engine.highest <= local.sealer
    /\ pc.engine \in {"stored", "drop"} => engine.highest < number
    /\ sealing.number <= number + 2

CacheInv ==
    /\ engine.prepare.height <= engine.highest + 1
    /\ engine.committed.height <= engine.highest + 1
    /\ engine.committed.height = engine.highest + 1
         => engine.prepare = NoPrepare \/ engine.prepare.height = engine.highest + 1

NotifyInv ==
    pc.engine = "notify" =>
        /\ engine.prepare.height = engine.highest + 1
        /\ engine.prepare.txs = local.engine
        /\ getNextLeader = Me
        /\ engine.committed.height = engine.highest + 1 => engine.committed.txs = local.engine

PoolInv ==
    \A t \in pool \cap Agreed : pc.engine \in {"stored", "drop"} /\ t \in local.engine

CleanPrepare(p) ==
    p.height = number + 1 /\ p.height \notin ahead => p.txs \cap Agreed = {}

Filtered(p) ==
    p.height = number + 1 => p.txs \subseteq sealing.filter /\ p.txs \cap sealing.txs = {}

OwnBlock == sealing.txs \cap Agreed = {} /\ pool \cap Agreed \subseteq sealing.filter

NextBlock ==
    /\ engine.highest = number /\ getNextLeader = Me
    /\ sealing.txs \cap Agreed = {}
    /\ pc.engine \in {"free", "timeout"} => Filtered(engine.prepare) /\ Filtered(engine.committed)

FillInv ==
    ~ sealing.sealed /\ sealing.number \notin ahead =>
        /\ sealing.number = number + 1 => OwnBlock
        /\ sealing.number = number + 2 => NextBlock

HandleInv ==
    /\ pc.sealer = "handle" /\ engine.highest = number => sealing.number = number + 1
    /\ pc.sealer = "prepare" /\ engine.highest = number /\ sealing.number = number + 1
         /\ sealing.number \notin ahead => sealing.txs \cap Agreed = {}

Sent == \E i \in DOMAIN prepares : prepares[i] = <<engine.highest + 1, engine.view>>

\* The prepares this node sent are of no later height or view than the engine's.
PastInv ==
    /\ prepares \in Seq(Nat \X Nat)
    /\ \A i \in DOMAIN prepares :
          /\ prepares[i][1] <= engine.highest + 1
          /\ prepares[i][1] = engine.highest + 1 => prepares[i][2] <= engine.view

SentNow ==
    Sent /\ engine.highest \notin again /\ engine.highest = number /\ ~ engine.leaderFailed

\* A node that sent its prepare for the current height and view does not seal again.
SentInv ==
    SentNow =>
        /\ engine.raw = engine.highest + 1 /\ getLeader = Me
        /\ pc.sealer \in {"begin", "check", "report"}
        /\ \/ sealing.sealed /\ sealing.number = number + 1
           \/ engine.committed.height = engine.highest + 1

CleanInv == PoolInv /\ CleanPrepare(engine.prepare) /\ CleanPrepare(engine.committed)

OnceInv ==
    /\ ThreadInv /\ CacheInv /\ NotifyInv /\ CleanInv /\ FillInv /\ HandleInv
    /\ PastInv /\ SentInv /\ AgreedOnce /\ OnePrepare

-----------------------------------------------------------------------------
(* The chain and the sets of agreed transactions.                          *)

LEMMA AgreedSame ==
    ASSUME blocks' = blocks
    PROVE  Agreed' = Agreed /\ number' = number
BY DEF Agreed, number

LEMMA AgreedOnChain ==
    ASSUME TypeInv, NEW t \in Agreed
    PROVE  t \in OnChain
<1>1. PICK i \in 1 .. number : t \in blocks[i].txs
  BY DEF Agreed
<1>2. i \in DOMAIN blocks
  BY <1>1, LenProperties DEF TypeInv, number
<1>3. blocks[i] \in Range(blocks)
  BY <1>2 DEF Range
<1> QED
  BY <1>1, <1>3 DEF OnChain

LEMMA Appended ==
    ASSUME TypeInv, NEW b \in BlockType, blocks' = Append(blocks, b)
    PROVE  /\ number \in Nat /\ number' = number + 1 /\ blocks'[number + 1] = b
           /\ \A i \in 1 .. number : blocks'[i] = blocks[i]
<1>1. blocks \in Seq(BlockType)
  BY DEF TypeInv
<1> QED
  BY <1>1, AppendProperties, LenProperties DEF number

LEMMA AgreedEngine ==
    ASSUME TypeInv, NEW p \in SUBSET Tx,
           blocks' = Append(blocks, [txs |-> p, by |-> "engine"])
    PROVE  Agreed' = Agreed \cup p /\ number' = number + 1
<1> DEFINE b == [txs |-> p, by |-> "engine"]
<1>1. b \in BlockType /\ b.txs = p /\ b.by = "engine"
  BY DEF BlockType
<1> HIDE DEF b
<1>2. /\ number \in Nat /\ number' = number + 1 /\ blocks'[number + 1] = b
      /\ \A i \in 1 .. number : blocks'[i] = blocks[i]
  BY <1>1, Appended DEF b
<1>3. ASSUME NEW t \in Agreed PROVE t \in Agreed'
  <2>1. PICK i \in 1 .. number : blocks[i].by = "engine" /\ t \in blocks[i].txs
    BY DEF Agreed
  <2>2. i \in 1 .. number'
    BY <1>2
  <2>4. blocks'[i] = blocks[i]
    BY <1>2
  <2>3. t \in Tx
    BY DEF Agreed
  <2> QED
    BY <2>1, <2>2, <2>3, <2>4 DEF Agreed
<1>4. ASSUME NEW t \in p PROVE t \in Agreed'
  <2>1. number + 1 \in 1 .. number' /\ t \in Tx
    BY <1>2
  <2> QED
    BY <1>1, <1>2, <2>1 DEF Agreed
<1>5. ASSUME NEW t \in Agreed' PROVE t \in Agreed \cup p
  <2>1. PICK i \in 1 .. number' : blocks'[i].by = "engine" /\ t \in blocks'[i].txs
    BY DEF Agreed
  <2>2. i \in 1 .. number \/ i = number + 1
    BY <1>2, <2>1
  <2>3. t \in Tx
    BY DEF Agreed
  <2> QED
    BY <1>1, <1>2, <2>1, <2>2, <2>3 DEF Agreed
<1> QED
  BY <1>2, <1>3, <1>4, <1>5

LEMMA AgreedSync ==
    ASSUME TypeInv, NEW p \in SUBSET Tx,
           blocks' = Append(blocks, [txs |-> p, by |-> "sync"])
    PROVE  Agreed' = Agreed /\ number' = number + 1
<1> DEFINE b == [txs |-> p, by |-> "sync"]
<1>1. b \in BlockType /\ b.by = "sync"
  BY DEF BlockType
<1> HIDE DEF b
<1>2. /\ number \in Nat /\ number' = number + 1 /\ blocks'[number + 1] = b
      /\ \A i \in 1 .. number : blocks'[i] = blocks[i]
  BY <1>1, Appended DEF b
<1>3. ASSUME NEW t \in Agreed PROVE t \in Agreed'
  <2>1. PICK i \in 1 .. number : blocks[i].by = "engine" /\ t \in blocks[i].txs
    BY DEF Agreed
  <2>2. i \in 1 .. number'
    BY <1>2
  <2>4. blocks'[i] = blocks[i]
    BY <1>2
  <2>3. t \in Tx
    BY DEF Agreed
  <2> QED
    BY <2>1, <2>2, <2>3, <2>4 DEF Agreed
<1>5. ASSUME NEW t \in Agreed' PROVE t \in Agreed
  <2>1. PICK i \in 1 .. number' : blocks'[i].by = "engine" /\ t \in blocks'[i].txs
    BY DEF Agreed
  <2>2. i \in 1 .. number \/ i = number + 1
    BY <1>2, <2>1
  <2>3. t \in Tx
    BY DEF Agreed
  <2> QED
    BY <1>1, <1>2, <2>1, <2>2, <2>3 DEF Agreed
<1> QED
  BY <1>2, <1>3, <1>5

\* A new block without agreed transactions, or begun ahead of the engine, keeps AgreedOnce.
LEMMA AgreedOnceAppends ==
    ASSUME TypeInv, AgreedOnce, NEW b \in BlockType, blocks' = Append(blocks, b),
           ahead' = ahead, b.txs \cap Agreed = {} \/ number + 1 \in ahead
    PROVE  AgreedOnce'
<1>1. /\ number \in Nat /\ number' = number + 1 /\ blocks'[number + 1] = b
      /\ \A i \in 1 .. number : blocks'[i] = blocks[i]
  BY Appended
<1> SUFFICES ASSUME NEW i \in 1 .. number + 1, NEW j \in 1 .. number + 1, i < j,
                    blocks'[i].by = "engine", blocks'[i].txs \cap blocks'[j].txs # {},
                    j \notin ahead
             PROVE  FALSE
  BY <1>1 DEF AgreedOnce, Twice
<1>2. i \in 1 .. number /\ blocks'[i] = blocks[i]
  <2>1. number \in Nat
    BY <1>1
  <2>2. i \in 1 .. number
    BY <2>1
  <2> QED
    BY <1>1, <2>2
<1>3. CASE j = number + 1
  <2>1. PICK t \in b.txs : t \in blocks[i].txs
    BY <1>1, <1>2, <1>3
  <2>2. t \in Agreed
    BY <1>2, <2>1 DEF Agreed, BlockType
  <2> QED
    BY <1>3, <2>1, <2>2
<1>4. CASE j \in 1 .. number
  BY <1>1, <1>2, <1>4 DEF AgreedOnce, Twice
<1> QED
  BY <1>1, <1>3, <1>4

LEMMA AgreedOnceSame ==
    ASSUME AgreedOnce, blocks' = blocks, ahead \subseteq ahead'
    PROVE  AgreedOnce'
BY DEF AgreedOnce, Twice, number

-----------------------------------------------------------------------------
(* Steps that leave most of the state alone.                               *)

LEMMA InitOnceInv == Init => OnceInv
<1> SUFFICES ASSUME Init PROVE OnceInv
  OBVIOUS
<1>1. number = 0 /\ blocks = <<>> /\ prepares = <<>>
  BY DEF Init, number
<1>2. Agreed = {}
  BY <1>1 DEF Agreed
<1>3. ThreadInv /\ CacheInv /\ NotifyInv
  BY <1>1 DEF Init, ThreadInv, CacheInv, NotifyInv, NoPrepare, resetSealingBlock
<1>4. CleanInv
  BY <1>2 DEF CleanInv, PoolInv, CleanPrepare
<1>5. FillInv /\ HandleInv
  BY <1>1, <1>2 DEF Init, FillInv, HandleInv, OwnBlock, resetSealingBlock
<1>6. PastInv /\ ~ Sent
  BY <1>1 DEF PastInv, Sent
<1>7. SentInv
  BY <1>6 DEF SentInv, SentNow
<1>8. AgreedOnce /\ OnePrepare
  BY <1>1 DEF AgreedOnce, OnePrepare
<1> QED
  BY <1>3, <1>4, <1>5, <1>6, <1>7, <1>8 DEF OnceInv

\* Nothing was sent, reported or stored.
LEMMA HistorySame ==
    ASSUME UNCHANGED <<blocks, engine, prepares, again>>
    PROVE  /\ PastInv => PastInv'
           /\ OnePrepare => OnePrepare'
           /\ SentNow' = SentNow
BY DEF PastInv, OnePrepare, SamePrepare, SentNow, Sent, number

\* The engine and the chain are as they were.
LEMMA EngineSame ==
    ASSUME CacheInv, CleanInv, UNCHANGED <<blocks, pool, engine>>, local'.engine = local.engine,
           pc'.engine = pc.engine, ahead \subseteq ahead'
    PROVE  CacheInv' /\ CleanInv'
<1>1. Agreed' = Agreed /\ number' = number
  BY AgreedSame
<1> QED
  BY <1>1 DEF CacheInv, CleanInv, PoolInv, CleanPrepare

LEMMA NotifySame ==
    ASSUME NotifyInv, engine' = engine, local'.engine = local.engine,
           pc'.engine = "notify" => pc.engine = "notify"
    PROVE  NotifyInv'
BY DEF NotifyInv, getNextLeader

LEMMA FillSame ==
    ASSUME FillInv, UNCHANGED <<blocks, pool, sealing, engine, ahead>>,
           pc'.engine \in {"free", "timeout"} => pc.engine \in {"free", "timeout"}
    PROVE  FillInv'
<1>1. Agreed' = Agreed /\ number' = number /\ getNextLeader' = getNextLeader
  BY AgreedSame DEF getNextLeader
<1> QED
  BY <1>1 DEF FillInv, OwnBlock, NextBlock, Filtered

\* A step that only moves the sealer thread, or neither thread.
LEMMA Quiet ==
    ASSUME SealerInv, OnceInv,
           UNCHANGED <<blocks, pool, sealing, engine, prepares, again, ahead>>,
           local'.engine = local.engine, pc'.engine = pc.engine
    PROVE  /\ CacheInv' /\ NotifyInv' /\ CleanInv' /\ FillInv' /\ PastInv'
           /\ AgreedOnce' /\ OnePrepare' /\ SentNow' = SentNow
<1>1. CacheInv' /\ CleanInv'
  BY EngineSame DEF OnceInv
<1>2. NotifyInv'
  BY NotifySame DEF OnceInv
<1>3. FillInv'
  BY FillSame DEF OnceInv
<1>4. PastInv' /\ OnePrepare' /\ SentNow' = SentNow
  BY HistorySame DEF OnceInv
<1>5. AgreedOnce'
  BY AgreedOnceSame DEF OnceInv
<1> QED
  BY <1>1, <1>2, <1>3, <1>4, <1>5

LEMMA Still ==
    ASSUME SealerInv, OnceInv,
           UNCHANGED <<blocks, pool, sealing, engine, xsealing, prepares, again, ahead>>,
           local'.engine = local.engine, local'.sealer = local.sealer,
           pc'.engine = pc.engine, pc'.sealer = pc.sealer
    PROVE  OnceInv'
<1>1. /\ CacheInv' /\ NotifyInv' /\ CleanInv' /\ FillInv' /\ PastInv'
      /\ AgreedOnce' /\ OnePrepare' /\ SentNow' = SentNow
  BY Quiet
<1>2. Agreed' = Agreed /\ number' = number /\ getLeader' = getLeader
  BY AgreedSame DEF getLeader
<1>3. ThreadInv'
  BY <1>2 DEF OnceInv, ThreadInv
<1>4. HandleInv'
  BY <1>2 DEF OnceInv, HandleInv
<1>5. SentInv'
  BY <1>1, <1>2 DEF OnceInv, SentInv
<1> QED
  BY <1>1, <1>3, <1>4, <1>5 DEF OnceInv

\* A block begun anew holds nothing; it is filled from a pool without agreed
\* transactions, unless the chain is ahead of the engine.
LEMMA BegunBlock ==
    ASSUME SealerInv, OnceInv, UNCHANGED <<blocks, pool>>, NEW f \in SUBSET Tx, NEW k \in {1, 2},
           beginBlock(f, k)
    PROVE  /\ sealing'.number = number + k /\ sealing'.txs = {} /\ sealing'.sealed = FALSE
           /\ sealing'.filter = f /\ ahead \subseteq ahead'
           /\ sealing'.number \notin ahead' => engine.highest = number /\ pool \cap Agreed = {}
<1>1. /\ sealing'.number = number + k /\ sealing'.txs = {} /\ sealing'.sealed = FALSE
      /\ sealing'.filter = f /\ ahead \subseteq ahead'
  BY DEF beginBlock, resetSealingBlock
<1>2. sealing'.number \notin ahead' => engine.highest = number
  BY <1>1 DEF beginBlock
<1>3. engine.highest = number => pc.engine \notin {"stored", "drop"}
  <2>1. number \in Nat
    BY NumberType DEF SealerInv
  <2> QED
    BY <2>1 DEF OnceInv, ThreadInv
<1>4. engine.highest = number => pool \cap Agreed = {}
  BY <1>3 DEF OnceInv, CleanInv, PoolInv
<1> QED
  BY <1>1, <1>2, <1>4

LEMMA BegunFill ==
    ASSUME SealerInv, OnceInv, UNCHANGED <<blocks, pool>>, beginBlock({}, 1)
    PROVE  FillInv'
<1>1. /\ sealing'.number = number + 1 /\ sealing'.txs = {} /\ sealing'.sealed = FALSE
      /\ sealing'.number \notin ahead' => pool \cap Agreed = {}
  BY BegunBlock
<1>2. Agreed' = Agreed /\ number' = number /\ number \in Nat
  BY AgreedSame, NumberType DEF SealerInv
<1>3. number + 1 # number + 2
  BY <1>2
<1> QED
  BY <1>1, <1>2, <1>3 DEF FillInv, OwnBlock

-----------------------------------------------------------------------------
(* The pool and the sealer thread.                                         *)

LEMMA ImportOnce ==
    ASSUME SealerInv, OnceInv, NEW t \in Tx, Import(t)
    PROVE  OnceInv'
<1>1. /\ UNCHANGED <<blocks, sealing, engine, xsealing, pc, local, prepares, again, ahead>>
      /\ t \notin OnChain /\ pool' = pool \cup {t}
  BY DEF Import
<1>2. t \notin Agreed
  BY <1>1, AgreedOnChain DEF SealerInv
<1>3. Agreed' = Agreed /\ number' = number
  BY <1>1, AgreedSame
<1>4. pool' \cap Agreed = pool \cap Agreed
  BY <1>1, <1>2
<1>5. getLeader' = getLeader /\ getNextLeader' = getNextLeader
  BY <1>1 DEF getLeader, getNextLeader
<1>6. ThreadInv' /\ CacheInv' /\ NotifyInv' /\ HandleInv'
  BY <1>1, <1>3, <1>5 DEF OnceInv, ThreadInv, CacheInv, NotifyInv, HandleInv
<1>7. CleanInv'
  BY <1>1, <1>3, <1>4 DEF OnceInv, CleanInv, PoolInv, CleanPrepare
<1>8. FillInv'
  BY <1>1, <1>3, <1>4, <1>5 DEF OnceInv, FillInv, OwnBlock, NextBlock, Filtered
<1>9. PastInv' /\ OnePrepare' /\ SentNow' = SentNow
  BY <1>1, HistorySame DEF OnceInv
<1>10. SentInv'
  BY <1>1, <1>3, <1>5, <1>9 DEF OnceInv, SentInv
<1>11. AgreedOnce'
  BY <1>1, AgreedOnceSame DEF OnceInv
<1> QED
  BY <1>6, <1>7, <1>8, <1>9, <1>10, <1>11 DEF OnceInv

\* A step of the sealer thread that changes nothing but its place.
LEMMA SealerOnlyMoves ==
    ASSUME SealerInv, OnceInv, NEW x \in SealerPC, Goto("sealer", x),
           UNCHANGED <<blocks, pool, sealing, engine, xsealing, prepares, again, ahead>>,
           local'.engine = local.engine,
           x \notin {"handle", "prepare"},
           x = "load" => ~ sealing.sealed,
           x = "report" => engine.highest <= local'.sealer,
           SentNow => x \in {"begin", "check", "report"}
    PROVE  OnceInv'
<1>1. pc'.sealer = x /\ pc'.engine = pc.engine
  BY GotoSealer DEF SealerInv, TypeInv
<1>2. /\ CacheInv' /\ NotifyInv' /\ CleanInv' /\ FillInv' /\ PastInv'
      /\ AgreedOnce' /\ OnePrepare' /\ SentNow' = SentNow
  BY <1>1, Quiet
<1>3. Agreed' = Agreed /\ number' = number /\ getLeader' = getLeader
  BY AgreedSame DEF getLeader
<1>4. ThreadInv'
  BY <1>1, <1>3 DEF OnceInv, ThreadInv
<1>5. HandleInv'
  BY <1>1 DEF HandleInv
<1>6. SentInv'
  BY <1>1, <1>2, <1>3 DEF OnceInv, SentInv
<1> QED
  BY <1>2, <1>4, <1>5, <1>6 DEF OnceInv

LEMMA ReportNewBlockOnce ==
    ASSUME SealerInv, OnceInv, reportNewBlock
    PROVE  OnceInv'
<1>1. /\ UNCHANGED <<blocks, pool, sealing, engine, xsealing, prepares, again, ahead>>
      /\ \/ local' = [local EXCEPT !.sealer = number] /\ Goto("sealer", "report")
         \/ local' = local /\ Goto("sealer", "check")
  BY DEF reportNewBlock
<1>2. local \in LocalType
  BY DEF SealerInv, TypeInv
<1>3. CASE local' = [local EXCEPT !.sealer = number] /\ Goto("sealer", "report")
  <2>1. local'.engine = local.engine /\ local'.sealer = number
    BY <1>2, <1>3 DEF LocalType
  <2>2. engine.highest <= local'.sealer
    BY <2>1 DEF SealerInv, BoundInv
  <2> QED
    BY <1>1, <1>3, <2>1, <2>2, SealerOnlyMoves DEF SealerPC
<1>4. CASE local' = local /\ Goto("sealer", "check")
  BY <1>1, <1>4, SealerOnlyMoves DEF SealerPC
<1> QED
  BY <1>1, <1>3, <1>4

\* A node that has sent its prepare neither seals nor proposes the lock again.
LEMMA CheckShouldSealOnce ==
    ASSUME SealerInv, OnceInv, checkShouldSeal
    PROVE  OnceInv'
<1> DEFINE x == CASE shouldSeal -> "load" [] shouldRehandle -> "rehandle" [] OTHER -> "begin"
<1>1. /\ UNCHANGED <<blocks, pool, sealing, engine, xsealing, local, prepares, again, ahead>>
      /\ Goto("sealer", x)
  BY DEF checkShouldSeal
<1>2. x \in {"load", "rehandle", "begin"} /\ x \in SealerPC
  BY DEF SealerPC
<1>3. x = "load" => ~ sealing.sealed
  BY DEF shouldSeal
<1>4. SentNow => ~ shouldSeal /\ ~ shouldRehandle
  BY DEF OnceInv, SentInv, shouldSeal, shouldRehandle, Locked
<1>5. SentNow => x = "begin"
  BY <1>4
<1> HIDE DEF x
<1>6. x \notin {"handle", "prepare", "report"}
  BY <1>2
<1> QED
  BY <1>1, <1>2, <1>3, <1>5, <1>6, SealerOnlyMoves

LEMMA ResetSealingOnce ==
    ASSUME SealerInv, OnceInv, resetSealing
    PROVE  OnceInv'
<1>1. /\ UNCHANGED <<blocks, pool, engine, xsealing, local, prepares, again>>
      /\ pc.sealer = "reset" /\ Goto("sealer", "check")
  BY DEF resetSealing
<1>2. ~ SentNow
  BY <1>1 DEF OnceInv, SentInv
<1>3. CASE UNCHANGED <<sealing, ahead>>
  BY <1>1, <1>2, <1>3, SealerOnlyMoves DEF SealerPC
<1>4. CASE beginBlock({}, 1)
  <2>1. pc'.sealer = "check" /\ pc'.engine = pc.engine
    BY <1>1, GotoSealer DEF SealerInv, TypeInv, SealerPC
  <2>2. sealing'.number = number + 1 /\ ahead \subseteq ahead'
    BY <1>1, <1>4, BegunBlock
  <2>3. FillInv'
    BY <1>1, <1>4, BegunFill
  <2>4. CacheInv' /\ CleanInv'
    BY <1>1, <2>1, <2>2, EngineSame DEF OnceInv
  <2>5. NotifyInv'
    BY <1>1, <2>1, NotifySame DEF OnceInv
  <2>6. number' = number /\ number \in Nat
    BY <1>1, AgreedSame, NumberType DEF SealerInv
  <2>7. ThreadInv'
    BY <1>1, <2>1, <2>2, <2>6 DEF OnceInv, ThreadInv
  <2>8. HandleInv'
    BY <2>1 DEF HandleInv
  <2>9. PastInv' /\ OnePrepare' /\ SentInv'
    BY <1>1, <1>2, HistorySame DEF OnceInv, SentInv
  <2>10. AgreedOnce'
    BY <1>1, <2>2, AgreedOnceSame DEF OnceInv
  <2> QED
    BY <2>3, <2>4, <2>5, <2>7, <2>8, <2>9, <2>10 DEF OnceInv
<1> QED
  BY <1>3, <1>4 DEF resetSealing

LEMMA ReportBlockOnce ==
    ASSUME SealerInv, OnceInv, reportBlock
    PROVE  OnceInv'
<1>1. /\ UNCHANGED <<blocks, pool, sealing, xsealing, local, prepares, ahead>>
      /\ pc.sealer = "report" /\ mutex = "free" /\ Goto("sealer", "reset")
  BY DEF reportBlock
<1>2. pc'.sealer = "reset" /\ pc'.engine = pc.engine
  BY <1>1, GotoSealer DEF SealerInv, TypeInv, SealerPC
<1>3. pc.engine \notin {"notify", "stored", "drop"}
  BY <1>1 DEF SealerInv, LockInv
<1>4. /\ engine \in EngineType /\ local.sealer \in Nat /\ number \in Nat
      /\ local.sealer <= number
  BY NumberType DEF SealerInv, TypeInv, LocalType, BoundInv
<1>5. engine.highest \in Nat /\ engine.highest <= local.sealer
  BY <1>1, <1>4 DEF OnceInv, ThreadInv, EngineType
<1>6. Agreed' = Agreed /\ number' = number
  BY <1>1, AgreedSame
<1>7. AgreedOnce' /\ HandleInv' /\ NotifyInv'
  BY <1>1, <1>2, <1>3, AgreedOnceSame DEF OnceInv, HandleInv, NotifyInv
<1>8. ThreadInv'
  BY <1>1, <1>2, <1>3, <1>6 DEF OnceInv, ThreadInv
<1>9. CASE engine.highest < local.sealer
  <2> DEFINE p == IF engine.prepare.txs = blocks[local.sealer].txs
                  THEN NoPrepare ELSE engine.prepare
             e(l) == [engine EXCEPT !.highest = local.sealer, !.view = 0, !.toView = 0,
                                    !.leaderFailed = FALSE, !.limit = l, !.prepare = p]
  <2>1. PICK l \in TxLimits : engine' = e(l)
    BY <1>9 DEF reportBlock
  <2>2. p.height = 0 \/ p = engine.prepare
    BY DEF NoPrepare
  <2> HIDE DEF p
  <2>3. /\ engine'.highest = local.sealer /\ engine'.prepare = p
        /\ engine'.committed = engine.committed
    BY <1>4, <2>1 DEF EngineType
  <2>4. engine.prepare.height \in Nat /\ engine.committed.height \in Nat
    BY <1>4 DEF EngineType, PrepareType
  <2>5. /\ engine.prepare.height <= engine.highest + 1
        /\ engine.committed.height <= engine.highest + 1
    BY DEF OnceInv, CacheInv
  <2>6. CacheInv'
    <3>1. p.height <= local.sealer + 1
      BY <1>4, <1>5, <1>9, <2>2, <2>4, <2>5
    <3>2. engine.committed.height < local.sealer + 1
      BY <1>4, <1>5, <1>9, <2>4, <2>5
    <3> QED
      BY <1>4, <2>3, <2>4, <3>1, <3>2 DEF CacheInv
  <2>7. CleanInv'
    <3>1. CleanPrepare(p)
      BY <1>4, <2>2 DEF OnceInv, CleanInv, CleanPrepare
    <3>2. CleanPrepare(engine.prepare)' /\ CleanPrepare(engine.committed)'
      BY <1>1, <1>6, <2>3, <3>1 DEF OnceInv, CleanInv, CleanPrepare
    <3>3. PoolInv'
      BY <1>1, <1>2, <1>6 DEF OnceInv, CleanInv, PoolInv
    <3> QED
      BY <3>2, <3>3 DEF CleanInv
  <2>8. FillInv'
    <3>1. engine.highest # number
      BY <1>4, <1>5, <1>9
    <3>2. ~ sealing.sealed /\ sealing.number \notin ahead => sealing.number # number + 2
      BY <3>1 DEF OnceInv, FillInv, NextBlock
    <3> QED
      BY <1>1, <1>6, <3>2 DEF OnceInv, FillInv, OwnBlock
  <2>9. \A i \in DOMAIN prepares : prepares[i][1] < local.sealer + 1
    <3> SUFFICES ASSUME NEW i \in DOMAIN prepares PROVE prepares[i][1] < local.sealer + 1
      OBVIOUS
    <3>1. prepares[i][1] <= engine.highest + 1
      BY DEF OnceInv, PastInv
    <3>2. prepares[i] \in Nat \X Nat
      BY DEF OnceInv, PastInv
    <3>3. prepares[i][1] \in Nat
      BY <3>2
    <3> QED
      BY <1>4, <1>5, <1>9, <3>1, <3>3
  <2>10. \A i \in DOMAIN prepares :
           prepares[i][1] # local.sealer + 1 /\ prepares[i][1] <= local.sealer + 1
    <3> SUFFICES ASSUME NEW i \in DOMAIN prepares
                 PROVE  prepares[i][1] # local.sealer + 1 /\ prepares[i][1] <= local.sealer + 1
      OBVIOUS
    <3>1. prepares[i] \in Nat \X Nat
      BY DEF OnceInv, PastInv
    <3>2. prepares[i][1] \in Nat
      BY <3>1
    <3> QED
      BY <1>4, <2>9, <3>2
  <2>11. PastInv'
    BY <1>1, <2>3, <2>10 DEF OnceInv, PastInv
  <2>12. ~ Sent'
    <3> SUFFICES ASSUME NEW i \in DOMAIN prepares,
                        prepares[i] = <<local.sealer + 1, engine'.view>>
                 PROVE  FALSE
      BY <1>1, <2>3 DEF Sent
    <3> QED
      BY <2>10
  <2>13. SentInv'
    BY <2>12 DEF SentInv, SentNow
  <2>14. OnePrepare'
    BY <1>1, <1>9 DEF OnceInv, OnePrepare, SamePrepare, reportBlock
  <2> QED
    BY <1>7, <1>8, <2>6, <2>7, <2>8, <2>11, <2>13, <2>14 DEF OnceInv
<1>10. CASE ~ (engine.highest < local.sealer)
  <2>1. engine' = engine /\ again' = again \cup {local.sealer} /\ local.sealer = engine.highest
    BY <1>4, <1>5, <1>10 DEF reportBlock
  <2>2. CacheInv' /\ CleanInv'
    BY <1>1, <1>2, <2>1, EngineSame DEF OnceInv
  <2>3. FillInv'
    BY <1>1, <1>2, <2>1, FillSame DEF OnceInv
  <2>4. PastInv' /\ OnePrepare'
    BY <1>1, <2>1 DEF OnceInv, PastInv, OnePrepare, SamePrepare
  <2>5. SentInv'
    BY <2>1 DEF SentInv, SentNow
  <2> QED
    BY <1>7, <1>8, <2>2, <2>3, <2>4, <2>5 DEF OnceInv
<1> QED
  BY <1>9, <1>10

\* What is loaded was not agreed on, and is not being agreed on.
LEMMA DoWorkOnce ==
    ASSUME SealerInv, OnceInv, NEW i \in BOOLEAN, NEW late \in BOOLEAN, doWork(i, late)
    PROVE  OnceInv'
<1>1. /\ UNCHANGED <<blocks, pool, engine, local, prepares, again, ahead>>
      /\ pc.sealer = "load" /\ xsealing = "free"
  BY DEF doWork
<1>2. PICK load \in SUBSET (pool \ sealing.filter) :
        sealing' = [sealing EXCEPT !.txs = @ \cup load, !.filter = @ \cup load]
  BY DEF doWork
<1>3. /\ sealing'.number = sealing.number /\ sealing'.sealed = sealing.sealed
      /\ sealing'.txs = sealing.txs \cup load /\ sealing'.filter = sealing.filter \cup load
  BY <1>2 DEF SealerInv, TypeInv, SealingType
<1>4. /\ pc'.engine = pc.engine
      /\ \/ pc'.sealer = "begin"
         \/ pc'.sealer = "handle" /\ sealing.number = number + 1 /\ xsealing' = "sealer"
  <2>1. \/ Goto("sealer", "begin")
        \/ Goto("sealer", "handle") /\ shouldHandleBlock /\ xsealing' = "sealer"
    BY DEF doWork
  <2> QED
    BY <2>1, GotoSealer DEF SealerInv, TypeInv, SealerPC, shouldHandleBlock
<1>5. Agreed' = Agreed /\ number' = number /\ getNextLeader' = getNextLeader /\ number \in Nat
  BY <1>1, AgreedSame, NumberType DEF getNextLeader, SealerInv
<1>6. ~ SentNow /\ ~ sealing.sealed
  BY <1>1 DEF OnceInv, SentInv, ThreadInv
<1>7. CacheInv' /\ CleanInv'
  BY <1>1, <1>4, EngineSame DEF OnceInv
<1>8. NotifyInv'
  BY <1>1, <1>4, NotifySame DEF OnceInv
<1>9. PastInv' /\ OnePrepare' /\ SentInv'
  BY <1>1, <1>6, HistorySame DEF OnceInv, SentInv
<1>10. AgreedOnce'
  BY <1>1, AgreedOnceSame DEF OnceInv
<1>11. ThreadInv'
  BY <1>1, <1>3, <1>4, <1>5, <1>6 DEF OnceInv, ThreadInv
<1>12. HandleInv'
  BY <1>1, <1>3, <1>4, <1>5 DEF HandleInv
<1>13. FillInv'
  <2>1. CASE sealing.number \in ahead
    BY <1>1, <1>3, <2>1 DEF FillInv
  <2>2. CASE sealing.number = number + 1 /\ sealing.number \notin ahead
    <3>1. OwnBlock
      BY <1>6, <2>2 DEF OnceInv, FillInv
    <3>2. OwnBlock'
      BY <1>1, <1>3, <1>5, <3>1 DEF OwnBlock
    <3>3. number + 1 # number + 2
      BY <1>5
    <3> QED
      BY <1>3, <1>5, <2>2, <3>2, <3>3 DEF FillInv
  <2>3. CASE sealing.number = number + 2 /\ sealing.number \notin ahead
    <3>1. NextBlock
      BY <1>6, <2>3 DEF OnceInv, FillInv
    <3>2. pc.engine \notin {"stored", "drop"}
      BY <1>5, <3>1 DEF OnceInv, ThreadInv, NextBlock
    <3>3. pool \cap Agreed = {}
      BY <3>2 DEF OnceInv, CleanInv, PoolInv
    <3>4. sealing'.txs \cap Agreed = {}
      BY <1>3, <3>1, <3>3 DEF NextBlock
    <3>5. ASSUME NEW p, Filtered(p)
          PROVE  p.height = number + 1 => p.txs \subseteq sealing'.filter
                                          /\ p.txs \cap sealing'.txs = {}
      BY <1>3, <3>5 DEF Filtered
    <3>6. NextBlock'
      <4>1. pc'.engine \in {"free", "timeout"} => Filtered(engine.prepare) /\ Filtered(engine.committed)
        BY <1>4, <3>1 DEF NextBlock
      <4>2. pc'.engine \in {"free", "timeout"} => Filtered(engine.prepare)'
        BY <1>1, <1>5, <3>5, <4>1 DEF Filtered
      <4>3. pc'.engine \in {"free", "timeout"} => Filtered(engine.committed)'
        BY <1>1, <1>5, <3>5, <4>1 DEF Filtered
      <4> QED
        BY <1>1, <1>5, <3>1, <3>4, <4>2, <4>3 DEF NextBlock
    <3>7. number + 1 # number + 2
      BY <1>5
    <3> QED
      BY <1>3, <1>5, <2>3, <3>6, <3>7 DEF FillInv
  <2>4. CASE sealing.number \notin {number + 1, number + 2}
    BY <1>3, <1>5, <2>4 DEF FillInv
  <2> QED
    BY <2>1, <2>2, <2>3, <2>4
<1> QED
  BY <1>7, <1>8, <1>9, <1>10, <1>11, <1>12, <1>13 DEF OnceInv

LEMMA HandleBlockOnce ==
    ASSUME SealerInv, OnceInv, handleBlock
    PROVE  OnceInv'
<1>1. /\ UNCHANGED <<blocks, pool, engine, local, prepares, again>> /\ pc.sealer = "handle"
  BY DEF handleBlock
<1>2. Agreed' = Agreed /\ number' = number /\ number \in Nat
  BY <1>1, AgreedSame, NumberType DEF SealerInv
<1>3. ~ SentNow /\ ~ sealing.sealed
  BY <1>1 DEF OnceInv, SentInv, ThreadInv
<1>4. PastInv' /\ OnePrepare' /\ SentInv'
  BY <1>1, <1>3, HistorySame DEF OnceInv, SentInv
<1>5. CASE beginBlock({}, 1) /\ xsealing' = "free" /\ Goto("sealer", "begin")
  <2>1. pc'.sealer = "begin" /\ pc'.engine = pc.engine
    BY <1>5, GotoSealer DEF SealerInv, TypeInv, SealerPC
  <2>2. sealing'.number = number + 1 /\ ahead \subseteq ahead'
    BY <1>1, <1>5, BegunBlock
  <2>3. FillInv'
    BY <1>1, <1>5, BegunFill
  <2>4. CacheInv' /\ CleanInv'
    BY <1>1, <2>1, <2>2, EngineSame DEF OnceInv
  <2>5. NotifyInv'
    BY <1>1, <2>1, NotifySame DEF OnceInv
  <2>6. ThreadInv' /\ HandleInv'
    BY <1>1, <1>2, <2>1, <2>2 DEF OnceInv, ThreadInv, HandleInv
  <2>7. AgreedOnce'
    BY <1>1, <2>2, AgreedOnceSame DEF OnceInv
  <2> QED
    BY <1>4, <2>3, <2>4, <2>5, <2>6, <2>7 DEF OnceInv
<1>6. CASE /\ sealing' = [sealing EXCEPT !.number = number + 1, !.sealed = TRUE]
           /\ Goto("sealer", "prepare") /\ UNCHANGED <<xsealing, ahead>>
  <2>1. pc'.sealer = "prepare" /\ pc'.engine = pc.engine
    BY <1>6, GotoSealer DEF SealerInv, TypeInv, SealerPC
  <2>2. sealing'.number = number + 1 /\ sealing'.sealed = TRUE /\ sealing'.txs = sealing.txs
    BY <1>6 DEF SealerInv, TypeInv, SealingType
  <2>3. CacheInv' /\ CleanInv'
    BY <1>1, <1>6, <2>1, EngineSame DEF OnceInv
  <2>4. NotifyInv'
    BY <1>1, <2>1, NotifySame DEF OnceInv
  <2>5. ThreadInv' /\ FillInv'
    BY <1>1, <1>2, <1>6, <2>1, <2>2 DEF OnceInv, ThreadInv, FillInv
  <2>6. HandleInv'
    <3>1. ASSUME engine.highest = number, number + 1 \notin ahead
          PROVE  sealing.txs \cap Agreed = {}
      BY <1>1, <1>3, <3>1 DEF OnceInv, HandleInv, FillInv, OwnBlock
    <3> QED
      BY <1>1, <1>2, <1>6, <2>1, <2>2, <3>1 DEF HandleInv
  <2>7. AgreedOnce'
    BY <1>1, <1>6, AgreedOnceSame DEF OnceInv
  <2> QED
    BY <1>4, <2>3, <2>4, <2>5, <2>6, <2>7 DEF OnceInv
<1> QED
  BY <1>5, <1>6 DEF handleBlock

\* The history of a prepare sent for the current height and view.
LEMMA PrepareSent ==
    ASSUME SealerInv, OnceInv, ~ Sent \/ engine.highest \in again,
           engine'.highest = engine.highest, engine'.view = engine.view, again' = again,
           prepares' = Append(prepares, <<engine.highest + 1, engine.view>>)
    PROVE  PastInv' /\ OnePrepare'
<1> DEFINE x == <<engine.highest + 1, engine.view>>
           n == Len(prepares)
<1>1. engine.highest \in Nat /\ engine.view \in Nat /\ prepares \in Seq(Nat \X Nat)
  BY DEF SealerInv, TypeInv, EngineType, OnceInv, PastInv
<1>2. x \in Nat \X Nat /\ x[1] = engine.highest + 1 /\ x[2] = engine.view
  BY <1>1
<1> HIDE DEF x
<1>3. /\ prepares' \in Seq(Nat \X Nat) /\ n \in Nat /\ DOMAIN prepares = 1 .. n
      /\ DOMAIN prepares' = 1 .. n + 1 /\ prepares'[n + 1] = x
      /\ \A i \in 1 .. n : prepares'[i] = prepares[i]
  BY <1>1, <1>2, AppendProperties, LenProperties DEF x
<1> HIDE DEF n
<1>4. PastInv'
  <2> SUFFICES ASSUME NEW i \in 1 .. n + 1
               PROVE  /\ prepares'[i][1] <= engine.highest + 1
                      /\ prepares'[i][1] = engine.highest + 1 => prepares'[i][2] <= engine.view
    BY <1>3 DEF PastInv
  <2>1. CASE i = n + 1
    BY <1>1, <1>2, <1>3, <2>1
  <2>2. CASE i \in 1 .. n
    <3>1. prepares'[i] = prepares[i] /\ i \in DOMAIN prepares
      BY <1>3, <2>2
    <3> QED
      BY <3>1 DEF OnceInv, PastInv
  <2> QED
    BY <1>3, <2>1, <2>2
<1>5. OnePrepare'
  <2> SUFFICES ASSUME NEW i \in 1 .. n + 1, NEW j \in 1 .. n + 1, i # j,
                      prepares'[i] = prepares'[j]
               PROVE  prepares'[i][1] - 1 \in again
    BY <1>3 DEF OnePrepare, SamePrepare
  <2>1. CASE i \in 1 .. n /\ j \in 1 .. n
    <3>1. prepares'[i] = prepares[i] /\ prepares'[j] = prepares[j]
      BY <1>3, <2>1
    <3> QED
      BY <1>3, <2>1, <3>1 DEF OnceInv, OnePrepare, SamePrepare
  <2>2. ASSUME NEW k \in 1 .. n, prepares[k] = x PROVE engine.highest \in again
    BY <1>3, <2>2 DEF Sent, x
  <2>3. CASE i = n + 1 \/ j = n + 1
    <3>1. prepares'[i] = x
      BY <1>3, <2>3
    <3>2. engine.highest \in again
      <4>1. CASE i = n + 1
        <5>1. j \in 1 .. n
          BY <1>3, <4>1
        <5>2. prepares[j] = x
          BY <1>3, <3>1, <5>1
        <5> QED
          BY <2>2, <5>1, <5>2
      <4>2. CASE j = n + 1
        <5>1. i \in 1 .. n
          BY <1>3, <4>2
        <5>2. prepares[i] = x
          BY <1>3, <3>1, <5>1
        <5> QED
          BY <2>2, <5>1, <5>2
      <4> QED
        BY <2>3, <4>1, <4>2
    <3>3. prepares'[i][1] = engine.highest + 1
      BY <1>2, <3>1
    <3> DEFINE y == prepares'[i][1]
    <3>4. y = engine.highest + 1
      BY <3>3
    <3> HIDE DEF y
    <3>5. y - 1 = engine.highest
      BY <1>1, <3>4
    <3>6. y - 1 \in again
      BY <3>2, <3>5
    <3> QED
      BY <3>6 DEF y
  <2> QED
    BY <1>3, <2>1, <2>3
<1> QED
  BY <1>4, <1>5

\* What handleOwnPrepare does with an engine whose view is the current one: nothing, or
\* this node leads, the chain is at the engine's height and the prepare is sent.
LEMMA OwnPrepare ==
    ASSUME NEW e \in EngineType, SameView(engine, e), NEW h, NEW b, NEW refused,
           handleOwnPrepare(e, h, b, refused)
    PROVE  \/ engine' = e /\ prepares' = prepares
           \/ /\ h = engine.highest + 1 /\ h = number + 1 /\ getLeader = Me
              /\ engine.committed.height = h => engine.committed.txs = b
              /\ engine'.raw = h /\ engine'.prepare = Prepare(h, engine.view, b)
              /\ engine'.committed = e.committed
              /\ prepares' = Append(prepares, <<engine.highest + 1, engine.view>>)
<1> DEFINE p == Prepare(h, e.view, b)
           f == [e EXCEPT !.raw = h, !.prepare = p]
<1>1. CASE engine' = e /\ prepares' = prepares
  BY <1>1
<1>2. CASE /\ h = engine.highest + 1 /\ h = number + 1 /\ getLeader = Me
           /\ engine.committed.height = h => engine.committed.txs = b
           /\ engine' = f /\ prepares' = Append(prepares, <<h, e.view>>)
  <2>1. e.view = engine.view
    BY DEF SameView
  <2>2. p = Prepare(h, engine.view, b)
    BY <2>1
  <2> HIDE DEF p
  <2>3. engine'.raw = h /\ engine'.prepare = p /\ engine'.committed = e.committed
    BY <1>2 DEF EngineType
  <2> QED
    BY <1>2, <2>1, <2>2, <2>3
<1> QED
  BY <1>1, <1>2 DEF handleOwnPrepare

LEMMA RehandleOnce ==
    ASSUME SealerInv, OnceInv, NEW refused, rehandleCommitedPrepareCache(refused)
    PROVE  OnceInv'
<1>1. /\ UNCHANGED <<blocks, pool, sealing, mutex, xsealing, local, again, ahead>>
      /\ pc.sealer = "rehandle" /\ mutex = "free" /\ Goto("sealer", "begin")
      /\ handleOwnPrepare(engine, engine.committed.height, engine.committed.txs, refused)
  BY DEF rehandleCommitedPrepareCache
<1>2. engine \in EngineType /\ SameView(engine, engine)
  BY DEF SealerInv, TypeInv, SameView
<1>3. pc'.sealer = "begin" /\ pc'.engine = pc.engine
  BY <1>1, GotoSealer DEF SealerInv, TypeInv, SealerPC
<1>4. ~ SentNow
  BY <1>1 DEF OnceInv, SentInv
<1> DEFINE h == engine.committed.height
           b == engine.committed.txs
<1>5. CASE engine' = engine /\ prepares' = prepares
  BY <1>1, <1>4, <1>5, SealerOnlyMoves DEF SealerPC
<1>6. CASE /\ h = engine.highest + 1 /\ h = number + 1 /\ getLeader = Me
           /\ engine'.raw = h /\ engine'.prepare = Prepare(h, engine.view, b)
           /\ engine'.committed = engine.committed
           /\ prepares' = Append(prepares, <<engine.highest + 1, engine.view>>)
  <2>1. SameView(engine, engine')
    <3>1. h \in Nat /\ b \in SUBSET Tx
      BY <1>2 DEF EngineType, PrepareType
    <3> QED
      BY <1>1, <1>2, <3>1, OwnPrepareType
  <2>2. /\ engine'.highest = engine.highest /\ engine'.view = engine.view
        /\ engine'.prepare.height = h /\ engine'.prepare.txs = b
    BY <1>6, <2>1 DEF SameView, Prepare
  <2>3. number \in Nat /\ engine.highest \in Nat /\ number = engine.highest
    BY <1>2, <1>6, NumberType DEF SealerInv, EngineType
  <2>4. ~ engine.leaderFailed
    BY <1>6, LeaderNotMe DEF getLeader
  <2>5. ~ Sent \/ engine.highest \in again
    BY <1>4, <2>3, <2>4 DEF SentNow
  <2>6. PastInv' /\ OnePrepare'
    BY <1>1, <1>6, <2>2, <2>5, PrepareSent
  <2>7. Agreed' = Agreed /\ number' = number
    BY <1>1, AgreedSame
  <2>8. getLeader' = getLeader /\ getNextLeader' = getNextLeader
    BY <2>1, <2>2, SameViewLeader DEF getNextLeader
  <2>9. pc.engine # "notify"
    BY <1>1 DEF SealerInv, LockInv
  <2>10. ThreadInv' /\ HandleInv' /\ NotifyInv'
    BY <1>1, <1>3, <2>2, <2>7, <2>9 DEF OnceInv, ThreadInv, HandleInv, NotifyInv
  <2>11. CacheInv'
    BY <1>6, <2>2, <2>3 DEF OnceInv, CacheInv
  <2>12. CleanInv'
    BY <1>1, <1>3, <1>6, <2>2, <2>7 DEF OnceInv, CleanInv, PoolInv, CleanPrepare
  <2>13. SentInv'
    BY <1>3, <1>6, <2>2, <2>3, <2>7, <2>8 DEF SentInv
  <2>14. FillInv'
    <3>1. Filtered(engine.committed) => Filtered(engine.prepare)' /\ Filtered(engine.committed)'
      BY <1>1, <1>6, <2>2, <2>7 DEF Filtered
    <3> QED
      BY <1>1, <1>3, <2>2, <2>7, <2>8, <3>1 DEF OnceInv, FillInv, OwnBlock, NextBlock
  <2>15. AgreedOnce'
    BY <1>1, AgreedOnceSame DEF OnceInv
  <2> QED
    BY <2>6, <2>10, <2>11, <2>12, <2>13, <2>14, <2>15 DEF OnceInv
<1> HIDE DEF h, b
<1> QED
  BY <1>1, <1>2, <1>5, <1>6, OwnPrepare DEF h, b

LEMMA GeneratePrepareOnce ==
    ASSUME SealerInv, OnceInv, NEW refused, generatePrepare(refused)
    PROVE  OnceInv'
<1> DEFINE e == [engine EXCEPT !.notify = FALSE]
           f == [e EXCEPT !.leaderFailed = TRUE]
           h == sealing.number
           b == sealing.txs
<1>1. /\ UNCHANGED <<blocks, pool, mutex, local, again>> /\ mutex = "free"
      /\ pc.sealer = "prepare" /\ xsealing' = "free" /\ Goto("sealer", "begin")
  BY DEF generatePrepare
<1>2. engine \in EngineType /\ sealing \in SealingType
  BY DEF SealerInv, TypeInv
<1>3. e \in EngineType
  BY <1>2 DEF EngineType
<1>4. /\ SameView(engine, e) /\ e.prepare = engine.prepare /\ e.committed = engine.committed
      /\ e.raw = engine.raw
  BY <1>2 DEF EngineType, SameView
<1>5. pc'.sealer = "begin" /\ pc'.engine = pc.engine
  BY <1>1, GotoSealer DEF SealerInv, TypeInv, SealerPC
<1>6. ~ SentNow /\ sealing.sealed
  BY <1>1 DEF OnceInv, SentInv, ThreadInv
<1>7. Agreed' = Agreed /\ number' = number /\ number \in Nat
  BY <1>1, AgreedSame, NumberType DEF SealerInv
<1>8. pc.engine \notin {"notify", "stored", "drop"}
  BY <1>1 DEF SealerInv, LockInv
<1>9. HandleInv' /\ NotifyInv'
  BY <1>5, <1>8 DEF HandleInv, NotifyInv
<1>10. sealing'.number <= number + 2 => ThreadInv'
  BY <1>5, <1>7, <1>8 DEF ThreadInv
<1>11. PoolInv'
  BY <1>1, <1>5, <1>7 DEF OnceInv, CleanInv, PoolInv
<1>12. CASE sealing.txs = {}
  <2>1. engine' = f /\ beginBlock({}, 1) /\ prepares' = prepares
    BY <1>12 DEF generatePrepare
  <2> HIDE DEF e
  <2>2. /\ engine'.highest = engine.highest /\ engine'.view = engine.view
        /\ engine'.leaderFailed = TRUE /\ engine'.prepare = engine.prepare
        /\ engine'.committed = engine.committed
    BY <1>3, <1>4, <2>1 DEF EngineType, SameView
  <2>3. sealing'.number = number + 1 /\ ahead \subseteq ahead'
    BY <1>1, <2>1, BegunBlock
  <2>4. FillInv'
    BY <1>1, <2>1, BegunFill
  <2>5. ThreadInv'
    BY <1>7, <1>10, <2>3
  <2>6. CacheInv' /\ CleanInv'
    BY <1>7, <1>11, <2>2, <2>3 DEF OnceInv, CacheInv, CleanInv, CleanPrepare
  <2>7. PastInv' /\ OnePrepare'
    BY <1>1, <2>1, <2>2 DEF OnceInv, PastInv, OnePrepare, SamePrepare
  <2>8. SentInv'
    BY <2>2 DEF SentInv, SentNow
  <2>9. AgreedOnce'
    BY <1>1, <2>3, AgreedOnceSame DEF OnceInv
  <2> QED
    BY <1>9, <2>4, <2>5, <2>6, <2>7, <2>8, <2>9 DEF OnceInv
<1>13. CASE sealing.txs # {}
  <2>1. handleOwnPrepare(e, h, b, refused) /\ UNCHANGED <<sealing, ahead>>
    BY <1>13 DEF generatePrepare
  <2>2. ThreadInv' /\ FillInv' /\ AgreedOnce'
    BY <1>1, <1>6, <1>10, <2>1, AgreedOnceSame DEF OnceInv, ThreadInv, FillInv
  <2> HIDE DEF e
  <2>3. h \in Nat /\ b \in SUBSET Tx
    BY <1>2 DEF SealingType
  <2>4. SameView(e, engine')
    BY <1>3, <2>1, <2>3, OwnPrepareType
  <2>5. SameView(engine, engine')
    BY <1>4, <2>4 DEF SameView
  <2>6. engine'.highest = engine.highest /\ engine'.view = engine.view
        /\ engine'.leaderFailed = engine.leaderFailed
    BY <2>5 DEF SameView
  <2>7. CASE engine' = e /\ prepares' = prepares
    <3>1. engine'.prepare = engine.prepare /\ engine'.committed = engine.committed
      BY <1>4, <2>7
    <3>2. CacheInv' /\ CleanInv'
      BY <1>7, <1>11, <2>1, <2>6, <3>1 DEF OnceInv, CacheInv, CleanInv, CleanPrepare
    <3>3. PastInv' /\ OnePrepare'
      BY <1>1, <2>6, <2>7 DEF OnceInv, PastInv, OnePrepare, SamePrepare
    <3>4. SentNow' = SentNow
      BY <1>1, <1>7, <2>6, <2>7 DEF SentNow, Sent
    <3>5. SentInv'
      BY <1>6, <3>4 DEF SentInv
    <3> QED
      BY <1>9, <2>2, <3>2, <3>3, <3>5 DEF OnceInv
  <2>8. CASE /\ h = engine.highest + 1 /\ h = number + 1 /\ getLeader = Me
             /\ engine'.raw = h /\ engine'.prepare = Prepare(h, engine.view, b)
             /\ engine'.committed = e.committed
             /\ prepares' = Append(prepares, <<engine.highest + 1, engine.view>>)
    <3>1. /\ engine'.prepare.height = h /\ engine'.prepare.txs = b
          /\ engine'.committed = engine.committed
      BY <1>4, <2>8 DEF Prepare
    <3>2. engine.highest \in Nat /\ number = engine.highest
      BY <1>2, <1>7, <2>8 DEF EngineType
    <3>3. ~ engine.leaderFailed
      BY <2>8, LeaderNotMe DEF getLeader
    <3>4. ~ Sent \/ engine.highest \in again
      BY <1>6, <3>2, <3>3 DEF SentNow
    <3>5. PastInv' /\ OnePrepare'
      BY <1>1, <2>6, <2>8, <3>4, PrepareSent
    <3>6. getLeader' = getLeader
      BY <2>5, SameViewLeader
    <3>7. SentInv'
      BY <1>5, <1>6, <1>7, <2>1, <2>6, <2>8, <3>2, <3>6 DEF SentInv
    <3>8. CacheInv'
      BY <2>6, <2>8, <3>1, <3>2 DEF OnceInv, CacheInv
    <3>9. h \notin ahead => b \cap Agreed = {}
      BY <1>1, <2>8, <3>2 DEF OnceInv, HandleInv
    <3>10. CleanInv'
      BY <1>7, <1>11, <2>1, <3>1, <3>9 DEF OnceInv, CleanInv, CleanPrepare
    <3> QED
      BY <1>9, <2>2, <3>5, <3>7, <3>8, <3>10 DEF OnceInv
  <2> HIDE DEF h, b
  <2> QED
    BY <1>3, <1>4, <2>1, <2>7, <2>8, OwnPrepare
<1> QED
  BY <1>12, <1>13

-----------------------------------------------------------------------------
(* The engine's worker thread.                                             *)

LEMMA HandlePrepareMsgOnce ==
    ASSUME SealerInv, OnceInv, NEW b \in SUBSET Tx, handlePrepareMsg(b)
    PROVE  OnceInv'
<1> DEFINE p == Prepare(number + 1, engine.view, b)
           e == [engine EXCEPT !.raw = number + 1, !.prepare = p]
           f == [e EXCEPT !.notify = TRUE]
<1>1. /\ UNCHANGED <<blocks, pool, sealing, xsealing, prepares, again, ahead>> /\ mutex = "free"
      /\ pc.engine = "free" /\ getLeader # Me /\ engine.highest = number
      /\ b \cap OnChain = {}
      /\ engine.committed.height = engine.highest + 1 => b = engine.committed.txs
  BY DEF handlePrepareMsg, Locked
<1>2. engine \in EngineType /\ pc \in ThreadType /\ local \in LocalType /\ number \in Nat
  BY NumberType DEF SealerInv, TypeInv
<1>3. \/ /\ engine' = f /\ local' = [local EXCEPT !.engine = b] /\ Goto("engine", "notify")
         /\ getNextLeader = Me
      \/ engine' = e /\ UNCHANGED <<local, pc>> /\ getNextLeader # Me
  BY DEF handlePrepareMsg
<1>4. p.height = number + 1 /\ p.txs = b
  BY DEF Prepare
<1> HIDE DEF p
<1>5. /\ e.highest = engine.highest /\ e.view = engine.view /\ e.prepare = p
      /\ e.leaderFailed = engine.leaderFailed /\ e.committed = engine.committed
  BY <1>2 DEF EngineType
<1>6. /\ f.highest = engine.highest /\ f.view = engine.view /\ f.prepare = p
      /\ f.leaderFailed = engine.leaderFailed /\ f.committed = engine.committed
  BY <1>2 DEF EngineType
<1> HIDE DEF e, f
<1>7. /\ engine'.highest = engine.highest /\ engine'.view = engine.view
      /\ engine'.leaderFailed = engine.leaderFailed /\ engine'.committed = engine.committed
      /\ engine'.prepare.height = number + 1 /\ engine'.prepare.txs = b
  BY <1>3, <1>4, <1>5, <1>6
<1>8. /\ pc'.sealer = pc.sealer /\ local'.sealer = local.sealer
      /\ \/ pc'.engine = "notify" /\ local'.engine = b /\ getNextLeader = Me
         \/ pc'.engine = "free" /\ getNextLeader # Me
  BY <1>1, <1>2, <1>3, GotoEngine DEF EnginePC, LocalType
<1>9. Agreed' = Agreed /\ number' = number /\ getNextLeader' = getNextLeader
  BY <1>1, <1>7, AgreedSame DEF getNextLeader
<1>10. b \cap Agreed = {}
  BY <1>1, AgreedOnChain DEF SealerInv
<1>11. pool \cap Agreed = {}
  BY <1>1 DEF OnceInv, CleanInv, PoolInv
<1>12. ThreadInv' /\ HandleInv'
  BY <1>1, <1>7, <1>8, <1>9 DEF OnceInv, ThreadInv, HandleInv
<1>13. CacheInv'
  BY <1>1, <1>2, <1>7 DEF OnceInv, CacheInv
<1>14. NotifyInv'
  BY <1>1, <1>7, <1>8, <1>9 DEF NotifyInv
<1>15. CleanInv'
  BY <1>1, <1>7, <1>9, <1>10, <1>11 DEF OnceInv, CleanInv, PoolInv, CleanPrepare
<1>16. FillInv'
  <2>1. NextBlock => NextBlock'
    BY <1>1, <1>7, <1>8, <1>9 DEF NextBlock
  <2> QED
    BY <1>1, <1>9, <2>1 DEF OnceInv, FillInv, OwnBlock
<1>17. PastInv' /\ OnePrepare' /\ SentNow' = SentNow
  BY <1>1, <1>7, <1>9 DEF OnceInv, PastInv, OnePrepare, SamePrepare, SentNow, Sent
<1>18. SentInv'
  BY <1>1, <1>17 DEF OnceInv, SentInv
<1>19. AgreedOnce'
  BY <1>1, AgreedOnceSame DEF OnceInv
<1> QED
  BY <1>12, <1>13, <1>14, <1>15, <1>16, <1>17, <1>18, <1>19 DEF OnceInv

\* The next leader's block skips the prepare it was begun for.
LEMMA ResetForNextLeaderOnce ==
    ASSUME SealerInv, OnceInv, resetBlockForNextLeader
    PROVE  OnceInv'
<1>1. /\ UNCHANGED <<blocks, pool, engine, xsealing, prepares, again>>
      /\ pc.engine = "notify" /\ Goto("engine", "free") /\ xsealing = "free"
      /\ local' = [local EXCEPT !.engine = {}] /\ beginBlock(local.engine, 2)
  BY DEF resetBlockForNextLeader
<1>2. pc \in ThreadType /\ local \in LocalType /\ number \in Nat
  BY NumberType DEF SealerInv, TypeInv
<1>3. local'.sealer = local.sealer /\ local.engine \in SUBSET Tx
  BY <1>1, <1>2 DEF LocalType
<1>4. pc'.engine = "free" /\ pc'.sealer = pc.sealer
  BY <1>1, <1>2, GotoEngine DEF EnginePC
<1>5. /\ sealing'.number = number + 2 /\ sealing'.txs = {} /\ sealing'.sealed = FALSE
      /\ sealing'.filter = local.engine /\ ahead \subseteq ahead'
      /\ sealing'.number \notin ahead' => engine.highest = number
  BY <1>1, <1>3, BegunBlock
<1>6. Agreed' = Agreed /\ number' = number /\ getNextLeader' = getNextLeader
  BY <1>1, AgreedSame DEF getNextLeader
<1>7. ~ SentNow
  BY <1>1 DEF SealerInv, LockInv, OnceInv, SentInv
<1>8. pc.sealer \notin {"handle", "prepare"}
  BY <1>1 DEF OnceInv, ThreadInv
<1>9. ThreadInv'
  BY <1>1, <1>2, <1>3, <1>4, <1>5, <1>6, <1>8 DEF OnceInv, ThreadInv
<1>10. CacheInv' /\ HandleInv' /\ NotifyInv'
  BY <1>1, <1>4, <1>8 DEF OnceInv, CacheInv, HandleInv, NotifyInv
<1>11. CleanInv'
  BY <1>1, <1>5, <1>6 DEF OnceInv, CleanInv, PoolInv, CleanPrepare
<1>12. FillInv'
  <2>1. /\ getNextLeader = Me /\ engine.prepare.txs = local.engine
        /\ engine.committed.height = engine.highest + 1 => engine.committed.txs = local.engine
    BY <1>1 DEF OnceInv, NotifyInv
  <2>2. sealing'.number \notin ahead' => NextBlock'
    BY <1>1, <1>5, <1>6, <2>1 DEF NextBlock, Filtered
  <2>3. number + 2 # number + 1
    BY <1>2
  <2> QED
    BY <1>5, <1>6, <2>2, <2>3 DEF FillInv
<1>13. PastInv' /\ OnePrepare' /\ SentInv'
  BY <1>1, <1>7, HistorySame DEF OnceInv, SentInv
<1>14. AgreedOnce'
  BY <1>1, <1>5, AgreedOnceSame DEF OnceInv
<1> QED
  BY <1>9, <1>10, <1>11, <1>12, <1>13, <1>14 DEF OnceInv

LEMMA CheckAndCommitOnce ==
    ASSUME SealerInv, OnceInv, checkAndCommit
    PROVE  OnceInv'
<1>1. /\ UNCHANGED <<blocks, pool, sealing, xsealing, pc, local, prepares, again, ahead>>
      /\ engine' = [engine EXCEPT !.committed = engine.prepare]
      /\ engine.prepare # NoPrepare /\ pc.engine = "free"
  BY DEF checkAndCommit
<1>2. engine \in EngineType
  BY DEF SealerInv, TypeInv
<1>3. /\ engine'.highest = engine.highest /\ engine'.view = engine.view
      /\ engine'.leaderFailed = engine.leaderFailed /\ engine'.raw = engine.raw
      /\ engine'.prepare = engine.prepare /\ engine'.committed = engine.prepare
  BY <1>1, <1>2 DEF EngineType
<1>4. /\ Agreed' = Agreed /\ number' = number
      /\ getNextLeader' = getNextLeader /\ getLeader' = getLeader
  BY <1>1, <1>3, AgreedSame DEF getNextLeader, getLeader
<1>5. ThreadInv' /\ HandleInv' /\ NotifyInv'
  BY <1>1, <1>3, <1>4 DEF OnceInv, ThreadInv, HandleInv, NotifyInv
<1>6. CacheInv' /\ CleanInv'
  BY <1>1, <1>3, <1>4 DEF OnceInv, CacheInv, CleanInv, PoolInv, CleanPrepare
<1>7. FillInv'
  <2>1. Filtered(engine.prepare) => Filtered(engine.prepare)' /\ Filtered(engine.committed)'
    BY <1>1, <1>3, <1>4 DEF Filtered
  <2> QED
    BY <1>1, <1>3, <1>4, <2>1 DEF OnceInv, FillInv, OwnBlock, NextBlock
<1>8. PastInv' /\ OnePrepare' /\ SentNow' = SentNow
  BY <1>1, <1>3, <1>4 DEF OnceInv, PastInv, OnePrepare, SamePrepare, SentNow, Sent
<1>9. SentInv'
  <2>1. engine.committed.height = engine.highest + 1
          => engine.prepare.height = engine.highest + 1
    BY <1>1 DEF OnceInv, CacheInv
  <2> QED
    BY <1>1, <1>3, <1>4, <1>8, <2>1 DEF OnceInv, SentInv
<1>10. AgreedOnce'
  BY <1>1, AgreedOnceSame DEF OnceInv
<1> QED
  BY <1>5, <1>6, <1>7, <1>8, <1>9, <1>10 DEF OnceInv

\* The chain grows past the engine.
LEMMA ChainGrows ==
    ASSUME SealerInv, OnceInv, number' = number + 1, UNCHANGED <<sealing, engine, prepares, again>>
    PROVE  /\ CacheInv' /\ HandleInv' /\ PastInv' /\ SentInv' /\ OnePrepare'
           /\ CleanPrepare(engine.prepare)' /\ CleanPrepare(engine.committed)'
           /\ engine.highest < number' /\ sealing.number # number' + 2
<1>1. /\ number \in Nat /\ engine.highest \in Nat /\ engine.highest <= number
      /\ engine.prepare.height \in Nat /\ engine.committed.height \in Nat
      /\ sealing.number \in Nat /\ sealing.number <= number + 2
  BY NumberType DEF SealerInv, TypeInv, EngineType, PrepareType, BoundInv, SealingType,
     OnceInv, ThreadInv
<1>2. engine.highest < number' /\ engine.highest # number' /\ sealing.number # number' + 2
  BY <1>1
<1>3. engine.prepare.height # number' + 1 /\ engine.committed.height # number' + 1
  BY <1>1 DEF OnceInv, CacheInv
<1>4. CacheInv' /\ HandleInv' /\ PastInv' /\ OnePrepare'
  BY <1>2 DEF OnceInv, CacheInv, HandleInv, PastInv, OnePrepare, SamePrepare
<1>5. SentInv'
  BY <1>2 DEF SentInv, SentNow
<1>6. CleanPrepare(engine.prepare)' /\ CleanPrepare(engine.committed)'
  BY <1>3 DEF CleanPrepare
<1> QED
  BY <1>2, <1>4, <1>5, <1>6

LEMMA CheckAndSaveOnce ==
    ASSUME SealerInv, OnceInv, checkAndSave
    PROVE  OnceInv'
<1> DEFINE p == engine.prepare
           b == [txs |-> p.txs, by |-> "engine"]
<1>1. /\ UNCHANGED <<pool, sealing, engine, xsealing, prepares, again, ahead>>
      /\ pc.engine = "free" /\ Goto("engine", "stored") /\ p.height = number + 1
      /\ local' = [local EXCEPT !.engine = p.txs] /\ blocks' = Append(blocks, b)
  BY DEF checkAndSave
<1>2. engine \in EngineType /\ pc \in ThreadType /\ local \in LocalType
  BY DEF SealerInv, TypeInv
<1>3. p.txs \in SUBSET Tx
  BY <1>2 DEF EngineType, PrepareType
<1>4. b \in BlockType /\ b.txs = p.txs
  BY <1>3 DEF BlockType
<1>5. Agreed' = Agreed \cup p.txs /\ number' = number + 1
  BY <1>1, <1>3, AgreedEngine DEF SealerInv
<1>6. local'.engine = p.txs /\ local'.sealer = local.sealer
  BY <1>1, <1>2 DEF LocalType
<1>7. pc'.engine = "stored" /\ pc'.sealer = pc.sealer
  BY <1>1, <1>2, GotoEngine DEF EnginePC
<1>8. /\ CacheInv' /\ HandleInv' /\ PastInv' /\ SentInv' /\ OnePrepare'
      /\ CleanPrepare(engine.prepare)' /\ CleanPrepare(engine.committed)'
      /\ engine.highest < number' /\ sealing.number # number' + 2
  BY <1>1, <1>5, ChainGrows
<1>9. pool \cap Agreed = {}
  BY <1>1 DEF OnceInv, CleanInv, PoolInv
<1>10. CleanInv'
  BY <1>1, <1>5, <1>6, <1>7, <1>8, <1>9 DEF CleanInv, PoolInv
<1>11. number \in Nat /\ sealing.number \in Nat
  BY NumberType DEF SealerInv, TypeInv, SealingType
<1>12. ThreadInv'
  <2>1. sealing.number <= number + 1 + 2
    BY <1>11 DEF OnceInv, ThreadInv
  <2> QED
    BY <1>1, <1>5, <1>6, <1>7, <1>8, <2>1 DEF OnceInv, ThreadInv
<1>13. NotifyInv'
  BY <1>7 DEF NotifyInv
<1>14. FillInv'
  <2>1. number + 1 + 1 = number + 2
    BY <1>11
  <2>2. ASSUME ~ sealing.sealed, sealing.number \notin ahead, sealing.number = number + 2
        PROVE  OwnBlock'
    <3>1. NextBlock
      BY <2>2 DEF OnceInv, FillInv
    <3>2. p.txs \subseteq sealing.filter /\ p.txs \cap sealing.txs = {}
      BY <1>1, <3>1 DEF NextBlock, Filtered
    <3> QED
      BY <1>1, <1>5, <1>9, <3>1, <3>2 DEF NextBlock, OwnBlock
  <2> QED
    BY <1>1, <1>5, <1>8, <2>1, <2>2 DEF FillInv
<1>15. AgreedOnce'
  <2>1. b.txs \cap Agreed = {} \/ number + 1 \in ahead
    BY <1>1, <1>4 DEF OnceInv, CleanInv, CleanPrepare
  <2> HIDE DEF b
  <2> QED
    BY <1>1, <1>4, <2>1, AgreedOnceAppends DEF SealerInv, OnceInv
<1> QED
  BY <1>8, <1>10, <1>12, <1>13, <1>14, <1>15 DEF OnceInv

LEMMA DropHandledOnce ==
    ASSUME SealerInv, OnceInv, dropHandledTransactions
    PROVE  OnceInv'
<1>1. /\ UNCHANGED <<blocks, sealing, xsealing, prepares, again, ahead>>
      /\ pc.engine = "drop" /\ Goto("engine", "free")
      /\ local' = [local EXCEPT !.engine = {}]
      /\ engine' = [engine EXCEPT !.prepare = NoPrepare] /\ pool' = pool \ local.engine
  BY DEF dropHandledTransactions
<1>2. engine \in EngineType /\ pc \in ThreadType /\ local \in LocalType
  BY DEF SealerInv, TypeInv
<1>3. /\ engine'.highest = engine.highest /\ engine'.view = engine.view
      /\ engine'.prepare = NoPrepare /\ engine'.committed = engine.committed
  BY <1>1, <1>2 DEF EngineType
<1>4. local'.sealer = local.sealer
  BY <1>1, <1>2 DEF LocalType
<1>5. pc'.engine = "free" /\ pc'.sealer = pc.sealer
  BY <1>1, <1>2, GotoEngine DEF EnginePC
<1>6. Agreed' = Agreed /\ number' = number
  BY <1>1, AgreedSame
<1>7. number \in Nat /\ engine.highest \in Nat /\ engine.highest < number
  BY <1>1, <1>2, NumberType DEF SealerInv, EngineType, OnceInv, ThreadInv
<1>8. pool' \cap Agreed = {}
  BY <1>1 DEF OnceInv, CleanInv, PoolInv
<1>9. NoPrepare.height = 0 /\ NoPrepare.height # number + 1
  BY <1>7 DEF NoPrepare
<1>10. ThreadInv' /\ HandleInv' /\ NotifyInv'
  BY <1>1, <1>3, <1>4, <1>5, <1>6, <1>7 DEF OnceInv, ThreadInv, HandleInv, NotifyInv
<1>11. CacheInv'
  BY <1>3, <1>7, <1>9 DEF OnceInv, CacheInv
<1>12. CleanInv'
  BY <1>1, <1>3, <1>6, <1>8, <1>9 DEF OnceInv, CleanInv, PoolInv, CleanPrepare
<1>13. FillInv'
  <2>1. ~ NextBlock
    BY <1>7 DEF NextBlock
  <2> QED
    BY <1>1, <1>6, <1>8, <2>1 DEF OnceInv, FillInv, OwnBlock
<1>14. PastInv' /\ OnePrepare'
  BY <1>1, <1>3 DEF OnceInv, PastInv, OnePrepare, SamePrepare
<1>15. SentInv'
  BY <1>3, <1>6, <1>7 DEF SentInv, SentNow
<1>16. AgreedOnce'
  BY <1>1, AgreedOnceSame DEF OnceInv
<1> QED
  BY <1>10, <1>11, <1>12, <1>13, <1>14, <1>15, <1>16 DEF OnceInv

LEMMA OnBlockChangedOnce ==
    ASSUME SealerInv, OnceInv, NEW th \in {"engine", "sync"}, onBlockChanged(th)
    PROVE  OnceInv'
<1>1. UNCHANGED <<blocks, pool, sealing, engine, xsealing, local, prepares, again, ahead>>
  BY DEF onBlockChanged
<1>2. pc \in ThreadType
  BY DEF SealerInv, TypeInv
<1>3. CASE th = "sync"
  <2>1. pc'.engine = pc.engine /\ pc'.sealer = pc.sealer
    BY <1>2, <1>3, GotoSync DEF onBlockChanged, SyncPC
  <2> QED
    BY <1>1, <2>1, Still
<1>4. CASE th = "engine"
  <2>1. pc.engine = "stored" /\ Goto("engine", "drop")
    BY <1>4 DEF onBlockChanged
  <2>2. pc'.engine = "drop" /\ pc'.sealer = pc.sealer
    BY <1>2, <2>1, GotoEngine DEF EnginePC
  <2>3. Agreed' = Agreed /\ number' = number /\ getLeader' = getLeader
    BY <1>1, AgreedSame DEF getLeader
  <2>4. ThreadInv' /\ CacheInv' /\ HandleInv' /\ NotifyInv'
    BY <1>1, <2>1, <2>2, <2>3 DEF OnceInv, ThreadInv, CacheInv, HandleInv, NotifyInv
  <2>5. CleanInv'
    BY <1>1, <2>1, <2>2, <2>3 DEF OnceInv, CleanInv, PoolInv, CleanPrepare
  <2>6. FillInv'
    BY <1>1, <2>2, FillSame DEF OnceInv
  <2>7. PastInv' /\ OnePrepare' /\ SentNow' = SentNow
    BY <1>1, HistorySame DEF OnceInv
  <2>8. SentInv'
    BY <1>1, <2>2, <2>3, <2>7 DEF OnceInv, SentInv
  <2>9. AgreedOnce'
    BY <1>1, AgreedOnceSame DEF OnceInv
  <2> QED
    BY <2>4, <2>5, <2>6, <2>7, <2>8, <2>9 DEF OnceInv
<1> QED
  BY <1>3, <1>4

\* No prepare was sent in a view that has just begun.
LEMMA NewView ==
    ASSUME SealerInv, OnceInv, prepares' = prepares, engine'.highest = engine.highest,
           engine'.view \in Nat, engine'.view > engine.view
    PROVE  PastInv' /\ ~ Sent'
<1>1. engine.view \in Nat
  BY DEF SealerInv, TypeInv, EngineType
<1>2. ASSUME NEW i \in DOMAIN prepares, prepares[i][1] = engine.highest + 1
      PROVE  prepares[i][2] <= engine'.view /\ prepares[i][2] # engine'.view
  <2>1. prepares[i][2] <= engine.view
    BY <1>2 DEF OnceInv, PastInv
  <2>2. prepares[i] \in Nat \X Nat
    BY DEF OnceInv, PastInv
  <2>3. prepares[i][2] \in Nat
    BY <2>2
  <2> QED
    BY <1>1, <2>1, <2>3
<1>3. PastInv'
  BY <1>2 DEF OnceInv, PastInv
<1>4. ~ Sent'
  <2> SUFFICES ASSUME NEW i \in DOMAIN prepares,
                      prepares[i] = <<engine.highest + 1, engine'.view>>
               PROVE  FALSE
    BY DEF Sent
  <2> QED
    BY <1>2
<1> QED
  BY <1>3, <1>4

\* A step of the engine's thread that concerns the view alone.
LEMMA ViewStep ==
    ASSUME SealerInv, OnceInv,
           UNCHANGED <<blocks, pool, sealing, xsealing, local, prepares, again, ahead>>,
           engine'.highest = engine.highest, engine'.committed = engine.committed,
           engine'.prepare \in {engine.prepare, NoPrepare},
           pc'.sealer = pc.sealer, pc.engine \in {"free", "timeout"},
           pc'.engine \in {"free", "timeout", "viewChange"},
           PastInv', SentInv'
    PROVE  OnceInv'
<1>1. Agreed' = Agreed /\ number' = number /\ getNextLeader' = getNextLeader
  BY AgreedSame DEF getNextLeader
<1>2. number \in Nat /\ engine.highest \in Nat
  BY NumberType DEF SealerInv, TypeInv, EngineType
<1>3. NoPrepare.height = 0 /\ NoPrepare.height # number + 1
  BY <1>2 DEF NoPrepare
<1>4. ThreadInv' /\ HandleInv' /\ NotifyInv'
  BY <1>1 DEF OnceInv, ThreadInv, HandleInv, NotifyInv
<1>5. CacheInv'
  BY <1>2, <1>3 DEF OnceInv, CacheInv
<1>6. CleanInv'
  BY <1>1, <1>3 DEF OnceInv, CleanInv, PoolInv, CleanPrepare
<1>7. FillInv'
  <2>1. Filtered(engine.prepare) /\ Filtered(engine.committed)
          => Filtered(engine.prepare)' /\ Filtered(engine.committed)'
    BY <1>1, <1>3 DEF Filtered
  <2>2. NextBlock => NextBlock'
    BY <1>1, <2>1 DEF NextBlock
  <2> QED
    BY <1>1, <2>2 DEF OnceInv, FillInv, OwnBlock
<1>8. OnePrepare' /\ AgreedOnce'
  BY AgreedOnceSame DEF OnceInv, OnePrepare, SamePrepare
<1> QED
  BY <1>4, <1>5, <1>6, <1>7, <1>8 DEF OnceInv

LEMMA FastViewChangeOnce ==
    ASSUME SealerInv, OnceInv, NEW view \in 1 .. MaxView, fastViewChange(view)
    PROVE  OnceInv'
<1>1. /\ UNCHANGED <<blocks, pool, sealing, xsealing, local, prepares, again, ahead>>
      /\ engine' = [engine EXCEPT !.toView = view - 1]
      /\ pc.engine = "free" /\ Goto("engine", "timeout")
  BY DEF fastViewChange
<1>2. engine \in EngineType /\ pc \in ThreadType
  BY DEF SealerInv, TypeInv
<1>3. /\ engine'.highest = engine.highest /\ engine'.view = engine.view
      /\ engine'.leaderFailed = engine.leaderFailed /\ engine'.raw = engine.raw
      /\ engine'.prepare = engine.prepare /\ engine'.committed = engine.committed
  BY <1>1, <1>2 DEF EngineType
<1>4. pc'.engine = "timeout" /\ pc'.sealer = pc.sealer
  BY <1>1, <1>2, GotoEngine DEF EnginePC
<1>5. number' = number /\ getLeader' = getLeader
  BY <1>1, <1>3, AgreedSame DEF getLeader
<1>6. PastInv' /\ SentNow' = SentNow
  BY <1>1, <1>3, <1>5 DEF OnceInv, PastInv, SentNow, Sent
<1>7. SentInv'
  BY <1>1, <1>3, <1>4, <1>5, <1>6 DEF OnceInv, SentInv
<1> QED
  BY <1>1, <1>3, <1>4, <1>6, <1>7, ViewStep

LEMMA ChangedViewFields ==
    ASSUME NEW e \in EngineType
    PROVE  /\ changedView(e).highest = e.highest /\ changedView(e).view = e.toView
           /\ changedView(e).prepare = NoPrepare /\ changedView(e).committed = e.committed
BY DEF changedView, EngineType

LEMMA CheckTimeoutOnce ==
    ASSUME SealerInv, OnceInv, NEW quorum \in BOOLEAN, checkTimeout(quorum)
    PROVE  OnceInv'
<1> DEFINE e == [engine EXCEPT !.toView = @ + 1, !.leaderFailed = TRUE]
<1>1. /\ UNCHANGED <<blocks, pool, sealing, xsealing, local, prepares, again, ahead>>
      /\ engine' = e \/ engine' = changedView(e)
      /\ pc.engine \in {"free", "timeout"} /\ Goto("engine", "viewChange")
  BY DEF checkTimeout
<1>2. engine \in EngineType /\ pc \in ThreadType
  BY DEF SealerInv, TypeInv
<1>3. /\ engine.view \in Nat /\ engine.toView \in Nat /\ engine.toView + 1 \in Nat
      /\ engine.view < engine.toView + 1
  BY <1>2 DEF EngineType, SealerInv, BoundInv
<1>4. e \in EngineType
  BY <1>2, <1>3 DEF EngineType
<1>5. /\ e.highest = engine.highest /\ e.view = engine.view /\ e.toView = engine.toView + 1
      /\ e.leaderFailed = TRUE /\ e.prepare = engine.prepare /\ e.committed = engine.committed
  BY <1>2 DEF EngineType
<1> HIDE DEF e
<1>6. pc'.engine = "viewChange" /\ pc'.sealer = pc.sealer
  BY <1>1, <1>2, GotoEngine DEF EnginePC
<1>7. CASE engine' = e
  <2>1. PastInv' /\ SentInv'
    BY <1>1, <1>5, <1>7 DEF OnceInv, PastInv, SentInv, SentNow
  <2> QED
    BY <1>1, <1>5, <1>6, <1>7, <2>1, ViewStep
<1>8. CASE engine' = changedView(e)
  <2>1. /\ engine'.highest = engine.highest /\ engine'.view = engine.toView + 1
        /\ engine'.prepare = NoPrepare /\ engine'.committed = engine.committed
    BY <1>4, <1>5, <1>8, ChangedViewFields
  <2>2. PastInv' /\ ~ Sent'
    BY <1>1, <1>3, <2>1, NewView
  <2>3. SentInv'
    BY <2>2 DEF SentInv, SentNow
  <2> QED
    BY <1>1, <1>6, <2>1, <2>2, <2>3, ViewStep
<1> QED
  BY <1>1, <1>7, <1>8

LEMMA CheckAndChangeViewOnce ==
    ASSUME SealerInv, OnceInv, checkAndChangeView
    PROVE  OnceInv'
<1>1. /\ UNCHANGED <<blocks, pool, sealing, xsealing, pc, local, prepares, again, ahead>>
      /\ pc.engine = "free" /\ engine.toView > engine.view /\ engine' = changedView(engine)
  BY DEF checkAndChangeView
<1>2. engine \in EngineType /\ engine.toView \in Nat
  BY DEF SealerInv, TypeInv, EngineType
<1>3. /\ engine'.highest = engine.highest /\ engine'.view = engine.toView
      /\ engine'.prepare = NoPrepare /\ engine'.committed = engine.committed
  BY <1>1, <1>2, ChangedViewFields
<1>4. PastInv' /\ ~ Sent'
  BY <1>1, <1>2, <1>3, NewView
<1>5. SentInv'
  BY <1>4 DEF SentInv, SentNow
<1> QED
  BY <1>1, <1>3, <1>4, <1>5, ViewStep

\* The callback of a time-out keeps the block that was sealed and sent.
LEMMA ResetForViewChangeOnce ==
    ASSUME SealerInv, OnceInv, resetBlockForViewChange
    PROVE  OnceInv'
<1>1. /\ UNCHANGED <<blocks, pool, engine, xsealing, local, prepares, again>> /\ xsealing = "free"
      /\ pc.engine = "viewChange" /\ Goto("engine", "free")
      /\ \/ sealing.sealed /\ UNCHANGED <<sealing, ahead>>
         \/ ~ (sealing.sealed /\ shouldHandleBlock) /\ beginBlock({}, 1)
  BY DEF resetBlockForViewChange
<1>2. pc'.engine = "free" /\ pc'.sealer = pc.sealer
  BY <1>1, GotoEngine DEF EnginePC, SealerInv, TypeInv
<1>3. Agreed' = Agreed /\ number' = number /\ getLeader' = getLeader /\ number \in Nat
  BY <1>1, AgreedSame, NumberType DEF getLeader, SealerInv
<1>4. pc.sealer \notin {"handle", "prepare"}
  BY <1>1 DEF OnceInv, ThreadInv
<1>5. /\ ahead \subseteq ahead'
      /\ \/ sealing.sealed /\ sealing' = sealing
         \/ /\ ~ (sealing.sealed /\ shouldHandleBlock)
            /\ sealing'.number = number + 1 /\ sealing'.sealed = FALSE
  BY <1>1, BegunBlock
<1>6. ThreadInv'
  BY <1>1, <1>2, <1>3, <1>4, <1>5 DEF OnceInv, ThreadInv
<1>7. CacheInv' /\ HandleInv' /\ NotifyInv'
  BY <1>1, <1>2, <1>4 DEF OnceInv, CacheInv, HandleInv, NotifyInv
<1>8. CleanInv'
  BY <1>1, <1>3, <1>5 DEF OnceInv, CleanInv, PoolInv, CleanPrepare
<1>9. FillInv'
  <2>1. CASE sealing.sealed /\ sealing' = sealing
    BY <2>1 DEF FillInv
  <2>2. CASE beginBlock({}, 1)
    BY <1>1, <2>2, BegunFill
  <2> QED
    BY <1>1, <2>1, <2>2
<1>10. PastInv' /\ OnePrepare' /\ SentNow' = SentNow
  BY <1>1, HistorySame DEF OnceInv
<1>11. SentInv'
  BY <1>1, <1>2, <1>3, <1>5, <1>10 DEF OnceInv, SentInv, shouldHandleBlock
<1>12. AgreedOnce'
  BY <1>1, <1>5, AgreedOnceSame DEF OnceInv
<1> QED
  BY <1>6, <1>7, <1>8, <1>9, <1>10, <1>11, <1>12 DEF OnceInv

-----------------------------------------------------------------------------
(* The sync thread.                                                        *)

LEMMA CommitDownloadedOnce ==
    ASSUME SealerInv, OnceInv, NEW b \in SUBSET Tx, commitDownloaded(b)
    PROVE  OnceInv'
<1> DEFINE x == [txs |-> b, by |-> "sync"]
<1>1. /\ UNCHANGED <<pool, sealing, engine, xsealing, prepares, again, ahead>>
      /\ blocks' = Append(blocks, x) /\ local' = [local EXCEPT !.sync = b]
      /\ Goto("sync", "stored") /\ b \cap OnChain = {}
  BY DEF commitDownloaded
<1>2. pc \in ThreadType /\ local \in LocalType
  BY DEF SealerInv, TypeInv
<1>3. Agreed' = Agreed /\ number' = number + 1
  BY <1>1, AgreedSync DEF SealerInv
<1>4. local'.sealer = local.sealer /\ local'.engine = local.engine
  BY <1>1, <1>2 DEF LocalType
<1>5. pc'.engine = pc.engine /\ pc'.sealer = pc.sealer
  BY <1>1, <1>2, GotoSync DEF SyncPC
<1>6. /\ CacheInv' /\ HandleInv' /\ PastInv' /\ SentInv' /\ OnePrepare'
      /\ CleanPrepare(engine.prepare)' /\ CleanPrepare(engine.committed)'
      /\ engine.highest < number' /\ sealing.number # number' + 2
  BY <1>1, <1>3, ChainGrows
<1>7. CleanInv'
  BY <1>1, <1>3, <1>4, <1>5, <1>6 DEF OnceInv, CleanInv, PoolInv
<1>8. number \in Nat /\ sealing.number \in Nat
  BY NumberType DEF SealerInv, TypeInv, SealingType
<1>9. ThreadInv'
  <2>1. sealing.number <= number + 1 + 2
    BY <1>8 DEF OnceInv, ThreadInv
  <2> QED
    BY <1>1, <1>3, <1>4, <1>5, <1>6, <2>1 DEF OnceInv, ThreadInv
<1>10. NotifyInv'
  BY <1>1, <1>4, <1>5, NotifySame DEF OnceInv
<1>11. FillInv'
  <2>1. number + 1 + 1 = number + 2
    BY <1>8
  <2>2. ASSUME ~ sealing.sealed, sealing.number \notin ahead, sealing.number = number + 2
        PROVE  OwnBlock'
    <3>1. NextBlock
      BY <2>2 DEF OnceInv, FillInv
    <3>2. pc.engine \notin {"stored", "drop"}
      BY <1>8, <3>1 DEF OnceInv, ThreadInv, NextBlock
    <3>3. pool \cap Agreed = {}
      BY <3>2 DEF OnceInv, CleanInv, PoolInv
    <3> QED
      BY <1>1, <1>3, <3>1, <3>3 DEF NextBlock, OwnBlock
  <2> QED
    BY <1>1, <1>3, <1>6, <2>1, <2>2 DEF FillInv
<1>12. AgreedOnce'
  <2>1. b \cap Agreed = {}
    BY <1>1, AgreedOnChain DEF SealerInv
  <2>2. x \in BlockType /\ x.txs = b
    BY DEF BlockType
  <2> HIDE DEF x
  <2> QED
    BY <1>1, <2>1, <2>2, AgreedOnceAppends DEF SealerInv, OnceInv
<1> QED
  BY <1>6, <1>7, <1>9, <1>10, <1>11, <1>12 DEF OnceInv

LEMMA DropDownloadedOnce ==
    ASSUME SealerInv, OnceInv, dropDownloaded
    PROVE  OnceInv'
<1>1. /\ UNCHANGED <<blocks, sealing, engine, xsealing, prepares, again, ahead>>
      /\ pool' = pool \ local.sync /\ local' = [local EXCEPT !.sync = {}]
      /\ Goto("sync", "free")
  BY DEF dropDownloaded
<1>2. pc \in ThreadType /\ local \in LocalType
  BY DEF SealerInv, TypeInv
<1>3. local'.sealer = local.sealer /\ local'.engine = local.engine
  BY <1>1, <1>2 DEF LocalType
<1>4. pc'.engine = pc.engine /\ pc'.sealer = pc.sealer
  BY <1>1, <1>2, GotoSync DEF SyncPC
<1>5. /\ Agreed' = Agreed /\ number' = number
      /\ getLeader' = getLeader /\ getNextLeader' = getNextLeader
  BY <1>1, AgreedSame DEF getLeader, getNextLeader
<1>6. ThreadInv' /\ CacheInv' /\ HandleInv'
  BY <1>1, <1>3, <1>4, <1>5 DEF OnceInv, ThreadInv, CacheInv, HandleInv
<1>7. NotifyInv'
  BY <1>1, <1>3, <1>4, NotifySame DEF OnceInv
<1>8. CleanInv'
  BY <1>1, <1>3, <1>4, <1>5 DEF OnceInv, CleanInv, PoolInv, CleanPrepare
<1>9. FillInv'
  <2>1. OwnBlock => OwnBlock'
    BY <1>1, <1>5 DEF OwnBlock
  <2>2. NextBlock => NextBlock'
    BY <1>1, <1>4, <1>5 DEF NextBlock, Filtered
  <2> QED
    BY <1>1, <1>5, <2>1, <2>2 DEF OnceInv, FillInv
<1>10. PastInv' /\ OnePrepare' /\ SentNow' = SentNow
  BY <1>1, HistorySame DEF OnceInv
<1>11. SentInv'
  BY <1>1, <1>4, <1>5, <1>10 DEF OnceInv, SentInv
<1>12. AgreedOnce'
  BY <1>1, AgreedOnceSame DEF OnceInv
<1> QED
  BY <1>6, <1>7, <1>8, <1>9, <1>10, <1>11, <1>12 DEF OnceInv

LEMMA NextOnceInv ==
    ASSUME SealerInv, OnceInv, [Next]_vars
    PROVE  OnceInv'
<1>1. CASE UNCHANGED vars
  BY <1>1, Still DEF vars
<1>2. CASE \E t \in Tx : Import(t)
  BY <1>2, ImportOnce
<1>3. CASE reportNewBlock
  BY <1>3, ReportNewBlockOnce
<1>4. CASE reportBlock
  BY <1>4, ReportBlockOnce
<1>5. CASE resetSealing
  BY <1>5, ResetSealingOnce
<1>6. CASE checkShouldSeal
  BY <1>6, CheckShouldSealOnce
<1>7. CASE \E interval, late \in BOOLEAN : doWork(interval, late)
  BY <1>7, DoWorkOnce
<1>8. CASE handleBlock
  BY <1>8, HandleBlockOnce
<1>9. CASE \E refused \in {FALSE, downloading} : rehandleCommitedPrepareCache(refused)
  BY <1>9, RehandleOnce
<1>10. CASE \E refused \in {FALSE, downloading} : generatePrepare(refused)
  BY <1>10, GeneratePrepareOnce
<1>11. CASE \E b \in SUBSET Tx : handlePrepareMsg(b)
  BY <1>11, HandlePrepareMsgOnce
<1>12. CASE resetBlockForNextLeader
  BY <1>12, ResetForNextLeaderOnce
<1>13. CASE checkAndCommit
  BY <1>13, CheckAndCommitOnce
<1>14. CASE checkAndSave
  BY <1>14, CheckAndSaveOnce
<1>15. CASE \E th \in {"engine", "sync"} : onBlockChanged(th)
  BY <1>15, OnBlockChangedOnce
<1>16. CASE dropHandledTransactions
  BY <1>16, DropHandledOnce
<1>17. CASE \E view \in 1 .. MaxView : fastViewChange(view)
  BY <1>17, FastViewChangeOnce
<1>18. CASE \E quorum \in BOOLEAN : checkTimeout(quorum)
  BY <1>18, CheckTimeoutOnce
<1>19. CASE checkAndChangeView
  BY <1>19, CheckAndChangeViewOnce
<1>20. CASE resetBlockForViewChange
  BY <1>20, ResetForViewChangeOnce
<1>21. CASE Download
  BY <1>21, Still DEF Download
<1>22. CASE \E b \in SUBSET Tx : commitDownloaded(b)
  BY <1>22, CommitDownloadedOnce
<1>23. CASE dropDownloaded
  BY <1>23, DropDownloadedOnce
<1> QED
  BY <1>1, <1>2, <1>3, <1>4, <1>5, <1>6, <1>7, <1>8, <1>9, <1>10, <1>11, <1>12, <1>13,
     <1>14, <1>15, <1>16, <1>17, <1>18, <1>19, <1>20, <1>21, <1>22, <1>23 DEF Next

LEMMA OnceInvHolds == Spec => []OnceInv
<1>1. SealerInv /\ OnceInv /\ [Next]_vars => OnceInv'
  BY NextOnceInv
<1> QED
  BY SealerInvHolds, InitOnceInv, <1>1, PTL DEF Spec

\* A transaction of a block the engine agreed on is in no later block, unless that block
\* was begun when the chain was ahead of the engine: the filter of
\* resetBlockForNextLeader, the reset after a view change and the order of commit,
\* report and seal keep them apart.
THEOREM AgreedIsSealedOnce == Spec => []AgreedOnce
<1>1. OnceInv => AgreedOnce
  BY DEF OnceInv
<1> QED
  BY OnceInvHolds, <1>1, PTL

\* The node handles at most one prepare of its own per height and view, unless the block
\* below was reported to it twice: neither the callback of a time-out nor the lock
\* proposed again makes a second one.
THEOREM PreparesOnce == Spec => []OnePrepare
<1>1. OnceInv => OnePrepare
  BY DEF OnceInv
<1> QED
  BY OnceInvHolds, <1>1, PTL
=============================================================================
