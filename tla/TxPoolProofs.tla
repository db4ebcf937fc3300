---------------------------- MODULE TxPoolProofs ----------------------------
(***************************************************************************)
(* Theorems about TxPool, for every set of transactions, every length of   *)
(* the window and every bound: a transaction with a new nonce is stored    *)
(* once, pooled nonces differ, and marks of sent transactions survive.     *)
(*                                                                         *)
(* PoolInv is the inductive invariant.  What the remembered nonces promise *)
(* is said of the nonces no block has taken out of the window yet; what    *)
(* the pool promises is said of the threads that are still to clean it.    *)
(***************************************************************************)
EXTENDS TxPool, WellFoundedInduction, TLAPS

-----------------------------------------------------------------------------
(* Induction over a set of numbers, from the well-foundedness of <.        *)

LEMMA LeastNumber ==
    ASSUME NEW S \in SUBSET Nat, S # {}
    PROVE  \E m \in S : \A k \in S : m <= k
<1>1. PICK x \in S : \A y \in S : <<y, x>> \notin OpToRel(<, Nat)
  BY NatLessThanWellFounded, WFMin, Zenon
<1>2. ASSUME NEW y \in S
      PROVE  x <= y
  <2>1. <<y, x>> \notin OpToRel(<, Nat)
    BY <1>1
  <2>2. ~ (y < x)
    BY <2>1, Zenon DEF OpToRel
  <2> QED
    BY <2>2
<1> QED
  BY <1>2

LEMMA Induction ==
    ASSUME NEW S, 0 \in S, \A n \in Nat : n \in S => n + 1 \in S
    PROVE  Nat \subseteq S
<1> SUFFICES ASSUME Nat \ S # {}
             PROVE  FALSE
  OBVIOUS
<1>1. PICK m \in Nat \ S : \A k \in Nat \ S : m <= k
  BY LeastNumber
<1>2. m - 1 \in Nat /\ m - 1 \in S
  BY <1>1
<1> QED
  BY <1>1, <1>2

-----------------------------------------------------------------------------
(* What Only returns, by induction over the positions of the queue.        *)

\* f is the walk of q up to position n that keeps what is in S.
Walk(f, q, S, n) ==
    f = [i \in 0 .. n |-> IF i = 0 THEN <<>>
                          ELSE IF q[i] \in S THEN Append(f[i - 1], q[i]) ELSE f[i - 1]]

LEMMA WalkExists ==
    ASSUME NEW q, NEW S
    PROVE  \A n \in Nat : \E f : Walk(f, q, S, n)
<1> DEFINE D == {n \in Nat : \E f : Walk(f, q, S, n)}
<1>1. 0 \in D
  <2> DEFINE f == [i \in 0 .. 0 |-> <<>>]
  <2>1. Walk(f, q, S, 0)
    BY DEF Walk
  <2> QED
    BY <2>1
<1>2. ASSUME NEW n \in Nat, n \in D PROVE n + 1 \in D
  <2>1. PICK f : Walk(f, q, S, n)
    BY <1>2
  <2> DEFINE g == [i \in 0 .. n + 1 |->
                     IF i = n + 1 THEN IF q[i] \in S THEN Append(f[i - 1], q[i]) ELSE f[i - 1]
                     ELSE f[i]]
  <2>2. \A i \in 0 .. n : g[i] = f[i]
    OBVIOUS
  <2>3. \A i \in 0 .. n + 1 : g[i] = IF i = 0 THEN <<>>
                          ELSE IF q[i] \in S THEN Append(g[i - 1], q[i]) ELSE g[i - 1]
    <3> TAKE i \in 0 .. n + 1
    <3>1. CASE i = n + 1
      BY <3>1, <2>2
    <3>2. CASE i # n + 1
      <4>1. i \in 0 .. n
        BY <3>2
      <4>2. f[i] = IF i = 0 THEN <<>>
                          ELSE IF q[i] \in S THEN Append(f[i - 1], q[i]) ELSE f[i - 1]
        BY <4>1, <2>1, Zenon DEF Walk
      <4>3. i # 0 => i - 1 \in 0 .. n
        BY <4>1
      <4> QED
        BY <4>1, <4>2, <4>3, <2>2
    <3> QED
      BY <3>1, <3>2
  <2>4. Walk(g, q, S, n + 1)
    <3> HIDE DEF g
    <3>1. g = [i \in 0 .. n + 1 |-> g[i]]
      BY DEF g
    <3> QED
      BY <3>1, <2>3 DEF Walk
  <2> QED
    BY <2>4
<1> HIDE DEF D
<1>3. Nat \subseteq D
  BY <1>1, <1>2, Induction
<1> QED
  BY <1>3 DEF D

LEMMA OnlyWalk ==
    ASSUME NEW q, NEW S, Len(q) \in Nat
    PROVE  \E f : Walk(f, q, S, Len(q)) /\ Only(q, S) = f[Len(q)]
<1> DEFINE f == CHOOSE f : Walk(f, q, S, Len(q))
<1>1. Walk(f, q, S, Len(q))
  BY WalkExists, Zenon
<1>2. Only(q, S) = f[Len(q)]
  BY Zenon DEF Only, Walk
<1> QED
  BY <1>1, <1>2, Zenon

LEMMA AppendFacts ==
    ASSUME NEW T, NEW s \in Seq(T), NEW e \in T
    PROVE  /\ Append(s, e) \in Seq(T)
           /\ Range(Append(s, e)) = Range(s) \cup {e}
           /\ IsInjective(s) /\ e \notin Range(s) => IsInjective(Append(s, e))
<1>1. /\ Append(s, e) \in Seq(T) /\ Len(Append(s, e)) = Len(s) + 1
      /\ \A i \in 1 .. Len(s) : Append(s, e)[i] = s[i]
      /\ Append(s, e)[Len(s) + 1] = e
      /\ DOMAIN s = 1 .. Len(s) /\ DOMAIN Append(s, e) = 1 .. Len(s) + 1
      /\ Len(s) \in Nat
  OBVIOUS
<1>2. Range(Append(s, e)) = Range(s) \cup {e}
  BY <1>1 DEF Range
<1>3. ASSUME IsInjective(s), e \notin Range(s) PROVE IsInjective(Append(s, e))
  BY <1>1, <1>3 DEF Range, IsInjective
<1> QED
  BY <1>1, <1>2, <1>3

LEMMA OnlyFacts ==
    ASSUME NEW T, NEW q \in Seq(T), NEW S
    PROVE  /\ Only(q, S) \in Seq(T)
           /\ Range(Only(q, S)) = Range(q) \cap S
           /\ IsInjective(q) => IsInjective(Only(q, S))
<1> Len(q) \in Nat /\ DOMAIN q = 1 .. Len(q)
  OBVIOUS
<1>1. PICK f : Walk(f, q, S, Len(q)) /\ Only(q, S) = f[Len(q)]
  BY OnlyWalk
<1> DEFINE Seen(i) == {q[k] : k \in 1 .. i}
           Good(i) == /\ f[i] \in Seq(T)
                      /\ Range(f[i]) = Seen(i) \cap S
                      /\ IsInjective(q) => IsInjective(f[i])
           D == {i \in Nat : i <= Len(q) => Good(i)}
<1>2. /\ f[0] = <<>>
      /\ \A i \in 0 .. Len(q) - 1 :
            f[i + 1] = IF q[i + 1] \in S THEN Append(f[i], q[i + 1]) ELSE f[i]
  <2>1. \A j \in 0 .. Len(q) : f[j] = IF j = 0 THEN <<>>
                          ELSE IF q[j] \in S THEN Append(f[j - 1], q[j]) ELSE f[j - 1]
    BY <1>1, Zenon DEF Walk
  <2>2. ASSUME NEW i \in 0 .. Len(q) - 1, NEW j \in 0 .. Len(q), j = i + 1
        PROVE  f[j] = IF q[j] \in S THEN Append(f[i], q[j]) ELSE f[i]
    <3>1. j # 0 /\ j - 1 = i
      BY <2>2
    <3>2. f[j] = IF j = 0 THEN <<>>
                 ELSE IF q[j] \in S THEN Append(f[j - 1], q[j]) ELSE f[j - 1]
      BY <2>1
    <3> QED
      BY <3>1, <3>2
  <2> QED
    BY <2>1, <2>2
<1>3. 0 \in D
  <2>1. f[0] \in Seq(T) /\ Range(f[0]) = {} /\ IsInjective(f[0])
    BY <1>2 DEF Range, IsInjective
  <2>2. Seen(0) = {}
    OBVIOUS
  <2> QED
    BY <2>1, <2>2
<1>4. ASSUME NEW i \in Nat, i \in D PROVE i + 1 \in D
  <2> SUFFICES ASSUME i + 1 <= Len(q) PROVE Good(i + 1)
    OBVIOUS
  <2> i + 1 \in 1 .. Len(q) /\ i + 1 - 1 = i
    OBVIOUS
  <2>1. Good(i)
    BY <1>4
  <2>2. Seen(i + 1) = Seen(i) \cup {q[i + 1]}
    OBVIOUS
  <2>3. q[i + 1] \in T
    OBVIOUS
  <2>4. IsInjective(q) => q[i + 1] \notin Seen(i)
    BY DEF IsInjective
  <2>7. f[i + 1] = IF q[i + 1] \in S THEN Append(f[i], q[i + 1]) ELSE f[i]
    BY <1>2
  <2>5. CASE q[i + 1] \in S
    <3>1. f[i + 1] = Append(f[i], q[i + 1])
      BY <2>7, <2>5
    <3>2. f[i + 1] \in Seq(T) /\ Range(f[i + 1]) = Range(f[i]) \cup {q[i + 1]}
      BY <3>1, <2>1, <2>3, AppendFacts
    <3>3. IsInjective(q) => IsInjective(f[i + 1])
      <4> HIDE DEF Seen
      <4> QED
        BY <3>1, <2>1, <2>3, <2>4, AppendFacts
    <3> HIDE DEF Seen
    <3> QED
      BY <3>2, <3>3, <2>1, <2>2, <2>5
  <2>6. CASE q[i + 1] \notin S
    <3>1. f[i + 1] = f[i]
      BY <2>7, <2>6
    <3> HIDE DEF Seen
    <3> QED
      BY <3>1, <2>1, <2>2, <2>6
  <2> QED
    BY <2>5, <2>6
<1>5. Good(Len(q))
  <2>1. Nat \subseteq D
    <3> HIDE DEF D
    <3> QED
      BY <1>3, <1>4, Induction
  <2> HIDE DEF Good
  <2>2. Len(q) \in D
    BY <2>1
  <2> QED
    BY <2>2
<1>6. Seen(Len(q)) = Range(q)
  BY DEF Range
<1> QED
  BY <1>1, <1>5, <1>6

-----------------------------------------------------------------------------
(* The inductive invariant.                                                *)

\* A thread that has stored a block and still cleans up after it.
Storing == {"updateCache", "dropTransactions", "removeBlockKnowTrans", "delCache"}

WindowInv ==
    /\ check.number <= number /\ check.end = check.number
    /\ check.start = IF check.number > MaxBlockLimit THEN check.number - MaxBlockLimit ELSE 0

\* The nonces of the blocks that have left the window.
Left == NoncesBetween(1, check.start - 1)

\* The nonces of the checked blocks are remembered, but for those updateCache erased
\* with a block that left.
CacheInv == NoncesBetween(1, check.number) \subseteq check.cache \cup Left

\* A transaction is stored, or proposed, at most MaxBlockLimit below its block limit.
LimitInv ==
    /\ \A i \in 1 .. number : \A t \in blocks[i] : blockLimit[t] <= i - 1 + MaxBlockLimit
    /\ \A t \in proposal.txs : blockLimit[t] <= proposal.height - 1 + MaxBlockLimit

ThreadInv ==
    /\ thread["sync"].pc \in Storing => downloading
    /\ thread["sync"].pc = "import" => thread["sync"].shards # <<>>

\* If th cleans up, it does so after block i, which the nonce check knows afterwards.
At(th, i) ==
    thread[th].pc \in Storing =>
        /\ i \in 1 .. number /\ thread[th].block = blocks[i]
        /\ thread[th].pc # "updateCache" => i <= check.number

\* The two threads clean up after two different blocks.
BusyInv ==
    \E i, j \in Nat :
        /\ At("engine", i) /\ At("sync", j)
        /\ thread["engine"].pc \in Storing /\ thread["sync"].pc \in Storing => i # j

\* A block the nonce check does not know is in the hands of a thread about to tell it.
PendingInv ==
    \A i \in check.number + 1 .. number :
        \E th \in {"engine", "sync"} :
            thread[th].pc = "updateCache" /\ thread[th].block = blocks[i]

\* A stored transaction waits in the pool only while a thread is to take it out.
QueueInv ==
    \A t \in Range(pool.queue) : t \in Settled =>
        \E th \in {"engine", "sync"} :
            thread[th].pc \in {"updateCache", "dropTransactions"} /\ t \in thread[th].block

\* A proposal for the next height holds nothing that is settled.
ProposalInv ==
    /\ proposal.height <= number + 1
    /\ proposal.height = number + 1 => proposal.txs \cap Settled = {}

\* The nonce of a pooled transaction is remembered, unless it has left the window.
NonceInv ==
    /\ Range(pool.queue) \cap pool.dropped = {}
    /\ \A t \in Range(pool.queue) : nonce[t] \in pool.nonces \cup check.cache \cup Left

\* A transaction that was sent is marked, thrown out for good, or on the chain.
SentInv ==
    \A t \in Tx, p \in Sealers : <<t, p>> \in sent =>
        \/ {p, Self} \subseteq pool.known[t]
        \/ t \in pool.dropped
        \/ \E i \in 1 .. check.number :
              t \in blocks[i] /\ (Fresh(i, t) => t \notin Range(pool.queue))

PoolInv ==
    /\ TypeOK /\ WindowInv /\ CacheInv /\ LimitInv /\ ThreadInv /\ BusyInv /\ PendingInv
    /\ QueueInv /\ ProposalInv /\ NonceInv /\ SentInv
    /\ NoTransactionTwice /\ PooledNoncesDiffer

-----------------------------------------------------------------------------
(* The operations of the pool.                                             *)

PoolType ==
    [queue : Seq(Tx), dropped : SUBSET Tx, nonces : SUBSET Nonce,
     known : [Tx -> SUBSET (Peers \cup {Self})]]

CheckType == [number : Nat, start : Nat, end : Nat, cache : SUBSET Nonce]

LEMMA RangeType ==
    ASSUME NEW T, NEW s \in Seq(T)
    PROVE  Range(s) \in SUBSET T
BY DEF Range

LEMMA NoncesType ==
    ASSUME NEW txs \in SUBSET Tx
    PROVE  noncesOf(txs) \in SUBSET Nonce
BY NonceType DEF noncesOf

LEMMA ImportFacts ==
    ASSUME NEW p \in PoolType, IsInjective(p.queue), NEW t \in Tx
    PROVE  LET r == import(p, t)
           IN  /\ r \in PoolType /\ IsInjective(r.queue)
               /\ r.dropped = p.dropped /\ r.known = p.known
               /\ \/ r = p
                  \/ /\ ~ isKnown(p, t)
                     /\ isBlockLimitOrNonceOk(t)
                     /\ nonce[t] \notin p.nonces
                     /\ r.nonces = p.nonces \cup {nonce[t]}
                     /\ Range(r.queue) \in {Range(p.queue), Range(p.queue) \cup {t}}
<1> DEFINE r == import(p, t)
           ok == ~ (isFull(p) \/ isKnown(p, t) \/ ~isBlockLimitOrNonceOk(t) \/ ~isNonceOk(p.nonces, t))
           q == IF t \in OtherGroup THEN p.queue ELSE Append(p.queue, t)
<1>1. CASE ~ ok
  BY <1>1 DEF import
<1>2. CASE ok
  <2>1. r = [p EXCEPT !.nonces = p.nonces \cup {nonce[t]}, !.queue = q]
    BY <1>2 DEF import
  <2>2. p.queue \in Seq(Tx) /\ p.nonces \in SUBSET Nonce
    BY DEF PoolType
  <2>3. t \notin Range(p.queue) /\ nonce[t] \notin p.nonces
    BY <1>2 DEF isKnown, isNonceOk
  <2>4. q \in Seq(Tx) /\ IsInjective(q) /\ Range(q) \in {Range(p.queue), Range(p.queue) \cup {t}}
    BY <2>2, <2>3, AppendFacts
  <2>5. nonce[t] \in Nonce
    BY NonceType
  <2> HIDE DEF q
  <2>6. r \in PoolType
    BY <2>1, <2>2, <2>4, <2>5 DEF PoolType
  <2>7. r.queue = q /\ r.nonces = p.nonces \cup {nonce[t]} /\ r.dropped = p.dropped /\ r.known = p.known
    BY <2>1 DEF PoolType
  <2> QED
    BY <1>2, <2>3, <2>4, <2>6, <2>7
<1> QED
  BY <1>1, <1>2

LEMMA RemoveTransFacts ==
    ASSUME NEW p \in PoolType, IsInjective(p.queue), NEW txs
    PROVE  LET r == removeTrans(p, txs)
           IN  /\ r \in PoolType /\ IsInjective(r.queue)
               /\ r.dropped = p.dropped /\ r.known = p.known /\ r.nonces = p.nonces
               /\ Range(r.queue) = Range(p.queue) \ txs
<1>1. p.queue \in Seq(Tx)
  BY DEF PoolType
<1>2. /\ Only(p.queue, Tx \ txs) \in Seq(Tx)
      /\ Range(Only(p.queue, Tx \ txs)) = Range(p.queue) \cap (Tx \ txs)
      /\ IsInjective(Only(p.queue, Tx \ txs))
  BY <1>1, OnlyFacts
<1>3. Range(p.queue) \subseteq Tx
  BY <1>1, RangeType
<1> QED
  BY <1>2, <1>3 DEF removeTrans, PoolType

LEMMA RemoveKnownFacts ==
    ASSUME NEW p \in PoolType, NEW txs
    PROVE  LET r == removeKnown(p, txs)
           IN  /\ r \in PoolType
               /\ r.queue = p.queue /\ r.dropped = p.dropped /\ r.nonces = p.nonces
               /\ \A t \in Tx : r.known[t] = IF t \in txs THEN {} ELSE p.known[t]
BY DEF removeKnown, PoolType

LEMMA SubSeqFacts ==
    ASSUME NEW T, NEW s \in Seq(T), NEW m \in Nat
    PROVE  LET r == SubSeq(s, 1, IF Len(s) < m THEN Len(s) ELSE m)
           IN  /\ r \in Seq(T) /\ Range(r) \subseteq Range(s)
               /\ Len(r) = IF Len(s) < m THEN Len(s) ELSE m
<1> DEFINE k == IF Len(s) < m THEN Len(s) ELSE m
           r == SubSeq(s, 1, k)
<1>1. Len(s) \in Nat /\ k \in Nat /\ k <= Len(s) /\ DOMAIN s = 1 .. Len(s)
  OBVIOUS
<1>2. r \in Seq(T) /\ Len(r) = k /\ DOMAIN r = 1 .. k /\ \A i \in 1 .. k : r[i] = s[i]
  <2> HIDE DEF k
  <2> QED
    BY <1>1
<1>3. Range(r) \subseteq Range(s)
  <2> HIDE DEF r, k
  <2> QED
    BY <1>1, <1>2 DEF Range
<1> QED
  BY <1>2, <1>3

\* topTransactions takes transactions within their block limit from the queue.
LEMMA TakenFacts ==
    ASSUME NEW p \in PoolType, NEW avoid
    PROVE  /\ Taken(p, avoid) \in Seq(Tx)
           /\ Range(Taken(p, avoid)) \subseteq Range(p.queue)
           /\ \A t \in Range(Taken(p, avoid)) : isBlockLimitOk(check, t)
           /\ Visited(p, avoid) \subseteq Range(p.queue)
<1> DEFINE S == {t \in Tx \ avoid : isBlockLimitOk(check, t)}
           ok == Only(p.queue, S)
           got == Taken(p, avoid)
<1>1. p.queue \in Seq(Tx)
  BY DEF PoolType
<1>2. ok \in Seq(Tx) /\ Range(ok) = Range(p.queue) \cap S
  <2> HIDE DEF S
  <2> QED
    BY <1>1, OnlyFacts
<1>3. got = SubSeq(ok, 1, IF Len(ok) < MaxSeal THEN Len(ok) ELSE MaxSeal)
  BY DEF Taken
<1>4. /\ got \in Seq(Tx) /\ Range(got) \subseteq Range(ok)
      /\ Len(got) = IF Len(ok) < MaxSeal THEN Len(ok) ELSE MaxSeal
  <2> HIDE DEF ok, got
  <2> QED
    BY <1>2, <1>3, BoundType, SubSeqFacts
<1>5. Visited(p, avoid) \subseteq Range(p.queue)
  <2> DEFINE last == IF Len(got) < MaxSeal THEN Len(p.queue)
                     ELSE CHOOSE i \in DOMAIN p.queue : p.queue[i] = got[Len(got)]
  <2>1. Visited(p, avoid) = {p.queue[i] : i \in 1 .. last}
    BY DEF Visited
  <2>2. Len(p.queue) \in Nat /\ DOMAIN p.queue = 1 .. Len(p.queue)
    BY <1>1
  <2>3. last \in 0 .. Len(p.queue)
    <3>1. CASE Len(got) < MaxSeal
      BY <3>1, <2>2
    <3>2. CASE ~ (Len(got) < MaxSeal)
      <4> HIDE DEF ok, got
      <4>1. Len(got) \in DOMAIN got
        BY <1>4, <3>2, BoundType
      <4>2. got[Len(got)] \in Range(p.queue)
        BY <4>1, <1>2, <1>4 DEF Range
      <4>3. \E i \in DOMAIN p.queue : p.queue[i] = got[Len(got)]
        BY <4>2 DEF Range
      <4>4. last = CHOOSE i \in DOMAIN p.queue : p.queue[i] = got[Len(got)]
        BY <3>2
      <4>5. last \in DOMAIN p.queue
        BY <4>3, <4>4, Zenon
      <4> QED
        BY <4>5, <2>2
    <3> QED
      BY <3>1, <3>2
  <2> HIDE DEF last
  <2> QED
    BY <2>1, <2>2, <2>3 DEF Range
<1> HIDE DEF ok, got
<1> QED
  BY <1>2, <1>4, <1>5 DEF got

\* What topTransactions throws out leaves the queue, the marks and the nonces together.
LEMMA TopFacts ==
    ASSUME NEW p \in PoolType, IsInjective(p.queue), NEW avoid
    PROVE  LET r == topTransactions(p, avoid)
           IN  /\ r \in PoolType /\ IsInjective(r.queue)
               /\ \E out \in SUBSET Range(p.queue) :
                     /\ Range(r.queue) = Range(p.queue) \ out
                     /\ r.dropped = p.dropped \cup out
                     /\ r.nonces = p.nonces \ noncesOf(out)
                     /\ \A t \in Tx : r.known[t] = IF t \in out THEN {} ELSE p.known[t]
<1> DEFINE out == {t \in Visited(p, avoid) : ~isBlockLimitOk(check, t)}
           p1 == removeTrans(p, out)
           p2 == removeKnown(p1, out)
           r == topTransactions(p, avoid)
<1>1. out \in SUBSET Range(p.queue)
  BY TakenFacts
<1>2. Range(p.queue) \subseteq Tx
  BY RangeType DEF PoolType
<1>3. r = [p2 EXCEPT !.dropped = p2.dropped \cup out, !.nonces = p2.nonces \ noncesOf(out)]
  BY DEF topTransactions
<1> HIDE DEF out, r
<1>4. /\ p1 \in PoolType /\ IsInjective(p1.queue)
      /\ p1.dropped = p.dropped /\ p1.known = p.known /\ p1.nonces = p.nonces
      /\ Range(p1.queue) = Range(p.queue) \ out
  BY RemoveTransFacts
<1> HIDE DEF p1
<1>5. /\ p2 \in PoolType
      /\ p2.queue = p1.queue /\ p2.dropped = p1.dropped /\ p2.nonces = p1.nonces
      /\ \A t \in Tx : p2.known[t] = IF t \in out THEN {} ELSE p1.known[t]
  BY <1>4, RemoveKnownFacts
<1> HIDE DEF p2
<1>6. /\ r \in PoolType
      /\ r.queue = p2.queue /\ r.known = p2.known
      /\ r.dropped = p2.dropped \cup out /\ r.nonces = p2.nonces \ noncesOf(out)
  BY <1>1, <1>2, <1>3, <1>5 DEF PoolType
<1> QED
  BY <1>1, <1>4, <1>5, <1>6 DEF r

\* The window after updateCache, and which nonces it remembers.
LEMMA UpdateCacheFacts ==
    ASSUME NEW c \in CheckType, blocks \in Seq(SUBSET Tx), NEW rebuild \in BOOLEAN,
           c.end <= number
    PROVE  LET r == updateCache(c, rebuild)
               first == IF rebuild THEN 1 ELSE c.end + 1
           IN  /\ r \in CheckType
               /\ r.number = number /\ r.end = number
               /\ r.start = IF number > MaxBlockLimit THEN number - MaxBlockLimit ELSE 0
               /\ r.cache = (IF rebuild THEN {} ELSE c.cache \ NoncesBetween(c.start, r.start - 1))
                               \cup NoncesBetween(IF first > r.start THEN first ELSE r.start, number)
<1>1. number \in Nat /\ MaxBlockLimit \in Nat /\ c.end \in Nat /\ c.cache \in SUBSET Nonce
  BY LimitType DEF number, CheckType
<1>2. \A a, b : NoncesBetween(a, b) \in SUBSET Nonce
  <2> TAKE a, b
  <2>1. \A n \in 1 .. number : noncesOf(blocks[n]) \in SUBSET Nonce
    BY NoncesType DEF number
  <2> QED
    BY <2>1 DEF NoncesBetween
<1> QED
  BY <1>1, <1>2 DEF updateCache, CheckType

-----------------------------------------------------------------------------
(* Types.                                                                  *)

ThreadType == [pc : Pcs, block : SUBSET Tx, shards : Seq(Packet), txs : Seq(Tx)]

LEMMA PoolIsTyped == TypeOK <=>
    /\ blocks \in Seq(SUBSET Tx) /\ pool \in PoolType /\ check \in CheckType
    /\ check.start <= check.end /\ check.end <= number
    /\ proposal \in [height : Nat, txs : SUBSET Tx]
    /\ thread \in [{"engine", "sync"} -> ThreadType]
    /\ buffer \in Seq(Packet) /\ downloading \in BOOLEAN
    /\ sent \subseteq Tx \X Sealers /\ faults \in [packet : Nat, restart : Nat]
    /\ IsInjective(pool.queue)
BY DEF TypeOK, PoolType, CheckType, ThreadType

LEMMA IdleType == Idle \in ThreadType
BY DEF Idle, ThreadType, Pcs

LEMMA EmptyPool ==
    LET p == [queue |-> <<>>, dropped |-> {}, nonces |-> {}, known |-> [t \in Tx |-> {}]]
    IN  p \in PoolType /\ IsInjective(p.queue) /\ Range(p.queue) = {}
BY DEF PoolType, IsInjective, Range

LEMMA TypeInit == Init => TypeOK /\ ThreadInv
<1> SUFFICES ASSUME Init
             PROVE  TypeOK /\ ThreadInv
  OBVIOUS
<1>1. blocks \in Seq(SUBSET Tx) /\ number = 0
  BY DEF Init, number
<1>2. pool \in PoolType /\ IsInjective(pool.queue)
  BY EmptyPool DEF Init
<1>3. check \in CheckType /\ check.start = 0 /\ check.end = 0
  BY DEF Init, CheckType
<1>4. thread \in [{"engine", "sync"} -> ThreadType] /\ thread["sync"].pc = "free"
  BY IdleType DEF Init, Idle
<1>5. /\ proposal \in [height : Nat, txs : SUBSET Tx]
      /\ buffer \in Seq(Packet) /\ sent \subseteq Tx \X Sealers
      /\ faults \in [packet : Nat, restart : Nat]
  BY DEF Init, NoBlock
<1>6. downloading \in BOOLEAN
  BY Zenon DEF Init
<1> QED
  BY <1>1, <1>2, <1>3, <1>4, <1>5, <1>6, PoolIsTyped DEF ThreadInv, Storing

\* A thread that moves on keeps what it holds.
LEMMA GotoType ==
    ASSUME thread \in [{"engine", "sync"} -> ThreadType], NEW th \in {"engine", "sync"},
           NEW pc \in Pcs, Goto(th, pc)
    PROVE  /\ thread' \in [{"engine", "sync"} -> ThreadType]
           /\ thread'[th] = [thread[th] EXCEPT !.pc = pc]
           /\ thread'[th].pc = pc /\ thread'[th].block = thread[th].block
           /\ \A o \in {"engine", "sync"} : o # th => thread'[o] = thread[o]
BY DEF Goto, ThreadType

LEMMA HeadTail ==
    ASSUME NEW T, NEW s \in Seq(T), s # <<>>
    PROVE  Head(s) \in T /\ Tail(s) \in Seq(T)
OBVIOUS

LEMMA KnownGrows ==
    ASSUME NEW p \in PoolType, NEW more \in [Tx -> SUBSET (Peers \cup {Self})]
    PROVE  LET r == [p EXCEPT !.known = [t \in Tx |-> p.known[t] \cup more[t]]]
           IN  /\ r \in PoolType
               /\ r.queue = p.queue /\ r.dropped = p.dropped /\ r.nonces = p.nonces
               /\ \A t \in Tx : r.known[t] = p.known[t] \cup more[t]
BY DEF PoolType

\* The variables the invariant is about, when nothing but the pool changes in a step.
Undisturbed ==
    \A th \in {"engine", "sync"} :
        \/ thread'[th].pc = thread[th].pc /\ thread'[th].block = thread[th].block
        \/ thread[th].pc \notin Storing /\ thread'[th].pc \notin Storing

\* A step in which the pool imports t.
Imports(t) ==
    /\ pool' = import(pool, t) /\ Undisturbed
    /\ UNCHANGED <<blocks, check, proposal, sent>>

\* A step that leaves queue and chain alone and marks what it sends.
Marks ==
    /\ Undisturbed /\ UNCHANGED <<blocks, check, proposal>>
    /\ pool'.queue = pool.queue /\ pool'.dropped = pool.dropped /\ pool'.nonces = pool.nonces
    /\ \A t \in Tx : pool.known[t] \subseteq pool'.known[t]
    /\ \A t \in Tx, p \in Sealers :
          <<t, p>> \in sent' => <<t, p>> \in sent \/ {p, Self} \subseteq pool'.known[t]

LEMMA SubmitStep ==
    ASSUME TypeOK, ThreadInv, NEW t \in Tx, Submit(t)
    PROVE  TypeOK' /\ ThreadInv' /\ Imports(t)
<1>1. pool' \in PoolType /\ IsInjective(pool'.queue)
  BY ImportFacts, PoolIsTyped DEF Submit
<1> QED
  BY <1>1, PoolIsTyped DEF Submit, TypeOK, ThreadInv, Imports, Undisturbed, PoolType, number

LEMMA OnPeerTransactionsStep ==
    ASSUME TypeOK, ThreadInv, NEW p \in Peers, NEW txs \in Packets, onPeerTransactions(p, txs)
    PROVE  TypeOK' /\ ThreadInv' /\ Marks
<1>1. txs \in Seq(Tx)
  BY BoundType DEF Packets, SeqOf
<1>2. [from |-> p, txs |-> txs] \in Packet
  BY <1>1 DEF Packet
<1>3. buffer' \in Seq(Packet)
  <2>1. buffer' = buffer \/ buffer' = Append(buffer, [from |-> p, txs |-> txs])
    BY DEF onPeerTransactions
  <2>2. buffer \in Seq(Packet)
    BY DEF TypeOK
  <2> QED
    BY <1>2, <2>1, <2>2
<1>4. faults' \in [packet : Nat, restart : Nat]
  <2>1. faults \in [packet : Nat, restart : Nat]
    BY DEF TypeOK
  <2>2. faults' = [faults EXCEPT !.packet = faults.packet + 1]
    BY DEF onPeerTransactions
  <2> QED
    BY <2>1, <2>2
<1> QED
  BY <1>3, <1>4 DEF onPeerTransactions, TypeOK, ThreadInv, Marks, Undisturbed, number

LEMMA Pop2TxPoolStep ==
    ASSUME TypeOK, ThreadInv, Pop2TxPool
    PROVE  TypeOK' /\ ThreadInv' /\ Marks
<1>1. Head(buffer) \in Packet /\ buffer \in Seq(Packet) /\ buffer # <<>>
  BY HeadTail DEF Pop2TxPool, TypeOK
<1>2. /\ thread \in [{"engine", "sync"} -> ThreadType] /\ Head(buffer).txs \in Seq(Tx)
      /\ thread["sync"].pc = "free"
  BY <1>1, PoolIsTyped DEF Packet, Pop2TxPool
<1>3. /\ thread' \in [{"engine", "sync"} -> ThreadType] /\ thread'["engine"] = thread["engine"]
      /\ thread'["sync"].pc \in {"free", "import"}
      /\ thread'["sync"].pc = "import" => thread'["sync"].shards = buffer
  <2>1. CASE isFull(pool)
    BY <2>1, <1>2 DEF Pop2TxPool
  <2>2. CASE ~ isFull(pool)
    BY <2>2, <1>1, <1>2 DEF Pop2TxPool, ThreadType, Pcs
  <2> QED
    BY <2>1, <2>2
<1>4. UNCHANGED <<blocks, pool, check, proposal, downloading, sent, faults>> /\ buffer' = <<>>
  BY DEF Pop2TxPool
<1>5. TypeOK'
  BY <1>3, <1>4 DEF TypeOK, ThreadType, number
<1> QED
  BY <1>1, <1>2, <1>3, <1>4, <1>5 DEF ThreadInv, Marks, Undisturbed, Storing

LEMMA ImportNextStep ==
    ASSUME TypeOK, ThreadInv, ImportNext
    PROVE  TypeOK' /\ ThreadInv' /\ \E t \in Tx : Imports(t)
<1> DEFINE me == thread["sync"]
           t == Head(me.txs)
<1>1. /\ me \in ThreadType /\ me.pc = "import" /\ me.txs \in Seq(Tx) /\ me.txs # <<>>
      /\ thread \in [{"engine", "sync"} -> ThreadType]
  BY PoolIsTyped DEF ImportNext, ThreadType
<1>2. t \in Tx /\ Tail(me.txs) \in Seq(Tx)
  BY <1>1, HeadTail
<1>3. pool' = import(pool, t) /\ thread' = [thread EXCEPT !["sync"].txs = Tail(me.txs)]
  BY DEF ImportNext
<1>4. UNCHANGED <<blocks, check, proposal, buffer, downloading, sent, faults>>
  BY DEF ImportNext
<1> HIDE DEF t
<1>5. pool' \in PoolType /\ IsInjective(pool'.queue)
  BY <1>2, <1>3, ImportFacts, PoolIsTyped
<1>6. /\ thread' \in [{"engine", "sync"} -> ThreadType] /\ thread'["engine"] = thread["engine"]
      /\ thread'["sync"].pc = "import" /\ thread'["sync"].shards = me.shards
  BY <1>1, <1>2, <1>3 DEF ThreadType
<1>7. TypeOK'
  BY <1>4, <1>5, <1>6 DEF TypeOK, ThreadType, PoolType, number
<1>8. ThreadInv'
  BY <1>1, <1>6 DEF ThreadInv, Storing
<1>9. Imports(t)
  BY <1>1, <1>3, <1>4, <1>6 DEF Imports, Undisturbed, Storing
<1> QED
  BY <1>2, <1>7, <1>8, <1>9

LEMMA SetKnownStep ==
    ASSUME TypeOK, ThreadInv, setTransactionsAreKnownBy
    PROVE  TypeOK' /\ ThreadInv' /\ Marks
<1> DEFINE me == thread["sync"]
           shard == Head(me.shards)
           rest == Tail(me.shards)
           more == [t \in Tx |-> IF t \in Range(shard.txs) THEN {shard.from} ELSE {}]
<1>1. /\ me \in ThreadType /\ me.pc = "import" /\ me.shards \in Seq(Packet) /\ me.shards # <<>>
      /\ thread \in [{"engine", "sync"} -> ThreadType]
  BY PoolIsTyped DEF setTransactionsAreKnownBy, ThreadType, ThreadInv
<1>2. shard \in Packet /\ rest \in Seq(Packet)
  BY <1>1, HeadTail
<1>3. rest # <<>> => Head(rest).txs \in Seq(Tx)
  <2>1. rest # <<>> => Head(rest) \in Packet
    BY <1>2, HeadTail
  <2> QED
    BY <2>1 DEF Packet
<1>4. more \in [Tx -> SUBSET (Peers \cup {Self})]
  BY <1>2 DEF Packet
<1>5. pool' = [pool EXCEPT !.known = [t \in Tx |-> pool.known[t] \cup more[t]]]
  <2>1. pool' = [pool EXCEPT !.known = [t \in Tx |->
                    IF t \in Range(shard.txs) THEN pool.known[t] \cup {shard.from}
                    ELSE pool.known[t]]]
    BY DEF setTransactionsAreKnownBy
  <2>2. [t \in Tx |-> IF t \in Range(shard.txs) THEN pool.known[t] \cup {shard.from}
                      ELSE pool.known[t]]
          = [t \in Tx |-> pool.known[t] \cup more[t]]
    OBVIOUS
  <2> QED
    BY <2>1, <2>2
<1>6. UNCHANGED <<blocks, check, proposal, buffer, downloading, sent, faults>>
  BY DEF setTransactionsAreKnownBy
<1>7. /\ thread' \in [{"engine", "sync"} -> ThreadType] /\ thread'["engine"] = thread["engine"]
      /\ thread'["sync"].pc \in {"free", "import"}
      /\ thread'["sync"].pc = "import" => thread'["sync"].shards = rest /\ rest # <<>>
  <2>1. CASE rest = <<>>
    BY <2>1, <1>1, IdleType DEF setTransactionsAreKnownBy, Idle
  <2>2. CASE rest # <<>>
    BY <2>2, <1>1, <1>2, <1>3 DEF setTransactionsAreKnownBy, ThreadType
  <2> QED
    BY <2>1, <2>2
<1> HIDE DEF more
<1>8. /\ pool' \in PoolType /\ pool'.queue = pool.queue
      /\ pool'.dropped = pool.dropped /\ pool'.nonces = pool.nonces
      /\ \A t \in Tx : pool'.known[t] = pool.known[t] \cup more[t]
  BY <1>4, <1>5, KnownGrows, PoolIsTyped
<1>9. TypeOK'
  BY <1>6, <1>7, <1>8 DEF TypeOK, ThreadType, PoolType, number
<1> QED
  BY <1>1, <1>6, <1>7, <1>8, <1>9 DEF ThreadInv, Marks, Undisturbed, Storing

LEMMA FetchUnsentStep ==
    ASSUME TypeOK, ThreadInv, FetchUnsent
    PROVE  TypeOK' /\ ThreadInv' /\ Marks
<1>1. topTransactionsCondition(pool) \in Seq(Tx)
  <2> DEFINE S == {t \in Tx : Self \notin pool.known[t]}
             unsent == Only(pool.queue, S)
  <2>1. unsent \in Seq(Tx)
    <3> HIDE DEF S
    <3> QED
      BY OnlyFacts DEF TypeOK
  <2>2. topTransactionsCondition(pool)
          = SubSeq(unsent, 1, IF Len(unsent) < MaxSend THEN Len(unsent) ELSE MaxSend)
    BY DEF topTransactionsCondition
  <2> HIDE DEF unsent
  <2> QED
    BY <2>1, <2>2, BoundType, SubSeqFacts
<1>2. /\ thread \in [{"engine", "sync"} -> ThreadType] /\ thread["sync"].pc = "free"
  BY PoolIsTyped DEF FetchUnsent
<1>3. UNCHANGED <<blocks, pool, check, proposal, buffer, downloading, sent, faults>>
  BY DEF FetchUnsent
<1>4. /\ thread' \in [{"engine", "sync"} -> ThreadType] /\ thread'["engine"] = thread["engine"]
      /\ thread'["sync"].pc = "send"
  BY <1>1, <1>2 DEF FetchUnsent, ThreadType, Pcs
<1>5. TypeOK'
  BY <1>3, <1>4 DEF TypeOK, ThreadType, number
<1> QED
  BY <1>2, <1>3, <1>4, <1>5 DEF ThreadInv, Marks, Undisturbed, Storing

LEMMA MaintainStep ==
    ASSUME TypeOK, ThreadInv, maintainTransactions
    PROVE  TypeOK' /\ ThreadInv' /\ Marks
<1> DEFINE ts == thread["sync"].txs
<1>1. PICK to \in [Marked(ts) -> SUBSET Sealers] :
          /\ pool' = [pool EXCEPT !.known = [t \in Tx |->
                        @[t] \cup UNION {to[i] \cup {Self} : i \in {j \in Marked(ts) : ts[j] = t}}]]
          /\ sent' = IF Marked(ts) = DOMAIN ts
                     THEN sent \cup UNION {{ts[i]} \X to[i] : i \in DOMAIN ts}
                     ELSE sent
  BY DEF maintainTransactions
<1>2. /\ thread["sync"].pc = "send" /\ thread' = [thread EXCEPT !["sync"] = Idle]
      /\ UNCHANGED <<blocks, check, proposal, buffer, downloading, faults>>
  BY DEF maintainTransactions
<1>3. thread \in [{"engine", "sync"} -> ThreadType] /\ ts \in Seq(Tx) /\ pool \in PoolType
  BY PoolIsTyped DEF ThreadType
<1> DEFINE more == [t \in Tx |->
                      UNION {to[i] \cup {Self} : i \in {j \in Marked(ts) : ts[j] = t}}]
<1>4. more \in [Tx -> SUBSET (Peers \cup {Self})]
  BY DEF Peers
<1>5. pool' = [pool EXCEPT !.known = [t \in Tx |-> pool.known[t] \cup more[t]]]
  <2>1. [t \in Tx |-> pool.known[t] \cup UNION {to[i] \cup {Self} : i \in {j \in Marked(ts) : ts[j] = t}}]
          = [t \in Tx |-> pool.known[t] \cup more[t]]
    OBVIOUS
  <2> QED
    BY <1>1, <2>1
<1>6. /\ pool' \in PoolType /\ pool'.queue = pool.queue
      /\ pool'.dropped = pool.dropped /\ pool'.nonces = pool.nonces
      /\ \A t \in Tx : pool'.known[t] = pool.known[t] \cup more[t]
  <2> HIDE DEF more
  <2> QED
    BY <1>3, <1>4, <1>5, KnownGrows
<1>7. ASSUME NEW i \in DOMAIN ts, NEW p \in to[i], Marked(ts) = DOMAIN ts
      PROVE  ts[i] \in Tx /\ p \in Sealers /\ {p, Self} \subseteq pool'.known[ts[i]]
  <2>1. ts[i] \in Tx /\ p \in Sealers
    BY <1>3, <1>7
  <2>2. i \in {j \in Marked(ts) : ts[j] = ts[i]}
    BY <1>7
  <2>3. {p, Self} \subseteq more[ts[i]]
    BY <2>1, <2>2
  <2> HIDE DEF more
  <2> QED
    BY <1>6, <2>1, <2>3
<1>8. ASSUME NEW x \in sent', x \notin sent
      PROVE  \E i \in DOMAIN ts : \E p \in to[i] : x = <<ts[i], p>> /\ Marked(ts) = DOMAIN ts
  BY <1>1, <1>8
<1>9. sent' \subseteq Tx \X Sealers
  <2> SUFFICES ASSUME NEW x \in sent'
               PROVE  x \in Tx \X Sealers
    OBVIOUS
  <2>1. sent \subseteq Tx \X Sealers
    BY DEF TypeOK
  <2> QED
    BY <1>7, <1>8, <2>1
<1>10. \A t \in Tx, p \in Sealers :
          <<t, p>> \in sent' => <<t, p>> \in sent \/ {p, Self} \subseteq pool'.known[t]
  BY <1>7, <1>8
<1>11. /\ thread' \in [{"engine", "sync"} -> ThreadType] /\ thread'["engine"] = thread["engine"]
       /\ thread'["sync"].pc = "free"
  BY <1>2, <1>3, IdleType DEF Idle
<1> HIDE DEF more
<1>12. TypeOK'
  BY <1>2, <1>6, <1>9, <1>11 DEF TypeOK, ThreadType, PoolType, number
<1>13. Marks
  BY <1>2, <1>6, <1>10, <1>11 DEF Marks, Undisturbed, Storing
<1> QED
  BY <1>2, <1>11, <1>12, <1>13 DEF ThreadInv, Storing

LEMMA DownloadStep ==
    ASSUME TypeOK, ThreadInv, Download
    PROVE  TypeOK' /\ ThreadInv' /\ Marks
<1>1. downloading' \in BOOLEAN
  BY Zenon DEF Download, TypeOK
<1>2. UNCHANGED <<blocks, pool, check, proposal, thread, buffer, sent, faults>>
  BY DEF Download
<1>3. thread["sync"].pc = "free"
  BY DEF Download
<1>4. TypeOK'
  BY <1>1, <1>2 DEF TypeOK, number
<1> QED
  BY <1>2, <1>3, <1>4 DEF ThreadInv, Marks, Undisturbed, Storing

LEMMA SealStep ==
    ASSUME TypeOK, ThreadInv, Seal
    PROVE  TypeOK' /\ ThreadInv'
<1>1. pool' \in PoolType /\ IsInjective(pool'.queue)
  BY TopFacts, PoolIsTyped DEF Seal
<1>2. proposal' \in [height : Nat, txs : SUBSET Tx]
  <2>1. Range(Taken(pool, {})) \in SUBSET Tx
    BY TakenFacts, RangeType, PoolIsTyped
  <2>2. number + 1 \in Nat
    BY DEF number, TypeOK
  <2> QED
    BY <2>1, <2>2 DEF Seal
<1>3. UNCHANGED <<blocks, check, thread, buffer, downloading, sent, faults>>
  BY DEF Seal
<1> QED
  BY <1>1, <1>2, <1>3 DEF TypeOK, ThreadInv, PoolType, number

\* One of the two threads has stored a block; the nonce check does not know it yet.
LEMMA CommitStep ==
    ASSUME TypeOK, ThreadInv, NEW th \in {"engine", "sync"}, NEW b \in SUBSET Tx,
           commitBlock(th, b)
    PROVE  /\ TypeOK' /\ ThreadInv'
           /\ thread[th].pc = "free"
           /\ thread'[th].pc = "updateCache" /\ thread'[th].block = b
           /\ \A o \in {"engine", "sync"} : o # th => thread'[o] = thread[o]
<1>1. thread \in [{"engine", "sync"} -> ThreadType] /\ thread[th].pc = "free"
  BY PoolIsTyped DEF commitBlock
<1>2. thread' = [thread EXCEPT ![th] = [thread[th] EXCEPT !.pc = "updateCache", !.block = b]]
  BY DEF commitBlock
<1>3. /\ thread' \in [{"engine", "sync"} -> ThreadType]
      /\ thread'[th].pc = "updateCache" /\ thread'[th].block = b
      /\ \A o \in {"engine", "sync"} : o # th => thread'[o] = thread[o]
  BY <1>1, <1>2 DEF ThreadType, Pcs
<1>4. blocks' = Append(blocks, b) /\ blocks' \in Seq(SUBSET Tx) /\ number' = number + 1 /\ number \in Nat
  BY DEF commitBlock, TypeOK, number
<1>5. UNCHANGED <<pool, check, proposal, buffer, downloading, sent, faults>>
  BY DEF commitBlock
<1>6. TypeOK'
  <2>1. check.end <= number'
    BY <1>4 DEF TypeOK
  <2> QED
    BY <1>3, <1>4, <1>5, <2>1 DEF TypeOK, ThreadType
<1>7. th = "sync" => downloading
  BY DEF commitBlock
<1> QED
  BY <1>1, <1>3, <1>5, <1>6, <1>7 DEF ThreadInv

LEMMA UpdateCacheStep ==
    ASSUME TypeOK, ThreadInv, NEW th \in {"engine", "sync"}, UpdateCache(th)
    PROVE  TypeOK' /\ ThreadInv'
<1>1. number \in Nat
  BY DEF TypeOK, number
<1>2. /\ check' \in CheckType /\ check'.end = number
      /\ check'.start = IF number > MaxBlockLimit THEN number - MaxBlockLimit ELSE 0
  <2>1. check' = updateCache(check, FALSE) /\ check \in CheckType
    BY PoolIsTyped DEF UpdateCache
  <2> QED
    BY <2>1, UpdateCacheFacts DEF TypeOK
<1>3. check'.start <= check'.end
  BY <1>1, <1>2, LimitType
<1>4. /\ thread' \in [{"engine", "sync"} -> ThreadType] /\ thread'[th].pc = "dropTransactions"
      /\ \A o \in {"engine", "sync"} : o # th => thread'[o] = thread[o]
  BY GotoType, PoolIsTyped DEF UpdateCache, Pcs
<1>5. UNCHANGED <<blocks, pool, proposal, buffer, downloading, sent, faults>>
  BY DEF UpdateCache
<1>6. TypeOK'
  <2>1. check'.end <= number'
    BY <1>1, <1>2, <1>5 DEF number
  <2> QED
    BY <1>2, <1>3, <1>4, <1>5, <2>1 DEF TypeOK, ThreadType, CheckType
<1>7. thread[th].pc = "updateCache"
  BY DEF UpdateCache
<1> QED
  BY <1>4, <1>5, <1>6, <1>7 DEF ThreadInv, Storing

\* The three cleaning steps after UpdateCache change the pool and move the thread on.
Cleans(th, from, to, p) ==
    /\ thread[th].pc = from /\ thread'[th].pc = to
    /\ to # "free" => thread'[th].block = thread[th].block
    /\ \A o \in {"engine", "sync"} : o # th => thread'[o] = thread[o]
    /\ pool' = p /\ UNCHANGED <<blocks, check, proposal, sent>>

LEMMA CleansTypes ==
    ASSUME TypeOK, ThreadInv, NEW th \in {"engine", "sync"}, NEW p \in PoolType,
           IsInjective(p.queue), NEW from \in Storing, NEW to \in Storing \cup {"free"},
           Cleans(th, from, to, p), thread' \in [{"engine", "sync"} -> ThreadType],
           UNCHANGED <<buffer, downloading, faults>>
    PROVE  TypeOK' /\ ThreadInv'
<1>1. TypeOK'
  BY DEF Cleans, TypeOK, ThreadType, PoolType, number
<1> QED
  BY <1>1 DEF Cleans, ThreadInv, Storing

LEMMA DropTransactionsStep ==
    ASSUME TypeOK, ThreadInv, NEW th \in {"engine", "sync"}, dropTransactions(th)
    PROVE  /\ TypeOK' /\ ThreadInv'
           /\ Cleans(th, "dropTransactions", "removeBlockKnowTrans",
                     removeTrans(pool, thread[th].block))
<1> DEFINE p == removeTrans(pool, thread[th].block)
<1>1. p \in PoolType /\ IsInjective(p.queue)
  BY RemoveTransFacts, PoolIsTyped
<1>2. Goto(th, "removeBlockKnowTrans") /\ "removeBlockKnowTrans" \in Pcs
  BY DEF dropTransactions, Pcs
<1>3. /\ thread' \in [{"engine", "sync"} -> ThreadType]
      /\ Cleans(th, "dropTransactions", "removeBlockKnowTrans", p)
  BY <1>2, GotoType, PoolIsTyped DEF dropTransactions, Cleans
<1>4. UNCHANGED <<buffer, downloading, faults>>
  BY DEF dropTransactions
<1> HIDE DEF p
<1>5. TypeOK' /\ ThreadInv'
  BY <1>1, <1>3, <1>4, CleansTypes DEF Storing
<1> QED
  BY <1>3, <1>5 DEF p

LEMMA RemoveBlockKnowStep ==
    ASSUME TypeOK, ThreadInv, NEW th \in {"engine", "sync"}, removeBlockKnowTrans(th)
    PROVE  /\ TypeOK' /\ ThreadInv'
           /\ Cleans(th, "removeBlockKnowTrans", "delCache",
                     removeKnown(pool, thread[th].block))
<1> DEFINE p == removeKnown(pool, thread[th].block)
<1>1. p \in PoolType /\ IsInjective(p.queue)
  BY RemoveKnownFacts, PoolIsTyped
<1>2. Goto(th, "delCache") /\ "delCache" \in Pcs
  BY DEF removeBlockKnowTrans, Pcs
<1>3. /\ thread' \in [{"engine", "sync"} -> ThreadType]
      /\ Cleans(th, "removeBlockKnowTrans", "delCache", p)
  BY <1>2, GotoType, PoolIsTyped DEF removeBlockKnowTrans, Cleans
<1>4. UNCHANGED <<buffer, downloading, faults>>
  BY DEF removeBlockKnowTrans
<1> HIDE DEF p
<1>5. TypeOK' /\ ThreadInv'
  BY <1>1, <1>3, <1>4, CleansTypes DEF Storing
<1> QED
  BY <1>3, <1>5 DEF p

LEMMA DelCacheFacts ==
    ASSUME NEW p \in PoolType, NEW N
    PROVE  LET r == [p EXCEPT !.nonces = p.nonces \ N]
           IN  /\ r \in PoolType /\ r.nonces = p.nonces \ N
               /\ r.queue = p.queue /\ r.dropped = p.dropped /\ r.known = p.known
BY DEF PoolType

LEMMA DelCacheStep ==
    ASSUME TypeOK, ThreadInv, NEW th \in {"engine", "sync"}, delCache(th)
    PROVE  /\ TypeOK' /\ ThreadInv'
           /\ Cleans(th, "delCache", "free",
                     [pool EXCEPT !.nonces = pool.nonces \ noncesOf(thread[th].block)])
<1> DEFINE p == [pool EXCEPT !.nonces = pool.nonces \ noncesOf(thread[th].block)]
<1>1. p \in PoolType /\ IsInjective(p.queue)
  BY DelCacheFacts, PoolIsTyped
<1>2. thread' = [thread EXCEPT ![th] = Idle] /\ thread \in [{"engine", "sync"} -> ThreadType]
  BY PoolIsTyped DEF delCache
<1>3. /\ thread' \in [{"engine", "sync"} -> ThreadType] /\ thread'[th].pc = "free"
      /\ \A o \in {"engine", "sync"} : o # th => thread'[o] = thread[o]
  BY <1>2, IdleType DEF Idle
<1>4. Cleans(th, "delCache", "free", p)
  BY <1>3 DEF delCache, Cleans
<1>5. UNCHANGED <<buffer, downloading, faults>>
  BY DEF delCache
<1> HIDE DEF p
<1>6. TypeOK' /\ ThreadInv'
  BY <1>1, <1>3, <1>4, <1>5, CleansTypes DEF Storing
<1> QED
  BY <1>4, <1>6 DEF p

LEMMA RestartStep ==
    ASSUME TypeOK, ThreadInv, Restart
    PROVE  /\ TypeOK' /\ ThreadInv'
           /\ \A th \in {"engine", "sync"} : thread'[th].pc = "free"
           /\ Range(pool'.queue) = {} /\ pool'.dropped = {}
<1>1. number \in Nat
  BY DEF TypeOK, number
<1>2. /\ check' \in CheckType /\ check'.end = number
      /\ check'.start = IF number > MaxBlockLimit THEN number - MaxBlockLimit ELSE 0
  <2>1. check' = updateCache(check, TRUE) /\ check \in CheckType
    BY PoolIsTyped DEF Restart
  <2> QED
    BY <2>1, UpdateCacheFacts DEF TypeOK
<1>3. check'.start <= check'.end
  BY <1>1, <1>2, LimitType
<1>4. pool' \in PoolType /\ IsInjective(pool'.queue) /\ Range(pool'.queue) = {} /\ pool'.dropped = {}
  <2>1. pool' = [queue |-> <<>>, dropped |-> {}, nonces |-> {}, known |-> [t \in Tx |-> {}]]
    BY DEF Restart
  <2> QED
    BY <2>1, EmptyPool
<1>5. /\ thread' \in [{"engine", "sync"} -> ThreadType]
      /\ \A th \in {"engine", "sync"} : thread'[th].pc = "free"
  BY IdleType DEF Restart, Idle
<1>6. /\ proposal' \in [height : Nat, txs : SUBSET Tx] /\ buffer' \in Seq(Packet)
      /\ sent' \subseteq Tx \X Sealers /\ blocks' = blocks
  BY DEF Restart, NoBlock
<1>7. downloading' \in BOOLEAN
  BY Zenon DEF Restart
<1>8. faults' \in [packet : Nat, restart : Nat]
  <2>1. faults \in [packet : Nat, restart : Nat]
    BY DEF TypeOK
  <2>2. faults' = [faults EXCEPT !.restart = faults.restart + 1]
    BY DEF Restart
  <2> QED
    BY <2>1, <2>2
<1>9. TypeOK'
  <2>1. check'.end <= number' /\ blocks' \in Seq(SUBSET Tx)
    BY <1>1, <1>2, <1>6 DEF number, TypeOK
  <2> QED
    BY <1>2, <1>3, <1>4, <1>5, <1>6, <1>7, <1>8, <2>1 DEF TypeOK, ThreadType, CheckType, PoolType
<1> QED
  BY <1>4, <1>5, <1>9 DEF ThreadInv, Storing

-----------------------------------------------------------------------------
(* The chain and the window.                                               *)

LEMMA SameChain ==
    ASSUME UNCHANGED blocks
    PROVE  /\ number' = number /\ Settled' = Settled
           /\ \A i, t : Fresh(i, t)' <=> Fresh(i, t)
           /\ \A a, b : NoncesBetween(a, b)' = NoncesBetween(a, b)
           /\ NoTransactionTwice <=> NoTransactionTwice'
BY DEF number, Settled, OnChain, Fresh, NoncesBetween, NoTransactionTwice

LEMMA SettledIs ==
    ASSUME TypeOK, NEW t
    PROVE  t \in Settled <=> \E i \in 1 .. number : t \in blocks[i] /\ Fresh(i, t)
<1>1. DOMAIN blocks = 1 .. number
  BY DEF TypeOK, number
<1>2. \A i \in 1 .. number : t \in blocks[i] => t \in OnChain
  BY <1>1 DEF OnChain, Range
<1> QED
  BY <1>2 DEF Settled

LEMMA BetweenIs ==
    ASSUME NEW x, NEW a, NEW b
    PROVE  x \in NoncesBetween(a, b)
             <=> \E i \in 1 .. number : a <= i /\ i <= b /\ \E t \in blocks[i] : x = nonce[t]
BY DEF NoncesBetween, noncesOf

LEMMA FreshIs ==
    ASSUME NEW i, NEW t
    PROVE  Fresh(i, t) <=> \A k \in 1 .. i - 1 : \A u \in blocks[k] : nonce[t] # nonce[u]
BY DEF Fresh, noncesOf

\* While its block limit lasts, the nonce of a settled transaction is in the window.
LEMMA StoredIsRefused ==
    ASSUME TypeOK, WindowInv, CacheInv, LimitInv, NEW t \in Tx,
           NEW i \in 1 .. check.number, t \in blocks[i], Fresh(i, t)
    PROVE  ~ isBlockLimitOrNonceOk(t)
<1> SUFFICES ASSUME isBlockLimitOk(check, t), isNonceOk(check.cache, t)
             PROVE  FALSE
  BY DEF isBlockLimitOrNonceOk
<1>1. /\ number \in Nat /\ check.number \in Nat /\ check.start \in Nat
      /\ MaxBlockLimit \in Nat /\ blockLimit[t] \in Nat /\ i \in 1 .. number
  BY LimitType DEF TypeOK, number, WindowInv
<1>2. blockLimit[t] <= i - 1 + MaxBlockLimit /\ check.number < blockLimit[t]
  BY <1>1 DEF LimitInv, isBlockLimitOk
<1>3. check.start <= i
  BY <1>1, <1>2 DEF WindowInv
<1>4. nonce[t] \in NoncesBetween(1, check.number)
  BY <1>1, BetweenIs
<1>5. nonce[t] \notin Left
  <2> SUFFICES ASSUME nonce[t] \in NoncesBetween(1, check.start - 1)
               PROVE  FALSE
    BY DEF Left
  <2>1. PICK k \in 1 .. number : k <= check.start - 1 /\ \E u \in blocks[k] : nonce[t] = nonce[u]
    BY BetweenIs
  <2>2. k \in 1 .. i - 1
    BY <1>1, <1>3, <2>1
  <2> QED
    BY <2>1, <2>2, FreshIs
<1> QED
  BY <1>4, <1>5 DEF CacheInv, isNonceOk

LEMMA ChainGrows ==
    ASSUME TypeOK, NEW b \in SUBSET Tx, blocks' = Append(blocks, b)
    PROVE  /\ number \in Nat /\ number' = number + 1
           /\ blocks'[number + 1] = b /\ \A i \in 1 .. number : blocks'[i] = blocks[i]
           /\ \A i \in 1 .. number + 1 : \A t : Fresh(i, t)' <=> Fresh(i, t)
           /\ \A t : t \in Settled' => t \in Settled \/ t \in b
           /\ \A x : \A k \in Nat : k <= number =>
                 (x \in NoncesBetween(1, k)' <=> x \in NoncesBetween(1, k))
<1>1. /\ number \in Nat /\ number' = number + 1 /\ blocks' \in Seq(SUBSET Tx)
      /\ blocks'[number + 1] = b /\ \A i \in 1 .. number : blocks'[i] = blocks[i]
  BY DEF TypeOK, number
<1>2. ASSUME NEW i \in 1 .. number + 1, NEW t
      PROVE  Fresh(i, t)' <=> Fresh(i, t)
  <2>1. ASSUME NEW k \in 1 .. i - 1
        PROVE  blocks'[k] = blocks[k]
    <3>1. k \in 1 .. number
      BY <1>1
    <3> QED
      BY <1>1, <3>1
  <2> QED
    BY <2>1 DEF Fresh, noncesOf
<1>3. ASSUME NEW t, t \in Settled', t \notin b
      PROVE  t \in Settled
  <2>1. PICK i \in 1 .. number + 1 : t \in blocks'[i] /\ Fresh(i, t)'
    BY <1>1, <1>3 DEF Settled
  <2>2. i # number + 1
    BY <1>1, <1>3, <2>1
  <2>3. i \in 1 .. number
    BY <1>1, <2>2
  <2>4. t \in blocks[i] /\ Fresh(i, t)
    BY <1>1, <1>2, <2>1, <2>3
  <2> QED
    BY <2>3, <2>4, SettledIs
<1>4. ASSUME NEW x, NEW k \in Nat, k <= number
      PROVE  x \in NoncesBetween(1, k)' <=> x \in NoncesBetween(1, k)
  <2>2. x \in NoncesBetween(1, k)
          <=> \E i \in 1 .. number : 1 <= i /\ i <= k /\ x \in noncesOf(blocks[i])
    BY DEF NoncesBetween
  <2>3. x \in NoncesBetween(1, k)'
          <=> \E i \in 1 .. number' : 1 <= i /\ i <= k /\ x \in noncesOf(blocks[i])'
    BY DEF NoncesBetween
  <2>4. \A i \in 1 .. number : noncesOf(blocks[i])' = noncesOf(blocks[i])
    BY <1>1 DEF noncesOf
  <2>5. \A i \in 1 .. number' : i <= k => i \in 1 .. number
    BY <1>1, <1>4
  <2>6. \A i \in 1 .. number : i \in 1 .. number'
    BY <1>1
  <2> QED
    BY <2>2, <2>3, <2>4, <2>5, <2>6
<1> QED
  BY <1>1, <1>2, <1>3, <1>4

\* While threads keep their place, what is said of their blocks stays.
LEMMA UndisturbedKeeps ==
    ASSUME BusyInv, PendingInv, Undisturbed, UNCHANGED <<blocks, check>>
    PROVE  BusyInv' /\ PendingInv'
<1>1. ASSUME NEW th \in {"engine", "sync"}, NEW i, At(th, i)
      PROVE  At(th, i)'
  BY <1>1 DEF At, Undisturbed, number
<1>2. \A th \in {"engine", "sync"} : thread'[th].pc \in Storing => thread[th].pc \in Storing
  BY DEF Undisturbed
<1>3. BusyInv'
  <2>1. PICK i, j \in Nat :
          /\ At("engine", i) /\ At("sync", j)
          /\ thread["engine"].pc \in Storing /\ thread["sync"].pc \in Storing => i # j
    BY DEF BusyInv
  <2> QED
    BY <1>1, <1>2, <2>1 DEF BusyInv
<1>4. PendingInv'
  BY DEF PendingInv, Undisturbed, Storing, number
<1> QED
  BY <1>3, <1>4

-----------------------------------------------------------------------------
(* Every step keeps the invariant.                                         *)

LEMMA QueueRange ==
    ASSUME TypeOK
    PROVE  Range(pool.queue) \in SUBSET Tx
BY RangeType DEF TypeOK

LEMMA ImportKeeps ==
    ASSUME PoolInv, NEW t \in Tx, Imports(t), TypeOK', ThreadInv'
    PROVE  PoolInv'
<1> USE DEF PoolInv
<1>1. UNCHANGED <<blocks, check, proposal, sent>> /\ Undisturbed /\ pool' = import(pool, t)
  BY DEF Imports
<1>2. /\ number' = number /\ Settled' = Settled
      /\ \A i, u : Fresh(i, u)' <=> Fresh(i, u)
      /\ \A a, b : NoncesBetween(a, b)' = NoncesBetween(a, b)
      /\ NoTransactionTwice'
  BY <1>1, SameChain
<1>3. WindowInv' /\ Left' = Left /\ CacheInv' /\ LimitInv' /\ ProposalInv'
  BY <1>1, <1>2 DEF WindowInv, CacheInv, Left, LimitInv, ProposalInv
<1>4. BusyInv' /\ PendingInv'
  BY <1>1, UndisturbedKeeps
<1>5. /\ pool'.dropped = pool.dropped /\ pool'.known = pool.known
      /\ \/ pool' = pool
         \/ /\ ~ isKnown(pool, t) /\ isBlockLimitOrNonceOk(t) /\ nonce[t] \notin pool.nonces
            /\ pool'.nonces = pool.nonces \cup {nonce[t]}
            /\ Range(pool'.queue) \in {Range(pool.queue), Range(pool.queue) \cup {t}}
  BY <1>1, ImportFacts, PoolIsTyped
<1>6. QueueInv'
  <2> SUFFICES ASSUME NEW u \in Range(pool'.queue), u \in Settled
               PROVE  \E th \in {"engine", "sync"} :
                         /\ thread'[th].pc \in {"updateCache", "dropTransactions"}
                         /\ u \in thread'[th].block
    BY <1>2 DEF QueueInv
  <2>1. \E th \in {"engine", "sync"} :
           thread[th].pc \in {"updateCache", "dropTransactions"} /\ u \in thread[th].block
    <3>1. CASE u \in Range(pool.queue)
      BY <3>1 DEF QueueInv
    <3>2. CASE u = t /\ isBlockLimitOrNonceOk(t)
      <4>1. PICK i \in 1 .. number : t \in blocks[i] /\ Fresh(i, t)
        BY <3>2, SettledIs
      <4>2. number \in Nat /\ check.number \in Nat
        BY DEF TypeOK, number
      <4>3. i \notin 1 .. check.number
        BY <3>2, <4>1, StoredIsRefused
      <4>4. i \in check.number + 1 .. number
        BY <4>2, <4>3
      <4> QED
        BY <3>2, <4>1, <4>4 DEF PendingInv
    <3> QED
      BY <1>5, <3>1, <3>2
  <2> QED
    BY <1>1, <2>1 DEF Undisturbed, Storing
<1>7. NonceInv'
  <2>1. Range(pool'.queue) \cap pool'.dropped = {}
    BY <1>5 DEF NonceInv, isKnown
  <2>2. ASSUME NEW u \in Range(pool'.queue)
        PROVE  nonce[u] \in pool'.nonces \cup check.cache \cup Left
    BY <1>5 DEF NonceInv
  <2> QED
    BY <1>1, <1>3, <2>1, <2>2 DEF NonceInv
<1>8. PooledNoncesDiffer'
  <2> SUFFICES ASSUME NEW u \in Range(pool'.queue), NEW v \in Range(pool'.queue),
                      u # v, nonce[u] = nonce[v], nonce[u] \notin Left
               PROVE  FALSE
    BY <1>1, <1>2 DEF PooledNoncesDiffer, Left
  <2>1. ~ (u \in Range(pool.queue) /\ v \in Range(pool.queue))
    BY DEF PooledNoncesDiffer, Left
  <2>2. /\ isBlockLimitOrNonceOk(t) /\ nonce[t] \notin pool.nonces
        /\ \/ u = t /\ v \in Range(pool.queue)
           \/ v = t /\ u \in Range(pool.queue)
    BY <1>5, <2>1
  <2>3. nonce[t] \notin check.cache /\ nonce[u] = nonce[t] /\ nonce[v] = nonce[t]
    BY <2>2 DEF isBlockLimitOrNonceOk, isNonceOk
  <2> QED
    BY <2>2, <2>3 DEF NonceInv
<1>9. SentInv'
  <2> SUFFICES ASSUME NEW u \in Tx, NEW p \in Sealers, <<u, p>> \in sent,
                      ~ ({p, Self} \subseteq pool.known[u]), u \notin pool.dropped
               PROVE  \E i \in 1 .. check.number :
                         u \in blocks[i] /\ (Fresh(i, u) => u \notin Range(pool'.queue))
    BY <1>1, <1>2, <1>5 DEF SentInv
  <2>1. PICK i \in 1 .. check.number :
           u \in blocks[i] /\ (Fresh(i, u) => u \notin Range(pool.queue))
    BY DEF SentInv
  <2>2. Fresh(i, u) => u \notin Range(pool'.queue)
    BY <1>5, <2>1, StoredIsRefused
  <2> QED
    BY <2>1, <2>2
<1> QED
  BY <1>2, <1>3, <1>4, <1>6, <1>7, <1>8, <1>9

LEMMA MarksKeeps ==
    ASSUME PoolInv, Marks, TypeOK', ThreadInv'
    PROVE  PoolInv'
<1> USE DEF PoolInv
<1>1. /\ UNCHANGED <<blocks, check, proposal>> /\ Undisturbed
      /\ pool'.queue = pool.queue /\ pool'.dropped = pool.dropped /\ pool'.nonces = pool.nonces
      /\ \A t \in Tx : pool.known[t] \subseteq pool'.known[t]
      /\ \A t \in Tx, p \in Sealers :
            <<t, p>> \in sent' => <<t, p>> \in sent \/ {p, Self} \subseteq pool'.known[t]
  BY DEF Marks
<1>2. /\ number' = number /\ Settled' = Settled
      /\ \A i, u : Fresh(i, u)' <=> Fresh(i, u)
      /\ \A a, b : NoncesBetween(a, b)' = NoncesBetween(a, b)
      /\ NoTransactionTwice'
  BY <1>1, SameChain
<1>3. WindowInv' /\ Left' = Left /\ CacheInv' /\ LimitInv' /\ ProposalInv'
  BY <1>1, <1>2 DEF WindowInv, CacheInv, Left, LimitInv, ProposalInv
<1>4. BusyInv' /\ PendingInv'
  BY <1>1, UndisturbedKeeps
<1>5. QueueInv'
  BY <1>1, <1>2 DEF QueueInv, Undisturbed, Storing
<1>6. NonceInv' /\ PooledNoncesDiffer'
  BY <1>1, <1>2, <1>3 DEF NonceInv, PooledNoncesDiffer
<1>7. SentInv'
  BY <1>1, <1>2 DEF SentInv
<1> QED
  BY <1>2, <1>3, <1>4, <1>5, <1>6, <1>7

\* Nothing settled waits when the sealer may take transactions: nobody is cleaning up.
LEMMA SealKeeps ==
    ASSUME PoolInv, Seal, TypeOK', ThreadInv'
    PROVE  PoolInv'
<1> USE DEF PoolInv
<1>1. /\ UNCHANGED <<blocks, check, thread, sent>> /\ thread["engine"].pc = "free" /\ ~ downloading
      /\ proposal' = [height |-> number + 1, txs |-> Range(Taken(pool, {}))]
      /\ pool' = topTransactions(pool, {})
  BY DEF Seal
<1>2. /\ number' = number /\ Settled' = Settled
      /\ \A i, u : Fresh(i, u)' <=> Fresh(i, u)
      /\ \A a, b : NoncesBetween(a, b)' = NoncesBetween(a, b)
      /\ NoTransactionTwice'
  BY <1>1, SameChain
<1>3. WindowInv' /\ Left' = Left /\ CacheInv' /\ BusyInv' /\ PendingInv'
  BY <1>1, <1>2 DEF WindowInv, CacheInv, Left, BusyInv, At, PendingInv
<1>4. \A th \in {"engine", "sync"} : thread[th].pc \notin Storing
  BY <1>1 DEF ThreadInv, Storing
<1>5. number \in Nat /\ check.number \in Nat /\ check.number = number
  <2>1. number \in Nat /\ check.number \in Nat /\ check.number <= number
    BY DEF TypeOK, number, WindowInv
  <2>2. ~ (check.number < number)
    <3> SUFFICES ASSUME check.number < number
                 PROVE  FALSE
      OBVIOUS
    <3>1. number \in check.number + 1 .. number
      BY <2>1
    <3> QED
      BY <1>4, <3>1 DEF PendingInv, Storing
  <2> QED
    BY <2>1, <2>2
<1>6. Range(pool.queue) \cap Settled = {}
  BY <1>4 DEF QueueInv, Storing
<1>7. /\ Range(Taken(pool, {})) \subseteq Range(pool.queue)
      /\ \A t \in Range(Taken(pool, {})) : isBlockLimitOk(check, t)
  BY TakenFacts, PoolIsTyped
<1>8. ProposalInv'
  BY <1>1, <1>2, <1>6, <1>7, <1>5 DEF ProposalInv
<1>9. LimitInv'
  <2>1. ASSUME NEW t \in proposal'.txs
        PROVE  blockLimit[t] <= proposal'.height - 1 + MaxBlockLimit
    <3>1. t \in Tx /\ blockLimit[t] <= check.number + MaxBlockLimit /\ proposal'.height = number + 1
      BY <1>1, <1>7, <2>1, QueueRange DEF isBlockLimitOk
    <3> QED
      BY <1>5, <3>1, LimitType
  <2> QED
    BY <1>1, <1>2, <2>1 DEF LimitInv
<1>10. PICK out \in SUBSET Range(pool.queue) :
         /\ Range(pool'.queue) = Range(pool.queue) \ out
         /\ pool'.dropped = pool.dropped \cup out
         /\ pool'.nonces = pool.nonces \ noncesOf(out)
         /\ \A t \in Tx : pool'.known[t] = IF t \in out THEN {} ELSE pool.known[t]
  <2>1. pool \in PoolType /\ IsInjective(pool.queue)
    BY PoolIsTyped
  <2> DEFINE r == topTransactions(pool, {})
  <2>2. \E out \in SUBSET Range(pool.queue) :
           /\ Range(r.queue) = Range(pool.queue) \ out
           /\ r.dropped = pool.dropped \cup out
           /\ r.nonces = pool.nonces \ noncesOf(out)
           /\ \A t \in Tx : r.known[t] = IF t \in out THEN {} ELSE pool.known[t]
    BY <2>1, TopFacts
  <2>3. pool' = r
    BY <1>1
  <2> HIDE DEF r
  <2> QED
    BY <2>2, <2>3
<1>11. QueueInv'
  BY <1>2, <1>6, <1>10 DEF QueueInv
<1>12. PooledNoncesDiffer'
  BY <1>1, <1>2, <1>10 DEF PooledNoncesDiffer
<1>13. NonceInv'
  <2>1. ASSUME NEW t \in Range(pool'.queue), nonce[t] \notin check.cache, nonce[t] \notin Left
        PROVE  nonce[t] \in pool'.nonces
    <3>1. t \in Range(pool.queue) /\ t \notin out /\ nonce[t] \in pool.nonces
      BY <1>10, <2>1 DEF NonceInv
    <3>2. nonce[t] \notin noncesOf(out)
      BY <1>10, <2>1, <3>1 DEF noncesOf, PooledNoncesDiffer, Left
    <3> QED
      BY <1>10, <3>1, <3>2
  <2>2. Range(pool'.queue) \cap pool'.dropped = {}
    BY <1>10 DEF NonceInv
  <2> QED
    BY <1>1, <1>3, <2>1, <2>2 DEF NonceInv
<1>14. SentInv'
  BY <1>1, <1>2, <1>10 DEF SentInv
<1> QED
  BY <1>2, <1>3, <1>8, <1>9, <1>11, <1>12, <1>13, <1>14

\* A new block holds nothing settled: neither this node's proposal nor another's.
LEMMA CommitKeeps ==
    ASSUME PoolInv, NEW th \in {"engine", "sync"}, NEW b \in SUBSET Tx, commitBlock(th, b),
           TypeOK', ThreadInv'
    PROVE  PoolInv'
<1> USE DEF PoolInv
<1>1. blocks' = Append(blocks, b) /\ UNCHANGED <<pool, check, proposal, sent>>
  BY DEF commitBlock
<1>2. /\ number \in Nat /\ number' = number + 1
      /\ blocks'[number + 1] = b /\ \A i \in 1 .. number : blocks'[i] = blocks[i]
      /\ \A i \in 1 .. number + 1 : \A t : Fresh(i, t)' <=> Fresh(i, t)
      /\ \A t : t \in Settled' => t \in Settled \/ t \in b
      /\ \A x : \A k \in Nat : k <= number =>
            (x \in NoncesBetween(1, k)' <=> x \in NoncesBetween(1, k))
  BY <1>1, ChainGrows
<1>3. /\ thread[th].pc = "free"
      /\ thread'[th].pc = "updateCache" /\ thread'[th].block = b
      /\ \A o \in {"engine", "sync"} : o # th => thread'[o] = thread[o]
  BY CommitStep
<1>4. /\ check.number \in Nat /\ check.start \in Nat /\ check.number <= number /\ check.start <= number
      /\ MaxBlockLimit \in Nat
  <2>1. /\ check.number \in Nat /\ check.start \in Nat /\ check.end \in Nat
        /\ check.start <= check.end /\ check.end <= number /\ MaxBlockLimit \in Nat
    BY LimitType DEF TypeOK
  <2>2. check.end = check.number
    BY DEF WindowInv
  <2> QED
    BY <1>2, <2>1, <2>2
<1>5. WindowInv'
  BY <1>1, <1>2, <1>4 DEF WindowInv
<1>6. Left' = Left
  <2>1. CASE check.start = 0
    <3>1. ~ \E i \in 1 .. number : 1 <= i /\ i <= check.start - 1
      BY <2>1, <1>2
    <3>2. ~ \E i \in 1 .. number' : 1 <= i /\ i <= check.start - 1
      BY <2>1, <1>2
    <3> QED
      BY <1>1, <3>1, <3>2 DEF Left, NoncesBetween
  <2>2. CASE check.start # 0
    <3>1. check.start - 1 \in Nat /\ check.start - 1 <= number
      BY <2>2, <1>4, <1>2
    <3> QED
      BY <1>1, <1>2, <3>1 DEF Left
  <2> QED
    BY <2>1, <2>2
<1>7. CacheInv'
  BY <1>1, <1>2, <1>4, <1>6 DEF CacheInv
<1>8. b \cap Settled = {} /\ \A t \in b : blockLimit[t] <= number + MaxBlockLimit
  <2>1. CASE proposal.height = number + 1 /\ b = proposal.txs
    BY <1>2, <2>1 DEF ProposalInv, LimitInv
  <2>2. CASE b \in ForeignBlock
    BY <2>2 DEF ForeignBlock
  <2> QED
    BY <2>1, <2>2 DEF commitBlock
<1>9. LimitInv'
  <2>1. ASSUME NEW i \in 1 .. number + 1, NEW t \in blocks'[i]
        PROVE  blockLimit[t] <= i - 1 + MaxBlockLimit
    <3>1. CASE i = number + 1
      BY <3>1, <1>2, <1>8, <2>1
    <3>2. CASE i # number + 1
      <4>1. i \in 1 .. number
        BY <3>2, <1>2
      <4> QED
        BY <4>1, <1>2, <2>1 DEF LimitInv
    <3> QED
      BY <3>1, <3>2
  <2> QED
    BY <1>1, <1>2, <2>1 DEF LimitInv
<1>10. BusyInv'
  <2>1. PICK i, j \in Nat :
          /\ At("engine", i) /\ At("sync", j)
          /\ thread["engine"].pc \in Storing /\ thread["sync"].pc \in Storing => i # j
    BY DEF BusyInv
  <2>2. ASSUME NEW o \in {"engine", "sync"}, NEW k \in Nat, At(o, k), o # th
        PROVE  At(o, k)' /\ (thread'[o].pc \in Storing => k # number + 1)
    <3>1. thread'[o].pc \in Storing => k \in 1 .. number /\ thread'[o].block = blocks[k]
      BY <1>3, <2>2 DEF At
    <3>2. thread'[o].pc \in Storing => k \in 1 .. number' /\ k # number + 1 /\ blocks'[k] = blocks[k]
      BY <1>2, <3>1
    <3> QED
      BY <1>1, <1>3, <2>2, <3>1, <3>2 DEF At
  <2>3. PICK n \in Nat : n = number + 1
    BY <1>2
  <2>7. At(th, n)'
    BY <1>2, <1>3, <2>3 DEF At
  <2>4. CASE th = "engine"
    <3>1. At("sync", j)' /\ (thread'["sync"].pc \in Storing => j # number + 1)
      BY <2>1, <2>2, <2>4
    <3> QED
      BY <2>3, <2>4, <2>7, <3>1 DEF BusyInv
  <2>5. CASE th = "sync"
    <3>1. At("engine", i)' /\ (thread'["engine"].pc \in Storing => i # number + 1)
      BY <2>1, <2>2, <2>5
    <3> QED
      BY <2>3, <2>5, <2>7, <3>1 DEF BusyInv
  <2> QED
    BY <2>4, <2>5
<1>11. PendingInv'
  <2> SUFFICES ASSUME NEW i \in check.number + 1 .. number + 1
               PROVE  \E o \in {"engine", "sync"} :
                         thread'[o].pc = "updateCache" /\ thread'[o].block = blocks'[i]
    BY <1>1, <1>2 DEF PendingInv
  <2>1. CASE i = number + 1
    BY <2>1, <1>2, <1>3
  <2>2. CASE i # number + 1
    <3>1. i \in check.number + 1 .. number /\ i \in 1 .. number
      BY <2>2, <1>2, <1>4
    <3>2. PICK o \in {"engine", "sync"} : thread[o].pc = "updateCache" /\ thread[o].block = blocks[i]
      BY <3>1 DEF PendingInv
    <3> QED
      BY <1>2, <1>3, <3>1, <3>2
  <2> QED
    BY <2>1, <2>2
<1>12. QueueInv'
  <2> SUFFICES ASSUME NEW t \in Range(pool.queue), t \in Settled'
               PROVE  \E o \in {"engine", "sync"} :
                         /\ thread'[o].pc \in {"updateCache", "dropTransactions"}
                         /\ t \in thread'[o].block
    BY <1>1 DEF QueueInv
  <2>1. CASE t \in b
    BY <2>1, <1>3
  <2>2. CASE t \in Settled
    BY <2>2, <1>3 DEF QueueInv
  <2> QED
    BY <1>2, <2>1, <2>2
<1>13. ProposalInv'
  <2>1. proposal.height \in Nat /\ proposal.height <= number + 1
    BY DEF TypeOK, ProposalInv
  <2>2. proposal' = proposal /\ proposal.height <= number' + 1 /\ proposal.height # number' + 1
    BY <1>1, <1>2, <2>1
  <2> QED
    BY <2>2 DEF ProposalInv
<1>14. NonceInv' /\ PooledNoncesDiffer'
  BY <1>1, <1>6 DEF NonceInv, PooledNoncesDiffer, Left
<1>15. SentInv'
  <2>1. \A i \in 1 .. check.number : i \in 1 .. number /\ i \in 1 .. number + 1
    BY <1>2, <1>4
  <2> QED
    BY <1>1, <1>2, <2>1 DEF SentInv
<1>16. NoTransactionTwice'
  <2> SUFFICES ASSUME NEW i \in 1 .. number + 1, NEW j \in 1 .. number + 1, i < j,
                      NEW t \in blocks'[i] \cap blocks'[j], Fresh(i, t)'
               PROVE  FALSE
    BY <1>2 DEF NoTransactionTwice
  <2>1. i \in 1 .. number /\ t \in blocks[i] /\ Fresh(i, t)
    BY <1>2
  <2>2. CASE j = number + 1
    <3>1. t \in Settled /\ t \in b
      BY <1>2, <2>1, <2>2, SettledIs
    <3> QED
      BY <1>8, <3>1
  <2>3. CASE j # number + 1
    <3>1. j \in 1 .. number /\ t \in blocks[j]
      BY <1>2, <2>3
    <3> QED
      BY <2>1, <3>1 DEF NoTransactionTwice
  <2> QED
    BY <2>2, <2>3
<1> QED
  BY <1>5, <1>7, <1>9, <1>10, <1>11, <1>12, <1>13, <1>14, <1>15, <1>16

\* What the window forgets, it forgets with a block that leaves it.
LEMMA WindowMoves ==
    ASSUME TypeOK, WindowInv, CacheInv, UNCHANGED blocks,
           \/ check' = updateCache(check, FALSE)
           \/ check' = updateCache(check, TRUE)
    PROVE  /\ check'.number = number /\ WindowInv' /\ CacheInv'
           /\ Left \subseteq Left'
           /\ check' = updateCache(check, FALSE) => check.cache \subseteq check'.cache \cup Left'
<1> DEFINE start == check'.start
           one == IF 1 > start THEN 1 ELSE start
           new == IF check.end + 1 > start THEN check.end + 1 ELSE start
<1>1. /\ number \in Nat /\ check.number \in Nat /\ check.start \in Nat /\ check.end = check.number
      /\ check.number <= number /\ MaxBlockLimit \in Nat
  BY LimitType DEF TypeOK, number, WindowInv
<1>2. /\ check' = updateCache(check, FALSE) =>
            check'.cache = (check.cache \ NoncesBetween(check.start, start - 1))
                              \cup NoncesBetween(new, number)
      /\ check' = updateCache(check, TRUE) => check'.cache = NoncesBetween(one, number)
  <2>1. check \in CheckType /\ blocks \in Seq(SUBSET Tx) /\ check.end <= number
    BY PoolIsTyped
  <2>2. ASSUME check' = updateCache(check, FALSE)
        PROVE  check'.cache = (check.cache \ NoncesBetween(check.start, start - 1))
                                 \cup NoncesBetween(new, number)
    BY <2>1, <2>2, UpdateCacheFacts
  <2>3. ASSUME check' = updateCache(check, TRUE)
        PROVE  check'.cache = NoncesBetween(one, number)
    BY <2>1, <2>3, UpdateCacheFacts
  <2> QED
    BY <2>2, <2>3
<1>3. /\ check'.number = number /\ check'.end = number
      /\ start = IF number > MaxBlockLimit THEN number - MaxBlockLimit ELSE 0
  <2>1. check \in CheckType /\ blocks \in Seq(SUBSET Tx) /\ check.end <= number
    BY PoolIsTyped
  <2>2. CASE check' = updateCache(check, FALSE)
    BY <2>1, <2>2, UpdateCacheFacts
  <2>3. CASE check' = updateCache(check, TRUE)
    BY <2>1, <2>3, UpdateCacheFacts
  <2> QED
    BY <2>2, <2>3
<1>4. /\ number' = number
      /\ \A a, b : NoncesBetween(a, b)' = NoncesBetween(a, b)
  BY SameChain
<1>5. WindowInv'
  BY <1>1, <1>3, <1>4 DEF WindowInv
<1>6. Left' = NoncesBetween(1, start - 1)
  BY <1>4 DEF Left
<1>7. check.start <= start /\ start \in Nat
  BY <1>1, <1>3 DEF WindowInv
<1>8. Left \subseteq Left'
  <2> SUFFICES ASSUME NEW x \in Left
               PROVE  x \in NoncesBetween(1, start - 1)
    BY <1>6
  <2>1. PICK i \in 1 .. number : i <= check.start - 1 /\ \E t \in blocks[i] : x = nonce[t]
    BY BetweenIs DEF Left
  <2>2. 1 <= i /\ i <= start - 1
    BY <1>1, <1>7, <2>1
  <2> QED
    BY <2>1, <2>2, BetweenIs
<1>9. NoncesBetween(check.start, start - 1) \subseteq Left'
  <2> SUFFICES ASSUME NEW x \in NoncesBetween(check.start, start - 1)
               PROVE  x \in NoncesBetween(1, start - 1)
    BY <1>6
  <2>1. PICK i \in 1 .. number : i <= start - 1 /\ \E t \in blocks[i] : x = nonce[t]
    BY BetweenIs
  <2>2. 1 <= i
    BY <1>1
  <2> QED
    BY <2>1, <2>2, BetweenIs
<1> HIDE DEF start
<1>10. check' = updateCache(check, FALSE) => check.cache \subseteq check'.cache \cup Left'
  BY <1>2, <1>9
<1>11. CacheInv'
  <2> SUFFICES ASSUME NEW x \in NoncesBetween(1, number)
               PROVE  x \in check'.cache \cup Left'
    BY <1>3, <1>4 DEF CacheInv
  <2>1. PICK i \in 1 .. number : \E t \in blocks[i] : x = nonce[t]
    BY BetweenIs
  <2>2. CASE i <= start - 1
    <3>1. 1 <= i
      BY <1>1
    <3> QED
      BY <1>6, <2>1, <2>2, <3>1, BetweenIs
  <2>3. CASE ~ (i <= start - 1) /\ check'.cache = NoncesBetween(one, number)
    <3>1. one <= i /\ i <= number
      BY <1>1, <1>7, <2>3
    <3> HIDE DEF one
    <3> QED
      BY <2>1, <2>3, <3>1, BetweenIs
  <2>4. CASE /\ ~ (i <= start - 1) /\ i <= check.number
             /\ check'.cache = (check.cache \ NoncesBetween(check.start, start - 1))
                                  \cup NoncesBetween(new, number)
    <3>1. 1 <= i
      BY <1>1
    <3>2. x \in NoncesBetween(1, check.number)
      BY <2>1, <2>4, <3>1, BetweenIs
    <3> QED
      BY <1>8, <1>9, <2>4, <3>2 DEF CacheInv
  <2>5. CASE /\ ~ (i <= start - 1) /\ ~ (i <= check.number)
             /\ check'.cache = (check.cache \ NoncesBetween(check.start, start - 1))
                                  \cup NoncesBetween(new, number)
    <3>1. new <= i /\ i <= number
      BY <1>1, <1>7, <2>5
    <3> HIDE DEF new
    <3>2. x \in NoncesBetween(new, number)
      BY <2>1, <3>1, BetweenIs
    <3> QED
      BY <2>5, <3>2
  <2> QED
    BY <1>2, <2>2, <2>3, <2>4, <2>5
<1> QED
  BY <1>3, <1>5, <1>8, <1>10, <1>11

LEMMA UpdateCacheKeeps ==
    ASSUME PoolInv, NEW th \in {"engine", "sync"}, UpdateCache(th), TypeOK', ThreadInv'
    PROVE  PoolInv'
<1> USE DEF PoolInv
<1>1. /\ UNCHANGED <<blocks, pool, proposal, sent>> /\ check' = updateCache(check, FALSE)
      /\ thread[th].pc = "updateCache"
  BY DEF UpdateCache
<1>2. /\ thread'[th].pc = "dropTransactions" /\ thread'[th].block = thread[th].block
      /\ \A o \in {"engine", "sync"} : o # th => thread'[o] = thread[o]
  BY GotoType, PoolIsTyped DEF UpdateCache, Pcs
<1>3. /\ number' = number /\ Settled' = Settled
      /\ \A i, u : Fresh(i, u)' <=> Fresh(i, u)
      /\ \A a, b : NoncesBetween(a, b)' = NoncesBetween(a, b)
      /\ NoTransactionTwice'
  BY <1>1, SameChain
<1>4. /\ check'.number = number /\ WindowInv' /\ CacheInv'
      /\ Left \subseteq Left' /\ check.cache \subseteq check'.cache \cup Left'
  BY <1>1, WindowMoves
<1>5. /\ number \in Nat /\ check.number \in Nat /\ check.number <= number
  BY DEF TypeOK, number, WindowInv
<1>6. LimitInv' /\ ProposalInv'
  BY <1>1, <1>3 DEF LimitInv, ProposalInv
<1>7. BusyInv'
  <2>1. PICK i, j \in Nat :
          /\ At("engine", i) /\ At("sync", j)
          /\ thread["engine"].pc \in Storing /\ thread["sync"].pc \in Storing => i # j
    BY DEF BusyInv
  <2>2. ASSUME NEW o \in {"engine", "sync"}, NEW k \in Nat, At(o, k)
        PROVE  At(o, k)' /\ (thread'[o].pc \in Storing => thread[o].pc \in Storing)
    <3>1. thread'[o].block = thread[o].block /\ (thread'[o].pc \in Storing => thread[o].pc \in Storing)
      BY <1>1, <1>2 DEF Storing
    <3>2. thread'[o].pc \in Storing => k \in 1 .. number /\ thread'[o].block = blocks[k]
      BY <2>2, <3>1 DEF At
    <3>3. thread'[o].pc \in Storing => k <= check'.number
      BY <1>4, <1>5, <3>2
    <3> QED
      BY <1>1, <1>3, <3>1, <3>2, <3>3 DEF At
  <2> QED
    BY <2>1, <2>2 DEF BusyInv
<1>8. PendingInv'
  <2>1. ~ \E i \in check'.number + 1 .. number' : TRUE
    BY <1>3, <1>4, <1>5
  <2> QED
    BY <2>1 DEF PendingInv
<1>9. QueueInv'
  BY <1>1, <1>2, <1>3 DEF QueueInv
<1>10. NonceInv' /\ PooledNoncesDiffer'
  BY <1>1, <1>3, <1>4 DEF NonceInv, PooledNoncesDiffer, Left
<1>11. SentInv'
  <2>1. \A i \in 1 .. check.number : i \in 1 .. check'.number
    BY <1>4, <1>5
  <2> QED
    BY <1>1, <1>3, <2>1 DEF SentInv
<1> QED
  BY <1>3, <1>4, <1>6, <1>7, <1>8, <1>9, <1>10, <1>11

\* The three cleaning steps leave the chain and the window alone.
LEMMA CleansKeeps ==
    ASSUME PoolInv, NEW th \in {"engine", "sync"}, NEW p,
           \/ Cleans(th, "dropTransactions", "removeBlockKnowTrans", p)
           \/ Cleans(th, "removeBlockKnowTrans", "delCache", p)
           \/ Cleans(th, "delCache", "free", p)
    PROVE  /\ WindowInv' /\ CacheInv' /\ LimitInv' /\ ProposalInv' /\ NoTransactionTwice'
           /\ BusyInv' /\ PendingInv'
           /\ Left' = Left /\ Settled' = Settled /\ number' = number
           /\ UNCHANGED <<blocks, check, sent>> /\ pool' = p
           /\ \A i, u : Fresh(i, u)' <=> Fresh(i, u)
           /\ \A a, b : NoncesBetween(a, b)' = NoncesBetween(a, b)
           /\ \A o \in {"engine", "sync"} : o # th => thread'[o] = thread[o]
<1> USE DEF PoolInv
<1>1. UNCHANGED <<blocks, check, proposal, sent>> /\ pool' = p
  BY DEF Cleans
<1>2. /\ number' = number /\ Settled' = Settled
      /\ \A i, u : Fresh(i, u)' <=> Fresh(i, u)
      /\ \A a, b : NoncesBetween(a, b)' = NoncesBetween(a, b)
      /\ NoTransactionTwice'
  BY <1>1, SameChain
<1>3. WindowInv' /\ Left' = Left /\ CacheInv' /\ LimitInv' /\ ProposalInv'
  BY <1>1, <1>2 DEF WindowInv, CacheInv, Left, LimitInv, ProposalInv
<1>4. /\ \A o \in {"engine", "sync"} : o # th => thread'[o] = thread[o]
      /\ thread[th].pc \in Storing /\ thread[th].pc # "updateCache"
      /\ thread'[th].pc # "updateCache"
      /\ thread'[th].pc \in Storing => thread'[th].block = thread[th].block
  BY DEF Cleans, Storing
<1>5. BusyInv'
  <2>1. PICK i, j \in Nat :
          /\ At("engine", i) /\ At("sync", j)
          /\ thread["engine"].pc \in Storing /\ thread["sync"].pc \in Storing => i # j
    BY DEF BusyInv
  <2>2. ASSUME NEW o \in {"engine", "sync"}, NEW k \in Nat, At(o, k)
        PROVE  At(o, k)' /\ (thread'[o].pc \in Storing => thread[o].pc \in Storing)
    BY <1>1, <1>2, <1>4, <2>2 DEF At
  <2> QED
    BY <2>1, <2>2 DEF BusyInv
<1>6. PendingInv'
  <2> SUFFICES ASSUME NEW i \in check.number + 1 .. number
               PROVE  \E o \in {"engine", "sync"} :
                         thread'[o].pc = "updateCache" /\ thread'[o].block = blocks[i]
    BY <1>1, <1>2 DEF PendingInv
  <2> QED
    BY <1>4 DEF PendingInv
<1> QED
  BY <1>1, <1>2, <1>3, <1>4, <1>5, <1>6

LEMMA DropKeeps ==
    ASSUME PoolInv, NEW th \in {"engine", "sync"}, dropTransactions(th), TypeOK', ThreadInv'
    PROVE  PoolInv'
<1> USE DEF PoolInv
<1> DEFINE p == removeTrans(pool, thread[th].block)
<1>1. Cleans(th, "dropTransactions", "removeBlockKnowTrans", p)
  BY DropTransactionsStep
<1>2. /\ p.dropped = pool.dropped /\ p.known = pool.known /\ p.nonces = pool.nonces
      /\ Range(p.queue) = Range(pool.queue) \ thread[th].block
  BY RemoveTransFacts, PoolIsTyped
<1> HIDE DEF p
<1>3. /\ WindowInv' /\ CacheInv' /\ LimitInv' /\ ProposalInv' /\ NoTransactionTwice'
      /\ BusyInv' /\ PendingInv'
      /\ Left' = Left /\ Settled' = Settled /\ number' = number
      /\ UNCHANGED <<blocks, check, sent>> /\ pool' = p
      /\ \A i, u : Fresh(i, u)' <=> Fresh(i, u)
      /\ \A a, b : NoncesBetween(a, b)' = NoncesBetween(a, b)
      /\ \A o \in {"engine", "sync"} : o # th => thread'[o] = thread[o]
  BY <1>1, CleansKeeps
<1>4. QueueInv'
  <2> SUFFICES ASSUME NEW t \in Range(p.queue), t \in Settled
               PROVE  \E o \in {"engine", "sync"} :
                         /\ thread'[o].pc \in {"updateCache", "dropTransactions"}
                         /\ t \in thread'[o].block
    BY <1>3 DEF QueueInv
  <2>1. PICK o \in {"engine", "sync"} :
          thread[o].pc \in {"updateCache", "dropTransactions"} /\ t \in thread[o].block
    BY <1>2 DEF QueueInv
  <2> QED
    BY <1>2, <1>3, <2>1
<1>5. NonceInv' /\ PooledNoncesDiffer'
  BY <1>2, <1>3 DEF NonceInv, PooledNoncesDiffer
<1>6. SentInv'
  BY <1>2, <1>3 DEF SentInv
<1> QED
  BY <1>3, <1>4, <1>5, <1>6

\* A block with a fresh transaction is the only one a thread may still have to drop it for.
LEMMA FreshIsDropped ==
    ASSUME PoolInv, NEW th \in {"engine", "sync"}, thread[th].pc = "removeBlockKnowTrans",
           NEW t \in thread[th].block
    PROVE  \E i \in 1 .. check.number :
              t \in blocks[i] /\ (Fresh(i, t) => t \notin Range(pool.queue))
<1> USE DEF PoolInv
<1>1. PICK i, j \in Nat :
          /\ At("engine", i) /\ At("sync", j)
          /\ thread["engine"].pc \in Storing /\ thread["sync"].pc \in Storing => i # j
  BY DEF BusyInv
<1> DEFINE mine == IF th = "engine" THEN i ELSE j
           other == IF th = "engine" THEN j ELSE i
<1>2. /\ mine \in 1 .. check.number /\ mine \in 1 .. number /\ t \in blocks[mine]
  <2>1. At(th, mine)
    BY <1>1
  <2>2. number \in Nat /\ check.number \in Nat
    BY DEF TypeOK, number
  <2> HIDE DEF mine
  <2>3. mine \in 1 .. number /\ thread[th].block = blocks[mine] /\ mine <= check.number
    BY <2>1 DEF At, Storing
  <2> QED
    BY <2>2, <2>3
<1>3. ASSUME Fresh(mine, t), t \in Range(pool.queue)
      PROVE  FALSE
  <2>1. t \in Settled
    BY <1>2, <1>3, SettledIs
  <2>2. PICK o \in {"engine", "sync"} :
          thread[o].pc \in {"updateCache", "dropTransactions"} /\ t \in thread[o].block
    BY <1>3, <2>1 DEF QueueInv
  <2>3. o # th
    BY <2>2
  <2>4. /\ At(o, other) /\ mine # other
    BY <1>1, <2>2, <2>3 DEF Storing
  <2>5. other \in 1 .. number /\ t \in blocks[other]
    <3> HIDE DEF other
    <3> QED
      BY <2>2, <2>4 DEF At, Storing
  <2> HIDE DEF mine, other
  <2>6. number \in Nat /\ mine \in Nat /\ other \in Nat
    BY <1>2, <2>5 DEF TypeOK, number
  <2>7. CASE mine < other
    BY <1>2, <1>3, <2>5, <2>7 DEF NoTransactionTwice
  <2>8. CASE other < mine
    <3>1. other \in 1 .. mine - 1
      BY <1>2, <2>5, <2>6, <2>8
    <3> QED
      BY <1>3, <2>5, <3>1, FreshIs
  <2> QED
    BY <2>4, <2>6, <2>7, <2>8
<1> QED
  BY <1>2, <1>3

LEMMA RemoveKnowKeeps ==
    ASSUME PoolInv, NEW th \in {"engine", "sync"}, removeBlockKnowTrans(th), TypeOK', ThreadInv'
    PROVE  PoolInv'
<1> USE DEF PoolInv
<1> DEFINE p == removeKnown(pool, thread[th].block)
<1>1. Cleans(th, "removeBlockKnowTrans", "delCache", p)
  BY RemoveBlockKnowStep
<1>2. /\ p.queue = pool.queue /\ p.dropped = pool.dropped /\ p.nonces = pool.nonces
      /\ \A t \in Tx : p.known[t] = IF t \in thread[th].block THEN {} ELSE pool.known[t]
  BY RemoveKnownFacts, PoolIsTyped
<1> HIDE DEF p
<1>3. /\ WindowInv' /\ CacheInv' /\ LimitInv' /\ ProposalInv' /\ NoTransactionTwice'
      /\ BusyInv' /\ PendingInv'
      /\ Left' = Left /\ Settled' = Settled /\ number' = number
      /\ UNCHANGED <<blocks, check, sent>> /\ pool' = p
      /\ \A i, u : Fresh(i, u)' <=> Fresh(i, u)
      /\ \A a, b : NoncesBetween(a, b)' = NoncesBetween(a, b)
      /\ \A o \in {"engine", "sync"} : o # th => thread'[o] = thread[o]
  BY <1>1, CleansKeeps
<1>4. thread[th].pc = "removeBlockKnowTrans"
  BY <1>1 DEF Cleans
<1>5. QueueInv'
  BY <1>2, <1>3, <1>4 DEF QueueInv
<1>6. NonceInv' /\ PooledNoncesDiffer'
  BY <1>2, <1>3 DEF NonceInv, PooledNoncesDiffer
<1>7. SentInv'
  <2> SUFFICES ASSUME NEW t \in Tx, NEW q \in Sealers, <<t, q>> \in sent,
                      ~ ({q, Self} \subseteq p.known[t]), t \notin pool.dropped
               PROVE  \E i \in 1 .. check.number :
                         t \in blocks[i] /\ (Fresh(i, t) => t \notin Range(pool.queue))
    BY <1>2, <1>3 DEF SentInv
  <2>1. CASE t \in thread[th].block
    BY <1>4, <2>1, FreshIsDropped
  <2>2. CASE t \notin thread[th].block
    BY <1>2, <2>2 DEF SentInv
  <2> QED
    BY <2>1, <2>2
<1> QED
  BY <1>3, <1>5, <1>6, <1>7

LEMMA DelCacheKeeps ==
    ASSUME PoolInv, NEW th \in {"engine", "sync"}, delCache(th), TypeOK', ThreadInv'
    PROVE  PoolInv'
<1> USE DEF PoolInv
<1> DEFINE p == [pool EXCEPT !.nonces = pool.nonces \ noncesOf(thread[th].block)]
<1>1. Cleans(th, "delCache", "free", p)
  BY DelCacheStep
<1>2. /\ p.queue = pool.queue /\ p.dropped = pool.dropped /\ p.known = pool.known
      /\ p.nonces = pool.nonces \ noncesOf(thread[th].block)
  BY DelCacheFacts, PoolIsTyped
<1> HIDE DEF p
<1>3. /\ WindowInv' /\ CacheInv' /\ LimitInv' /\ ProposalInv' /\ NoTransactionTwice'
      /\ BusyInv' /\ PendingInv'
      /\ Left' = Left /\ Settled' = Settled /\ number' = number
      /\ UNCHANGED <<blocks, check, sent>> /\ pool' = p
      /\ \A i, u : Fresh(i, u)' <=> Fresh(i, u)
      /\ \A a, b : NoncesBetween(a, b)' = NoncesBetween(a, b)
      /\ \A o \in {"engine", "sync"} : o # th => thread'[o] = thread[o]
  BY <1>1, CleansKeeps
<1>4. thread[th].pc = "delCache"
  BY <1>1 DEF Cleans
<1>5. QueueInv'
  BY <1>2, <1>3, <1>4 DEF QueueInv
<1>6. noncesOf(thread[th].block) \subseteq check.cache \cup Left
  <2>1. PICK i \in Nat : At(th, i)
    BY DEF BusyInv
  <2>2. i \in 1 .. number /\ thread[th].block = blocks[i] /\ i <= check.number
    BY <1>4, <2>1 DEF At, Storing
  <2>3. 1 <= i
    BY <2>2 DEF TypeOK, number
  <2>4. noncesOf(blocks[i]) \subseteq NoncesBetween(1, check.number)
    BY <2>2, <2>3 DEF NoncesBetween
  <2> QED
    BY <2>2, <2>4 DEF CacheInv
<1>7. NonceInv' /\ PooledNoncesDiffer'
  BY <1>2, <1>3, <1>6 DEF NonceInv, PooledNoncesDiffer
<1>8. SentInv'
  BY <1>2, <1>3 DEF SentInv
<1> QED
  BY <1>3, <1>5, <1>7, <1>8

LEMMA RestartKeeps ==
    ASSUME PoolInv, Restart, TypeOK', ThreadInv'
    PROVE  PoolInv'
<1> USE DEF PoolInv
<1>1. /\ \A th \in {"engine", "sync"} : thread'[th].pc = "free"
      /\ Range(pool'.queue) = {} /\ pool'.dropped = {}
  BY RestartStep
<1>2. blocks' = blocks /\ check' = updateCache(check, TRUE) /\ proposal' = NoBlock /\ sent' = {}
  BY DEF Restart
<1>3. /\ number' = number /\ Settled' = Settled /\ NoTransactionTwice'
  BY <1>2, SameChain
<1>4. check'.number = number /\ WindowInv' /\ CacheInv'
  BY <1>2, WindowMoves
<1>5. number \in Nat
  BY DEF TypeOK, number
<1>6. LimitInv' /\ ProposalInv'
  <2>1. proposal'.txs = {} /\ proposal'.height = 0
    BY <1>2 DEF NoBlock
  <2> QED
    BY <1>2, <1>3, <1>5, <2>1 DEF LimitInv, ProposalInv
<1>7. BusyInv'
  <2>1. At("engine", 0)' /\ At("sync", 0)'
    BY <1>1 DEF At, Storing
  <2> QED
    BY <1>1, <2>1 DEF BusyInv, Storing
<1>8. PendingInv'
  <2>1. ~ \E i \in check'.number + 1 .. number' : TRUE
    BY <1>3, <1>4, <1>5
  <2> QED
    BY <2>1 DEF PendingInv
<1>9. QueueInv' /\ NonceInv' /\ PooledNoncesDiffer'
  BY <1>1 DEF QueueInv, NonceInv, PooledNoncesDiffer
<1>10. SentInv'
  BY <1>2 DEF SentInv
<1> QED
  BY <1>3, <1>4, <1>6, <1>7, <1>8, <1>9, <1>10

LEMMA PoolInvInit == Init => PoolInv
<1> SUFFICES ASSUME Init
             PROVE  PoolInv
  OBVIOUS
<1>1. TypeOK /\ ThreadInv
  BY TypeInit
<1>2. /\ blocks = <<>> /\ proposal = NoBlock /\ sent = {}
      /\ check = [number |-> 0, start |-> 0, end |-> 0, cache |-> {}]
  BY DEF Init
<1>3. Range(pool.queue) = {} /\ pool.dropped = {}
  BY EmptyPool DEF Init
<1>4. \A th \in {"engine", "sync"} : thread[th].pc = "free"
  BY DEF Init, Idle
<1>5. number = 0 /\ check.number = 0 /\ check.start = 0 /\ check.end = 0
  BY <1>2 DEF number
<1>6. WindowInv
  BY <1>5, LimitType DEF WindowInv
<1>7. CacheInv /\ NoTransactionTwice /\ PendingInv
  BY <1>5 DEF CacheInv, NoncesBetween, NoTransactionTwice, PendingInv
<1>8. LimitInv /\ ProposalInv
  <2>1. proposal.txs = {} /\ proposal.height = 0
    BY <1>2 DEF NoBlock
  <2> QED
    BY <1>5, <2>1 DEF LimitInv, ProposalInv
<1>9. BusyInv
  <2>1. At("engine", 0) /\ At("sync", 0)
    BY <1>4 DEF At, Storing
  <2> QED
    BY <1>4, <2>1 DEF BusyInv, Storing
<1>10. QueueInv /\ NonceInv /\ PooledNoncesDiffer /\ SentInv
  BY <1>2, <1>3 DEF QueueInv, NonceInv, PooledNoncesDiffer, SentInv
<1> QED
  BY <1>1, <1>6, <1>7, <1>8, <1>9, <1>10 DEF PoolInv

LEMMA PoolInvNext == PoolInv /\ [Next]_vars => PoolInv'
<1> SUFFICES ASSUME PoolInv, [Next]_vars
             PROVE  PoolInv'
  OBVIOUS
<1>0. TypeOK /\ ThreadInv
  BY DEF PoolInv
<1>1. ASSUME NEW t \in Tx, Submit(t)
      PROVE  PoolInv'
  BY <1>0, <1>1, SubmitStep, ImportKeeps
<1>2. ASSUME NEW p \in Peers, NEW txs \in Packets, onPeerTransactions(p, txs)
      PROVE  PoolInv'
  BY <1>0, <1>2, OnPeerTransactionsStep, MarksKeeps
<1>3. ASSUME Pop2TxPool
      PROVE  PoolInv'
  BY <1>0, <1>3, Pop2TxPoolStep, MarksKeeps
<1>4. ASSUME ImportNext
      PROVE  PoolInv'
  BY <1>0, <1>4, ImportNextStep, ImportKeeps
<1>5. ASSUME setTransactionsAreKnownBy
      PROVE  PoolInv'
  BY <1>0, <1>5, SetKnownStep, MarksKeeps
<1>6. ASSUME FetchUnsent
      PROVE  PoolInv'
  BY <1>0, <1>6, FetchUnsentStep, MarksKeeps
<1>7. ASSUME maintainTransactions
      PROVE  PoolInv'
  BY <1>0, <1>7, MaintainStep, MarksKeeps
<1>8. ASSUME Seal
      PROVE  PoolInv'
  BY <1>0, <1>8, SealStep, SealKeeps
<1>9. ASSUME NEW th \in {"engine", "sync"}, NEW b \in SUBSET Tx, commitBlock(th, b)
      PROVE  PoolInv'
  BY <1>0, <1>9, CommitStep, CommitKeeps
<1>10. ASSUME NEW th \in {"engine", "sync"}, UpdateCache(th)
       PROVE  PoolInv'
  BY <1>0, <1>10, UpdateCacheStep, UpdateCacheKeeps
<1>11. ASSUME NEW th \in {"engine", "sync"}, dropTransactions(th)
       PROVE  PoolInv'
  BY <1>0, <1>11, DropTransactionsStep, DropKeeps
<1>12. ASSUME NEW th \in {"engine", "sync"}, removeBlockKnowTrans(th)
       PROVE  PoolInv'
  BY <1>0, <1>12, RemoveBlockKnowStep, RemoveKnowKeeps
<1>13. ASSUME NEW th \in {"engine", "sync"}, delCache(th)
       PROVE  PoolInv'
  BY <1>0, <1>13, DelCacheStep, DelCacheKeeps
<1>14. ASSUME Download
       PROVE  PoolInv'
  BY <1>0, <1>14, DownloadStep, MarksKeeps
<1>15. ASSUME Restart
       PROVE  PoolInv'
  BY <1>0, <1>15, RestartStep, RestartKeeps
<1>16. ASSUME UNCHANGED vars
       PROVE  PoolInv'
  <2>1. TypeOK' /\ ThreadInv'
    BY <1>0, <1>16 DEF vars, TypeOK, ThreadInv, number
  <2>2. Marks
    BY <1>16 DEF vars, Marks, Undisturbed
  <2> QED
    BY <2>1, <2>2, MarksKeeps
<1> QED
  BY <1>1, <1>2, <1>3, <1>4, <1>5, <1>6, <1>7, <1>8, <1>9, <1>10, <1>11, <1>12, <1>13, <1>14,
     <1>15, <1>16 DEF Next

LEMMA PoolInvHolds == Spec => []PoolInv
<1>1. Init => PoolInv
  BY PoolInvInit
<1>2. PoolInv /\ [Next]_vars => PoolInv'
  BY PoolInvNext
<1> QED
  BY <1>1, <1>2, PTL DEF Spec

-----------------------------------------------------------------------------
(* The theorems.                                                           *)

\* The pool, the nonce check and the threads of the node keep their types; the queue of
\* the pool holds no transaction twice (TxPool::import refuses a hash it knows) and the
\* window of the nonce check never runs ahead of the chain.
THEOREM PoolTypes == Spec => []TypeOK
<1>1. PoolInv => TypeOK
  BY DEF PoolInv
<1> QED
  BY <1>1, PoolInvHolds, PTL

\* For every block limit, window and number of blocks: a transaction that was stored
\* while its nonce was new is never stored again, whether by this node's sealer or by a
\* block of another node (TransactionNonceCheck::updateCache, TxPool::dropBlockTrans).
THEOREM StoredOnce == Spec => []NoTransactionTwice
<1>1. PoolInv => NoTransactionTwice
  BY DEF PoolInv
<1> QED
  BY <1>1, PoolInvHolds, PTL

\* Two waiting transactions share a nonce only if a block that has left the window held
\* it (TxPool::verify with both nonce checks, CommonTransactionNonceCheck::delCache).
THEOREM PoolKeepsNoncesApart == Spec => []PooledNoncesDiffer
<1>1. PoolInv => PooledNoncesDiffer
  BY DEF PoolInv
<1> QED
  BY <1>1, PoolInvHolds, PTL

\* What was sent to a peer and still waits is marked as known by that peer and by this
\* node, through every commit that clears marks (SyncMaster::maintainTransactions,
\* TxPool::removeBlockKnowTrans).
THEOREM SentIsMarked == Spec => []SentStaysMarked
<1>1. PoolInv => SentStaysMarked
  <2> SUFFICES ASSUME PoolInv, NEW t \in Range(pool.queue), NEW p \in Sealers, <<t, p>> \in sent,
                      ~ ({p, Self} \subseteq pool.known[t])
               PROVE  \E i \in 1 .. number : t \in blocks[i] /\ ~ Fresh(i, t)
    BY DEF SentStaysMarked
  <2>1. TypeOK /\ SentInv /\ NonceInv /\ WindowInv
    BY DEF PoolInv
  <2>2. t \in Tx
    BY <2>1, QueueRange
  <2>3. t \notin pool.dropped
    BY <2>1 DEF NonceInv
  <2>4. PICK i \in 1 .. check.number :
          t \in blocks[i] /\ (Fresh(i, t) => t \notin Range(pool.queue))
    BY <2>1, <2>2, <2>3 DEF SentInv
  <2>5. i \in 1 .. number
    BY <2>1, <2>4 DEF TypeOK, WindowInv, number
  <2> QED
    BY <2>4, <2>5
<1> QED
  BY <1>1, PoolInvHolds, PTL
=============================================================================
